----------------------------- MODULE LinkRequest -----------------------------
(***************************************************************************)
(* REQUEST / RESPONSE over one Link (packages/core/src/transport/link.js):  *)
(* request() on the initiator with its pending entry, timeout and response  *)
(* promise, the responder's dispatch, single-packet and Resource responses, *)
(* and what a closing link does to all of them.                             *)
(*                                                                          *)
(* A request is a caller of request(); Id gives the request_id under which  *)
(* its entry is stored.  An oversized request is identified by the hash of  *)
(* a body that holds the time in milliseconds, so two requests may share    *)
(* one.  The response transfer is reduced to its end (module Resource).     *)
(***************************************************************************)
EXTENDS Integers, FiniteSets

CONSTANTS
    Requests,   \* calls of request()
    Id,         \* [Requests -> request ids]
    TransmitFailing, \* whether transport.sendPacket may throw
    LinkCloses  \* whether the link may close

ASSUME RequestAssumption ==
    /\ DOMAIN Id = Requests
    /\ TransmitFailing \in BOOLEAN /\ LinkCloses \in BOOLEAN

Ids == {Id[r] : r \in Requests}
NoEntry == "no entry"
ASSUME NoEntryAssumption == NoEntry \notin Requests

VARIABLES
    active,    \* status is ACTIVE
    phase,     \* where each request() call is
    pendingRequests, \* [Ids -> the entry's request, or NoEntry]
    timer,     \* the entry's timeout is armed
    promise,   \* the response promise
    handedOut, \* request() has returned the promise to its caller
    settled,   \* the entry's settledSignal has fired
    quiet,     \* settledQuietly
    threw,     \* request() has rejected
    wire,      \* packets in transit
    transfer   \* [Ids -> incoming response Resource]

vars == <<active, phase, pendingRequests, timer, promise, handedOut, settled,
          quiet, threw, wire, transfer>>

Phases == {"idle", "preparing", "transmitting", "done"}
Promises == {"none", "pending", "response", "undefined", "rejected"}
Transfers == {"none", "whole", "split"}
Packet(t, i) == [type |-> t, id |-> i]

Init ==
    /\ active = TRUE
    /\ phase = [r \in Requests |-> "idle"]
    /\ pendingRequests = [i \in Ids |-> NoEntry]
    /\ timer = [r \in Requests |-> FALSE]
    /\ promise = [r \in Requests |-> "none"]
    /\ handedOut = [r \in Requests |-> FALSE]
    /\ settled = [r \in Requests |-> FALSE]
    /\ quiet = [r \in Requests |-> FALSE]
    /\ threw = [r \in Requests |-> FALSE]
    /\ wire = {}
    /\ transfer = [i \in Ids |-> "none"]

-----------------------------------------------------------------------------
(* Settling.  es is a set of requests whose entries are removed, fired one  *)
(* of requests whose timer has just fired.                                  *)

Entries == {pendingRequests[i] : i \in Ids} \ {NoEntry}

\* What every way to settle does: timer cleared, entry deleted, signal fired.
Remove(es, fired) ==
    /\ timer' = [r \in Requests |-> timer[r] /\ r \notin es \cup fired]
    /\ pendingRequests' =
         [i \in Ids |-> IF pendingRequests[i] \in es THEN NoEntry
                        ELSE pendingRequests[i]]
    /\ settled' = [r \in Requests |-> settled[r] \/ r \in es]

\* Mutant: the entry is rejected although nobody holds its promise.
FailPendingRequestsUnheld(es, fired) ==
    /\ Remove(es, fired)
    /\ promise' = [r \in Requests |-> IF r \in es THEN "rejected" ELSE promise[r]]
    /\ UNCHANGED quiet

\* _failPendingRequest on the entries es: a promise nobody holds yet is settled
\* quietly, the recorded error is request()'s to throw.
FailPendingRequests(es, fired) ==
    /\ Remove(es, fired)
    /\ promise' = [r \in Requests |->
                     IF r \notin es THEN promise[r]
                     ELSE IF handedOut[r] THEN "rejected" ELSE "undefined"]
    /\ quiet' = [r \in Requests |-> quiet[r] \/ (r \in es /\ ~handedOut[r])]

EntryOf(i) == {pendingRequests[i]} \ {NoEntry}

\* A failed request cancels the response transfer it waits for.
CancelTransfers(is) ==
    transfer' = [i \in Ids |-> IF i \in is THEN "none" ELSE transfer[i]]

\* _resolveResponse, and the metadata form of _handleResourceResponse.
ResolveResponse(i) ==
    /\ Remove(EntryOf(i), {})
    /\ promise' = [r \in Requests |-> IF r \in EntryOf(i) THEN "response"
                                      ELSE promise[r]]
    /\ UNCHANGED quiet

-----------------------------------------------------------------------------
(* request().                                                               *)

Request(r) ==
    /\ phase[r] = "idle" /\ active
    /\ phase' = [phase EXCEPT ![r] = "preparing"]
    /\ UNCHANGED <<active, pendingRequests, timer, promise, handedOut, settled,
                   quiet, threw, wire, transfer>>

\* Hashed and encrypted: the entry is registered, over any entry of this id,
\* and the transmission begins.
Register(r) ==
    /\ phase[r] = "preparing"
    /\ phase' = [phase EXCEPT ![r] = "transmitting"]
    /\ pendingRequests' = [pendingRequests EXCEPT ![Id[r]] = r]
    /\ timer' = [timer EXCEPT ![r] = TRUE]
    /\ promise' = [promise EXCEPT ![r] = "pending"]
    /\ wire' = wire \cup {Packet("REQUEST", Id[r])}
    /\ UNCHANGED <<active, handedOut, settled, quiet, threw, transfer>>

\* After the race of transmission and settlement.
Resume(r) ==
    /\ phase' = [phase EXCEPT ![r] = "done"]
    /\ IF quiet[r] THEN threw' = [threw EXCEPT ![r] = TRUE] /\ UNCHANGED handedOut
       ELSE handedOut' = [handedOut EXCEPT ![r] = TRUE] /\ UNCHANGED threw

Transmitted(r) ==
    /\ phase[r] = "transmitting"
    /\ Resume(r)
    /\ UNCHANGED <<active, pendingRequests, timer, promise, settled, quiet, wire,
                   transfer>>

\* Mutant: request() waits for the transmission alone.
SettledFirstNot(r) == FALSE /\ UNCHANGED vars

SettledFirst(r) ==
    /\ phase[r] = "transmitting" /\ settled[r]
    /\ Resume(r)
    /\ UNCHANGED <<active, pendingRequests, timer, promise, settled, quiet, wire,
                   transfer>>

\* _discardPendingRequest: looks the entry up by id.
Discard(i) ==
    /\ Remove(EntryOf(i), {})
    /\ promise' = [r \in Requests |-> IF r \in EntryOf(i) THEN "undefined"
                                      ELSE promise[r]]

TransmitFails(r) ==
    /\ TransmitFailing
    /\ phase[r] = "transmitting" /\ ~settled[r]
    /\ phase' = [phase EXCEPT ![r] = "done"]
    /\ threw' = [threw EXCEPT ![r] = TRUE]
    /\ Discard(Id[r])
    /\ UNCHANGED <<active, handedOut, quiet, wire, transfer>>

\* The entry's timeout, which also looks the entry up by id.
Timeout(r) ==
    /\ timer[r]
    /\ LET es == EntryOf(Id[r])
       IN /\ FailPendingRequests(es, {r})
          /\ CancelTransfers(IF es = {} THEN {} ELSE {Id[r]})
    /\ UNCHANGED <<active, phase, handedOut, threw, wire>>

-----------------------------------------------------------------------------
(* The responder, and the response on its way back.                         *)

\* _handleRequest and _dispatchRequest: no answer (no handler, not allowed, it
\* threw, it returned nothing), a RESPONSE packet or a Resource.
Dispatch(i) ==
    /\ Packet("REQUEST", i) \in wire
    /\ \E answer \in {{}, {Packet("RESPONSE", i)}, {Packet("ADV", i)}} :
           wire' = (wire \ {Packet("REQUEST", i)}) \cup answer
    /\ UNCHANGED <<active, phase, pendingRequests, timer, promise, handedOut,
                   settled, quiet, threw, transfer>>

\* _handleResponse: an answer for an unknown id is dropped.
HandleResponse(i) ==
    /\ active /\ Packet("RESPONSE", i) \in wire
    /\ wire' = wire \ {Packet("RESPONSE", i)}
    /\ ResolveResponse(i)
    /\ UNCHANGED <<active, phase, handedOut, threw, transfer>>

AcceptResponse(i, kind) ==
    /\ active /\ Packet("ADV", i) \in wire /\ kind # "none"
    /\ wire' = wire \ {Packet("ADV", i)}
    /\ transfer' = [transfer EXCEPT ![i] = kind]
    /\ UNCHANGED <<active, phase, pendingRequests, timer, promise, handedOut,
                   settled, quiet, threw>>

HandleResourceResponse(i) ==
    /\ transfer[i] # "none"
    /\ transfer' = [transfer EXCEPT ![i] = "none"]
    /\ ResolveResponse(i)
    /\ UNCHANGED <<active, phase, handedOut, threw, wire>>

\* Only the failure of a split response is passed on to the request.
ResponseTransferFails(i) ==
    /\ transfer[i] # "none"
    /\ transfer' = [transfer EXCEPT ![i] = "none"]
    /\ FailPendingRequests(IF transfer[i] = "split" THEN EntryOf(i) ELSE {}, {})
    /\ UNCHANGED <<active, phase, handedOut, threw, wire>>

\* The status setter: every pending request and every transfer fails.
Close ==
    /\ LinkCloses /\ active
    /\ active' = FALSE
    /\ FailPendingRequests(Entries, {})
    /\ CancelTransfers(Ids)
    /\ UNCHANGED <<phase, handedOut, threw, wire>>

Lose(p) == /\ p \in wire /\ wire' = wire \ {p}  \* external: the network
           /\ UNCHANGED <<active, phase, pendingRequests, timer, promise,
                          handedOut, settled, quiet, threw, transfer>>

Next == \/ \E r \in Requests : Request(r) \/ Register(r) \/ Transmitted(r)
                               \/ SettledFirst(r) \/ TransmitFails(r) \/ Timeout(r)
        \/ \E i \in Ids : \/ Dispatch(i) \/ HandleResponse(i)
                          \/ HandleResourceResponse(i) \/ ResponseTransferFails(i)
                          \/ \E kind \in Transfers : AcceptResponse(i, kind)
        \/ Close
        \/ \E p \in wire : Lose(p)

Spec == Init /\ [][Next]_vars

\* Promises and timers proceed; the transmission may hang for ever.
FairSpec ==
    /\ Spec
    /\ \A r \in Requests : WF_vars(Register(r)) /\ WF_vars(SettledFirst(r))
                           /\ WF_vars(Timeout(r))

-----------------------------------------------------------------------------
(* Properties.                                                              *)

\* Type invariant of the calls, the entries and the wire.
TypeOK ==
    /\ active \in BOOLEAN /\ phase \in [Requests -> Phases]
    /\ pendingRequests \in [Ids -> Requests \cup {NoEntry}]
    /\ timer \in [Requests -> BOOLEAN] /\ promise \in [Requests -> Promises]
    /\ handedOut \in [Requests -> BOOLEAN] /\ settled \in [Requests -> BOOLEAN]
    /\ quiet \in [Requests -> BOOLEAN] /\ threw \in [Requests -> BOOLEAN]
    /\ wire \subseteq [type : {"REQUEST", "RESPONSE", "ADV"}, id : Ids]
    /\ transfer \in [Ids -> Transfers]

\* No promise is rejected before request() has returned it: such a rejection is
\* unhandled and ends the process, whenever timeout, failure and closure strike.
NoUnheldRejection == \A r \in Requests : promise[r] = "rejected" => handedOut[r]

\* A caller never gets the undefined of a quietly settled entry as an answer.
NoBogusValue == \A r \in Requests : handedOut[r] => promise[r] # "undefined"

\* A request's timer is armed exactly while its entry waits: none fires for a
\* request that is over, none is missing for one that waits.
TimersMatchEntries ==
    \A r \in Requests : timer[r] <=> pendingRequests[Id[r]] = r

\* Promises, timers and entries of all requests agree: nothing is rejected unheld, answered with
\* a placeholder, or timed for an entry that is gone.
PromisesSafe == NoUnheldRejection /\ NoBogusValue /\ TimersMatchEntries

\* The caller has its answer or its error.
Answered(r) == threw[r] \/ (handedOut[r] /\ promise[r] \in {"response", "rejected"})

\* Every call of request() is answered, also when its transmission hangs.
RequestSettles == \A r \in Requests : (phase[r] = "preparing") ~> Answered(r)

\* "fail any in-flight REQUESTs so their Promises don't dangle" (link.js, status
\* setter): a closed link has no pending request.
ClosedHasNoPending == ~active => Entries = {}

\* Values of Id: requests with ids of their own, or all with the same one.
OwnIds == [r \in Requests |-> r]
OneId == [r \in Requests |-> "id"]
=============================================================================
