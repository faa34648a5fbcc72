------------------------------ MODULE Resource ------------------------------
(***************************************************************************)
(* One Resource transfer over a Link, sender and receiver                   *)
(* (packages/core/src/core/resource.js and the resource dispatch of         *)
(* transport/link.js): advertisement, windowed part requests, hashmap       *)
(* continuation, assembly, proof, segments, cancellation, watchdog retries  *)
(* and link closure.                                                        *)
(*                                                                          *)
(* A segment is its index; a part is its index in the segment; an assembled *)
(* segment is right when every slot holds its own part.  The hash check     *)
(* finds every wrong assembly.  The size of the request window is any       *)
(* number up to Window (module ResourceWindow has its adaptation).          *)
(* Timeouts may fire whenever the watchdog looks at the transfer.           *)
(***************************************************************************)
EXTENDS Integers, Sequences, FiniteSets, SequencesExt

CONSTANTS
    Segments,      \* totalSegments
    Parts,         \* totalParts of every segment
    HashmapMaxLen, \* map hashes per advertisement or continuation
    Window,        \* the largest request window
    MAX_RETRIES,
    LinkCloses,    \* whether either end's link may close
    SendFails,     \* whether link.send may throw
    MayReject,     \* whether the receiver may reject the advertisement
    MaxCancels     \* bound: cancel() calls by each application

ASSUME SizesAssumption ==
    /\ Segments \in Nat \ {0} /\ Parts \in Nat \ {0}
    /\ HashmapMaxLen \in Nat \ {0} /\ Window \in Nat \ {0}
    /\ MAX_RETRIES \in Nat /\ MaxCancels \in Nat
    /\ LinkCloses \in BOOLEAN /\ SendFails \in BOOLEAN /\ MayReject \in BOOLEAN

Segs == 1..Segments
Slots == 1..Parts
Whole == [s \in Segs |-> s]

VARIABLES
    sStatus,    \* sender: status
    segment,    \* sender: segmentIndex
    registered, \* sender: in the link's outgoingResources, under this segment
    gotPartRequests,
    sRetries,   \* sender: retriesLeft
    tasks,      \* sender: suspended calls that will resume
    cancelling, \* sender: cancel() calls awaiting RESOURCE_ICL
    sCancels,   \* bound: cancel() calls of the sending application
    sEvents,    \* history: "complete" and "failed" events, advertise() rejected
    sOpen,      \* sender's link is not CLOSED
    incoming,   \* receiver: incomingResources, by segment
    asm,        \* receiver: the assemble() under way
    assemblers, \* receiver: the segments of every SplitResourceAssembler
    current,    \* receiver: the assembler in splitResources, 0 for none
    failedSplit,\* receiver: failedSplitResources has this transfer
    rQueued,    \* receiver: segment whose ADV waited in _rxQueue at the close
    rCancels,   \* bound: cancel() calls of the receiving application
    rOpen,      \* receiver's link is not CLOSED
    received,   \* history: segments that passed the integrity check
    routed,     \* history: the transfers handed to the application
    abandoned,  \* history: a transfer was replaced in the map before it settled
    net         \* packets in transit

sVars == <<sStatus, segment, registered, gotPartRequests, sRetries, tasks,
           cancelling, sCancels, sEvents, sOpen>>
split == <<assemblers, current, failedSplit>>
rVars == <<incoming, asm, split, rQueued, rCancels, rOpen, received, routed,
           abandoned>>
vars == <<sVars, rVars, net>>

SenderStatuses == {"NONE", "QUEUED", "ADVERTISED", "COMPLETE", "FAILED", "REJECTED"}
Terminal == {"COMPLETE", "FAILED", "REJECTED", "CORRUPT"}
Tasks == {"advertise", "retry", "preparing", "next"}

None == [status |-> "NONE"]
Transfers == [status : {"TRANSFERRING", "ASSEMBLING"}, hashmap : Seq(Slots),
              parts : [Slots -> 0..Parts], outstanding : Nat,
              retries : 0..MAX_RETRIES, tracked : Nat]
NoAssembly == [seg |-> 0, stage |-> "idle", right |-> FALSE, tracked |-> 0]

ADV(s) == [type |-> "ADV", seg |-> s]
PART(s, i) == [type |-> "PART", seg |-> s, part |-> i]
HMU(s, i) == [type |-> "HMU", seg |-> s, after |-> i]
PRF(s) == [type |-> "PRF", seg |-> s]
ICL(s) == [type |-> "ICL", seg |-> s]
RCL(s) == [type |-> "RCL", seg |-> s]

Init ==
    /\ sStatus = "NONE" /\ segment = 1 /\ registered = FALSE
    /\ gotPartRequests = FALSE /\ sRetries = MAX_RETRIES /\ tasks = {}
    /\ cancelling = 0 /\ sCancels = 0 /\ sOpen = TRUE
    /\ sEvents = [complete |-> 0, failed |-> 0, threw |-> 0]
    /\ incoming = [s \in Segs |-> None] /\ asm = NoAssembly
    /\ assemblers = << >> /\ current = 0 /\ failedSplit = FALSE /\ rQueued = 0
    /\ rCancels = 0 /\ rOpen = TRUE
    /\ received = {} /\ routed = << >> /\ abandoned = FALSE
    /\ net = {}

-----------------------------------------------------------------------------
(* Sender: failing and cancelling.                                          *)

Bump(n) == IF n < 2 THEN n + 1 ELSE n  \* events are counted up to two

\* _setFailed with the given final status: unregister, drop the buffers, tell
\* the waiters.
SenderFails(st) ==
    /\ sStatus' = st
    /\ registered' = FALSE
    /\ sEvents' = [sEvents EXCEPT !.failed = Bump(@)]

\* The segment whose hash the resource carries.
Hashed == IF "preparing" \in tasks THEN segment - 1 ELSE segment

\* Mutant: cancel() does nothing for an advertised transfer.
BeginCancelUnadvertised(packets) ==
    IF sStatus \in Terminal \cup {"ADVERTISED"}
    THEN net' = packets /\ UNCHANGED cancelling
    ELSE net' = packets \cup {ICL(Hashed)} /\ cancelling' = Bump(cancelling)

\* cancel(): nothing for a terminal transfer, else RESOURCE_ICL is sent and
\* the rest follows when that send is done.
BeginCancel(packets) ==
    IF sStatus \in Terminal
    THEN net' = packets /\ UNCHANGED cancelling
    ELSE net' = packets \cup {ICL(Hashed)} /\ cancelling' = Bump(cancelling)

CancelResumes ==
    /\ cancelling > 0
    /\ cancelling' = cancelling - 1
    /\ SenderFails("FAILED")
    /\ UNCHANGED <<segment, gotPartRequests, sRetries, tasks, sCancels, sOpen,
                   rVars, net>>

SenderCancels ==
    /\ sStatus \in {"QUEUED", "ADVERTISED"}
    /\ sCancels < MaxCancels
    /\ sCancels' = sCancels + 1
    /\ BeginCancel(net)
    /\ UNCHANGED <<sStatus, segment, registered, gotPartRequests, sRetries,
                   tasks, sEvents, sOpen, rVars>>

-----------------------------------------------------------------------------
(* Sender: advertising.                                                     *)

\* advertise() after _prepareSender: QUEUED, registered, RESOURCE_ADV sent.
Advertise ==
    /\ sStatus = "NONE"
    /\ sStatus' = "QUEUED"
    /\ registered' = TRUE
    /\ tasks' = tasks \cup {"advertise"}
    /\ net' = net \cup {ADV(segment)}
    /\ UNCHANGED <<segment, gotPartRequests, sRetries, cancelling, sCancels,
                   sEvents, sOpen, rVars>>

\* A (re)sent advertisement waits for its first part request.
ClearPartRequests == gotPartRequests' = FALSE

\* _advertiseSegment's send is done; its callers set the status to ADVERTISED,
\* whatever it has become meanwhile, the watchdog's retry leaves it.
AdvertiseSent(t) ==
    /\ t \in tasks \ {"preparing"}
    /\ tasks' = tasks \ {t}
    /\ ClearPartRequests
    /\ sStatus' = IF t = "retry" THEN sStatus ELSE "ADVERTISED"
    /\ UNCHANGED <<segment, registered, sRetries, cancelling, sCancels, sEvents,
                   sOpen, rVars, net>>

\* The send throws: advertise() rejects, the watchdog's retry cancels, and the
\* link logs what validateProof threw.
AdvertiseFails(t) ==
    /\ SendFails
    /\ t \in tasks \ {"preparing"}
    /\ tasks' = tasks \ {t}
    /\ IF t = "retry" THEN BeginCancel(net) ELSE UNCHANGED <<net, cancelling>>
    /\ sEvents' = IF t = "advertise" THEN [sEvents EXCEPT !.threw = 1] ELSE sEvents
    /\ UNCHANGED <<sStatus, segment, registered, gotPartRequests, sRetries,
                   sCancels, sOpen, rVars>>

\* _prepareSegment is done: a fresh retry budget and the next advertisement.
SegmentPrepared ==
    /\ "preparing" \in tasks
    /\ tasks' = (tasks \ {"preparing"}) \cup {"next"}
    /\ sRetries' = MAX_RETRIES
    /\ sStatus' = "QUEUED"
    /\ registered' = TRUE
    /\ net' = net \cup {ADV(segment)}
    /\ UNCHANGED <<segment, gotPartRequests, cancelling, sCancels, sEvents,
                   sOpen, rVars>>

-----------------------------------------------------------------------------
(* Sender: packets from the receiver, one at a time.                        *)

\* The link's receive queue waits while a proof handler prepares a segment.
SenderRx(m) ==
    /\ m \in net /\ sOpen
    /\ tasks \cap {"preparing", "next"} = {}

\* A packet of another segment finds no registered resource and is dropped.
Addressed(m) == registered /\ m.seg = segment

SenderDrops(m) ==
    /\ SenderRx(m) /\ m.type \in {"REQ", "PRF", "RCL"} /\ ~Addressed(m)
    /\ net' = net \ {m}
    /\ UNCHANGED <<sVars, rVars>>

\* handleRequest: every requested part, then the hashmap continuation; a
\* continuation that does not start at a boundary cancels.
HandleRequest(m) ==
    /\ SenderRx(m) /\ m.type = "REQ" /\ Addressed(m)
    /\ gotPartRequests' = TRUE
    /\ LET sent == (net \ {m}) \cup {PART(segment, i) : i \in m.parts}
       IN IF ~m.exhausted THEN net' = sent /\ UNCHANGED cancelling
          ELSE IF m.last % HashmapMaxLen = 0
          THEN net' = sent \cup {HMU(segment, m.last)} /\ UNCHANGED cancelling
          ELSE BeginCancel(sent)
    /\ UNCHANGED <<sStatus, segment, registered, sRetries, tasks, sCancels,
                   sEvents, sOpen, rVars>>

\* Mutant: any proof of the transfer is taken for the last one's.
ValidateProofAnySegment(m) ==
    /\ SenderRx(m) /\ m.type = "PRF" /\ Addressed(m)
    /\ net' = net \ {m}
    /\ sStatus' = "COMPLETE"
    /\ sEvents' = [sEvents EXCEPT !.complete = 1]
    /\ UNCHANGED <<segment, registered, tasks, gotPartRequests, sRetries,
                   cancelling, sCancels, sOpen, rVars>>

\* validateProof: on to the next segment, or COMPLETE.
ValidateProof(m) ==
    /\ SenderRx(m) /\ m.type = "PRF" /\ Addressed(m)
    /\ net' = net \ {m}
    /\ \/ /\ sStatus \in {"FAILED", "REJECTED"}
          /\ UNCHANGED <<sStatus, segment, registered, tasks, sEvents>>
       \/ /\ sStatus \notin {"FAILED", "REJECTED"} /\ segment < Segments
          /\ registered' = FALSE
          /\ segment' = segment + 1
          /\ tasks' = tasks \cup {"preparing"}
          /\ UNCHANGED <<sStatus, sEvents>>
       \/ /\ sStatus \notin {"FAILED", "REJECTED"} /\ segment = Segments
          /\ sStatus' = "COMPLETE"
          /\ sEvents' = [sEvents EXCEPT !.complete = 1]
          /\ UNCHANGED <<segment, registered, tasks>>
    /\ UNCHANGED <<gotPartRequests, sRetries, cancelling, sCancels, sOpen, rVars>>

HandleRejection(m) ==
    /\ SenderRx(m) /\ m.type = "RCL" /\ Addressed(m)
    /\ net' = net \ {m}
    /\ SenderFails("REJECTED")
    /\ UNCHANGED <<segment, gotPartRequests, sRetries, tasks, cancelling,
                   sCancels, sOpen, rVars>>

\* _watchdogTick on the sender, past one of its timeouts.
SenderTick ==
    /\ sOpen /\ registered /\ sStatus = "ADVERTISED"
    /\ IF ~gotPartRequests /\ sRetries > 0
       THEN /\ sRetries' = sRetries - 1
            /\ tasks' = tasks \cup {"retry"}
            /\ net' = net \cup {ADV(segment)}
            /\ UNCHANGED cancelling
       ELSE BeginCancel(net) /\ UNCHANGED <<sRetries, tasks>>
    /\ UNCHANGED <<sStatus, segment, registered, gotPartRequests, sCancels,
                   sEvents, sOpen, rVars>>

\* The link's status setter: _linkClosed on what is registered.
SenderLinkCloses ==
    /\ LinkCloses /\ sOpen
    /\ sOpen' = FALSE
    /\ IF registered /\ sStatus \notin Terminal THEN SenderFails("FAILED")
       ELSE registered' = FALSE /\ UNCHANGED <<sStatus, sEvents>>
    /\ UNCHANGED <<segment, gotPartRequests, sRetries, tasks, cancelling,
                   sCancels, rVars, net>>

-----------------------------------------------------------------------------
(* Receiver.                                                                *)

\* The receive queue waits while assemble() runs.
ReceiverRx(m) == m \in net /\ rOpen /\ asm = NoAssembly

Fragment(from) ==
    [i \in 1..(IF from + HashmapMaxLen > Parts THEN Parts - from ELSE HashmapMaxLen)
        |-> from + i]

NewTransfer(t) ==
    [status |-> "TRANSFERRING", hashmap |-> Fragment(0),
     parts |-> [i \in Slots |-> 0], outstanding |-> 0,
     retries |-> MAX_RETRIES, tracked |-> t]

\* requestNext's scan of the hashmap: the indices of the first w known slots
\* without a part.
Missing(o) == {i \in 1..Len(o.hashmap) : i \in Slots /\ o.parts[i] = 0}
FirstMissing(o, w) ==
    {i \in Missing(o) : Cardinality({j \in Missing(o) : j < i}) < w}

\* requestNext: the requests it sends and the transfer it leaves.
RequestNext(s, o, w) ==
    LET wanted == FirstMissing(o, w)
        exhausted == wanted = {} /\ \E i \in Slots : o.parts[i] = 0
    IN [transfer |-> IF wanted = {} /\ ~exhausted THEN o
                     ELSE [o EXCEPT !.outstanding = Cardinality(wanted)],
        requests |-> IF wanted = {} /\ ~exhausted THEN {}
                     ELSE {[type |-> "REQ", seg |-> s,
                            parts |-> {o.hashmap[i] : i \in wanted},
                            exhausted |-> exhausted,
                            last |-> IF exhausted THEN Last(o.hashmap) ELSE 0]}]

Windows == 1..Window

\* RESOURCE_ADV: accept registers a fresh transfer, replacing any under this
\* hash; the transfer is tracked by an assembler of its own or by the split
\* transfer's; a segment of a failed split transfer is rejected, yet stays
\* registered and is requested.
Accept(s, w, packets) ==
    /\ LET isSplit == Segments > 1
           rejected == isSplit /\ failedSplit
           fresh == ~rejected /\ (~isSplit \/ current = 0)
           id == IF rejected THEN 0 ELSE IF fresh THEN Len(assemblers) + 1 ELSE current
           next == RequestNext(s, NewTransfer(id), w)
       IN /\ incoming' = [incoming EXCEPT ![s] = next.transfer]
          /\ assemblers' = IF fresh THEN Append(assemblers, << >>) ELSE assemblers
          /\ current' = IF fresh /\ isSplit THEN id ELSE current
          /\ net' = packets \cup next.requests
                    \cup (IF rejected THEN {RCL(s)} ELSE {})
    /\ abandoned' = (abandoned \/ (incoming[s] # None /\ incoming[s].tracked > 0))
    /\ UNCHANGED <<sVars, asm, failedSplit, rCancels, rOpen, received, routed>>

AcceptAdvertisement(m, w) ==
    /\ ReceiverRx(m) /\ m.type = "ADV"
    /\ Accept(m.seg, w, net \ {m})
    /\ UNCHANGED rQueued

\* What waited in _rxQueue is processed after the close as well; only an
\* advertisement does not look for a registered transfer first.
AcceptQueued(w) ==
    /\ ~rOpen /\ rQueued # 0 /\ asm = NoAssembly
    /\ Accept(rQueued, w, net)
    /\ rQueued' = 0

\* accept: the advertised sizes are over the limits.
RejectAdvertisement(m) ==
    /\ MayReject /\ ReceiverRx(m) /\ m.type = "ADV"
    /\ net' = (net \ {m}) \cup {RCL(m.seg)}
    /\ UNCHANGED <<sVars, rVars>>

\* The slots a part may fill: its map hash is expected there and it is empty.
PlaceFor(o, i) == {k \in Missing(o) : o.hashmap[k] = i}

\* A part or continuation for a transfer that is not there is dropped.
ReceiverDrops(m) ==
    /\ ReceiverRx(m)
    /\ \/ m.type \in {"PART", "HMU", "ICL"} /\ incoming[m.seg] = None
       \/ /\ m.type = "PART" /\ incoming[m.seg] # None
          /\ PlaceFor(incoming[m.seg], m.part) = {}
    /\ net' = net \ {m}
    /\ UNCHANGED <<sVars, rVars>>

\* The integrity hash of the assembled segment matches.
AssemblesRight(parts) == \A i \in Slots : parts[i] = i

\* receivePart: fill the first slot, then assemble, or request the next window
\* once this one has drained.
ReceivePart(m, w) ==
    /\ ReceiverRx(m) /\ m.type = "PART" /\ incoming[m.seg] # None
    /\ PlaceFor(incoming[m.seg], m.part) # {}
    /\ LET o == incoming[m.seg]
           k == CHOOSE i \in PlaceFor(o, m.part) :
                    \A j \in PlaceFor(o, m.part) : i <= j
           placed == [o EXCEPT !.parts[k] = m.part,
                               !.outstanding = IF @ > 0 THEN @ - 1 ELSE 0]
           full == \A i \in Slots : placed.parts[i] # 0
           next == RequestNext(m.seg, placed, w)
       IN IF full
          THEN /\ incoming' = [incoming EXCEPT ![m.seg] =
                                 [placed EXCEPT !.status = "ASSEMBLING"]]
               /\ asm' = [seg |-> m.seg, stage |-> "decrypting",
                          right |-> AssemblesRight(placed.parts),
                          tracked |-> o.tracked]
               /\ net' = net \ {m}
          ELSE IF placed.outstanding = 0
          THEN /\ incoming' = [incoming EXCEPT ![m.seg] = next.transfer]
               /\ net' = (net \ {m}) \cup next.requests
               /\ UNCHANGED asm
          ELSE /\ incoming' = [incoming EXCEPT ![m.seg] = placed]
               /\ net' = net \ {m}
               /\ UNCHANGED asm
    /\ UNCHANGED <<sVars, split, rQueued, rCancels, rOpen, received, routed,
                   abandoned>>

\* hashmapUpdate: the continuation is appended, whichever one it is.
HashmapUpdate(m, w) ==
    /\ ReceiverRx(m) /\ m.type = "HMU" /\ incoming[m.seg] # None
    /\ LET o == [incoming[m.seg] EXCEPT !.hashmap = @ \o Fragment(m.after % Parts)]
           next == RequestNext(m.seg, o, w)
       IN IF o.outstanding = 0
          THEN /\ incoming' = [incoming EXCEPT ![m.seg] = next.transfer]
               /\ net' = (net \ {m}) \cup next.requests
          ELSE /\ incoming' = [incoming EXCEPT ![m.seg] = o]
               /\ net' = net \ {m}
    /\ UNCHANGED <<sVars, asm, split, rQueued, rCancels, rOpen, received, routed,
                   abandoned>>

\* _setFailed of the transfers ss: unregistered; an assemble() under way goes
\* on, without waiters; a tracked segment fails its split transfer, whose
\* assembler leaves the map.
ReceiverFails(ss) ==
    LET fails == Segments > 1 /\ \E s \in ss : incoming[s].tracked > 0
    IN /\ incoming' = [s \in Segs |-> IF s \in ss THEN None ELSE incoming[s]]
       /\ failedSplit' = (failedSplit \/ fails)
       /\ current' = IF fails THEN 0 ELSE current
       /\ UNCHANGED assemblers

Unwaited(ss) == IF asm.seg \in ss THEN [asm EXCEPT !.tracked = 0] ELSE asm

HandleIncomingCancel(m) ==
    /\ ReceiverRx(m) /\ m.type = "ICL" /\ incoming[m.seg] # None
    /\ net' = net \ {m}
    /\ ReceiverFails({m.seg})
    /\ UNCHANGED <<sVars, asm, rQueued, rCancels, rOpen, received, routed, abandoned>>

\* cancel() by the application or by the failed REQUEST that waits for it: the
\* receiver tells nobody.
ReceiverCancels(s) ==
    /\ incoming[s] # None /\ rCancels < MaxCancels
    /\ rCancels' = rCancels + 1
    /\ ReceiverFails({s})
    /\ asm' = Unwaited({s})
    /\ UNCHANGED <<sVars, rQueued, rOpen, received, routed, abandoned, net>>

ReceiverRetriesLeft(s) == incoming[s].retries > 0

\* _watchdogTick on the receiver, past its stall timeout.
ReceiverTick(s, w) ==
    /\ rOpen /\ incoming[s] # None /\ incoming[s].status = "TRANSFERRING"
    /\ IF ReceiverRetriesLeft(s)
       THEN LET o == [incoming[s] EXCEPT !.outstanding = 0, !.retries = @ - 1]
                next == RequestNext(s, o, w)
            IN /\ incoming' = [incoming EXCEPT ![s] = next.transfer]
               /\ net' = net \cup next.requests
               /\ UNCHANGED split
       ELSE ReceiverFails({s}) /\ UNCHANGED net
    /\ UNCHANGED <<sVars, asm, rQueued, rCancels, rOpen, received, routed, abandoned>>

Registered == {s \in Segs : incoming[s] # None}

ReceiverLinkCloses ==
    /\ LinkCloses /\ rOpen
    /\ rOpen' = FALSE
    /\ ReceiverFails(Registered)
    /\ asm' = Unwaited(Registered)
    /\ \/ UNCHANGED <<rQueued, net>>
       \/ \E m \in net : /\ m.type = "ADV"
                         /\ rQueued' = m.seg /\ net' = net \ {m}
    /\ UNCHANGED <<sVars, rCancels, received, routed, abandoned>>

\* assemble(), decrypted and hashed, with the parts it began with: a good hash
\* is proved, also for a transfer that has failed meanwhile.
AssembleChecked ==
    /\ asm.stage = "decrypting" /\ asm.right
    /\ asm' = [asm EXCEPT !.stage = "proving"]
    /\ received' = received \cup {asm.seg}
    /\ net' = net \cup {PRF(asm.seg)}
    /\ UNCHANGED <<sVars, incoming, split, rQueued, rCancels, rOpen, routed, abandoned>>

\* Mutant: a failed assembly is left registered.
AssembleFailsPinned ==
    /\ \/ asm.stage = "decrypting" /\ ~asm.right
       \/ asm.stage = "proving" /\ SendFails
    /\ asm' = NoAssembly
    /\ UNCHANGED <<sVars, incoming, split, rQueued, rCancels, rOpen, received,
                   routed, abandoned, net>>

\* A bad hash, or a proof that cannot be sent: CORRUPT.
AssembleFails ==
    /\ \/ asm.stage = "decrypting" /\ ~asm.right
       \/ asm.stage = "proving" /\ SendFails
    /\ ReceiverFails({asm.seg} \cap Registered)
    /\ asm' = NoAssembly
    /\ UNCHANGED <<sVars, rQueued, rCancels, rOpen, received, routed, abandoned,
                   net>>

\* SplitResourceAssembler.add: the segments it then holds.
Added(id, s) == Append(assemblers[id], s)

\* The proof is sent: COMPLETE, unregistered, and the waiters of a transfer
\* that has not failed get it: directly, or through the segment assembler,
\* which delivers when it is given the last segment.
AssembleCompletes ==
    /\ asm.stage = "proving"
    /\ asm' = NoAssembly
    /\ incoming' = [incoming EXCEPT ![asm.seg] = None]
    /\ LET all == Added(asm.tracked, asm.seg)
           delivers == asm.tracked > 0 /\ asm.seg = Segments
       IN /\ assemblers' = IF asm.tracked = 0 THEN assemblers
                           ELSE [assemblers EXCEPT ![asm.tracked] = all]
          /\ routed' = IF delivers THEN Append(routed, all) ELSE routed
          /\ current' = IF delivers THEN 0 ELSE current
    /\ UNCHANGED <<sVars, failedSplit, rQueued, rCancels, rOpen, received,
                   abandoned, net>>

-----------------------------------------------------------------------------
Lose(m) == /\ m \in net /\ net' = net \ {m}  \* external: the network
           /\ UNCHANGED <<sVars, rVars>>

SenderSteps == Advertise \/ SegmentPrepared \/ CancelResumes \/ SenderCancels
               \/ SenderTick \/ SenderLinkCloses
               \/ \E t \in Tasks : AdvertiseSent(t) \/ AdvertiseFails(t)

ReceiverSteps == \/ ReceiverLinkCloses \/ AssembleChecked \/ AssembleFails
                 \/ AssembleCompletes
                 \/ \E s \in Segs : ReceiverCancels(s)
                 \/ \E w \in Windows : AcceptQueued(w)
                                       \/ \E s \in Segs : ReceiverTick(s, w)

SenderReceives(m) == SenderDrops(m) \/ HandleRequest(m) \/ ValidateProof(m)
                     \/ HandleRejection(m)

ReceiverReceives(m) ==
    \/ ReceiverDrops(m) \/ RejectAdvertisement(m) \/ HandleIncomingCancel(m)
    \/ \E w \in Windows : AcceptAdvertisement(m, w) \/ ReceivePart(m, w)
                          \/ HashmapUpdate(m, w)

Next == \/ SenderSteps \/ ReceiverSteps
        \/ \E m \in net : SenderReceives(m) \/ ReceiverReceives(m) \/ Lose(m)

Spec == Init /\ [][Next]_vars

\* Promises settle, the application sends, and the watchdog of an open link
\* reaches every registered transfer.
Fairness ==
    /\ WF_vars(Advertise) /\ WF_vars(SegmentPrepared) /\ WF_vars(CancelResumes)
    /\ \A t \in Tasks : WF_vars(AdvertiseSent(t) \/ AdvertiseFails(t))
    /\ WF_vars(SenderTick)
    /\ WF_vars(AssembleChecked) /\ WF_vars(AssembleFails \/ AssembleCompletes)
    /\ \A s \in Segs : WF_vars(\E w \in Windows : ReceiverTick(s, w))

FairSpec == Spec /\ Fairness

-----------------------------------------------------------------------------
(* Properties.                                                              *)

Messages == UNION {
    [type : {"ADV", "PRF", "ICL", "RCL"}, seg : Segs],
    [type : {"PART"}, seg : Segs, part : Slots],
    [type : {"HMU"}, seg : Segs, after : Slots],
    [type : {"REQ"}, seg : Segs, parts : SUBSET Slots, exhausted : BOOLEAN,
     last : 0..Parts]}

\* Type invariant of both ends and the network.
TypeOK ==
    /\ sStatus \in SenderStatuses /\ segment \in Segs
    /\ registered \in BOOLEAN /\ gotPartRequests \in BOOLEAN
    /\ sRetries \in 0..MAX_RETRIES /\ tasks \subseteq Tasks
    /\ cancelling \in 0..2 /\ sCancels \in 0..MaxCancels
    /\ sEvents \in [complete : 0..1, failed : 0..2, threw : 0..1]
    /\ sOpen \in BOOLEAN /\ rOpen \in BOOLEAN
    /\ \A s \in Segs : incoming[s] = None \/ incoming[s] \in Transfers
    /\ asm.seg \in 0..Segments /\ asm.tracked \in 0..Len(assemblers)
    /\ \A i \in DOMAIN assemblers : assemblers[i] \in Seq(Segs)
    /\ current \in 0..Len(assemblers) /\ failedSplit \in BOOLEAN
    /\ rQueued \in 0..Segments
    /\ rCancels \in 0..MaxCancels /\ received \subseteq Segs
    /\ abandoned \in BOOLEAN
    /\ net \subseteq Messages

\* The sender moves to the next segment, and reports "complete", only for
\* segments that the receiver has assembled and whose hash it has verified,
\* whatever was lost, repeated or cancelled.
ProvenIsReceived ==
    /\ \A s \in Segs : s < segment => s \in received
    /\ sEvents.complete > 0 => Segs \subseteq received

\* The watchdog leaves a transfer that is ASSEMBLING alone, so such a transfer
\* must have its assemble() under way, whatever failed, closed or was replaced
\* meanwhile: none is wedged in the receiver's map.
AssemblingIsRunning ==
    \A s \in Registered : (incoming[s].status = "ASSEMBLING") <=> (asm.seg = s)

\* What a transfer never does, whatever is lost, repeated, fails or closes: count as done what
\* the receiver has not verified, or be wedged in the receiver's map (validateProof, assemble,
\* _watchdogTick).
TransferSafe == ProvenIsReceived /\ AssemblingIsRunning

\* The sender's application learns the outcome.
SenderSettles ==
    (sStatus # "NONE") ~> (sEvents.complete + sEvents.failed + sEvents.threw > 0)

\* A receiver's transfer does not stay in the map for ever.
IncomingSettles == \A s \in Segs : (incoming[s] # None) ~> (incoming[s] = None)

\* Both ends settle: the sender's application hears of it and the receiver's map is cleared.
TransfersSettle == SenderSettles /\ IncomingSettles

\* "expected 4-byte map_hashes per part" (resource.js): slot i of the
\* receiver's hashmap is the hash of part i.
HashmapAligned ==
    \A s \in Registered : \A i \in 1..Len(incoming[s].hashmap) :
        i \in Slots => incoming[s].hashmap[i] = i

\* "segments complete in order" (resource.js, SplitResourceAssembler): what is
\* handed to the application is the sender's data, once.
AssembledExact == \A i \in 1..Len(routed) : routed[i] = Whole

\* "nothing can complete once failed" (resource.js, _setFailed): a sender that
\* reported its failure keeps that status, in particular it is not ADVERTISED
\* or QUEUED again.
FailedIsFinal ==
    [][(sStatus \in {"FAILED", "REJECTED"}) => UNCHANGED sStatus]_vars

\* "each resource fails (dropping its transfer buffers) so whenComplete()
\* waiters observe the failure" (CHANGELOG): no transfer leaves the map
\* unsettled.
NothingAbandoned == ~abandoned

\* A finished transfer is not "pinned in the link's map until the link itself
\* closed" (resource.js, _setFailed).
TerminalIsReleased == sStatus \in Terminal => ~registered

\* "`failed` fired once (whenComplete waiters settled); firing it again would
\* double-reject" (resource.js, cancel).
FailedOnce == sEvents.failed <= 1

\* Of a closed link: "leaving the registrations would retain the transfer
\* buffers ... for the lifetime of the object" (link.js, status setter).
ClosedHoldsNoTransfer == ~rOpen => Registered = {}

\* Bound of the largest run: packets in transit at a time.
MaxInTransit == 2
FewInTransit == Cardinality(net) <= MaxInTransit
=============================================================================
