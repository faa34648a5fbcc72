------------------------------ MODULE Parking ------------------------------
(***************************************************************************)
(* LXMF messages that arrive as packets or on links                         *)
(* (packages/lxmf/src/router.js, _processIncomingMessage): a message whose  *)
(* sender is not known is parked, by link, until an announce or the         *)
(* sender's LINKIDENTIFY makes its identity available.                      *)
(*                                                                          *)
(* An arrival is one wire buffer; the same message may arrive many times.   *)
(***************************************************************************)
EXTENDS LXMFDispatch, FiniteSets

CONSTANTS
    Links,        \* inbound links
    LinkPeer,     \* [Links -> the sender that identifies on the link]
    Arrivals,     \* 1..n: wire buffers that arrive (a bound)
    MaxParked     \* MAX_PARKED_MESSAGES

ASSUME ParkingAssumption ==
    /\ LinkPeer \in [Links -> Senders] /\ Arrivals \subseteq Nat
    /\ MaxParked \in Nat \ {0}

Opportunistic == "opportunistic"
ASSUME OpportunisticAssumption == Opportunistic \notin Links

VARIABLES
    arrival,     \* what _processIncomingMessage has done with each buffer
    pendingMessages, \* the parked arrivals, bucket after bucket
    requested,   \* senders a path was requested for
    open,        \* links that are not closed
    timing,      \* links whose ten-second timer for LINKIDENTIFY runs
    identifying, \* links whose identify handler is deriving the identity
    rejection    \* a promise nobody handles has been rejected

links == <<open, timing, identifying>>
parkingVars == <<shown, arrival, pendingMessages, known, requested, links, rejection>>

Keys == Links \cup {Opportunistic}
NotYet == [phase |-> "none", message |-> CHOOSE c \in UNION {Copies(m, FALSE) : m \in Msgs} : TRUE,
           key |-> Opportunistic, guarded |-> TRUE]

ParkingInit ==
    /\ DispatchInit
    /\ arrival = [i \in Arrivals |-> NotYet]
    /\ pendingMessages = << >>
    /\ requested = {}
    /\ open = Links /\ timing = Links /\ identifying = {}
    /\ rejection = FALSE

-----------------------------------------------------------------------------
\* A buffer arrives: a packet, or DATA or a Resource on an open link, and is
\* deserialized.  Only the Resource listener leaves the promise of the
\* processing unhandled.
Arrive(i, m, k, guarded) ==
    /\ arrival[i].phase = "none"
    /\ \A j \in Arrivals : j < i => arrival[j].phase # "none"
    /\ k \in Links => k \in open
    /\ k = Opportunistic => guarded
    /\ \E message \in Copies(m, k = Opportunistic) :
         arrival' = [arrival EXCEPT ![i] =
           [phase |-> "recalling", message |-> message, key |-> k, guarded |-> guarded]]
    /\ UNCHANGED <<pendingMessages, known, requested, links, rejection, shown>>

SenderOf(i) == arrival[i].message.source
SetPhase(is, ph) ==
    [j \in Arrivals |-> IF j \in is THEN [arrival[j] EXCEPT !.phase = ph]
                        ELSE arrival[j]]

\* What a sequence holds at the given positions, in its order.
Picked(q, ns) ==
    LET nth(k) == CHOOSE n \in ns : Cardinality({o \in ns : o <= n}) = k
    IN  [k \in 1..Cardinality(ns) |-> q[nth(k)]]

Without(is) == Picked(pendingMessages, {n \in DOMAIN pendingMessages : pendingMessages[n] \notin is})

\* recallIdentity answers; the answer is used one step later.
Recall(i) ==
    /\ arrival[i].phase = "recalling"
    /\ IF SenderOf(i) \in known
       THEN /\ arrival' = SetPhase({i}, "verifying")
            /\ pendingMessages' = Without({i})
       ELSE arrival' = SetPhase({i}, "unknown") /\ UNCHANGED pendingMessages
    /\ UNCHANGED <<known, requested, links, rejection, shown>>

Bucket(k) == {j \in Elements(pendingMessages) : arrival[j].key = k}

\* At the end of its bucket, or in a new last bucket.
Parked(i) ==
    LET k == arrival[i].key
        mine(j) == arrival[j].key = k
        before == {n \in DOMAIN pendingMessages : mine(pendingMessages[n])}
        at == IF before = {} THEN Len(pendingMessages)
              ELSE CHOOSE n \in before : \A o \in before : o <= n
    IN SubSeq(pendingMessages, 1, at) \o <<i>>
         \o SubSeq(pendingMessages, at + 1, Len(pendingMessages))

\* Mutant: the message finds itself in the bucket, and requests no path.
ParkSilently(i) ==
    /\ arrival[i].phase = "unknown"
    /\ Len(pendingMessages) < MaxParked
    /\ pendingMessages' = Parked(i)
    /\ arrival' = SetPhase({i}, "parked")
    /\ UNCHANGED <<known, requested, links, rejection, shown>>

\* _capParkedMessages drops the oldest; the path is requested unless a message
\* of this sender was already in the bucket.
Park(i) ==
    /\ arrival[i].phase = "unknown"
    /\ LET all == Parked(i)
           over == IF Len(all) > MaxParked THEN Len(all) - MaxParked ELSE 0
           dropped == {all[n] : n \in 1..over}
       IN /\ pendingMessages' = SubSeq(all, over + 1, Len(all))
          /\ arrival' = [j \in Arrivals |->
               [arrival[j] EXCEPT !.phase = IF j \in dropped THEN "dropped"
                                            ELSE IF j = i THEN "parked" ELSE @]]
    /\ requested' = IF \E j \in Bucket(arrival[i].key) : SenderOf(j) = SenderOf(i)
                    THEN requested ELSE requested \cup {SenderOf(i)}
    /\ UNCHANGED <<known, links, rejection, shown>>

\* verifySignature answers: the message is dispatched, or the call rejects.
Verify(i) ==
    /\ arrival[i].phase = "verifying"
    /\ IF ~ VerifySignature(arrival[i].message)
       THEN /\ arrival' = SetPhase({i}, "failed")
            /\ rejection' = (rejection \/ ~ arrival[i].guarded)
            /\ UNCHANGED shown
       ELSE /\ arrival' = SetPhase({i}, "done")
            /\ Dispatch(arrival[i].message)
            /\ UNCHANGED rejection
    /\ UNCHANGED <<pendingMessages, known, requested, links>>

\* processPendingMessages and processAllPendingMessages: the entries leave the
\* map and go through _processIncomingMessage again, guarded.  (Those of one
\* call are taken one after the other; here in any order.)
Reprocess(is) ==
    /\ pendingMessages' = Without(is)
    /\ arrival' = [j \in Arrivals |->
         IF j \in is THEN [arrival[j] EXCEPT !.phase = "recalling",
                                             !.guarded = TRUE]
         ELSE arrival[j]]

\* Any announce re-processes every bucket.
SenderAnnounces(s) ==
    /\ known' = known \cup {s}
    /\ requested' = requested \ {s}
    /\ Reprocess(Elements(pendingMessages))
    /\ UNCHANGED <<links, rejection, shown>>

\* LINKIDENTIFY stops the timer; deriving the sender's address takes a while.
Identify(l) ==
    /\ l \in open
    /\ timing' = timing \ {l}
    /\ identifying' = identifying \cup {l}
    /\ UNCHANGED <<arrival, pendingMessages, known, requested, open, rejection,
                   shown>>

\* The identity is remembered, then the link's bucket taken, even if the link
\* has closed by now.
Identified(l) ==
    /\ l \in identifying
    /\ identifying' = identifying \ {l}
    /\ known' = known \cup {LinkPeer[l]}
    /\ Reprocess(Bucket(l))
    /\ UNCHANGED <<requested, open, timing, rejection, shown>>

\* The timer is not cleared when the link closes.
IdentifyTimeout(l) ==
    /\ l \in timing
    /\ timing' = timing \ {l}
    /\ Reprocess(Bucket(l))
    /\ UNCHANGED <<known, requested, open, identifying, rejection, shown>>

\* A closed link takes its bucket with it (but not what is being processed).
CloseLink(l) ==
    /\ l \in open
    /\ open' = open \ {l}
    /\ pendingMessages' = Without(Bucket(l))
    /\ arrival' = SetPhase(Bucket(l), "dropped")
    /\ UNCHANGED <<known, requested, timing, identifying, rejection, shown>>

-----------------------------------------------------------------------------
Process(i) == Recall(i) \/ Park(i) \/ Verify(i)

ParkingNext ==
    \/ \E i \in Arrivals :
         \/ Process(i)
         \/ \E m \in Msgs, k \in Keys, g \in BOOLEAN : Arrive(i, m, k, g)
    \/ \E s \in Senders : SenderAnnounces(s)
    \/ \E l \in Links : 
         \/ Identify(l) \/ Identified(l) \/ IdentifyTimeout(l) \/ CloseLink(l)

ParkingSpec == ParkingInit /\ [][ParkingNext]_parkingVars

\* The event loop runs what was started, and a requested path is answered by
\* the sender's announce.
ParkingFairSpec ==
    /\ ParkingSpec
    /\ \A i \in Arrivals : WF_parkingVars(Process(i))
    /\ \A s \in Senders : WF_parkingVars(s \in requested /\ SenderAnnounces(s))

-----------------------------------------------------------------------------
ArrivalRecords ==
    [phase : {"none", "recalling", "unknown", "parked", "verifying", "done",
              "failed", "dropped"},
     message : UNION {Copies(m, FALSE) : m \in Msgs},
     key : Keys, guarded : BOOLEAN]

\* The type of every variable; the map holds exactly the parked arrivals, each
\* once, and no more than MAX_PARKED_MESSAGES.
ParkingTypeOK ==
    /\ DispatchTypeOK
    /\ arrival \in [Arrivals -> ArrivalRecords]
    /\ pendingMessages \in Seq(Arrivals) /\ Len(pendingMessages) <= MaxParked
    /\ Cardinality(Elements(pendingMessages)) = Len(pendingMessages)
    /\ Elements(pendingMessages) =
         {i \in Arrivals : arrival[i].phase = "parked"}
    /\ requested \subseteq Senders
    /\ UNION {open, timing, identifying} \subseteq Links
    /\ rejection \in BOOLEAN

\* A genuine message that was parked is shown to the application unless the
\* cap or the closing of its link drops it, even when its sender's announce
\* arrives between the look-up that missed it and the parking.
ParkedIsDelivered ==
    \A i \in Arrivals :
      arrival[i].phase = "parked" /\ arrival[i].message.messageId[3].msg \notin Forged
        ~> arrival[i].phase \in {"done", "dropped"}

(* What comments of the code say and the code does not guarantee.           *)

\* "dropped wholesale when their link closes": refuted, an entry that is being
\* re-processed when the link closes is parked again.
ClosedLinksHaveNoBucket ==
    \A l \in Links : l \notin open => Bucket(l) = {}

\* "without this guard a processing failure would surface as an unhandled
\* rejection": refuted for Resources, whose listener does not return the call.
FailuresAreHandled == ~ rejection
=============================================================================
