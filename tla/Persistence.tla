---------------------------- MODULE Persistence ----------------------------
(***************************************************************************)
(* The Persistor for one destination: the caches announces fill, the        *)
(* debounced and the explicit flush, the load at startup, and a store whose *)
(* writes are started with a value and end later, or are refused.  The      *)
(* process may crash at any time, in the middle of a write too.             *)
(***************************************************************************)
EXTENDS Naturals, Sequences, SequencesExt

CONSTANTS
    MaxAnnounces,   \* bound: announces heard; the n-th carries version n of everything
    MaxFlushes,     \* bound: flushes under way at a time
    MaxFaults       \* bound: crashes and refused writes

ASSUME PersistAssumption == MaxAnnounces \in Nat

Namespaces == <<"identities", "ratchets", "paths">>
Spaces == {"identities", "ratchets", "paths"}
Torn == MaxAnnounces + 1     \* a record cut off in the middle: decoding it fails

VARIABLES
    psMem,          \* knownDestinations, knownRatchets, routes: version, 0 for none
    psDisk,         \* the store
    psNews,         \* announces heard
    psContacted,    \* persistedDestinations holds the destination
    psTimer,        \* _flushTimer
    psFlush,        \* flushes under way: [at: next namespace, val: version being written]
    psLoad,         \* namespace the load is at; 0 before, 4 when loaded
    psLoadVal,      \* what it has read there and not applied yet
    psFaults,       \* crashes and refused writes so far
    psOwed,         \* history: version of the identity a contact has still to bring to disk
    psRefused       \* history: a flush failed before it, and nobody has flushed or contacted since

persistVars == <<psMem, psDisk, psNews, psContacted, psTimer, psFlush, psLoad, psLoadVal, psFaults, psOwed, psRefused>>

Empty == [n \in Spaces |-> 0]

PersistInit ==
    /\ psMem = Empty /\ psDisk = Empty /\ psNews = 0 /\ psContacted = FALSE /\ psTimer = FALSE
    /\ psFlush = << >> /\ psLoad = 1 /\ psLoadVal = Torn /\ psFaults = 0 /\ psOwed = 0 /\ psRefused = FALSE

\* _handleAnnounce: the identity, its ratchet and a route to it are remembered.
RememberInto ==
    /\ psNews < MaxAnnounces /\ psNews' = psNews + 1
    /\ psMem' = [n \in Spaces |-> psNews']
    /\ UNCHANGED <<psDisk, psContacted, psTimer, psFlush, psLoad, psLoadVal, psFaults, psOwed, psRefused>>

\* sendPacket to a destination it has an identity for.
MarkContacted ==
    /\ psMem["identities"] # 0
    /\ psContacted' = TRUE /\ psTimer' = TRUE /\ psOwed' = psMem["identities"] /\ psRefused' = FALSE
    /\ UNCHANGED <<psMem, psDisk, psNews, psFlush, psLoad, psLoadVal, psFaults>>

\* A flush starts.
Flushing ==
    /\ Len(psFlush) < MaxFlushes /\ psFlush' = Append(psFlush, [at |-> 1, val |-> 0])
    /\ psTimer' = FALSE /\ psRefused' = FALSE

\* The debounce timer fires.
TimerFires ==
    /\ psTimer /\ Flushing
    /\ UNCHANGED <<psMem, psDisk, psNews, psContacted, psLoad, psLoadVal, psFaults, psOwed>>

\* store() and stop(): a flush of their own, which replaces the timer.
StoreNow ==
    /\ psMem["identities"] # 0
    /\ psContacted' = TRUE /\ Flushing
    /\ UNCHANGED <<psMem, psDisk, psNews, psLoad, psLoadVal, psFaults, psOwed>>

\* A flush reads the cache and starts the write of the next namespace that has an entry.
FlushWrites(i) ==
    /\ psFlush[i].val = 0 /\ psFlush[i].at <= 3
    /\ LET v == psMem[Namespaces[psFlush[i].at]]
       IN  psFlush' = [psFlush EXCEPT ![i] = IF v = 0 THEN [at |-> @.at + 1, val |-> 0] ELSE [at |-> @.at, val |-> v]]
    /\ UNCHANGED <<psMem, psDisk, psNews, psContacted, psTimer, psLoad, psLoadVal, psFaults, psOwed, psRefused>>

\* adapter.set() ends.
WriteEnds(i) ==
    LET n == Namespaces[psFlush[i].at]
    IN  /\ psFlush[i].val # 0
        /\ psDisk' = [psDisk EXCEPT ![n] = psFlush[i].val]
        /\ psFlush' = [psFlush EXCEPT ![i] = [at |-> @.at + 1, val |-> 0]]
        /\ psOwed' = IF n = "identities" /\ psFlush[i].val >= psOwed THEN 0 ELSE psOwed
        /\ UNCHANGED <<psMem, psNews, psContacted, psTimer, psLoad, psLoadVal, psFaults, psRefused>>

\* Mutant: the timer is cleared when the flush is over.
FlushDoneClears == psTimer' = FALSE

\* Mutant: a flush waits for the others to be over.
FlushDoneAlone == Len(psFlush) = 1 /\ UNCHANGED psTimer

FlushDone == UNCHANGED psTimer

FlushEnds(i) ==
    /\ psFlush[i].at > 3 /\ psFlush' = RemoveAt(psFlush, i) /\ FlushDone
    /\ UNCHANGED <<psMem, psDisk, psNews, psContacted, psLoad, psLoadVal, psFaults, psOwed, psRefused>>

\* adapter.set() rejects, for this destination or for one before it in the same flush: the rest
\* of the flush is abandoned and only logged. The record under way may be left cut off.
WriteFails(i) ==
    /\ psFaults < MaxFaults /\ psFaults' = psFaults + 1
    /\ psFlush[i].at <= 3 /\ psFlush' = RemoveAt(psFlush, i) /\ FlushDone
    /\ psRefused' = (psRefused \/ psFlush[i].at = 1)
    /\ \E cut \in {n \in Spaces : psFlush[i].val # 0 /\ n = Namespaces[psFlush[i].at]} \cup {"none"} :
          psDisk' = [n \in Spaces |-> IF n = cut THEN Torn ELSE psDisk[n]]
    /\ UNCHANGED <<psMem, psNews, psContacted, psLoad, psLoadVal, psOwed>>

\* load(): one namespace after the other is read, then applied; a torn record is skipped.
LoadReads ==
    /\ psLoad \in 1..3 /\ psLoadVal = Torn
    /\ LET v == psDisk[Namespaces[psLoad]]
       IN  IF v \in {0, Torn} THEN psLoad' = psLoad + 1 /\ UNCHANGED psLoadVal
           ELSE psLoadVal' = v /\ UNCHANGED psLoad
    /\ UNCHANGED <<psMem, psDisk, psNews, psContacted, psTimer, psFlush, psFaults, psOwed, psRefused>>

LoadApplies ==
    /\ psLoad \in 1..3 /\ psLoadVal # Torn
    /\ psMem' = [psMem EXCEPT ![Namespaces[psLoad]] = psLoadVal] /\ psContacted' = TRUE
    /\ psLoad' = psLoad + 1 /\ psLoadVal' = Torn
    /\ psOwed' = IF psOwed # 0 /\ psLoad = 1 THEN psLoadVal ELSE psOwed
    /\ UNCHANGED <<psDisk, psNews, psTimer, psFlush, psFaults, psRefused>>

\* Ratchets of a destination that is not known are dropped when the load is over.
CleanKnownRatchets ==
    /\ psLoad = 4 /\ psLoad' = 5
    /\ psMem' = IF psMem["identities"] = 0 THEN [psMem EXCEPT !["ratchets"] = 0] ELSE psMem
    /\ UNCHANGED <<psDisk, psNews, psContacted, psTimer, psFlush, psLoadVal, psFaults, psOwed, psRefused>>

\* The process dies; a write under way may leave its file cut off. The next one starts with a
\* load, while its interfaces already deliver announces.
Crash ==
    /\ psFaults < MaxFaults /\ psFaults' = psFaults + 1
    /\ LET writing == {Namespaces[psFlush[i].at] : i \in {j \in DOMAIN psFlush : psFlush[j].val # 0}}
       IN  \E cut \in SUBSET writing : psDisk' = [n \in Spaces |-> IF n \in cut THEN Torn ELSE psDisk[n]]
    /\ psMem' = Empty /\ psContacted' = FALSE /\ psTimer' = FALSE /\ psFlush' = << >>
    /\ psLoad' = 1 /\ psLoadVal' = Torn /\ psOwed' = 0 /\ psRefused' = FALSE
    /\ UNCHANGED psNews

FlushStep(i) == FlushWrites(i) \/ WriteEnds(i) \/ WriteFails(i) \/ FlushEnds(i)

PersistStep ==
    \/ TimerFires \/ LoadReads \/ LoadApplies \/ CleanKnownRatchets
    \/ \E i \in DOMAIN psFlush : FlushStep(i)

PersistNext == PersistStep \/ RememberInto \/ MarkContacted \/ StoreNow \/ Crash
-----------------------------------------------------------------------------
\* The identity of a destination a packet was sent to reaches the store as it was known then,
\* or as a load then made it, whatever flushes overlap and whatever is heard or sent
\* meanwhile, unless the process dies first or the store refuses the flush: then it waits for
\* the next one (markContacted, _scheduleFlush, flush).
ContactReachesDisk == psOwed # 0 ~> psOwed = 0 \/ psRefused

\* Until then the write is never forgotten: the destination is one that every flush writes,
\* and the timer is set, or a flush that has still to write the identity will write that
\* version or a newer one, unless the store has refused the last of them.
ContactIsPending ==
    psOwed # 0 =>
        /\ psContacted
        /\ \/ psTimer \/ psRefused
           \/ \E i \in DOMAIN psFlush : psFlush[i].at = 1 /\ (psFlush[i].val = 0 \/ psFlush[i].val >= psOwed)

\* A flush that the store refused is tried again.
RefusedIsRetried == psRefused /\ psOwed # 0 ~> psOwed = 0

\* load() hydrates the caches: it does not put an older record in the place of a newer one.
LoadKeepsNews == [][psFaults' = psFaults => \A n \in Spaces : psMem'[n] >= psMem[n]]_persistVars

\* A flush writes what is current: the store does not go back to an older record.
StoreMovesForward == [][psFaults' = psFaults => \A n \in Spaces : psDisk[n] # Torn => psDisk'[n] >= psDisk[n]]_persistVars

\* A restored route leads to a destination whose identity was restored with it.
RouteHasIdentity == psLoad = 5 /\ psMem["paths"] # 0 => psMem["identities"] # 0
=============================================================================
