------------------------------ MODULE MCProgress ------------------------------
(***************************************************************************)
(* The components of a node that must get something done, side by side.     *)
(* Each behaviour exercises one of them, chosen initially by focus.         *)
(***************************************************************************)
EXTENDS Persistence, AnnounceControl, Signaling, RfedSync, StreamBuffer

VARIABLE focus

\* The third blob is larger than an answer can be; a store has no room for all three.
MCSizeOf == [b \in Blobs |-> IF b = 3 THEN 2 ELSE 1]

mcVars == <<focus, persistVars, announceVars, signalVars, fedSyncVars, streamVars>>

\* Whether the reader has a decompressor is chosen for the stream only.
Canonical == focus # "stream" => sbInflate

Init ==
    /\ focus \in {"store", "announce", "signal", "sync", "stream"}
    /\ PersistInit /\ AnnounceInit /\ SignalInit /\ FedSyncInit /\ StreamInit
    /\ Canonical

StoreOnly ==
    UNCHANGED <<focus, announceVars, signalVars, fedSyncVars, streamVars>>
AnnounceOnly ==
    UNCHANGED <<focus, persistVars, signalVars, fedSyncVars, streamVars>>
SignalOnly ==
    UNCHANGED <<focus, persistVars, announceVars, fedSyncVars, streamVars>>
SyncOnly ==
    UNCHANGED <<focus, persistVars, announceVars, signalVars, streamVars>>
StreamOnly ==
    UNCHANGED <<focus, persistVars, announceVars, signalVars, fedSyncVars>>

\* Bound: the first process, which finds an empty store, has loaded it before it does anything
\* else; after a fault two flushes overlap only until the identities are loaded.
Restarts ==
    /\ psFaults' > 0 \/ psLoad = 5 \/ psLoad' # psLoad
    /\ psFaults' = 0 \/ psLoad' <= 2 \/ Len(psFlush') <= 1

\* Bound: one session fails or one sweep finds old blobs. The first blob is published at
\* either node, the others at node 1; of the two small blobs 1 comes first.
OneTrouble ==
    /\ fsErrors' + fsExpiries' <= 1
    /\ 2 \in fsPublished' => 1 \in fsPublished'
    /\ fsPublished' = fsPublished \/ fsPublished = {} \/ UNCHANGED fsStore[2]

Next ==
    \/ focus = "store" /\ PersistNext /\ StoreOnly /\ Restarts
    \/ focus = "announce" /\ AnnounceNext /\ AnnounceOnly
    \/ focus = "signal" /\ SignalNext /\ SignalOnly
    \/ focus = "sync" /\ FedSyncNext /\ SyncOnly /\ OneTrouble
    \/ focus = "stream" /\ StreamNext /\ StreamOnly

\* Timers fire, I/O that was started ends or times out, and the event loop runs what is due.
Fairness ==
    /\ WF_persistVars(focus = "store" /\ TimerFires)
    /\ WF_persistVars(focus = "store" /\ \E i \in DOMAIN psFlush : FlushStep(i))
    /\ WF_announceVars(focus = "announce" /\ Tick)
    /\ WF_announceVars(focus = "announce" /\ (SweepReleases \/ Reinject))
    /\ \A n \in Nodes :
        /\ WF_signalVars(focus = "signal" /\ (LinkEstablished(n) \/ SendOffer(n) \/ Adopt(n)))
        /\ WF_signalVars(focus = "signal" /\ (OfferSent(n) \/ OfferFails(n)))
        /\ WF_signalVars(focus = "signal" /\ (AnswerTimeout(n) \/ AnswerAwaited(n)))
    /\ \A n \in Sites :
        /\ WF_fedSyncVars(focus = "sync" /\ SyncStep(n))
        /\ WF_fedSyncVars(focus = "sync" /\ PeriodEnds(n))

Spec == Init /\ [][Next]_mcVars /\ Fairness
=============================================================================
