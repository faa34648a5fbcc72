------------------------------ MODULE MCLXMF ------------------------------
(***************************************************************************)
(* The two ways in of an LXMF router, which share the senders it knows and   *)
(* the cache of what it has shown: Parking with a genuine message of one     *)
(* sender and a forged one of another, Download with a copy of each at the   *)
(* node, the genuine one also on paper and sent directly.  A behaviour       *)
(* exercises one of them, chosen initially by focus.                         *)
(***************************************************************************)
EXTENDS Parking, Download, TLC

CONSTANTS m1, m2, s1, s2, l1, t1, t2, c1, c2

VARIABLE focus

MCMsgs == {m1, m2}
MCSender == (m1 :> s1) @@ (m2 :> s2)
OnlyM2 == {m2}
MCLinks == {l1}
MCLinkPeer == l1 :> s1
MCTids == {t1, t2}
MCMsgOf == (t1 :> m1) @@ (t2 :> m2)
OnlyT1 == {t1}
MCUnreadable == {{}, {t1}}
MCSessions == {c1, c2}

mcVars == <<focus, parkingVars, downloadVars>>

Init ==
    /\ focus \in {"parking", "download"}
    /\ ParkingInit /\ DownloadInit
    /\ focus = "parking" => lost = {}

ParkingOnly == UNCHANGED <<focus, node, processedTransientIds, session, reading, direct, lost, faults>>
DownloadOnly == UNCHANGED <<focus, arrival, pendingMessages, requested, links, rejection>>

Next ==
    \/ focus = "parking" /\ ParkingNext /\ ParkingOnly
    \/ focus = "download" /\ DownloadNext /\ DownloadOnly

\* The event loop runs what was started, a requested path is answered by the sender's
\* announce, and the application keeps asking.
Fairness ==
    /\ \A i \in Arrivals : WF_parkingVars(focus = "parking" /\ Process(i))
    /\ \A s \in Senders : WF_parkingVars(focus = "parking" /\ s \in requested /\ SenderAnnounces(s))
    /\ \A c \in Sessions : /\ WF_downloadVars(focus = "download" /\ List(c))
                           /\ WF_downloadVars(focus = "download" /\ Sync(c))
    /\ \A t \in Tids : WF_downloadVars(focus = "download" /\ ReadUri(t))

Spec == Init /\ [][Next]_mcVars /\ Fairness

\* On every way in: a message is shown once, and again only after its id has left the bounded
\* cache (_dispatchMessage); the propagation node deletes on the recipient's word only what the
\* application has seen (syncFromPropagationNode); and the map of parked messages holds exactly
\* what is parked, each once, within MAX_PARKED_MESSAGES (_processIncomingMessage).
InboundSafe == DispatchedOnce /\ PurgedIsDelivered /\ ParkingTypeOK

\* And every message gets to the application: one that waits for its sender's identity, and one
\* that waits at the propagation node (_retryPendingMessages, syncFromPropagationNode).
InboundArrives == ParkedIsDelivered /\ Fetched
===========================================================================
