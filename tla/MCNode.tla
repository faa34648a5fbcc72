-------------------------------- MODULE MCNode --------------------------------
(***************************************************************************)
(* The components of a node whose safety is at stake, side by side.  Each   *)
(* behaviour exercises one of them, chosen initially by focus, so the state *)
(* graph is the union of theirs and not their product.                      *)
(***************************************************************************)
EXTENDS RoutingTable, ResourceWindow, Destination, Discovery, PacketFilter, PathSolicitation, RfedNode, RfedBackup, LXMFSend

VARIABLE focus

CONSTANTS b1, b2, b3, i1, i2

\* Two announces of the same second and a later one; i2 is preferred over i1.
MCEmission == [b \in {b1, b2, b3} |-> IF b = b3 THEN 2 ELSE 1]
MCGravity == [i \in {i1, i2} |-> IF i = i2 THEN 1 ELSE 0]

\* Packet 4 repeats the path request of packet 3.
MCTag == [p \in Packets |-> IF p = 4 THEN 3 ELSE p]

\* Two interfaces' announces, the second with "None" for its IFAC parameters; one without a
\* stamp and sealed, one of a type not looked for.
Good(k) == [key |-> k, stamped |-> TRUE, sealed |-> FALSE, wellFormed |-> TRUE, type |-> "tcp", source |-> "net", none |-> k = 2]
MCOffers == {Good(1), Good(2), [Good(1) EXCEPT !.stamped = FALSE, !.sealed = TRUE],
             [Good(2) EXCEPT !.type = "other"]}

\* One send without a fallback, two that fall back on the propagation node.
MCFallback == [s \in Sends |-> IF s = 1 THEN "none" ELSE "propagation"]

\* One node asks for stamps.
MCCostOf == [n \in FedNodes |-> IF n = 1 THEN 1 ELSE 0]

mcVars == <<focus, routeVars, windowVars, destinationVars, discoveryVars, filterVars,
            solicitVars, rfedVars, clientVars, runnerVars, rfedBackupVars, sendVars>>

\* What storage holds and which interfaces are attached is chosen for the component in focus.
Canonical ==
    /\ focus # "route" => route = NoRoute /\ attached = {}
    /\ focus # "discovery" => dcDisk = [k \in Found |-> Unknown]
    /\ \A k \in Found : dcDisk[k] # Unknown => dcDisk[k].none = (k = 2)

Init ==
    /\ focus \in {"route", "window", "destination", "discovery", "filter", "solicit",
                  "rfed", "client", "runner", "backup", "publish", "send"}
    /\ RouteInit /\ WindowInit /\ DestinationInit /\ DiscoveryInit /\ FilterInit
    /\ SolicitInit /\ RfedInit /\ RfedClientInit /\ RunnerInit /\ RfedBackupInit /\ SendInit
    /\ Canonical

RouteOnly ==
    UNCHANGED <<focus, windowVars, destinationVars, discoveryVars, filterVars,
                solicitVars, rfedVars, clientVars, runnerVars, rfedBackupVars, sendVars>>
WindowOnly ==
    UNCHANGED <<focus, routeVars, destinationVars, discoveryVars, filterVars,
                solicitVars, rfedVars, clientVars, runnerVars, rfedBackupVars, sendVars>>
DestinationOnly ==
    UNCHANGED <<focus, routeVars, windowVars, discoveryVars, filterVars, solicitVars,
                rfedVars, clientVars, runnerVars, rfedBackupVars, sendVars>>
DiscoveryOnly ==
    UNCHANGED <<focus, routeVars, windowVars, destinationVars, filterVars, solicitVars,
                rfedVars, clientVars, runnerVars, rfedBackupVars, sendVars>>
FilterOnly ==
    UNCHANGED <<focus, routeVars, windowVars, destinationVars, discoveryVars,
                solicitVars, rfedVars, clientVars, runnerVars, rfedBackupVars, sendVars>>
SolicitOnly ==
    UNCHANGED <<focus, routeVars, windowVars, destinationVars, discoveryVars,
                filterVars, rfedVars, clientVars, runnerVars, rfedBackupVars, sendVars>>
RfedOnly ==
    UNCHANGED <<focus, routeVars, windowVars, destinationVars, discoveryVars,
                filterVars, solicitVars, clientVars, runnerVars, rfedBackupVars, sendVars>>
ClientOnly ==
    UNCHANGED <<focus, routeVars, windowVars, destinationVars, discoveryVars,
                filterVars, solicitVars, rfedVars, runnerVars, rfedBackupVars, sendVars>>
RunnerOnly ==
    UNCHANGED <<focus, routeVars, windowVars, destinationVars, discoveryVars,
                filterVars, solicitVars, rfedVars, clientVars, rfedBackupVars, sendVars>>
BackupOnly ==
    UNCHANGED <<focus, routeVars, windowVars, destinationVars, discoveryVars,
                filterVars, solicitVars, rfedVars, clientVars, runnerVars, sendVars>>
SendOnly ==
    UNCHANGED <<focus, routeVars, windowVars, destinationVars, discoveryVars,
                filterVars, solicitVars, rfedVars, clientVars, runnerVars, rfedBackupVars>>

\* Bound: of a storage fault, a second start and a listing, two happen.
TwoTroubles == dcCount'.faults + dcCount'.starts + dcCount'.lists <= 3

\* Bound: a third call of the client is made to the node of the first two, which were made one
\* after the other and did not fail.
ThirdCallIsPlain ==
    rcCounts.calls < rcCounts'.calls /\ rcCounts'.calls = 3 => ~rcTrouble' /\ Cardinality(rcUsed') = 1

\* Bound: the second life of the runner, which no start follows, sees no saves clash.
LastLifeIsPlain == rsClash' => rsCounts'.starts = 0 \/ rsUp' = "refused"

Next ==
    \/ focus = "route" /\ RouteNext /\ RouteOnly
    \/ focus = "window" /\ WindowNext /\ WindowOnly
    \/ focus = "destination" /\ DestinationNext /\ DestinationOnly
    \/ focus = "discovery" /\ DiscoveryNext /\ DiscoveryOnly /\ TwoTroubles
    \/ focus = "filter" /\ FilterNext /\ FilterOnly
    \/ focus = "solicit" /\ SolicitNext /\ SolicitOnly
    \/ focus = "rfed" /\ RfedNext /\ RfedOnly
    \/ focus = "client" /\ RfedClientNext /\ ClientOnly /\ ThirdCallIsPlain
    \/ focus = "runner" /\ RunnerNext /\ RunnerOnly /\ LastLifeIsPlain
    \/ focus = "backup" /\ BackupNext /\ BackupOnly
    \/ focus = "publish" /\ PublishNext /\ BackupOnly
    \/ focus = "send" /\ SendNext /\ SendOnly

Spec == Init /\ [][Next]_mcVars
=============================================================================
