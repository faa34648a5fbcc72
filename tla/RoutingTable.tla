---------------------------- MODULE RoutingTable ----------------------------
(***************************************************************************)
(* RoutingTable (packages/core/src/transport/router.js) as a state machine: *)
(* any order of announces, liveness marks, lookups, uses, expiries and      *)
(* interface changes, with time passing.  The rules themselves are in       *)
(* PathTable.                                                               *)
(***************************************************************************)
EXTENDS PathTable

CONSTANT MaxNow        \* bound: the clock stops here

VARIABLES
    route,             \* routes.get(destination), or NoRoute
    attached,          \* TransportCore.interfaces
    now,               \* Date.now()
    accepted           \* history: how often each blob was accepted (0, 1, many)

routeVars == <<route, attached, now, accepted>>

RouteTypeOK ==
    /\ route \in Route \cup {NoRoute}
    /\ attached \subseteq Interfaces
    /\ now \in 0..MaxNow
    /\ accepted \in [Blobs -> 0..2]

(* An entry read back from storage has no interface object,                *)
(* and its liveness state was not stored                                    *)
DecodeRoute(i, b, h) ==
    [interface |-> NoInterface, interfaceName |-> i, hops |-> h,
     timestamp |-> 0, expires |-> PATH_EXPIRY, randomBlobs |-> <<b>>,
     state |-> "UNKNOWN"]

RouteInit ==
    /\ \/ route = NoRoute /\ accepted = [b \in Blobs |-> 0]
       \/ \E i \in Interfaces, b \in Blobs, h \in Hops :
            /\ route = DecodeRoute(i, b, h)
            /\ accepted = [x \in Blobs |-> IF x = b THEN 1 ELSE 0]
    /\ attached \in SUBSET Interfaces
    /\ now = 0

(* _handleAnnounce hands a validated announce to the table *)
RouteAnnounced(b, h, i) ==
    LET e == [randomBlob |-> b, hops |-> h, viaInterface |-> i]
        found == getRoute(route, now, attached)   \* hasRoute, before ingestion
    IN  /\ i \in attached
        /\ route' = addOrUpdateRoute(found, e, now)
        /\ accepted' = IF shouldAdd(found, e, now) /\ accepted[b] < 2
                       THEN [accepted EXCEPT ![b] = @ + 1] ELSE accepted
        /\ UNCHANGED <<attached, now>>

(* markPathResponsive, markPathUnresponsive, markPathUnknown *)
MarkState(s) ==
    /\ route' = markState(route, s)
    /\ UNCHANGED <<attached, now, accepted>>

(* expirePath: a failed link, or a send that found the path unusable *)
ExpireRoute ==
    /\ route' = expireRoute(route)
    /\ UNCHANGED <<attached, now, accepted>>

(* setPathHops: the link handshake revealed the real length *)
SetHops(h) ==
    /\ route' = setHops(route, h)
    /\ UNCHANGED <<attached, now, accepted>>

(* sendPacket looks the route up and refreshes its time of last use *)
Use ==
    LET found == getRoute(route, now, attached)
    IN  /\ route' = IF found = NoRoute THEN found
                    ELSE [found EXCEPT !.timestamp = now]
        /\ UNCHANGED <<attached, now, accepted>>

(* hasPath, hopsTo, nextHop: a lookup only *)
Lookup ==
    /\ route' = getRoute(route, now, attached)
    /\ UNCHANGED <<attached, now, accepted>>

AddInterface(i) ==
    /\ i \notin attached
    /\ attached' = attached \cup {i}
    /\ UNCHANGED <<route, now, accepted>>

RemoveInterface(i) ==
    /\ i \in attached
    /\ attached' = attached \ {i}
    /\ route' = dropInterface(route, i)
    /\ UNCHANGED <<now, accepted>>

Tick ==
    /\ now < MaxNow
    /\ now' = now + 1
    /\ UNCHANGED <<route, attached, accepted>>

RouteNext ==
    \/ \E b \in Blobs, h \in Hops, i \in Interfaces : RouteAnnounced(b, h, i)
    \/ \E s \in PathState : MarkState(s)
    \/ ExpireRoute
    \/ \E h \in Hops : SetHops(h)
    \/ Use
    \/ Lookup
    \/ \E i \in Interfaces : AddInterface(i) \/ RemoveInterface(i)
    \/ Tick

RouteSpec == RouteInit /\ [][RouteNext]_routeVars

-----------------------------------------------------------------------------
(* Properties.                                                             *)

Replaced == route # NoRoute /\ route' # NoRoute

(* addOrUpdateRoute: as long as an entry stays in the table and still      *)
(* outranks longer paths, the newest emission time it was built from never *)
(* goes back, whatever announces arrive, out of order, repeated or on      *)
(* another interface, and whichever blobs MAX_RANDOM_BLOBS makes it forget. *)
NeverOlder ==
    [][Replaced /\ now < route.expires =>
          timebaseFromBlobs(route') >= timebaseFromBlobs(route)]_routeVars

(* addOrUpdateRoute: the path in use is never abandoned for a longer one    *)
(* built from the same or an older announce while it is neither expired nor *)
(* marked unresponsive (setHops only corrects the length of the same path). *)
DetoursAreEarned ==
    [][Replaced
       /\ route'.hops > route.hops
       /\ route'.interface # route.interface
       /\ route.interface # NoInterface =>
          \/ route.state = "UNRESPONSIVE"
          \/ now >= route.expires
          \/ timebaseFromBlobs(route') > timebaseFromBlobs(route)]_routeVars

(* Announces only improve an entry: it never goes back to an older one and  *)
(* never takes a detour that was not earned.                                *)
RoutesImprove == NeverOlder /\ DetoursAreEarned

(* A route bound to an interface object is bound to an attached one: losing *)
(* an interface drops every route learned through it.                       *)
BoundToAttached ==
    route # NoRoute => route.interface \in attached \cup {NoInterface}

(* What router.js says of itself: "a seen `random_blob` is never accepted   *)
(* twice (anti-replay / anti-loop)".                                        *)
NeverAcceptedTwice == \A b \in Blobs : accepted[b] <= 1
=============================================================================
