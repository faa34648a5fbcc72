------------------------------ MODULE PathTable ------------------------------
(***************************************************************************)
(* The rules of RoutingTable (packages/core/src/transport/router.js) as     *)
(* operators on one entry of the path table.  Entries of different          *)
(* destinations never influence each other, so one destination is modelled. *)
(*                                                                          *)
(* An entry records the interface the destination was announced through     *)
(* (NoInterface for an entry read back from storage until it is             *)
(* re-associated by name), the hop count, the time of its last use, the     *)
(* time it stops outranking longer paths, the random_blobs of the announces *)
(* it was built from and its liveness state.  The next hop's address is     *)
(* data: it is only copied into the header of an outgoing packet.           *)
(***************************************************************************)
EXTENDS Integers, Sequences, FiniteSets, FiniteSetsExt

CONSTANTS
    Interfaces,        \* every interface the node may ever attach
    NoInterface,       \* JavaScript's null
    NoRoute,           \* no entry in the table
    Blobs,             \* announce random_blobs
    Emission,          \* the uint40 emission time embedded in each blob
    Gravity,           \* an interface's gravity, NoGravity when not configured
    MaxHops,           \* bound: longest announced path
    MAX_RANDOM_BLOBS,  \* 64 in the code
    PATH_EXPIRY        \* one week in the code (PATH_EXPIRY_MS)

ASSUME PathTableAssumption ==
    /\ NoInterface \notin Interfaces
    /\ Emission \in [Blobs -> Nat]
    /\ Gravity \in [Interfaces -> Int]
    /\ MaxHops \in Nat \ {0}
    /\ MAX_RANDOM_BLOBS \in Nat \ {0}
    /\ PATH_EXPIRY \in Nat \ {0}

PathState == {"UNKNOWN", "UNRESPONSIVE", "RESPONSIVE"}

Hops == 1..MaxHops

Route == [interface     : Interfaces \cup {NoInterface},
          interfaceName : Interfaces \cup {NoInterface},
          hops          : Hops,
          timestamp     : Nat,
          expires       : Nat,
          randomBlobs   : Seq(Blobs),
          state         : PathState]

ASSUME NoRouteAssumption == NoRoute \notin Route

NoGravity == -1

(* gravity is null without an interface or without a configured value *)
gravityOf(i) == IF i = NoInterface THEN NoGravity ELSE Gravity[i]

blobsOf(r) == {r.randomBlobs[k] : k \in DOMAIN r.randomBlobs}

(* the most recent emission time across the recorded blobs *)
timebaseFromBlobs(r) == Max({0} \cup {Emission[b] : b \in blobsOf(r)})

-----------------------------------------------------------------------------
(* addOrUpdateRoute: the four grounds on which a known path is replaced.   *)

(* mutant: the shorter path wins even when its announce is older *)
FresherOrShorter(r, e) ==
    \/ Emission[e.randomBlob] > timebaseFromBlobs(r)
    \/ e.hops < r.hops /\ e.randomBlob \notin blobsOf(r)

Fresher(r, e) == Emission[e.randomBlob] > timebaseFromBlobs(r)

(* the same announce, on an interface of higher gravity *)
Heavier(r, e) ==
    /\ e.hops <= r.hops
    /\ Emission[e.randomBlob] = timebaseFromBlobs(r)
    /\ gravityOf(r.interface) # NoGravity
    /\ gravityOf(e.viaInterface) > gravityOf(r.interface)

(* a longer path replaces one whose ingestion expiry has passed *)
Outlived(r, e, t) ==
    /\ e.hops > r.hops
    /\ t >= r.expires
    /\ e.randomBlob \notin blobsOf(r)

(* mutant: the gate is open whatever the liveness state *)
AlternativeAlways(r, e, t) ==
    /\ e.hops > r.hops
    /\ t < r.expires
    /\ Emission[e.randomBlob] = timebaseFromBlobs(r)

(* the path_is_unresponsive gate: the same announce over a longer path *)
Alternative(r, e, t) ==
    /\ e.hops > r.hops
    /\ t < r.expires
    /\ Emission[e.randomBlob] = timebaseFromBlobs(r)
    /\ r.state = "UNRESPONSIVE"

shouldAdd(r, e, t) ==
    \/ r = NoRoute
    \/ Fresher(r, e)
    \/ Heavier(r, e)
    \/ Outlived(r, e, t)
    \/ Alternative(r, e, t)

(* recorded once, the oldest dropped beyond MAX_RANDOM_BLOBS *)
recordBlob(blobs, b) ==
    LET longer == Append(blobs, b)
    IN  IF \E k \in DOMAIN blobs : blobs[k] = b THEN blobs
        ELSE IF Len(longer) > MAX_RANDOM_BLOBS THEN Tail(longer)
        ELSE longer

(* an entry built from announce e at time t; r is the entry it replaces *)
newRoute(r, e, t) ==
    [interface     |-> e.viaInterface,
     interfaceName |-> e.viaInterface,
     hops          |-> e.hops,
     timestamp     |-> t,
     expires       |-> t + PATH_EXPIRY,
     randomBlobs   |-> recordBlob(IF r = NoRoute THEN << >> ELSE r.randomBlobs,
                                  e.randomBlob),
     state         |-> IF r # NoRoute /\ (Heavier(r, e) \/ Alternative(r, e, t))
                       THEN r.state ELSE "UNKNOWN"]

addOrUpdateRoute(r, e, t) == IF shouldAdd(r, e, t) THEN newRoute(r, e, t) ELSE r

-----------------------------------------------------------------------------
(* The other operations on an entry.                                       *)

markState(r, s) == IF r = NoRoute THEN r ELSE [r EXCEPT !.state = s]

setHops(r, h) == IF r = NoRoute THEN r ELSE [r EXCEPT !.hops = h]

expireRoute(r) == NoRoute

(* a lookup culls an entry unused for PATH_EXPIRY, and re-associates one   *)
(* read back from storage with the attached interface of its name          *)
getRoute(r, t, attached) ==
    IF r = NoRoute \/ t >= r.timestamp + PATH_EXPIRY THEN NoRoute
    ELSE IF r.interface = NoInterface /\ r.interfaceName \in attached
    THEN [r EXCEPT !.interface = r.interfaceName]
    ELSE r

(* mutant: the loss of an interface only marks its routes *)
dropInterfaceMarking(r, i) ==
    IF r # NoRoute /\ r.interface = i THEN markState(r, "UNRESPONSIVE") ELSE r

(* an entry that was not re-associated has interface null, so it survives *)
dropInterface(r, i) ==
    IF r # NoRoute /\ r.interface = i THEN NoRoute ELSE r
=============================================================================
