------------------------- MODULE PathSolicitation -------------------------
(***************************************************************************)
(* Callers that want the identity of one destination: they recall it, join   *)
(* a solicitation under way or start one, which asks for a path and waits    *)
(* for the announce; and callers of requestPathAuto, which spaces the path   *)
(* requests of one destination out.                                          *)
(***************************************************************************)
EXTENDS Naturals, FiniteSets

CONSTANTS
    Callers,      \* callers of recallOrSolicitIdentity
    Askers,       \* callers of requestPathAuto
    MaxCalls      \* bound: calls in all

VARIABLES
    soPc,         \* caller -> where it is
    soLeader,     \* caller -> the caller whose solicitation it joined or leads, or Nobody
    soInflight,   \* _inflightIdentitySolicitations: the leader, or Nobody
    soHeard,      \* leader -> "nothing", "announce" or "timeout"
    soKnown,      \* the identity is in knownDestinations
    soWronged,    \* history: callers told "unknown" although the identity was known in time
    soRecent,     \* pathRequests: a path request was sent within the minimum interval
    soRepeats,    \* history: path requests of requestPathAuto sent within it
    soAsking,     \* askers past the interval test and awaiting requestPath
    soCalls

solicitVars == <<soPc, soLeader, soInflight, soHeard, soKnown, soWronged, soRecent, soRepeats, soAsking, soCalls>>

Nobody == "nobody"
ASSUME CallersAssumption == Nobody \notin Callers
SolicitEnded == {"idle", "found", "unknown"}

SolicitInit ==
    /\ soPc = [c \in Callers |-> "idle"] /\ soLeader = [c \in Callers |-> Nobody] /\ soInflight = Nobody
    /\ soHeard = [c \in Callers |-> "nothing"] /\ soKnown = FALSE /\ soWronged = {}
    /\ soRecent = FALSE /\ soRepeats = 0 /\ soAsking = {} /\ soCalls = 0

askVars == <<soRepeats, soAsking>>
-----------------------------------------------------------------------------
\* recallOrSolicitIdentity, up to the await of recallIdentity.
Recall(c) ==
    /\ soPc[c] \in SolicitEnded /\ soCalls < MaxCalls /\ soCalls' = soCalls + 1
    /\ soPc' = [soPc EXCEPT ![c] = "recalling"] /\ soLeader' = [soLeader EXCEPT ![c] = Nobody]
    /\ UNCHANGED <<soInflight, soHeard, soKnown, soWronged, soRecent, askVars>>

\* It knows the identity, joins the solicitation under way, or starts one: the listener and
\* its timer are in place before requestPath is awaited.
JoinOrSolicit(c) ==
    /\ soPc[c] = "recalling"
    /\ IF soKnown THEN soPc' = [soPc EXCEPT ![c] = "found"] /\ UNCHANGED <<soLeader, soInflight, soHeard>>
       ELSE IF soInflight # Nobody
       THEN /\ soPc' = [soPc EXCEPT ![c] = "joined"] /\ soLeader' = [soLeader EXCEPT ![c] = soInflight]
            /\ UNCHANGED <<soInflight, soHeard>>
       ELSE /\ soPc' = [soPc EXCEPT ![c] = "asking"] /\ soLeader' = [soLeader EXCEPT ![c] = c]
            /\ soInflight' = c /\ soHeard' = [soHeard EXCEPT ![c] = "nothing"]
    /\ UNCHANGED <<soKnown, soWronged, soRecent, askVars, soCalls>>

\* requestPath has sent its request, or failed, which is ignored.
PathRequested(c) ==
    /\ soPc[c] = "asking" /\ soPc' = [soPc EXCEPT ![c] = "waiting"] /\ soRecent' \in {TRUE, soRecent}
    /\ UNCHANGED <<soLeader, soInflight, soHeard, soKnown, soWronged, askVars, soCalls>>

\* An announce of the destination is ingested; every listener still waiting hears it.
AnnounceIngested ==
    /\ ~soKnown /\ soKnown' = TRUE
    /\ soHeard' = [c \in Callers |-> IF soPc[c] \in {"asking", "waiting"} /\ soHeard[c] = "nothing" THEN "announce" ELSE soHeard[c]]
    /\ UNCHANGED <<soPc, soLeader, soInflight, soWronged, soRecent, askVars, soCalls>>

SolicitTimeout(c) ==
    /\ soPc[c] \in {"asking", "waiting"} /\ soHeard[c] = "nothing"
    /\ soHeard' = [soHeard EXCEPT ![c] = "timeout"]
    /\ UNCHANGED <<soPc, soLeader, soInflight, soKnown, soWronged, soRecent, askVars, soCalls>>

\* Mutant: a timeout is final.
ConcludeFinal(c) == IF soHeard[c] = "announce" THEN "found" ELSE "unknown"

\* After a timeout the identity is recalled once more.
Conclude(c) == IF soHeard[c] = "announce" \/ soKnown THEN "found" ELSE "unknown"

\* The promise settles: everyone who joined it settles alike, with the leader.
SolicitationSettled(c) ==
    /\ soPc[c] = "waiting" /\ soHeard[c] # "nothing"
    /\ LET end == Conclude(c)
           all == {x \in Callers : soPc[x] = "joined" /\ soLeader[x] = c}
       IN  /\ soPc' = [x \in Callers |-> IF x \in all THEN end ELSE IF x = c THEN "settled" ELSE soPc[x]]
           /\ soHeard' = [soHeard EXCEPT ![c] = IF end = "found" THEN "announce" ELSE "timeout"]
           /\ soWronged' = IF end = "unknown" /\ soKnown THEN soWronged \cup all \cup {c} ELSE soWronged
    /\ UNCHANGED <<soLeader, soInflight, soKnown, soRecent, askVars, soCalls>>

\* The finally clause.
Forget(c) == soInflight' = Nobody

\* The leader goes on after its await.  A caller that joined in between finds the promise
\* settled and ends as it did.
LeaderEnds(c) ==
    /\ soPc[c] = "settled"
    /\ LET end == IF soHeard[c] = "announce" THEN "found" ELSE "unknown"
       IN  soPc' = [x \in Callers |-> IF x = c \/ (soPc[x] = "joined" /\ soLeader[x] = c) THEN end ELSE soPc[x]]
    /\ Forget(c)
    /\ UNCHANGED <<soLeader, soHeard, soKnown, soWronged, soRecent, askVars, soCalls>>
-----------------------------------------------------------------------------
\* requestPathAuto: without a usable path, and outside the minimum interval, it awaits
\* requestPath...
RequestPathAuto(a) ==
    /\ a \notin soAsking /\ ~soKnown /\ ~soRecent /\ soCalls < MaxCalls
    /\ soCalls' = soCalls + 1 /\ soAsking' = soAsking \cup {a}
    /\ UNCHANGED <<soPc, soLeader, soInflight, soHeard, soKnown, soWronged, soRecent, soRepeats>>

\* ...which notes the time only when it has sent.
AutoRequested(a) ==
    /\ a \in soAsking /\ soAsking' = soAsking \ {a}
    /\ soRecent' = TRUE /\ soRepeats' = IF soRecent THEN soRepeats + 1 ELSE soRepeats
    /\ UNCHANGED <<soPc, soLeader, soInflight, soHeard, soKnown, soWronged, soCalls>>

MinIntervalPasses ==
    /\ soRecent /\ soRecent' = FALSE
    /\ UNCHANGED <<soPc, soLeader, soInflight, soHeard, soKnown, soWronged, askVars, soCalls>>

SolicitNext ==
    \/ \E c \in Callers : \/ Recall(c) \/ JoinOrSolicit(c) \/ PathRequested(c) \/ SolicitTimeout(c)
                          \/ SolicitationSettled(c) \/ LeaderEnds(c)
    \/ AnnounceIngested \/ MinIntervalPasses
    \/ \E a \in Askers : RequestPathAuto(a) \/ AutoRequested(a)
-----------------------------------------------------------------------------
\* No caller is told that the identity is unknown when it was known by the time its
\* solicitation gave up, and an entry of _inflightIdentitySolicitations always belongs to a
\* solicitation that will still settle: a later caller never joins a dead one.
SolicitationsAreHonest ==
    /\ soWronged = {}
    /\ soInflight # Nobody => soPc[soInflight] \in {"asking", "waiting", "settled"}
    /\ \A c \in Callers : soPc[c] = "joined" => soPc[soLeader[c]] \in {"asking", "waiting", "settled"}

\* requestPathAuto's promise that automatic requests of one destination are spaced out.
RequestsAreSpaced == soRepeats = 0
=============================================================================
