-------------------------- MODULE AnnounceControl --------------------------
(***************************************************************************)
(* Ingress control of announces on one interface: a burst latches, announces *)
(* of unknown destinations are held while it lasts, and the transport's      *)
(* maintenance sweep gives them back one at a time.  Times are ages in ticks, *)
(* capped where no comparison can tell them apart any more.                   *)
(***************************************************************************)
EXTENDS Naturals, Sequences, FiniteSets

CONSTANTS
    Dests, Hops,      \* destinations and hop counts of arriving announces
    MaxArrivals,      \* bound: announces that arrive
    FreqSamples,      \* FREQ_SAMPLES
    MinSample,        \* IC_DEQUE_MIN_SAMPLE
    BurstFreq,        \* icBurstFreq, announces per tick
    BurstHold,        \* icBurstHold
    BurstPenalty,     \* icBurstPenalty
    ReleaseInterval,  \* icHeldReleaseInterval
    MaxHeld,          \* icMaxHeldAnnounces
    FreqDecay,        \* arFreqDecay
    MaxHops           \* PATHFINDER_M - 1

ASSUME AnnounceAssumption == IsFiniteSet(Dests) /\ Hops \subseteq Nat /\ {MaxHeld, MaxHops} \subseteq Nat

VARIABLES
    acDeque,     \* iaFreqDeque: ages of the samples, oldest first
    acBurst,     \* icBurstActive
    acLatched,   \* age of icBurstActivated
    acRelease,   \* ticks until icHeldRelease
    acHeld,      \* heldAnnounces: destination -> hops of the announce held, or NotHeld
    acInjected,  \* the announces the sweep has released and re-injects: set of [dest, hops]
    acKnown,     \* destinations with a route
    acWanted,    \* inflightPathRequests
    acSweep,     \* the sweep timer is set
    acDropped,   \* history: destinations an announce of which was dropped
    acArrivals

announceVars == <<acDeque, acBurst, acLatched, acRelease, acHeld, acInjected, acKnown, acWanted, acSweep, acDropped, acArrivals>>

NotHeld == MaxHops + 1
Cap(cap, n) == IF n < cap THEN n ELSE cap
MaxAge == FreqSamples + FreqDecay + 1

AnnounceInit ==
    /\ acDeque = << >> /\ acBurst = FALSE /\ acLatched = 0 /\ acRelease = 0
    /\ acHeld = [d \in Dests |-> NotHeld] /\ acInjected = {} /\ acKnown = {} /\ acWanted = {}
    /\ acSweep = FALSE /\ acDropped = {} /\ acArrivals = 0
-----------------------------------------------------------------------------
\* frequencyOverWindow: samples over the age of the oldest; zero for too few samples or no
\* time.  Reading the frequency drops an oldest sample that has decayed.
Counts(deque) == Len(deque) > MinSample /\ Head(deque) > 0
Below(deque)  == Counts(deque) => Len(deque) < BurstFreq * Head(deque)
Above(deque)  == Counts(deque) /\ Len(deque) > BurstFreq * Head(deque)
Decayed(deque) == IF Len(deque) > MinSample /\ Head(deque) > FreqDecay THEN Tail(deque) ELSE deque

\* receivedAnnounce.
Received(deque) == LET grown == Append(deque, 0)
                   IN  IF Len(grown) > FreqSamples THEN Tail(grown) ELSE grown

\* Mutant: a full set makes room for the announce that comes last.
HoldAnnounceEvicts(d, h) ==
    IF h >= MaxHops THEN acDropped' = acDropped \cup {d} /\ UNCHANGED acHeld
    ELSE /\ UNCHANGED acDropped
         /\ acHeld' = IF acHeld[d] = NotHeld /\ Cardinality({x \in Dests : acHeld[x] # NotHeld}) >= MaxHeld
                      THEN [x \in Dests |-> IF x = d THEN h ELSE NotHeld] ELSE [acHeld EXCEPT ![d] = h]

\* holdAnnounce.
HoldAnnounce(d, h) ==
    IF h >= MaxHops \/ (acHeld[d] = NotHeld /\ Cardinality({x \in Dests : acHeld[x] # NotHeld}) >= MaxHeld)
    THEN acDropped' = acDropped \cup {d} /\ UNCHANGED acHeld
    ELSE acHeld' = [acHeld EXCEPT ![d] = h] /\ UNCHANGED acDropped

\* shouldIngressLimit on the deque that counts this announce: the verdict, and the latch.  The call
\* that finds the burst over unlatches it and still limits.
ShouldIngressLimit(deque) == acBurst \/ Above(deque)
Latch(deque) ==
    /\ acBurst' = IF acBurst THEN ~(Below(deque) /\ acLatched > BurstHold /\ Len(Decayed(deque)) >= MinSample)
                  ELSE Above(deque)
    /\ acLatched' = IF ~acBurst /\ Above(deque) THEN 0 ELSE acLatched
    /\ acRelease' = IF ~acBurst /\ Above(deque) THEN BurstPenalty + 1 ELSE acRelease

\* _handleAnnounce on a valid announce: only one for a destination without a route that
\* nobody asked for is subject to the limit.
HandleAnnounce(d, h) ==
    LET deque == Received(acDeque)
    IN  IF d \in acKnown \cup acWanted
        THEN /\ acDeque' = deque /\ acKnown' = acKnown \cup {d}
             /\ UNCHANGED <<acBurst, acLatched, acRelease, acHeld, acDropped, acSweep>>
        ELSE /\ Latch(deque) /\ acDeque' = Decayed(deque)
             /\ IF ShouldIngressLimit(deque)
                THEN HoldAnnounce(d, h) /\ acSweep' = TRUE /\ UNCHANGED acKnown
                ELSE acKnown' = acKnown \cup {d} /\ UNCHANGED <<acHeld, acDropped, acSweep>>

\* _routeIncomingPacket counts the hop to this node.
AnnounceArrives(d, h) ==
    /\ acArrivals < MaxArrivals /\ acArrivals' = acArrivals + 1
    /\ HandleAnnounce(d, h + 1)
    /\ UNCHANGED <<acInjected, acWanted>>

\* requestPath(d): the answer may not be held back.
RequestPath(d) ==
    /\ d \notin acWanted \cup acKnown /\ acArrivals < MaxArrivals
    /\ acWanted' = acWanted \cup {d} /\ acSweep' = TRUE
    /\ UNCHANGED <<acDeque, acBurst, acLatched, acRelease, acHeld, acInjected, acKnown, acDropped, acArrivals>>

\* Mutant: nothing is released before an announce has unlatched the burst.
NearestUnlatched == {d \in Dests : ~acBurst /\ acHeld[d] # NotHeld /\ \A x \in Dests : acHeld[d] <= acHeld[x]}

Nearest == {d \in Dests : acHeld[d] # NotHeld /\ \A x \in Dests : acHeld[d] <= acHeld[x]}

\* _sweepTick, up to the await: processHeldAnnounces releases a nearest held announce when
\* the penalty is over and the frequency is back below the threshold.
SweepReleases == \E d \in Nearest :
    /\ acSweep /\ acRelease = 0 /\ Below(acDeque) /\ acInjected = {}
    /\ acRelease' = ReleaseInterval + 1 /\ acDeque' = Decayed(acDeque)
    /\ acHeld' = [acHeld EXCEPT ![d] = NotHeld] /\ acInjected' = {[dest |-> d, hops |-> acHeld[d]]}
    /\ UNCHANGED <<acBurst, acLatched, acKnown, acWanted, acSweep, acDropped, acArrivals>>

\* The released announce goes through the whole pipeline again, its hop count included.
Reinject == \E a \in acInjected :
    /\ acInjected' = {} /\ HandleAnnounce(a.dest, a.hops + 1)
    /\ UNCHANGED <<acWanted, acArrivals>>

\* Mutant: the sweep stops when no path request is open.
SweepEndsEarly ==
    /\ acSweep /\ acInjected = {}
    /\ acWanted' = {} /\ acSweep' = FALSE
    /\ UNCHANGED <<acDeque, acBurst, acLatched, acRelease, acHeld, acInjected, acKnown, acDropped, acArrivals>>

\* The end of a tick: path requests past their gate timeout are forgotten, and the timer stops
\* when nothing is held and none is open.
SweepEnds == \E gone \in SUBSET acWanted :
    /\ acSweep /\ acInjected = {} /\ acWanted' = acWanted \ gone
    /\ acSweep' = (acWanted' # {} \/ \E d \in Dests : acHeld[d] # NotHeld)
    /\ UNCHANGED <<acDeque, acBurst, acLatched, acRelease, acHeld, acInjected, acKnown, acDropped, acArrivals>>

Tick ==
    /\ acDeque' = [i \in DOMAIN acDeque |-> Cap(MaxAge, acDeque[i] + 1)]
    /\ acLatched' = Cap(BurstHold + 1, acLatched + 1)
    /\ acRelease' = IF acRelease = 0 THEN 0 ELSE acRelease - 1
    /\ UNCHANGED <<acBurst, acHeld, acInjected, acKnown, acWanted, acSweep, acDropped, acArrivals>>

AnnounceNext ==
    \/ \E d \in Dests, h \in Hops : AnnounceArrives(d, h)
    \/ \E d \in Dests : RequestPath(d)
    \/ SweepReleases \/ Reinject \/ SweepEnds \/ Tick
-----------------------------------------------------------------------------
\* Once the flood is over every held announce comes through: its destination gets a route,
\* unless an announce of it was dropped for its hop count or for want of room.
HeldComesThrough == \A d \in Dests :
    (acHeld[d] # NotHeld) ~> (d \in acKnown \cup acDropped)

HeldNow == {d \in Dests : acHeld[d] # NotHeld}
Remembered == acKnown \cup acDropped \cup HeldNow \cup {a.dest : a \in acInjected}

\* A flood takes nothing away: a destination whose announce was heard has a route, is held, is
\* on its way through the pipeline again or was turned away by holdAnnounce, for its hops or
\* the limit, and never less; the sweep that brings held announces back runs as long as there
\* are any, and the limit on them holds (holdAnnounce, processHeldAnnounces, _sweepTick).
HeldIsKept ==
    /\ [](acSweep \/ (HeldNow = {} /\ acInjected = {})) /\ [](Cardinality(HeldNow) <= MaxHeld)
    /\ [][Remembered \subseteq Remembered']_announceVars
=============================================================================
