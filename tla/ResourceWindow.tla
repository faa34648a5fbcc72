--------------------------- MODULE ResourceWindow ---------------------------
(***************************************************************************)
(* The receiver's request window of the Resource transfers of one Link      *)
(* (packages/core/src/core/resource.js): growth when a window drains, the   *)
(* rate classes that move its ceiling, shrinking on a stall, and the window *)
(* a link hands from a finished transfer to its next one.                   *)
(*                                                                          *)
(* A rate is its class.  How often the watchdog may report a stall is not   *)
(* limited here (module Resource has the retry budget).                     *)
(***************************************************************************)
EXTENDS Integers

CONSTANTS
    WINDOW, WINDOW_MIN, WINDOW_MAX_SLOW, WINDOW_MAX_VERY_SLOW, WINDOW_MAX_FAST,
    WINDOW_FLEXIBILITY, FAST_RATE_THRESHOLD, VERY_SLOW_RATE_THRESHOLD

ASSUME WindowAssumption ==
    /\ {WINDOW, WINDOW_MIN, WINDOW_MAX_SLOW, WINDOW_MAX_VERY_SLOW, WINDOW_MAX_FAST,
        WINDOW_FLEXIBILITY, FAST_RATE_THRESHOLD, VERY_SLOW_RATE_THRESHOLD}
          \subseteq Nat \ {0}
    /\ WINDOW_MIN <= WINDOW /\ WINDOW <= WINDOW_MAX_FAST
    /\ WINDOW_MIN <= WINDOW_MAX_SLOW /\ WINDOW_MAX_SLOW <= WINDOW_MAX_FAST
    /\ WINDOW_MAX_VERY_SLOW <= WINDOW_MAX_FAST

VARIABLES
    window, windowMin, windowMax,
    fastRateRounds, verySlowRateRounds,
    lastResourceWindow, \* the link's, 0 for none
    streak              \* history: length of the current run of fast windows

windowVars == <<window, windowMin, windowMax, fastRateRounds, verySlowRateRounds,
          lastResourceWindow, streak>>

Rates == {"fast", "medium", "verySlow"}

\* The fields of a new transfer but its window.
Fresh ==
    /\ windowMin' = WINDOW_MIN /\ windowMax' = WINDOW_MAX_SLOW
    /\ fastRateRounds' = 0 /\ verySlowRateRounds' = 0 /\ streak' = 0

WindowInit ==
    /\ window = WINDOW /\ windowMin = WINDOW_MIN /\ windowMax = WINDOW_MAX_SLOW
    /\ fastRateRounds = 0 /\ verySlowRateRounds = 0 /\ streak = 0
    /\ lastResourceWindow = 0

\* _onWindowDrained: one step towards the ceiling; the floor follows at a
\* distance.
Grow ==
    IF window < windowMax
    THEN /\ window' = window + 1
         /\ windowMin' = IF window + 1 - windowMin > WINDOW_FLEXIBILITY - 1
                         THEN windowMin + 1 ELSE windowMin
    ELSE UNCHANGED <<window, windowMin>>

Drained(rate) ==
    /\ Grow
    /\ IF rate = "fast" /\ fastRateRounds < FAST_RATE_THRESHOLD
       THEN /\ fastRateRounds' = fastRateRounds + 1
            /\ windowMax' = IF fastRateRounds + 1 = FAST_RATE_THRESHOLD
                            THEN WINDOW_MAX_FAST ELSE windowMax
            /\ UNCHANGED verySlowRateRounds
       ELSE IF /\ rate = "verySlow" /\ fastRateRounds = 0
               /\ verySlowRateRounds < VERY_SLOW_RATE_THRESHOLD
       THEN /\ verySlowRateRounds' = verySlowRateRounds + 1
            /\ windowMax' = IF verySlowRateRounds + 1 = VERY_SLOW_RATE_THRESHOLD
                            THEN WINDOW_MAX_VERY_SLOW ELSE windowMax
            /\ UNCHANGED fastRateRounds
       ELSE UNCHANGED <<windowMax, fastRateRounds, verySlowRateRounds>>
    /\ streak' = IF rate # "fast" THEN 0
                 ELSE IF streak < FAST_RATE_THRESHOLD THEN streak + 1 ELSE streak
    /\ UNCHANGED lastResourceWindow

\* Mutant: the floor is not looked at.
StalledBelowFloor ==
    /\ window' = window - 1
    /\ UNCHANGED <<windowMin, windowMax, fastRateRounds, verySlowRateRounds,
                   lastResourceWindow, streak>>

\* _watchdogTick's stall path; at the floor it changes nothing.
Stalled ==
    /\ window > windowMin
    /\ window' = window - 1
    /\ windowMax' = IF windowMax <= windowMin THEN windowMax
                    ELSE IF windowMax - 1 - (window - 1) > WINDOW_FLEXIBILITY - 1
                    THEN windowMax - 2 ELSE windowMax - 1
    /\ UNCHANGED <<windowMin, fastRateRounds, verySlowRateRounds,
                   lastResourceWindow, streak>>

\* assemble() remembers the window, accept() starts the next transfer from it.
CompleteAndAccept ==
    /\ lastResourceWindow' = window
    /\ window' = window
    /\ Fresh

\* The transfer fails: the next one starts from what the link remembers.
FailAndAccept ==
    /\ window' = IF lastResourceWindow # 0 THEN lastResourceWindow ELSE WINDOW
    /\ Fresh
    /\ UNCHANGED lastResourceWindow

WindowNext == (\E rate \in Rates : Drained(rate)) \/ Stalled
        \/ CompleteAndAccept \/ FailAndAccept

WindowSpec == WindowInit /\ [][WindowNext]_windowVars

-----------------------------------------------------------------------------
\* The request window never falls below its floor or exceeds the fast ceiling,
\* over any sequence of transfers: requestNext never asks for nothing.
WindowBounds ==
    /\ WINDOW_MIN <= windowMin /\ windowMin <= window
    /\ window <= WINDOW_MAX_FAST

\* Unless the link was found very slow, the ceiling stays at or above the
\* floor, so a drained window below its ceiling can always grow again.
CeilingAboveFloor ==
    verySlowRateRounds < VERY_SLOW_RATE_THRESHOLD => windowMin <= windowMax

\* "very slow links are pinned to the small window" (resource.js,
\* _onWindowDrained).
VerySlowIsPinned ==
    verySlowRateRounds = VERY_SLOW_RATE_THRESHOLD /\ fastRateRounds = 0
        => window <= WINDOW_MAX_VERY_SLOW

\* "Consecutive fast windows before the ceiling escalates to fast"
\* (resource.js, FAST_RATE_THRESHOLD).
EscalationIsConsecutive ==
    [][(windowMax' = WINDOW_MAX_FAST /\ windowMax # WINDOW_MAX_FAST)
          => streak' = FAST_RATE_THRESHOLD]_windowVars
=============================================================================
