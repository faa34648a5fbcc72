--------------------------- MODULE PacketFilter ---------------------------
(***************************************************************************)
(* What keeps the transport from handling a packet twice: the two           *)
(* generations of the packet hash list, the tags of the path requests seen,  *)
(* and the ingress limit on path requests.  Every packet here is a path      *)
(* request for a local destination; relays deliver it any number of times.   *)
(***************************************************************************)
EXTENDS Naturals, Sequences, FiniteSets

CONSTANTS
    Packets,        \* packets, each with a hash of its own
    TagOf,          \* packet -> tag of the path request it carries
    HashlistMax,    \* hashlistMaxsize
    MaxPrTags,      \* maxPrTags
    PrBurstFreq,    \* icPrBurstFreq, requests per tick
    PrBurstHold,    \* icBurstHold
    PrCooldown,     \* IC_PR_BURST_COOLDOWN_SECS
    PrSamples,      \* FREQ_SAMPLES
    PrMinSample,    \* IC_DEQUE_MIN_SAMPLE
    PrDecay         \* prFreqDecay

ASSUME HashlistAssumption == HashlistMax \in Nat

VARIABLES
    pfCurrent, pfPrev,  \* packetHashlist, packetHashlistPrev
    pfSince,            \* history: packet -> fresh hashes since it was let through, or Never
    pfTooSoon,          \* history: packets let through again although remembered hashes were few
    pfTags,             \* discoveryPrTags, oldest first
    pfDeque,            \* ipFreqDeque: ages, oldest first
    pfBurst, pfLatched, \* icPrBurstActive, the age of icPrBurstActivated
    pfCooldown,         \* icPrBurstCooldown
    pfAnswered          \* history: tags answered and still remembered

filterVars == <<pfCurrent, pfPrev, pfSince, pfTooSoon, pfTags, pfDeque, pfBurst, pfLatched, pfCooldown, pfAnswered>>

Never == HashlistMax + 2
PrMaxAge == PrSamples + PrDecay + 1
Least(m, n) == IF m < n THEN m ELSE n

FilterInit ==
    /\ pfCurrent = {} /\ pfPrev = {} /\ pfSince = [p \in Packets |-> Never] /\ pfTooSoon = {} /\ pfTags = << >>
    /\ pfDeque = << >> /\ pfBurst = FALSE /\ pfLatched = 0 /\ pfCooldown = 0 /\ pfAnswered = {}
-----------------------------------------------------------------------------
\* Mutant: a full list is emptied instead of becoming the previous one.
RememberEmptied(p) ==
    LET grown == pfCurrent \cup {p}
    IN  /\ pfCurrent' = IF 2 * Cardinality(grown) > HashlistMax THEN {} ELSE grown
        /\ UNCHANGED pfPrev

\* _isDuplicate, the hash being fresh: past half the maximum the current list becomes the
\* previous one.
RememberHash(p) ==
    LET grown == pfCurrent \cup {p}
    IN  IF 2 * Cardinality(grown) > HashlistMax
        THEN pfPrev' = grown /\ pfCurrent' = {}
        ELSE pfCurrent' = grown /\ UNCHANGED pfPrev

\* frequencyOverWindow on the path request samples.
PrCounts(deque) == Len(deque) > PrMinSample /\ Head(deque) > 0
PrBelow(deque)  == PrCounts(deque) => Len(deque) < PrBurstFreq * Head(deque)
PrAbove(deque)  == PrCounts(deque) /\ Len(deque) > PrBurstFreq * Head(deque)
PrDecayed(deque) == IF Len(deque) > PrMinSample /\ Head(deque) > PrDecay THEN Tail(deque) ELSE deque
PrReceived(deque) == LET grown == Append(deque, 0) IN IF Len(grown) > PrSamples THEN Tail(grown) ELSE grown

\* shouldIngressLimitPr: a burst ends when the calls of a whole cool-down were all quiet.
ShouldIngressLimitPr(deque) == pfBurst \/ PrAbove(deque)
LatchPr(deque) ==
    LET quiet == PrBelow(deque) /\ pfLatched > PrBurstHold
    IN  /\ pfDeque' = PrDecayed(deque)
        /\ pfBurst' = IF pfBurst THEN ~(quiet /\ pfCooldown = 0) ELSE PrAbove(deque)
        /\ pfLatched' = IF ~pfBurst /\ PrAbove(deque) THEN 0 ELSE pfLatched
        /\ pfCooldown' = IF pfBurst THEN (IF ~quiet THEN PrCooldown ELSE IF pfCooldown = 0 THEN 0 ELSE pfCooldown - 1)
                         ELSE IF PrAbove(deque) THEN PrCooldown ELSE pfCooldown

TagSeen(t) == \E i \in DOMAIN pfTags : pfTags[i] = t

\* The tag is remembered before the limit is asked; the oldest ones make room.
RememberTag(t) ==
    LET grown == Append(pfTags, t)
    IN  pfTags' = SubSeq(grown, 1 + Len(grown) - Least(Len(grown), MaxPrTags), Len(grown))

\* _handlePathRequest.  A local destination answers with an announce (Destination).
HandlePathRequest(p) ==
    LET t == TagOf[p]  deque == PrReceived(pfDeque)
    IN  IF TagSeen(t)
        THEN pfDeque' = deque /\ UNCHANGED <<pfTags, pfBurst, pfLatched, pfCooldown, pfAnswered>>
        ELSE /\ RememberTag(t) /\ LatchPr(deque)
             /\ pfAnswered' = {u \in pfAnswered : \E i \in DOMAIN pfTags' : pfTags'[i] = u}
                              \cup (IF ShouldIngressLimitPr(deque) THEN {} ELSE {t})

\* _routeIncomingPacket on a path request.
PacketArrives(p) ==
    IF p \in pfCurrent \cup pfPrev
    THEN UNCHANGED filterVars
    ELSE /\ RememberHash(p) /\ HandlePathRequest(p)
         /\ pfSince' = [q \in Packets |-> IF q = p THEN 0 ELSE IF pfSince[q] = Never THEN Never
                                          ELSE Least(pfSince[q] + 1, HashlistMax + 1)]
         /\ pfTooSoon' = IF pfSince[p] # Never /\ 2 * pfSince[p] <= HashlistMax THEN pfTooSoon \cup {p} ELSE pfTooSoon

PrTick ==
    /\ pfDeque' = [i \in DOMAIN pfDeque |-> Least(PrMaxAge, pfDeque[i] + 1)]
    /\ pfLatched' = Least(PrBurstHold + 1, pfLatched + 1)
    /\ UNCHANGED <<pfCurrent, pfPrev, pfSince, pfTooSoon, pfTags, pfBurst, pfCooldown, pfAnswered>>

FilterNext == (\E p \in Packets : PacketArrives(p)) \/ PrTick
-----------------------------------------------------------------------------
\* A packet is let through a second time only after more than half the list's maximum of
\* other fresh packets, however its copies and the rotations of the list interleave; and the
\* list never holds more hashes than that maximum and the one that turns it over.
RememberedLongEnough ==
    /\ pfTooSoon = {}
    /\ Cardinality(pfCurrent \cup pfPrev) <= HashlistMax + 1
=============================================================================
