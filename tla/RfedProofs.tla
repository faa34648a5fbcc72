----------------------------- MODULE RfedProofs -----------------------------
(***************************************************************************)
(* Proofs about rfed: the backup pairs of a node, and then its fan-out and   *)
(* deferred queues, the client that subscribes and publishes, and the runner *)
(* that saves and loads the stores, and federation sync. They share no       *)
(* variable, so each has an inductive invariant of its own.                 *)
(***************************************************************************)
EXTENDS RfedBackup, RfedNode, RfedSync, FiniteSetTheorems, SequenceTheorems, TLAPS

-----------------------------------------------------------------------------
\* rfed backup pairs.

\* The list keeps to its cap, a push holds pairs only while it is under way, and what the
\* backup took is fresh when its answer arrives.
BackupInv ==
    /\ bkPending \in Seq(Pairs) /\ bkBatch \in Seq(Pairs) /\ Len(bkPending) <= PendingCap
    /\ bkEntries \in [Pairs -> 0..None]
    /\ bkTick = "idle" => bkBatch = << >>

\* What a step owes a pair that waits or is being pushed.
Kept(p) ==
    InSeq(p, bkPending) \/ (InSeq(p, bkBatch) /\ bkTick = "pushing") =>
       InSeq(p, bkPending') \/ InSeq(p, bkBatch') \/ bkEntries'[p] # None \/ p \in bkThrown' \/ p \in bkCapped'

\* No pair has been formed yet.
LEMMA BackupInitially == RfedBackupInit => BackupInv
BY BackupAssumption DEF RfedBackupInit, BackupInv, None

\* Requeueing loses nothing: what does not fit is counted as turned away.
LEMMA RequeueKeeps ==
    ASSUME BackupInv, RequeueBackupPairs(bkBatch)
    PROVE  /\ bkPending' \in Seq(Pairs) /\ Len(bkPending') <= PendingCap
           /\ \A p \in Pairs : InSeq(p, bkPending) \/ InSeq(p, bkBatch) => InSeq(p, bkPending') \/ p \in bkCapped'
<1> DEFINE room == PendingCap - Len(bkPending)
           n == IF Len(bkBatch) < room THEN Len(bkBatch) ELSE room
           back == SubSeq(bkBatch, 1, n)
<1>1. bkPending \in Seq(Pairs) /\ bkBatch \in Seq(Pairs) /\ Len(bkPending) <= PendingCap /\ Len(bkPending) \in Nat /\ Len(bkBatch) \in Nat
    BY DEF BackupInv
<1>2. bkPending' = bkPending \o back /\ bkCapped' = bkCapped \cup {bkBatch[i] : i \in n + 1..Len(bkBatch)}
    BY DEF RequeueBackupPairs
<1>3. n \in 0..Len(bkBatch) /\ Len(bkPending) + n <= PendingCap
    BY <1>1, BackupAssumption
<1> HIDE DEF n
<1>4. back \in Seq(Pairs) /\ Len(back) = n /\ \A i \in 1..n : back[i] = bkBatch[i]
    BY <1>1, <1>3, SubSeqProperties
<1> HIDE DEF back
<1>5. /\ bkPending' \in Seq(Pairs) /\ Len(bkPending') = Len(bkPending) + n
      /\ \A i \in 1..Len(bkPending) : bkPending'[i] = bkPending[i]
      /\ \A i \in 1..n : bkPending'[Len(bkPending) + i] = bkBatch[i]
    <2>1. /\ bkPending \o back \in Seq(Pairs) /\ Len(bkPending \o back) = Len(bkPending) + Len(back)
          /\ \A i \in 1..Len(bkPending) + Len(back) : (bkPending \o back)[i] = IF i <= Len(bkPending) THEN bkPending[i] ELSE back[i - Len(bkPending)]
        BY <1>1, <1>4, ConcatProperties, Zenon
    <2>2. bkPending' \in Seq(Pairs) /\ Len(bkPending') = Len(bkPending) + n
        BY <1>2, <1>4, <2>1, Zenon
    <2>3. \A i \in 1..Len(bkPending) + n : bkPending'[i] = IF i <= Len(bkPending) THEN bkPending[i] ELSE back[i - Len(bkPending)]
        BY <1>2, <1>4, <2>1, Zenon
    <2>4. \A i \in 1..Len(bkPending) : bkPending'[i] = bkPending[i]
        BY <1>1, <1>3, <2>3
    <2>5. ASSUME NEW i \in 1..n PROVE bkPending'[Len(bkPending) + i] = bkBatch[i]
        <3>1. Len(bkPending) + i \in 1..Len(bkPending) + n /\ ~(Len(bkPending) + i <= Len(bkPending)) /\ Len(bkPending) + i - Len(bkPending) = i
            BY <1>1, <1>3
        <3>2. bkPending'[Len(bkPending) + i] = back[i]
            BY <2>3, <3>1
        <3> QED
            BY <1>4, <3>2
    <2> QED
        BY <2>2, <2>4, <2>5
<1>6. ASSUME NEW p \in Pairs, InSeq(p, bkPending) PROVE InSeq(p, bkPending')
    <2>1. PICK i \in 1..Len(bkPending) : bkPending[i] = p
        BY <1>1, <1>6 DEF InSeq
    <2>2. i \in DOMAIN bkPending' /\ bkPending'[i] = p
        BY <1>1, <1>3, <1>5, <2>1
    <2> QED
        BY <2>2 DEF InSeq
<1>7. ASSUME NEW p \in Pairs, InSeq(p, bkBatch) PROVE InSeq(p, bkPending') \/ p \in bkCapped'
    <2>1. PICK i \in 1..Len(bkBatch) : bkBatch[i] = p
        BY <1>1, <1>7 DEF InSeq
    <2>2. CASE i <= n
        <3>1. Len(bkPending) + i \in DOMAIN bkPending' /\ bkPending'[Len(bkPending) + i] = p
            BY <1>1, <1>3, <1>5, <2>1, <2>2
        <3> QED
            BY <3>1 DEF InSeq
    <2>3. CASE i > n
        BY <1>1, <1>2, <1>3, <2>1, <2>3
    <2> QED
        BY <1>1, <1>3, <2>1, <2>2, <2>3
<1> QED
    BY <1>3, <1>5, <1>6, <1>7

\* Every step of the owner, of the backup node and of the publish links.
LEMMA BackupStep ==
    ASSUME BackupInv, [BackupNext \/ PublishNext]_rfedBackupVars
    PROVE  BackupInv' /\ [\A p \in Pairs : Kept(p)]_backupVars
<1> USE BackupAssumption DEF None
<1>1. ASSUME NEW q \in Pairs, QueuePair(q) PROVE BackupInv' /\ \A p \in Pairs : Kept(p)
    <2>0. bkPending \in Seq(Pairs) /\ bkPending' \in Seq(Pairs) /\ Len(bkPending') <= PendingCap
          /\ \A i \in 1..Len(bkPending) : i \in 1..Len(bkPending') /\ bkPending'[i] = bkPending[i]
        <3>1. bkPending \in Seq(Pairs) /\ Len(bkPending) \in Nat /\ Len(bkPending) <= PendingCap
            BY DEF BackupInv
        <3>2. CASE Len(bkPending) < PendingCap
            <4>1. bkPending' = Append(bkPending, q)
                BY <1>1, <3>2 DEF QueuePair
            <4>2. /\ Append(bkPending, q) \in Seq(Pairs) /\ Len(Append(bkPending, q)) = Len(bkPending) + 1
                  /\ \A i \in 1..Len(bkPending) : Append(bkPending, q)[i] = bkPending[i]
                BY <3>1, AppendProperties
            <4> QED
                BY <3>1, <3>2, <4>1, <4>2
        <3>3. CASE ~(Len(bkPending) < PendingCap)
            BY <1>1, <3>1, <3>3 DEF QueuePair
        <3> QED
            BY <3>2, <3>3
    <2>1. BackupInv'
        BY <1>1, <2>0 DEF QueuePair, BackupInv
    <2>2. ASSUME NEW p \in Pairs PROVE Kept(p)
        <3>1. InSeq(p, bkPending) => InSeq(p, bkPending')
            BY <2>0 DEF InSeq
        <3> QED
            BY <1>1, <3>1 DEF QueuePair, Kept
    <2> QED
        BY <2>1, <2>2
<1>2. CASE TickBackup
    BY <1>2 DEF TickBackup, BackupInv, Kept, InSeq
<1>3. CASE HandleBackupPush
    <2>0. bkBatch \in Seq(Pairs) /\ bkEntries \in [Pairs -> 0..None] /\ 0 \in 0..None
        BY DEF BackupInv
    <2>3. bkEntries' = [p \in Pairs |-> IF InSeq(p, bkBatch) THEN 0 ELSE bkEntries[p]]
        BY <1>3 DEF HandleBackupPush
    <2>4. bkEntries' \in [Pairs -> 0..None]
        BY ONLY <2>0, <2>3
    <2>6. bkTick' = "answered" /\ UNCHANGED <<bkPending, bkBatch>>
        BY <1>3 DEF HandleBackupPush
    <2>1. BackupInv'
        BY <2>0, <2>4, <2>6 DEF BackupInv
    <2> QED
        BY <1>3, <2>1 DEF HandleBackupPush, Kept
<1>4. CASE PushAccepted
    BY <1>4 DEF PushAccepted, Kept, BackupInv
<1>5. CASE PushRefused
    <2>1. RequeueBackupPairs(bkBatch)
        BY <1>5 DEF PushRefused
    <2>2. BackupInv'
        BY <1>5, <2>1, RequeueKeeps DEF PushRefused, BackupInv
    <2> QED
        BY <2>1, <2>2, RequeueKeeps DEF Kept
<1>6. CASE PushThrows
    <2>1. \A p \in Pairs : InSeq(p, bkBatch) => p \in bkThrown'
        BY <1>6 DEF PushThrows, InSeq
    <2> QED
        BY <1>6, <2>1 DEF PushThrows, Kept, BackupInv
<1>7. ASSUME NEW silent \in BOOLEAN, PruneStaleBackups(silent) PROVE BackupInv' /\ \A p \in Pairs : Kept(p)
    BY <1>7 DEF PruneStaleBackups, Kept, BackupInv
<1>8. CASE AgePasses
    BY <1>8 DEF AgePasses, Kept, BackupInv
<1>9. CASE UNCHANGED backupVars
    BY <1>9 DEF backupVars, BackupInv
<1>10. PublishNext => UNCHANGED backupVars
    BY DEF PublishNext, AcceptPublishLink, PublisherIdentifies, PublishAdvertised, ThrottleEnds, PublishLinkCloses, PublishEnds
<1> QED
    BY <1>1, <1>2, <1>3, <1>4, <1>5, <1>6, <1>7, <1>8, <1>9, <1>10 DEF BackupNext, rfedBackupVars

\* No accepted subscription is forgotten on its way to the backup, for any pairs, cap, lifetime
\* and failures, whatever the publish links do meanwhile.
THEOREM BackupSafety == RfedBackupInit /\ [][BackupNext \/ PublishNext]_rfedBackupVars => BackupAccounted
<1>1. BackupInv /\ [BackupNext \/ PublishNext]_rfedBackupVars => BackupInv'
    BY BackupStep
<1>2. BackupInv /\ [BackupNext \/ PublishNext]_rfedBackupVars =>
        [\A p \in Pairs : InSeq(p, bkPending) \/ (InSeq(p, bkBatch) /\ bkTick = "pushing") =>
           InSeq(p, bkPending') \/ InSeq(p, bkBatch') \/ bkEntries'[p] # None \/ p \in bkThrown' \/ p \in bkCapped']_backupVars
    BY BackupStep DEF Kept
<1> QED
    BY BackupInitially, <1>1, <1>2, PTL DEF BackupAccounted

-----------------------------------------------------------------------------
\* Sequences an rfed node keeps.

\* What is left when one entry is removed.
LEMMA RemovedEntries ==
    ASSUME NEW S, NEW q \in Seq(S), NEW i \in DOMAIN q
    PROVE  /\ RemoveAt(q, i) \in Seq(S) /\ Len(RemoveAt(q, i)) = Len(q) - 1
           /\ \A j \in DOMAIN RemoveAt(q, i) : \E k \in DOMAIN q : k # i /\ RemoveAt(q, i)[j] = q[k]
           /\ \A k \in DOMAIN q : k # i => \E j \in DOMAIN RemoveAt(q, i) : RemoveAt(q, i)[j] = q[k]
<1> DEFINE a == SubSeq(q, 1, i - 1)
           b == SubSeq(q, i + 1, Len(q))
           r == a \o b
<1>1. Len(q) \in Nat /\ i \in 1..Len(q) /\ DOMAIN q = 1..Len(q)
    OBVIOUS
<1>2. a \in Seq(S) /\ Len(a) = i - 1 /\ \A j \in 1..(i - 1) : a[j] = q[j]
    BY <1>1, SubSeqProperties
<1>3. b \in Seq(S) /\ Len(b) = Len(q) - i /\ \A j \in 1..(Len(q) - i) : b[j] = q[i + j]
    BY <1>1, SubSeqProperties
<1> HIDE DEF a, b
<1>4. /\ r \in Seq(S) /\ Len(r) = Len(a) + Len(b)
      /\ \A j \in 1..(Len(a) + Len(b)) : r[j] = IF j <= Len(a) THEN a[j] ELSE b[j - Len(a)]
    BY ONLY <1>2, <1>3, ConcatProperties
<1>5. Len(r) = Len(q) - 1 /\ DOMAIN r = 1..(Len(q) - 1) /\ RemoveAt(q, i) = r
    BY <1>1, <1>2, <1>3, <1>4 DEF RemoveAt, a, b
<1> HIDE DEF r
<1>6. ASSUME NEW j \in 1..(Len(q) - 1) PROVE r[j] = IF j < i THEN q[j] ELSE q[j + 1]
  <2>1. CASE j < i
    BY <1>1, <1>2, <1>4, <1>5, <2>1
  <2>2. CASE ~(j < i)
    <3>1. j - Len(a) \in 1..(Len(q) - i) /\ i + (j - Len(a)) = j + 1 /\ ~(j <= Len(a))
        BY <1>1, <1>2, <2>2
    <3> QED
        BY <1>3, <1>4, <1>5, <2>2, <3>1
  <2> QED
    BY <2>1, <2>2
<1>7. ASSUME NEW j \in 1..(Len(q) - 1) PROVE \E k \in DOMAIN q : k # i /\ r[j] = q[k]
  <2>1. CASE j < i
    BY <1>1, <1>6, <2>1
  <2>2. CASE ~(j < i)
    BY <1>1, <1>6, <2>2
  <2> QED
    BY <2>1, <2>2
<1>8. ASSUME NEW k \in DOMAIN q, k # i PROVE \E j \in 1..(Len(q) - 1) : r[j] = q[k]
  <2>1. CASE k < i
    BY <1>1, <1>6, <2>1
  <2>2. CASE ~(k < i)
    <3>1. k - 1 \in 1..(Len(q) - 1) /\ ~(k - 1 < i) /\ (k - 1) + 1 = k
        BY <1>1, <1>8, <2>2
    <3> QED
        BY <1>6, <3>1
  <2> QED
    BY <2>1, <2>2
<1> QED
    BY <1>4, <1>5, <1>7, <1>8

\* The positions of a set that come no later than one of them.
Rank(ns, n) == Cardinality({o \in ns : o <= n})

\* The positions of a finite set are numbered from one by their rank.
LEMMA Ranked ==
    ASSUME NEW ns, ns \subseteq Nat, IsFiniteSet(ns)
    PROVE  /\ Cardinality(ns) \in Nat
           /\ \A n \in ns : Rank(ns, n) \in 1..Cardinality(ns)
           /\ \A n, o \in ns : Rank(ns, n) = Rank(ns, o) => n = o
           /\ \A k \in 1..Cardinality(ns) : \E n \in ns : Rank(ns, n) = k
<1> DEFINE upTo(n) == {o \in ns : o <= n}
           r == [n \in ns |-> Rank(ns, n)]
<1>1. Cardinality(ns) \in Nat
    BY FS_CardinalityType
<1>2. ASSUME NEW n \in ns
      PROVE  IsFiniteSet(upTo(n)) /\ Cardinality(upTo(n)) \in Nat /\ Cardinality(upTo(n)) <= Cardinality(ns) /\ n \in upTo(n)
    BY FS_Subset, FS_CardinalityType
<1>3. ASSUME NEW n \in ns PROVE Rank(ns, n) \in 1..Cardinality(ns)
  <2>1. Cardinality(upTo(n)) # 0
    BY <1>2, FS_EmptySet
  <2> QED
    BY <1>1, <1>2, <2>1 DEF Rank
<1>4. ASSUME NEW n \in ns, NEW o \in ns, n < o PROVE Rank(ns, n) # Rank(ns, o)
  <2>3. ASSUME NEW x \in ns, x <= n PROVE x <= o
    BY <1>4, <2>3
  <2>4. o <= o /\ ~(o <= n)
    BY <1>4
  <2>1. upTo(n) \in SUBSET upTo(o) /\ o \in upTo(o) /\ o \notin upTo(n)
    BY ONLY <1>4, <2>3, <2>4, Zenon
  <2>2. Cardinality(upTo(o)) = Cardinality(upTo(n)) => upTo(o) = upTo(n)
    BY <1>2, <2>1, FS_Subset
  <2> QED
    BY <2>1, <2>2 DEF Rank
<1>5. ASSUME NEW n \in ns, NEW o \in ns, Rank(ns, n) = Rank(ns, o) PROVE n = o
    BY <1>4, <1>5
<1>6. r \in Injection(ns, 1..Cardinality(ns))
    BY <1>3, <1>5 DEF Injection, IsInjective
<1>7. IsFiniteSet(1..Cardinality(ns)) /\ Cardinality(1..Cardinality(ns)) = Cardinality(ns)
    BY <1>1, FS_Interval
<1>8. r \in Surjection(ns, 1..Cardinality(ns))
    BY <1>6, <1>7, FS_Injection
<1>9. ASSUME NEW k \in 1..Cardinality(ns) PROVE \E n \in ns : Rank(ns, n) = k
    BY <1>8 DEF Surjection
<1> QED
    BY <1>1, <1>3, <1>5, <1>9

\* What is picked from a sequence is what it holds at those positions.
LEMMA PickedProperties ==
    ASSUME NEW S, NEW q \in Seq(S), NEW ns, ns \subseteq DOMAIN q
    PROVE  /\ Picked(q, ns) \in Seq(S)
           /\ \A k \in DOMAIN Picked(q, ns) : \E n \in ns : Picked(q, ns)[k] = q[n]
           /\ \A n \in ns : \E k \in DOMAIN Picked(q, ns) : Picked(q, ns)[k] = q[n]
<1> DEFINE N == Cardinality(ns)
           nth(k) == CHOOSE n \in ns : Rank(ns, n) = k
           p == Picked(q, ns)
<1>1. ns \subseteq Nat /\ IsFiniteSet(ns)
  <2>1. DOMAIN q = 1..Len(q) /\ Len(q) \in Nat
    OBVIOUS
  <2>2. IsFiniteSet(1..Len(q))
    <3>1. \A l \in Nat : IsFiniteSet(1..l)
        BY FS_Interval
    <3> QED
        BY <2>1, <3>1
  <2> QED
    BY <2>1, <2>2, FS_Subset
<1>2. N \in Nat
    BY <1>1, FS_CardinalityType
<1>3. p = [k \in 1..N |-> q[nth(k)]]
    BY DEF Picked, Rank
<1>4. ASSUME NEW k \in 1..N PROVE nth(k) \in ns /\ Rank(ns, nth(k)) = k
    BY <1>1, Ranked
<1>5. ASSUME NEW n \in ns PROVE Rank(ns, n) \in 1..N /\ nth(Rank(ns, n)) = n
  <2>1. Rank(ns, n) \in 1..N
    BY <1>1, Ranked
  <2>2. nth(Rank(ns, n)) \in ns /\ Rank(ns, nth(Rank(ns, n))) = Rank(ns, n)
    BY <1>4, <2>1
  <2> QED
    BY <1>1, <2>1, <2>2, Ranked
<1> HIDE DEF nth, N, p
<1>6. p \in Seq(S) /\ Len(p) = N /\ DOMAIN p = 1..N
    BY <1>2, <1>3, <1>4
<1>7. ASSUME NEW k \in DOMAIN p PROVE \E n \in ns : p[k] = q[n]
    BY <1>3, <1>4, <1>6
<1>8. ASSUME NEW n \in ns PROVE \E k \in DOMAIN p : p[k] = q[n]
    BY <1>3, <1>5, <1>6
<1> QED
    BY <1>6, <1>7, <1>8 DEF p

\* What is left behind the first entry.
LEMMA TailEntries ==
    ASSUME NEW S, NEW q \in Seq(S), q # << >>
    PROVE  /\ Tail(q) \in Seq(S) /\ Len(Tail(q)) = Len(q) - 1
           /\ \A j \in DOMAIN Tail(q) : j + 1 \in DOMAIN q /\ Tail(q)[j] = q[j + 1]
           /\ \A k \in DOMAIN q : k # 1 => k - 1 \in DOMAIN Tail(q) /\ Tail(q)[k - 1] = q[k]
<1>1. Len(q) \in Nat /\ Len(q) # 0 /\ DOMAIN q = 1..Len(q)
    BY EmptySeq
<1>2. /\ Tail(q) \in Seq(S) /\ Len(Tail(q)) = Len(q) - 1 /\ DOMAIN Tail(q) = 1..(Len(q) - 1)
      /\ \A j \in 1..(Len(q) - 1) : Tail(q)[j] = q[j + 1]
    BY <1>1
<1> QED
    BY <1>1, <1>2

\* What is there with an entry more.
LEMMA AppendedEntries ==
    ASSUME NEW S, NEW q \in Seq(S), NEW x \in S
    PROVE  /\ Append(q, x) \in Seq(S) /\ Append(q, x) # << >>
           /\ \A j \in DOMAIN Append(q, x) : Append(q, x)[j] = x \/ (j \in DOMAIN q /\ Append(q, x)[j] = q[j])
           /\ \A j \in DOMAIN q : j \in DOMAIN Append(q, x) /\ Append(q, x)[j] = q[j]
           /\ Len(q) + 1 \in DOMAIN Append(q, x) /\ Append(q, x)[Len(q) + 1] = x
<1>1. /\ Append(q, x) \in Seq(S) /\ Len(Append(q, x)) = Len(q) + 1 /\ Append(q, x)[Len(q) + 1] = x
      /\ \A j \in 1..Len(q) : Append(q, x)[j] = q[j]
    BY AppendProperties
<1>2. Len(q) \in Nat /\ DOMAIN q = 1..Len(q) /\ DOMAIN Append(q, x) = 1..(Len(q) + 1)
    BY <1>1
<1> QED
    BY <1>1, <1>2

-----------------------------------------------------------------------------
\* Fan-out and deferred delivery.

SubscriptionType == [who : Subscribers, chan : Channels, backup : BOOLEAN]
RequestType == [who : Subscribers, chan : Channels]
EntryType == [msg : Nat, chan : Channels]
FanType == [msg : Nat, rest : Seq(SubscriptionType)]
DrainType == [who : Subscribers, rest : Seq(EntryType)]

\* The type of the node's tables; what a fan-out or a drain has left to do is never nothing.
RfedTyped ==
    /\ rfSubs \in Seq(SubscriptionType) /\ rfSubscribing \in Seq(RequestType)
    /\ rfQueue \in [Subscribers -> Seq(EntryType)] /\ rfMsgs \in Seq(Channels) /\ rfStore \in Seq(Nat)
    /\ rfFan \in Seq(FanType) /\ \A i \in DOMAIN rfFan : rfFan[i].msg \in 1..Len(rfMsgs) /\ rfFan[i].rest # << >>
    /\ rfDrains \in Seq(DrainType) /\ \A i \in DOMAIN rfDrains : rfDrains[i].rest # << >>
    /\ rfOwed \subseteq Subscribers \X Nat

\* Where a message waits for a subscriber: in its bucket, in a drain, or in a fan-out, where
\* a backup entry does not count.
InQueue(s, m) == \E i \in DOMAIN rfQueue[s] : rfQueue[s][i].msg = m
InDrain(s, m) == \E i \in DOMAIN rfDrains : rfDrains[i].who = s /\ \E j \in DOMAIN rfDrains[i].rest : rfDrains[i].rest[j].msg = m
InFan(s, m) ==
    \E i \in DOMAIN rfFan : rfFan[i].msg = m /\ \E j \in DOMAIN rfFan[i].rest : rfFan[i].rest[j].who = s /\ ~rfFan[i].rest[j].backup
Waits(s, m) == InQueue(s, m) \/ InDrain(s, m) \/ InFan(s, m)

\* The message is over for the subscriber.
Settled(s, m) == <<s, m>> \in rfServed \cup rfDropped \cup rfSkipped

\* The invariant of the node.
RfedInv == RfedTyped /\ \A s \in Subscribers, m \in Nat : <<s, m>> \in rfOwed => Waits(s, m) \/ Settled(s, m)

\* A step loses nothing when what waited still waits, or is over.
LEMMA NothingIsLost ==
    ASSUME RfedInv, RfedTyped', rfServed \subseteq rfServed', rfDropped \subseteq rfDropped', rfSkipped \subseteq rfSkipped',
           \A s \in Subscribers, m \in Nat : Waits(s, m) => Waits(s, m)' \/ Settled(s, m)',
           \A s \in Subscribers, m \in Nat : <<s, m>> \in rfOwed' => <<s, m>> \in rfOwed \/ Waits(s, m)'
    PROVE  RfedInv'
<1> SUFFICES ASSUME NEW s \in Subscribers, NEW m \in Nat, <<s, m>> \in rfOwed' PROVE Waits(s, m)' \/ Settled(s, m)'
    BY DEF RfedInv
<1>1. Settled(s, m) => Settled(s, m)'
    BY DEF Settled
<1> QED
    BY <1>1 DEF RfedInv

\* The fan-out has dealt with its next subscriber.
LEMMA AdvanceKeeps ==
    ASSUME RfedTyped, NEW i \in DOMAIN rfFan, Advance(i)
    PROVE  /\ rfFan' \in Seq(FanType)
           /\ \A j \in DOMAIN rfFan' : rfFan'[j].msg \in 1..Len(rfMsgs) /\ rfFan'[j].rest # << >>
           /\ \A s, m : InFan(s, m) => InFan(s, m)' \/ (s = NextSub(i).who /\ m = rfFan[i].msg /\ ~NextSub(i).backup)
<1> DEFINE r == rfFan[i].rest
<1>1. /\ rfFan \in Seq(FanType) /\ r \in Seq(SubscriptionType) /\ r # << >> /\ rfFan[i].msg \in Nat
      /\ rfFan[i].msg \in 1..Len(rfMsgs) /\ \A j \in DOMAIN rfFan : rfFan[j].msg \in 1..Len(rfMsgs) /\ rfFan[j].rest # << >>
      /\ rfFan[i] = [msg |-> rfFan[i].msg, rest |-> r]
  <2>1. rfFan \in Seq(FanType) /\ \A j \in DOMAIN rfFan : rfFan[j].msg \in 1..Len(rfMsgs) /\ rfFan[j].rest # << >>
    BY DEF RfedTyped
  <2>2. rfFan[i] \in FanType
    BY <2>1
  <2>3. r \in Seq(SubscriptionType) /\ rfFan[i].msg \in Nat /\ rfFan[i] = [msg |-> rfFan[i].msg, rest |-> r]
    BY <2>2 DEF FanType
  <2> QED
    BY <2>1, <2>3
<1>2. CASE Len(r) = 1
  <2>1. rfFan' = RemoveAt(rfFan, i)
    BY <1>2 DEF Advance
  <2>2. /\ rfFan' \in Seq(FanType)
        /\ \A j \in DOMAIN rfFan' : \E k \in DOMAIN rfFan : k # i /\ rfFan'[j] = rfFan[k]
        /\ \A k \in DOMAIN rfFan : k # i => \E j \in DOMAIN rfFan' : rfFan'[j] = rfFan[k]
    BY <1>1, <2>1, RemovedEntries
  <2>3. DOMAIN r = {1}
    BY <1>1, <1>2
  <2>4. ASSUME NEW s, NEW m, InFan(s, m) PROVE InFan(s, m)' \/ (s = NextSub(i).who /\ m = rfFan[i].msg /\ ~NextSub(i).backup)
    <3>1. PICK k \in DOMAIN rfFan : rfFan[k].msg = m /\ \E j \in DOMAIN rfFan[k].rest : rfFan[k].rest[j].who = s /\ ~rfFan[k].rest[j].backup
        BY <2>4 DEF InFan
    <3>2. CASE k = i
        BY <2>3, <3>1, <3>2 DEF NextSub
    <3>3. CASE k # i
        BY <2>2, <3>1, <3>3 DEF InFan
    <3> QED
        BY <3>2, <3>3
  <2>5. \A j \in DOMAIN rfFan' : rfFan'[j].msg \in 1..Len(rfMsgs) /\ rfFan'[j].rest # << >>
    BY <1>1, <2>2
  <2> QED
    BY <2>2, <2>4, <2>5
<1>3. CASE Len(r) # 1
  <2>1. PICK f : f = [msg |-> rfFan[i].msg, rest |-> Tail(r)]
    OBVIOUS
  <2>2. f.msg = rfFan[i].msg /\ f.rest = Tail(r)
    BY ONLY <2>1
  <2>3. /\ Tail(r) \in Seq(SubscriptionType) /\ Len(Tail(r)) = Len(r) - 1
        /\ \A k \in DOMAIN r : k # 1 => k - 1 \in DOMAIN Tail(r) /\ Tail(r)[k - 1] = r[k]
    BY <1>1, TailEntries
  <2>4. Tail(r) # << >>
    <3>1. Len(r) \in Nat /\ Len(r) # 0
        BY <1>1, EmptySeq
    <3>2. Len(Tail(r)) # 0
        BY <1>3, <2>3, <3>1
    <3> QED
      <4>1. Tail(r) = << >> => Len(Tail(r)) = 0
        BY EmptySeq
      <4> QED
        BY <3>2, <4>1
  <2>5. rfFan' = [rfFan EXCEPT ![i] = f]
    <3>1. rfFan' = [rfFan EXCEPT ![i].rest = Tail(@)]
        BY <1>3 DEF Advance
    <3>2. [rfFan[i] EXCEPT !.rest = Tail(r)] = f
      <4>1. ASSUME NEW g, NEW a, NEW b, NEW x, g = [msg |-> a, rest |-> b] PROVE [g EXCEPT !.rest = x] = [msg |-> a, rest |-> x]
        BY ONLY <4>1
      <4>2. \E a, b : rfFan[i] = [msg |-> a, rest |-> b] /\ a = rfFan[i].msg
        BY <1>1, Zenon
      <4>3. PICK a, b : rfFan[i] = [msg |-> a, rest |-> b] /\ a = rfFan[i].msg
        BY <4>2, Zenon
      <4>4. PICK x : x = Tail(r)
        OBVIOUS
      <4>5. [rfFan[i] EXCEPT !.rest = x] = [msg |-> a, rest |-> x]
        BY ONLY <4>1, <4>3
      <4>6. f = [msg |-> a, rest |-> x]
        BY <2>1, <4>3, <4>4
      <4> QED
        BY ONLY <4>4, <4>5, <4>6, Zenon DEF r
    <3>3. rfFan' = [rfFan EXCEPT ![i] = [rfFan[i] EXCEPT !.rest = Tail(r)]]
        BY <1>1, <3>1
    <3> QED
        BY ONLY <3>2, <3>3, Zenon DEF r
  <2>6. f \in FanType
    BY <1>1, <2>1, <2>3 DEF FanType
  <2>7. rfFan' \in Seq(FanType) /\ DOMAIN rfFan' = DOMAIN rfFan /\ rfFan'[i] = f /\ \A k \in DOMAIN rfFan : k # i => rfFan'[k] = rfFan[k]
    BY <1>1, <2>5, <2>6
  <2>8. ASSUME NEW s, NEW m, InFan(s, m) PROVE InFan(s, m)' \/ (s = NextSub(i).who /\ m = rfFan[i].msg /\ ~NextSub(i).backup)
    <3>1. PICK k \in DOMAIN rfFan : rfFan[k].msg = m /\ \E j \in DOMAIN rfFan[k].rest : rfFan[k].rest[j].who = s /\ ~rfFan[k].rest[j].backup
        BY <2>8 DEF InFan
    <3>2. PICK j \in DOMAIN rfFan[k].rest : rfFan[k].rest[j].who = s /\ ~rfFan[k].rest[j].backup
        BY <3>1
    <3>3. CASE k = i /\ j = 1
        BY <3>1, <3>2, <3>3 DEF NextSub
    <3>4. CASE k = i /\ j # 1
      <4>1. j - 1 \in DOMAIN f.rest /\ f.rest[j - 1] = r[j]
        BY <2>2, <2>3, <3>2, <3>4
      <4> QED
        BY <2>2, <2>7, <3>1, <3>2, <3>4, <4>1 DEF InFan
    <3>5. CASE k # i
        BY <2>7, <3>1, <3>5 DEF InFan
    <3> QED
        BY <3>3, <3>4, <3>5
  <2>9. \A j \in DOMAIN rfFan' : rfFan'[j].msg \in 1..Len(rfMsgs) /\ rfFan'[j].rest # << >>
    BY <1>1, <2>2, <2>4, <2>7
  <2> QED
    BY <2>7, <2>8, <2>9
<1> QED
    BY <1>2, <1>3

\* A fan-out is given up.
LEMMA FanoutGone ==
    ASSUME RfedTyped, NEW i \in DOMAIN rfFan, rfFan' = RemoveAt(rfFan, i)
    PROVE  /\ rfFan' \in Seq(FanType)
           /\ \A j \in DOMAIN rfFan' : rfFan'[j].msg \in 1..Len(rfMsgs) /\ rfFan'[j].rest # << >>
           /\ \A s, m : InFan(s, m) => InFan(s, m)' \/ (m = rfFan[i].msg /\ \E j \in DOMAIN rfFan[i].rest : s = rfFan[i].rest[j].who)
<1>1. rfFan \in Seq(FanType) /\ \A j \in DOMAIN rfFan : rfFan[j].msg \in 1..Len(rfMsgs) /\ rfFan[j].rest # << >>
    BY DEF RfedTyped
<1>2. /\ rfFan' \in Seq(FanType)
      /\ \A j \in DOMAIN rfFan' : \E k \in DOMAIN rfFan : k # i /\ rfFan'[j] = rfFan[k]
      /\ \A k \in DOMAIN rfFan : k # i => \E j \in DOMAIN rfFan' : rfFan'[j] = rfFan[k]
    BY <1>1, RemovedEntries
<1>3. ASSUME NEW s, NEW m, InFan(s, m)
      PROVE  InFan(s, m)' \/ (m = rfFan[i].msg /\ \E j \in DOMAIN rfFan[i].rest : s = rfFan[i].rest[j].who)
  <2>1. PICK k \in DOMAIN rfFan : rfFan[k].msg = m /\ \E j \in DOMAIN rfFan[k].rest : rfFan[k].rest[j].who = s /\ ~rfFan[k].rest[j].backup
    BY <1>3 DEF InFan
  <2>2. CASE k = i
    BY <2>1, <2>2
  <2>3. CASE k # i
    BY <1>2, <2>1, <2>3 DEF InFan
  <2> QED
    BY <2>2, <2>3
<1>4. \A j \in DOMAIN rfFan' : rfFan'[j].msg \in 1..Len(rfMsgs) /\ rfFan'[j].rest # << >>
    BY <1>1, <1>2
<1> QED
    BY <1>2, <1>3, <1>4

\* What enqueue displaces, or does not take, is given up.
LEMMA EnqueueKeeps ==
    ASSUME RfedTyped, NEW s \in Subscribers, NEW m \in 1..Len(rfMsgs), Enqueue(s, m)
    PROVE  /\ rfQueue' \in [Subscribers -> Seq(EntryType)] /\ rfDropped \subseteq rfDropped'
           /\ \A t \in Subscribers, n \in Nat : InQueue(t, n) => InQueue(t, n)' \/ <<t, n>> \in rfDropped'
           /\ InQueue(s, m)' \/ <<s, m>> \in rfDropped'
<1>0. rfQueue \in [Subscribers -> Seq(EntryType)] /\ rfQueue[s] \in Seq(EntryType) /\ rfMsgs[m] \in Channels /\ m \in Nat
    BY DEF RfedTyped
<1>1. CASE QueuedTotal >= GlobalLimit
    BY <1>0, <1>1 DEF Enqueue, InQueue
<1>2. CASE ~(QueuedTotal >= GlobalLimit)
  <2> DEFINE q == rfQueue[s]
             full == Len(q) >= QueueLimit
             item == [msg |-> m, chan |-> rfMsgs[m]]
             kept == IF full THEN Tail(q) ELSE q
  <2>1. /\ rfQueue' = [rfQueue EXCEPT ![s] = Append(kept, item)]
        /\ rfDropped' = IF full THEN rfDropped \cup {<<s, q[1].msg>>} ELSE rfDropped
    BY <1>2 DEF Enqueue
  <2>2. item \in EntryType /\ item.msg = m
    BY <1>0 DEF EntryType
  <2>3. kept \in Seq(EntryType) /\ \A k \in DOMAIN q : (\E j \in DOMAIN kept : kept[j] = q[k]) \/ (full /\ k = 1)
    <3>1. CASE full
      <4>1. q # << >>
        <5>1. QueueLimit \in Nat \ {0}
            BY RfedAssumption
        <5>2. Len(q) # 0
            BY <1>0, <3>1, <5>1
        <5> QED
            BY ONLY <5>2 DEF q
      <4> QED
        BY <1>0, <3>1, <4>1, TailEntries
    <3>2. CASE ~full
        BY <1>0, <3>2
    <3> QED
        BY <3>1, <3>2
  <2> HIDE DEF item, kept, full
  <2>4. PICK r : r = Append(kept, item)
    OBVIOUS
  <2>5. /\ r \in Seq(EntryType) /\ \A j \in DOMAIN kept : j \in DOMAIN r /\ r[j] = kept[j]
        /\ \E j \in DOMAIN r : r[j] = item
    BY <2>2, <2>3, <2>4, AppendedEntries
  <2>6. rfQueue' = [rfQueue EXCEPT ![s] = r]
    BY ONLY <2>1, <2>4, Zenon
  <2>7. /\ rfQueue' \in [Subscribers -> Seq(EntryType)] /\ rfQueue'[s] = r
        /\ \A t \in Subscribers : t # s => rfQueue'[t] = rfQueue[t]
    BY <1>0, <2>5, <2>6
  <2>8. InQueue(s, m)'
    BY <2>2, <2>5, <2>7 DEF InQueue
  <2>9. ASSUME NEW t \in Subscribers, NEW n \in Nat, InQueue(t, n) PROVE InQueue(t, n)' \/ <<t, n>> \in rfDropped'
    <3>1. CASE t # s
        BY <2>7, <2>9, <3>1 DEF InQueue
    <3>2. CASE t = s
      <4>1. PICK k \in DOMAIN q : q[k].msg = n
        BY <2>9, <3>2 DEF InQueue
      <4>2. CASE full /\ k = 1
        BY <2>1, <3>2, <4>1, <4>2
      <4>3. CASE \E j \in DOMAIN kept : kept[j] = q[k]
        BY <2>5, <2>7, <3>2, <4>1, <4>3 DEF InQueue
      <4> QED
        BY <2>3, <4>2, <4>3
    <3> QED
        BY <3>1, <3>2
  <2>10. rfDropped \subseteq rfDropped'
    BY <2>1
  <2> QED
    BY <2>7, <2>8, <2>9, <2>10
<1> QED
    BY <1>1, <1>2


\* The node starts with nothing.
LEMMA RfedInitially == RfedInit => RfedInv
<1> SUFFICES ASSUME RfedInit PROVE RfedInv
    OBVIOUS
<1>1. << >> \in Seq(EntryType) /\ rfSubs \in Seq(SubscriptionType) /\ rfSubscribing \in Seq(RequestType)
      /\ rfMsgs \in Seq(Channels) /\ rfStore \in Seq(Nat) /\ rfFan \in Seq(FanType) /\ rfDrains \in Seq(DrainType)
    BY EmptySeq DEF RfedInit
<1>2. RfedTyped
    BY <1>1 DEF RfedInit, RfedTyped
<1> QED
    BY <1>2 DEF RfedInit, RfedInv

\* Subscriptions and the blob store change nothing that waits.
LEMMA SubscriptionsKeep ==
    ASSUME RfedInv, rfSubs' \in Seq(SubscriptionType), rfSubscribing' \in Seq(RequestType),
           rfStore' \in Seq(Nat), UNCHANGED <<rfQueue, rfMsgs, rfFan, rfDrains, rfHistory>>
    PROVE  RfedInv'
<1>1. /\ rfQueue' = rfQueue /\ rfMsgs' = rfMsgs /\ rfFan' = rfFan /\ rfDrains' = rfDrains
      /\ rfOwed' = rfOwed /\ rfServed' = rfServed /\ rfDropped' = rfDropped /\ rfSkipped' = rfSkipped
    BY DEF rfHistory
<1>2. RfedTyped'
    BY <1>1 DEF RfedInv, RfedTyped
<1>3. \A s \in Subscribers, m \in Nat : Waits(s, m) => Waits(s, m)'
    BY <1>1 DEF Waits, InQueue, InDrain, InFan
<1> QED
    BY <1>1, <1>2, <1>3, NothingIsLost

\* A pair is registered, or taken away.
LEMMA SubscribingKeeps ==
    ASSUME RfedInv, NEW s \in Subscribers, NEW c \in Channels,
           HandleSubscribe(s, c) \/ SubscribeBackup(s, c) \/ HandleUnsubscribe(s, c)
    PROVE  RfedInv'
<1>0. rfSubs \in Seq(SubscriptionType) /\ rfSubscribing \in Seq(RequestType) /\ rfStore \in Seq(Nat)
    BY DEF RfedInv, RfedTyped
<1>1. CASE HandleSubscribe(s, c)
  <2>1. rfSubscribing' \in Seq(RequestType)
    <3>1. [who |-> s, chan |-> c] \in RequestType
        BY DEF RequestType
    <3>2. Append(rfSubscribing, [who |-> s, chan |-> c]) \in Seq(RequestType)
        BY <1>0, <3>1
    <3> QED
        BY <1>0, <1>1, <3>2 DEF HandleSubscribe
  <2> QED
    BY <1>0, <1>1, <2>1, SubscriptionsKeep DEF HandleSubscribe
<1>2. CASE SubscribeBackup(s, c)
  <2>1. PICK e : e = [who |-> s, chan |-> c, backup |-> TRUE]
    OBVIOUS
  <2>2. e \in SubscriptionType
    BY <2>1, Zenon DEF SubscriptionType
  <2>3. Append(rfSubs, e) \in Seq(SubscriptionType)
    BY <1>0, <2>2
  <2>4. rfSubs' = rfSubs \/ rfSubs' = Append(rfSubs, e)
    BY <1>2, <2>1, Zenon DEF SubscribeBackup
  <2>5. rfSubs' \in Seq(SubscriptionType)
    BY <1>0, <2>3, <2>4
  <2> QED
    BY <1>0, <1>2, <2>5, SubscriptionsKeep DEF SubscribeBackup
<1>3. CASE HandleUnsubscribe(s, c)
  <2>1. rfSubs' \in Seq(SubscriptionType)
    BY <1>0, <1>3, PickedProperties DEF HandleUnsubscribe
  <2> QED
    BY <1>0, <1>3, <2>1, SubscriptionsKeep DEF HandleUnsubscribe
<1> QED
    BY <1>1, <1>2, <1>3

\* A subscribe() goes on after its await.
LEMMA SubscribeKeeps ==
    ASSUME RfedInv, NEW i \in DOMAIN rfSubscribing, Subscribe(i)
    PROVE  RfedInv'
<1>0. rfSubs \in Seq(SubscriptionType) /\ rfSubscribing \in Seq(RequestType) /\ rfStore \in Seq(Nat)
    BY DEF RfedInv, RfedTyped
<1>1. rfSubscribing[i].who \in Subscribers /\ rfSubscribing[i].chan \in Channels
  <2>1. rfSubscribing[i] \in RequestType
    BY <1>0
  <2> QED
    BY <2>1 DEF RequestType
<1>2. PICK e : e = [who |-> rfSubscribing[i].who, chan |-> rfSubscribing[i].chan, backup |-> FALSE]
    OBVIOUS
<1>3. e \in SubscriptionType
    BY <1>1, <1>2, Zenon DEF SubscriptionType
<1>4. Append(rfSubs, e) \in Seq(SubscriptionType)
    BY <1>0, <1>3
<1>5. rfSubs' = Append(rfSubs, e)
    BY <1>2, Zenon DEF Subscribe
<1>6. rfSubscribing' \in Seq(RequestType)
    BY <1>0, RemovedEntries DEF Subscribe
<1>7. rfStore' = rfStore /\ UNCHANGED <<rfQueue, rfMsgs, rfFan, rfDrains, rfHistory>>
    BY DEF Subscribe
<1> QED
    BY <1>0, <1>4, <1>5, <1>6, <1>7, SubscriptionsKeep

\* A publish: the fan-out owes the message to the subscribers of this moment.
LEMMA HandleSendKeeps ==
    ASSUME RfedInv, NEW c \in Channels, HandleSend(c)
    PROVE  RfedInv'
<1> DEFINE m == Len(rfMsgs) + 1
           subs == Picked(rfSubs, {i \in DOMAIN rfSubs : rfSubs[i].chan = c})
           kept == IF Len(rfStore) >= StoreLimit THEN Tail(rfStore) ELSE rfStore
           f == [msg |-> m, rest |-> subs]
<1>0. RfedTyped /\ rfSubs \in Seq(SubscriptionType) /\ rfMsgs \in Seq(Channels) /\ rfStore \in Seq(Nat) /\ rfFan \in Seq(FanType) /\ m \in Nat
    BY DEF RfedInv, RfedTyped
<1>1. /\ rfMsgs' = Append(rfMsgs, c) /\ rfStore' = Append(kept, m)
      /\ rfFan' = IF subs = << >> THEN rfFan ELSE Append(rfFan, f)
      /\ rfOwed' = rfOwed \cup {<<subs[i].who, m>> : i \in {j \in DOMAIN subs : ~subs[j].backup}}
      /\ rfSubs' = rfSubs /\ rfSubscribing' = rfSubscribing /\ rfQueue' = rfQueue /\ rfDrains' = rfDrains
      /\ rfServed' = rfServed /\ rfDropped' = rfDropped /\ rfSkipped' = rfSkipped
    BY DEF HandleSend, Ingest
<1>2. subs \in Seq(SubscriptionType)
    BY <1>0, PickedProperties
<1> HIDE DEF subs
<1>3. ASSUME NEW i \in DOMAIN subs PROVE subs[i].who \in Subscribers
  <2>1. subs[i] \in SubscriptionType
    BY <1>2
  <2> QED
    BY <2>1 DEF SubscriptionType
<1>4. f \in FanType /\ f.msg = m /\ f.rest = subs
    BY <1>0, <1>2 DEF FanType
<1>5. rfMsgs' \in Seq(Channels) /\ Len(rfMsgs') = Len(rfMsgs) + 1 /\ Len(rfMsgs) \in Nat
    BY <1>0, <1>1
<1>6. rfStore' \in Seq(Nat)
  <2>1. kept \in Seq(Nat)
    <3>1. CASE Len(rfStore) >= StoreLimit
      <4>1. StoreLimit \in Nat \ {0}
        BY RfedAssumption
      <4>2. rfStore # << >>
        BY <1>0, <3>1, <4>1, EmptySeq
      <4> QED
        BY <1>0, <3>1, <4>2, TailEntries
    <3>2. CASE ~(Len(rfStore) >= StoreLimit)
        BY <1>0, <3>2
    <3> QED
        BY <3>1, <3>2
  <2> HIDE DEF kept, m
  <2> QED
    BY <1>0, <1>1, <2>1
<1> HIDE DEF f, kept
<1>7. /\ rfFan' \in Seq(FanType)
      /\ \A j \in DOMAIN rfFan' : (rfFan'[j] = f /\ subs # << >>) \/ (j \in DOMAIN rfFan /\ rfFan'[j] = rfFan[j])
      /\ \A j \in DOMAIN rfFan : j \in DOMAIN rfFan' /\ rfFan'[j] = rfFan[j]
      /\ subs # << >> => \E j \in DOMAIN rfFan' : rfFan'[j] = f
  <2>1. CASE subs = << >>
    BY <1>0, <1>1, <2>1
  <2>2. CASE subs # << >>
    <3>1. rfFan' = Append(rfFan, f)
        BY <1>1, <2>2
    <3>2. /\ rfFan' \in Seq(FanType)
          /\ \A j \in DOMAIN rfFan' : rfFan'[j] = f \/ (j \in DOMAIN rfFan /\ rfFan'[j] = rfFan[j])
          /\ \A j \in DOMAIN rfFan : j \in DOMAIN rfFan' /\ rfFan'[j] = rfFan[j]
          /\ Len(rfFan) + 1 \in DOMAIN rfFan' /\ rfFan'[Len(rfFan) + 1] = f
      <4>1. f \in FanType
        BY <1>4
      <4> QED
        BY ONLY <1>0, <3>1, <4>1, AppendedEntries
    <3> QED
        BY ONLY <2>2, <3>2, Zenon
  <2> QED
    BY <2>1, <2>2
<1>8. \A j \in DOMAIN rfFan' : rfFan'[j].msg \in 1..Len(rfMsgs') /\ rfFan'[j].rest # << >>
  <2> SUFFICES ASSUME NEW j \in DOMAIN rfFan' PROVE rfFan'[j].msg \in 1..Len(rfMsgs') /\ rfFan'[j].rest # << >>
    OBVIOUS
  <2>1. CASE rfFan'[j] = f /\ subs # << >>
    BY <1>4, <1>5, <2>1
  <2>2. CASE j \in DOMAIN rfFan /\ rfFan'[j] = rfFan[j]
    BY <1>0, <1>5, <2>2 DEF RfedTyped
  <2> QED
    BY <1>7, <2>1, <2>2
<1>9. rfOwed' \subseteq Subscribers \X Nat
    BY <1>0, <1>1, <1>3 DEF RfedTyped
<1>10. RfedTyped'
    BY <1>0, <1>1, <1>5, <1>6, <1>7, <1>8, <1>9 DEF RfedTyped
<1>11. ASSUME NEW s \in Subscribers, NEW n \in Nat, Waits(s, n) PROVE Waits(s, n)'
  <2>1. InFan(s, n) => InFan(s, n)'
    BY <1>7 DEF InFan
  <2> QED
    BY <1>1, <1>11, <2>1 DEF Waits, InQueue, InDrain
<1>12. ASSUME NEW s \in Subscribers, NEW n \in Nat, <<s, n>> \in rfOwed', <<s, n>> \notin rfOwed PROVE Waits(s, n)'
  <2>1. PICK i \in DOMAIN subs : ~subs[i].backup /\ s = subs[i].who /\ n = m
    BY <1>1, <1>12
  <2>2. subs # << >>
    BY <1>2, <2>1, EmptySeq
  <2>3. InFan(s, n)'
    BY <1>4, <1>7, <2>1, <2>2 DEF InFan
  <2> QED
    BY <2>3 DEF Waits
<1> QED
    BY <1>1, <1>10, <1>11, <1>12, NothingIsLost

\* The fan-out queues the message for an absent subscriber...
LEMMA FanoutDefersKeeps ==
    ASSUME RfedInv, NEW i \in DOMAIN rfFan, FanoutDefers(i)
    PROVE  RfedInv'
<1>6. PICK w, n : w = NextSub(i).who /\ n = rfFan[i].msg
    OBVIOUS
<1>0. RfedTyped /\ w \in Subscribers /\ n \in 1..Len(rfMsgs) /\ n \in Nat
  <2>1. RfedTyped /\ rfFan \in Seq(FanType) /\ rfFan[i].rest # << >> /\ n \in 1..Len(rfMsgs)
    BY <1>6 DEF RfedInv, RfedTyped
  <2>2. rfFan[i] \in FanType
    BY <2>1
  <2>3. rfFan[i].rest \in Seq(SubscriptionType) /\ n \in Nat
    BY <1>6, <2>2 DEF FanType
  <2>4. rfFan[i].rest[1] \in SubscriptionType
    BY <2>1, <2>3
  <2>5. w \in Subscribers
    BY <1>6, <2>4 DEF SubscriptionType, NextSub
  <2> QED
    BY <2>1, <2>3, <2>5
<1>1. /\ Advance(i) /\ Enqueue(w, n)
      /\ rfSubs' = rfSubs /\ rfSubscribing' = rfSubscribing /\ rfMsgs' = rfMsgs /\ rfStore' = rfStore /\ rfDrains' = rfDrains
      /\ rfOwed' = rfOwed /\ rfServed' = rfServed /\ rfSkipped' = rfSkipped
    BY <1>6 DEF FanoutDefers
<1>2. /\ rfFan' \in Seq(FanType)
      /\ \A j \in DOMAIN rfFan' : rfFan'[j].msg \in 1..Len(rfMsgs) /\ rfFan'[j].rest # << >>
      /\ \A s, m : InFan(s, m) => InFan(s, m)' \/ (s = w /\ m = n)
    BY <1>0, <1>1, <1>6, AdvanceKeeps
<1>3. /\ rfQueue' \in [Subscribers -> Seq(EntryType)] /\ rfDropped \subseteq rfDropped'
      /\ \A s \in Subscribers, m \in Nat : InQueue(s, m) => InQueue(s, m)' \/ <<s, m>> \in rfDropped'
      /\ InQueue(w, n)' \/ <<w, n>> \in rfDropped'
    BY <1>0, <1>1, EnqueueKeeps
<1>4. RfedTyped'
    BY <1>0, <1>1, <1>2, <1>3 DEF RfedTyped
<1>5. ASSUME NEW s \in Subscribers, NEW m \in Nat, Waits(s, m) PROVE Waits(s, m)' \/ Settled(s, m)'
  <2>1. InQueue(s, m) => Waits(s, m)' \/ Settled(s, m)'
    BY <1>3 DEF Waits, Settled
  <2>2. InDrain(s, m) => Waits(s, m)'
    BY <1>1 DEF Waits, InDrain
  <2>3. InFan(s, m) => Waits(s, m)' \/ Settled(s, m)'
    <3> SUFFICES ASSUME InFan(s, m) PROVE Waits(s, m)' \/ Settled(s, m)'
        OBVIOUS
    <3>1. CASE InFan(s, m)'
        BY <3>1 DEF Waits
    <3>2. CASE s = w /\ m = n
        BY <1>3, <3>2 DEF Waits, Settled
    <3> QED
        BY <1>2, <3>1, <3>2
  <2> QED
    BY <1>5, <2>1, <2>2, <2>3 DEF Waits
<1> QED
    BY <1>1, <1>3, <1>4, <1>5, NothingIsLost

\* ...leaves it to the owner of a backup entry...
LEMMA FanoutLeavesKeeps ==
    ASSUME RfedInv, NEW i \in DOMAIN rfFan, FanoutLeavesToOwner(i)
    PROVE  RfedInv'
<1>0. RfedTyped
    BY DEF RfedInv
<1>1. /\ Advance(i) /\ NextSub(i).backup
      /\ rfSubs' = rfSubs /\ rfSubscribing' = rfSubscribing /\ rfMsgs' = rfMsgs /\ rfStore' = rfStore /\ rfDrains' = rfDrains
      /\ rfQueue' = rfQueue /\ rfOwed' = rfOwed /\ rfServed' = rfServed /\ rfSkipped' = rfSkipped /\ rfDropped' = rfDropped
    BY DEF FanoutLeavesToOwner, rfHistory
<1>2. /\ rfFan' \in Seq(FanType)
      /\ \A j \in DOMAIN rfFan' : rfFan'[j].msg \in 1..Len(rfMsgs) /\ rfFan'[j].rest # << >>
      /\ \A s, m : InFan(s, m) => InFan(s, m)'
    BY <1>0, <1>1, AdvanceKeeps
<1>3. RfedTyped'
    BY <1>0, <1>1, <1>2 DEF RfedTyped
<1>4. \A s \in Subscribers, m \in Nat : Waits(s, m) => Waits(s, m)'
    BY <1>1, <1>2 DEF Waits, InQueue, InDrain
<1> QED
    BY <1>1, <1>3, <1>4, NothingIsLost

\* ...or sends it, and is given up when a send throws.
LEMMA FanoutSendsKeeps ==
    ASSUME RfedInv, NEW i \in DOMAIN rfFan, FanoutSends(i)
    PROVE  RfedInv'
<1> DEFINE w == NextSub(i).who
           n == rfFan[i].msg
           r == rfFan[i].rest
           skipped == {<<r[j].who, n>> : j \in 2..Len(r)}
<1>0. RfedTyped
    BY DEF RfedInv
<1>1. /\ rfSubs' = rfSubs /\ rfSubscribing' = rfSubscribing /\ rfMsgs' = rfMsgs /\ rfStore' = rfStore /\ rfDrains' = rfDrains
      /\ rfQueue' = rfQueue /\ rfOwed' = rfOwed
    BY DEF FanoutSends
<1>2. CASE rfServed' = rfServed \cup {<<w, n>>} /\ Advance(i) /\ UNCHANGED <<rfDropped, rfSkipped>>
  <2>1. /\ rfFan' \in Seq(FanType)
        /\ \A j \in DOMAIN rfFan' : rfFan'[j].msg \in 1..Len(rfMsgs) /\ rfFan'[j].rest # << >>
        /\ \A s, m : InFan(s, m) => InFan(s, m)' \/ (s = w /\ m = n)
    BY <1>0, <1>2, AdvanceKeeps
  <2> HIDE DEF w, n
  <2>2. RfedTyped'
    BY <1>0, <1>1, <2>1 DEF RfedTyped
  <2>3. ASSUME NEW s \in Subscribers, NEW m \in Nat, Waits(s, m) PROVE Waits(s, m)' \/ Settled(s, m)'
    BY <1>1, <1>2, <2>1, <2>3 DEF Waits, InQueue, InDrain, Settled
  <2> QED
    BY <1>1, <1>2, <2>2, <2>3, NothingIsLost
<1>3. CASE /\ rfDropped' = rfDropped \cup {<<w, n>>} /\ rfSkipped' = rfSkipped \cup skipped
           /\ rfFan' = RemoveAt(rfFan, i) /\ UNCHANGED rfServed
  <2>1. /\ rfFan' \in Seq(FanType)
        /\ \A j \in DOMAIN rfFan' : rfFan'[j].msg \in 1..Len(rfMsgs) /\ rfFan'[j].rest # << >>
        /\ \A s, m : InFan(s, m) => InFan(s, m)' \/ (m = n /\ \E j \in DOMAIN r : s = r[j].who)
    BY <1>0, <1>3, FanoutGone
  <2>2. \A j \in DOMAIN r : j = 1 \/ j \in 2..Len(r)
    <3>1. rfFan[i] \in FanType
        BY <1>0 DEF RfedTyped
    <3>2. r \in Seq(SubscriptionType)
        BY <3>1 DEF FanType
    <3> QED
        BY <3>2
  <2>3. \A s, m : InFan(s, m) => InFan(s, m)' \/ (m = n /\ s = w) \/ <<s, m>> \in skipped
    BY <2>1, <2>2 DEF NextSub
  <2> HIDE DEF w, n, r, skipped
  <2>4. RfedTyped'
    BY <1>0, <1>1, <2>1 DEF RfedTyped
  <2>5. ASSUME NEW s \in Subscribers, NEW m \in Nat, Waits(s, m) PROVE Waits(s, m)' \/ Settled(s, m)'
    BY <1>1, <1>3, <2>3, <2>5 DEF Waits, InQueue, InDrain, Settled
  <2> QED
    BY <1>1, <1>3, <2>4, <2>5, NothingIsLost
<1> QED
    BY <1>2, <1>3 DEF FanoutSends


\* A drain has sent its next entry.
LEMMA DrainAdvances ==
    ASSUME RfedTyped, NEW i \in DOMAIN rfDrains, NEW r, r = rfDrains[i].rest,
           rfDrains' = IF Len(r) = 1 THEN RemoveAt(rfDrains, i) ELSE [rfDrains EXCEPT ![i].rest = Tail(@)]
    PROVE  /\ rfDrains' \in Seq(DrainType) /\ \A j \in DOMAIN rfDrains' : rfDrains'[j].rest # << >>
           /\ \A s, m : InDrain(s, m) => InDrain(s, m)' \/ (s = rfDrains[i].who /\ m = r[1].msg)
<1>1. /\ rfDrains \in Seq(DrainType) /\ r \in Seq(EntryType) /\ r # << >> /\ rfDrains[i].who \in Subscribers
      /\ \A j \in DOMAIN rfDrains : rfDrains[j].rest # << >>
      /\ \E a, b : rfDrains[i] = [who |-> a, rest |-> b] /\ a = rfDrains[i].who
  <2>1. rfDrains \in Seq(DrainType) /\ \A j \in DOMAIN rfDrains : rfDrains[j].rest # << >>
    BY DEF RfedTyped
  <2>2. rfDrains[i] \in DrainType
    BY <2>1
  <2>3. r \in Seq(EntryType) /\ rfDrains[i].who \in Subscribers /\ rfDrains[i] = [who |-> rfDrains[i].who, rest |-> rfDrains[i].rest]
    BY <2>2 DEF DrainType
  <2>4. \E a, b : rfDrains[i] = [who |-> a, rest |-> b] /\ a = rfDrains[i].who
    BY <2>3, Zenon
  <2> QED
    BY <2>1, <2>3, <2>4
<1>2. CASE Len(r) = 1
  <2>1. rfDrains' = RemoveAt(rfDrains, i)
    BY <1>2
  <2>2. /\ rfDrains' \in Seq(DrainType)
        /\ \A j \in DOMAIN rfDrains' : \E k \in DOMAIN rfDrains : k # i /\ rfDrains'[j] = rfDrains[k]
        /\ \A k \in DOMAIN rfDrains : k # i => \E j \in DOMAIN rfDrains' : rfDrains'[j] = rfDrains[k]
    BY <1>1, <2>1, RemovedEntries
  <2>3. DOMAIN r = {1}
    BY <1>1, <1>2
  <2>4. ASSUME NEW s, NEW m, InDrain(s, m) PROVE InDrain(s, m)' \/ (s = rfDrains[i].who /\ m = r[1].msg)
    <3>1. PICK k \in DOMAIN rfDrains : rfDrains[k].who = s /\ \E j \in DOMAIN rfDrains[k].rest : rfDrains[k].rest[j].msg = m
        BY <2>4 DEF InDrain
    <3>2. CASE k = i
        BY <2>3, <3>1, <3>2
    <3>3. CASE k # i
        BY <2>2, <3>1, <3>3 DEF InDrain
    <3> QED
        BY <3>2, <3>3
  <2>5. ASSUME NEW j \in DOMAIN rfDrains' PROVE rfDrains'[j].rest # << >>
    <3>1. PICK k \in DOMAIN rfDrains : rfDrains'[j] = rfDrains[k]
        BY <2>2
    <3> QED
        BY <1>1, <3>1
  <2> QED
    BY <2>2, <2>4, <2>5
<1>3. CASE Len(r) # 1
  <2>1. PICK a, b : rfDrains[i] = [who |-> a, rest |-> b] /\ a = rfDrains[i].who
    BY <1>1
  <2>10. PICK x : x = Tail(r)
    OBVIOUS
  <2>11. PICK f : f = [who |-> a, rest |-> x]
    OBVIOUS
  <2>2. f.who = rfDrains[i].who /\ f.rest = x
    BY ONLY <2>1, <2>11
  <2>3. /\ x \in Seq(EntryType) /\ Len(x) = Len(r) - 1
        /\ \A k \in DOMAIN r : k # 1 => k - 1 \in DOMAIN x /\ x[k - 1] = r[k]
    BY <1>1, <2>10, TailEntries
  <2>4. x # << >>
    <3>1. Len(r) \in Nat /\ Len(r) # 0
        BY <1>1, EmptySeq
    <3>2. Len(x) # 0
        BY <1>3, <2>3, <3>1
    <3>3. x = << >> => Len(x) = 0
        BY EmptySeq
    <3> QED
        BY <3>2, <3>3
  <2>5. rfDrains' = [rfDrains EXCEPT ![i] = f]
    <3>1. rfDrains' = [rfDrains EXCEPT ![i].rest = Tail(@)]
        BY <1>3
    <3>2. rfDrains' = [rfDrains EXCEPT ![i] = [rfDrains[i] EXCEPT !.rest = x]]
        BY <1>1, <2>10, <3>1
    <3>3. [rfDrains[i] EXCEPT !.rest = x] = f
      <4>1. ASSUME NEW g, g = [who |-> a, rest |-> b] PROVE [g EXCEPT !.rest = x] = [who |-> a, rest |-> x]
        BY ONLY <4>1
      <4> QED
        BY ONLY <2>1, <2>11, <4>1
    <3> QED
        BY ONLY <3>2, <3>3, Zenon
  <2>6. f \in DrainType
    <3>1. a \in Subscribers
        BY <1>1, <2>1
    <3> QED
        BY <2>3, <2>11, <3>1 DEF DrainType
  <2>7. rfDrains' \in Seq(DrainType) /\ DOMAIN rfDrains' = DOMAIN rfDrains /\ rfDrains'[i] = f
        /\ \A k \in DOMAIN rfDrains : k # i => rfDrains'[k] = rfDrains[k]
    <3>1. rfDrains \in Seq(DrainType) /\ i \in DOMAIN rfDrains
        BY <1>1
    <3> QED
        BY ONLY <2>5, <2>6, <3>1
  <2>8. ASSUME NEW s, NEW m, InDrain(s, m) PROVE InDrain(s, m)' \/ (s = rfDrains[i].who /\ m = r[1].msg)
    <3>1. PICK k \in DOMAIN rfDrains : rfDrains[k].who = s /\ \E j \in DOMAIN rfDrains[k].rest : rfDrains[k].rest[j].msg = m
        BY <2>8 DEF InDrain
    <3>2. PICK j \in DOMAIN rfDrains[k].rest : rfDrains[k].rest[j].msg = m
        BY <3>1
    <3>3. CASE k = i /\ j = 1
        BY <3>1, <3>2, <3>3
    <3>4. CASE k = i /\ j # 1
      <4>1. j - 1 \in DOMAIN f.rest /\ f.rest[j - 1] = r[j]
        BY <2>2, <2>3, <3>2, <3>4
      <4>2. rfDrains'[i].who = s /\ i \in DOMAIN rfDrains' /\ rfDrains'[i] = f /\ f.rest[j - 1].msg = m
        BY <2>2, <2>7, <3>1, <3>2, <3>4, <4>1
      <4> QED
        BY ONLY <4>1, <4>2 DEF InDrain
    <3>5. CASE k # i
        BY <2>7, <3>1, <3>5 DEF InDrain
    <3> QED
        BY <3>3, <3>4, <3>5
  <2>9. \A j \in DOMAIN rfDrains' : rfDrains'[j].rest # << >>
    BY <1>1, <2>2, <2>4, <2>7
  <2> QED
    BY <2>7, <2>8, <2>9
<1> QED
    BY <1>2, <1>3

\* A drain is given up.
LEMMA DrainGone ==
    ASSUME RfedTyped, NEW i \in DOMAIN rfDrains, rfDrains' = RemoveAt(rfDrains, i)
    PROVE  /\ rfDrains' \in Seq(DrainType) /\ \A j \in DOMAIN rfDrains' : rfDrains'[j].rest # << >>
           /\ \A s, m : InDrain(s, m) => InDrain(s, m)' \/ (s = rfDrains[i].who /\ \E j \in DOMAIN rfDrains[i].rest : m = rfDrains[i].rest[j].msg)
<1>1. rfDrains \in Seq(DrainType) /\ \A j \in DOMAIN rfDrains : rfDrains[j].rest # << >>
    BY DEF RfedTyped
<1>2. /\ rfDrains' \in Seq(DrainType)
      /\ \A j \in DOMAIN rfDrains' : \E k \in DOMAIN rfDrains : k # i /\ rfDrains'[j] = rfDrains[k]
      /\ \A k \in DOMAIN rfDrains : k # i => \E j \in DOMAIN rfDrains' : rfDrains'[j] = rfDrains[k]
    BY <1>1, RemovedEntries
<1>3. ASSUME NEW s, NEW m, InDrain(s, m)
      PROVE  InDrain(s, m)' \/ (s = rfDrains[i].who /\ \E j \in DOMAIN rfDrains[i].rest : m = rfDrains[i].rest[j].msg)
  <2>1. PICK k \in DOMAIN rfDrains : rfDrains[k].who = s /\ \E j \in DOMAIN rfDrains[k].rest : rfDrains[k].rest[j].msg = m
    BY <1>3 DEF InDrain
  <2>2. CASE k = i
    BY <2>1, <2>2
  <2>3. CASE k # i
    BY <1>2, <2>1, <2>3 DEF InDrain
  <2> QED
    BY <2>2, <2>3
<1>4. \A j \in DOMAIN rfDrains' : rfDrains'[j].rest # << >>
    BY <1>1, <1>2
<1> QED
    BY <1>2, <1>3, <1>4

\* A drain sends its next entry, and is given up when that throws.
LEMMA DrainSendsKeeps ==
    ASSUME RfedInv, NEW i \in DOMAIN rfDrains, DrainSends(i)
    PROVE  RfedInv'
<1>0. RfedTyped
    BY DEF RfedInv
<1>9. PICK w, r : w = rfDrains[i].who /\ r = rfDrains[i].rest
    OBVIOUS
<1> DEFINE pair == <<w, r[1].msg>>
           more == {<<w, r[j].msg>> : j \in 2..Len(r)}
<1>1. /\ rfSubs' = rfSubs /\ rfSubscribing' = rfSubscribing /\ rfMsgs' = rfMsgs /\ rfStore' = rfStore /\ rfFan' = rfFan
      /\ rfQueue' = rfQueue /\ rfOwed' = rfOwed
    BY DEF DrainSends
<1>2. CASE /\ rfServed' = rfServed \cup {pair}
           /\ rfDrains' = IF Len(r) = 1 THEN RemoveAt(rfDrains, i) ELSE [rfDrains EXCEPT ![i].rest = Tail(@)]
           /\ UNCHANGED <<rfDropped, rfSkipped>>
  <2>1. /\ rfDrains' \in Seq(DrainType) /\ \A j \in DOMAIN rfDrains' : rfDrains'[j].rest # << >>
        /\ \A s, m : InDrain(s, m) => InDrain(s, m)' \/ (s = w /\ m = r[1].msg)
    BY <1>0, <1>2, <1>9, DrainAdvances
  <2>2. RfedTyped'
    BY <1>0, <1>1, <2>1 DEF RfedTyped
  <2>3. ASSUME NEW s \in Subscribers, NEW m \in Nat, Waits(s, m) PROVE Waits(s, m)' \/ Settled(s, m)'
    BY <1>1, <1>2, <2>1, <2>3 DEF Waits, InQueue, InFan, Settled
  <2> QED
    BY <1>1, <1>2, <2>2, <2>3, NothingIsLost
<1>3. CASE /\ rfDropped' = rfDropped \cup {pair} /\ rfSkipped' = rfSkipped \cup more
           /\ rfDrains' = RemoveAt(rfDrains, i) /\ UNCHANGED rfServed
  <2>1. /\ rfDrains' \in Seq(DrainType) /\ \A j \in DOMAIN rfDrains' : rfDrains'[j].rest # << >>
        /\ \A s, m : InDrain(s, m) => InDrain(s, m)' \/ (s = w /\ \E j \in DOMAIN r : m = r[j].msg)
    BY <1>0, <1>3, <1>9, DrainGone
  <2>2. \A j \in DOMAIN r : j = 1 \/ j \in 2..Len(r)
    <3>1. rfDrains[i] \in DrainType
        BY <1>0 DEF RfedTyped
    <3>2. r \in Seq(EntryType)
        BY <1>9, <3>1 DEF DrainType
    <3> QED
        BY <3>2
  <2>3. \A s, m : InDrain(s, m) => InDrain(s, m)' \/ <<s, m>> = pair \/ <<s, m>> \in more
    BY <2>1, <2>2
  <2> HIDE DEF pair, more
  <2>4. RfedTyped'
    BY <1>0, <1>1, <2>1 DEF RfedTyped
  <2>5. ASSUME NEW s \in Subscribers, NEW m \in Nat, Waits(s, m) PROVE Waits(s, m)' \/ Settled(s, m)'
    BY <1>1, <1>3, <2>3, <2>5 DEF Waits, InQueue, InFan, Settled
  <2> QED
    BY <1>1, <1>3, <2>4, <2>5, NothingIsLost
<1> QED
    BY <1>2, <1>3, <1>9 DEF DrainSends

\* An announce takes the bucket out, into a drain.
LEMMA AnnouncedKeeps ==
    ASSUME RfedInv, NEW s \in Subscribers, SubscriberAnnounced(s)
    PROVE  RfedInv'
<1>0. RfedTyped /\ rfDrains \in Seq(DrainType) /\ rfQueue \in [Subscribers -> Seq(EntryType)]
    BY DEF RfedInv, RfedTyped
<1>1. /\ rfSubs' = rfSubs /\ rfSubscribing' = rfSubscribing /\ rfMsgs' = rfMsgs /\ rfStore' = rfStore /\ rfFan' = rfFan
      /\ rfOwed' = rfOwed /\ rfServed' = rfServed /\ rfDropped' = rfDropped /\ rfSkipped' = rfSkipped
    BY DEF SubscriberAnnounced, rfHistory
<1>2. CASE UNCHANGED <<rfDrains, rfQueue>>
  <2>1. RfedTyped'
    BY <1>0, <1>1, <1>2 DEF RfedTyped
  <2>2. \A t \in Subscribers, m \in Nat : Waits(t, m) => Waits(t, m)'
    BY <1>1, <1>2 DEF Waits, InQueue, InDrain, InFan
  <2> QED
    BY <1>1, <2>1, <2>2, NothingIsLost
<1>3. CASE /\ rfQueue[s] # << >> /\ rfDrains' = Append(rfDrains, [who |-> s, rest |-> rfQueue[s]])
           /\ rfQueue' = [rfQueue EXCEPT ![s] = << >>]
  <2>1. PICK d : d = [who |-> s, rest |-> rfQueue[s]]
    OBVIOUS
  <2>2. d \in DrainType /\ d.who = s /\ d.rest = rfQueue[s]
    BY <1>0, <2>1 DEF DrainType
  <2>3. rfDrains' = Append(rfDrains, d)
    BY <1>3, <2>1
  <2>4. /\ rfDrains' \in Seq(DrainType)
        /\ \A j \in DOMAIN rfDrains' : rfDrains'[j] = d \/ (j \in DOMAIN rfDrains /\ rfDrains'[j] = rfDrains[j])
        /\ \A j \in DOMAIN rfDrains : j \in DOMAIN rfDrains' /\ rfDrains'[j] = rfDrains[j]
        /\ Len(rfDrains) + 1 \in DOMAIN rfDrains' /\ rfDrains'[Len(rfDrains) + 1] = d
    BY ONLY <1>0, <2>2, <2>3, AppendedEntries
  <2>5. /\ rfQueue' \in [Subscribers -> Seq(EntryType)] /\ \A t \in Subscribers : t # s => rfQueue'[t] = rfQueue[t]
    BY <1>0, <1>3, EmptySeq
  <2>6. \A j \in DOMAIN rfDrains' : rfDrains'[j].rest # << >>
    BY <1>0, <1>3, <2>2, <2>4 DEF RfedTyped
  <2>7. RfedTyped'
    BY <1>0, <1>1, <2>4, <2>5, <2>6 DEF RfedTyped
  <2>8. ASSUME NEW t \in Subscribers, NEW m \in Nat, Waits(t, m) PROVE Waits(t, m)'
    <3>1. CASE InFan(t, m)
        BY <1>1, <3>1 DEF Waits, InFan
    <3>2. CASE InDrain(t, m)
      <4>1. InDrain(t, m)'
        BY <2>4, <3>2 DEF InDrain
      <4> QED
        BY <4>1 DEF Waits
    <3>3. CASE InQueue(t, m) /\ t # s
      <4>1. InQueue(t, m)'
        BY <2>5, <3>3 DEF InQueue
      <4> QED
        BY <4>1 DEF Waits
    <3>4. CASE InQueue(t, m) /\ t = s
      <4>1. InDrain(t, m)'
        BY <2>2, <2>4, <3>4 DEF InDrain, InQueue
      <4> QED
        BY <4>1 DEF Waits
    <3> QED
        BY <2>8, <3>1, <3>2, <3>3, <3>4 DEF Waits
  <2> QED
    BY <1>1, <2>7, <2>8, NothingIsLost
<1> QED
    BY <1>2, <1>3 DEF SubscriberAnnounced

\* One bucket changes: what it loses is over.
LEMMA BucketKeeps ==
    ASSUME RfedInv, NEW s \in Subscribers, NEW q \in Seq(EntryType), rfQueue' = [rfQueue EXCEPT ![s] = q], rfStore' \in Seq(Nat),
           UNCHANGED <<rfSubs, rfSubscribing, rfMsgs, rfFan, rfDrains, rfOwed, rfSkipped>>,
           rfServed \subseteq rfServed', rfDropped \subseteq rfDropped',
           \A i \in DOMAIN rfQueue[s] : \/ \E j \in DOMAIN q : q[j] = rfQueue[s][i]
                                        \/ <<s, rfQueue[s][i].msg>> \in rfServed' \cup rfDropped'
    PROVE  RfedInv'
<1>0. RfedTyped /\ rfQueue \in [Subscribers -> Seq(EntryType)]
    BY DEF RfedInv, RfedTyped
<1>1. /\ rfQueue' \in [Subscribers -> Seq(EntryType)] /\ rfQueue'[s] = q
      /\ \A t \in Subscribers : t # s => rfQueue'[t] = rfQueue[t]
    BY <1>0
<1>2. RfedTyped'
    BY <1>0, <1>1 DEF RfedTyped
<1>3. ASSUME NEW t \in Subscribers, NEW m \in Nat, Waits(t, m) PROVE Waits(t, m)' \/ Settled(t, m)'
  <2>1. CASE InFan(t, m) \/ InDrain(t, m)
    BY <2>1 DEF Waits, InFan, InDrain
  <2>2. CASE InQueue(t, m) /\ t # s
    BY <1>1, <2>2 DEF Waits, InQueue
  <2>3. CASE InQueue(t, m) /\ t = s
    <3>1. PICK i \in DOMAIN rfQueue[s] : rfQueue[s][i].msg = m
        BY <2>3 DEF InQueue
    <3>2. CASE \E j \in DOMAIN q : q[j] = rfQueue[s][i]
        BY <1>1, <2>3, <3>1, <3>2 DEF Waits, InQueue
    <3>3. CASE <<s, rfQueue[s][i].msg>> \in rfServed' \cup rfDropped'
        BY <2>3, <3>1, <3>3 DEF Settled
    <3> QED
        BY <3>2, <3>3
  <2> QED
    BY <1>3, <2>1, <2>2, <2>3 DEF Waits
<1> QED
    BY <1>2, <1>3, NothingIsLost

\* A pull takes a page of its channel and nothing else.
LEMMA HandlePullKeeps ==
    ASSUME RfedInv, NEW s \in Subscribers, NEW c \in Channels, HandlePull(s, c)
    PROVE  RfedInv'
<1> DEFINE nth(i) == Cardinality({j \in 1..i : rfQueue[s][j].chan = c})
           page == {i \in DOMAIN rfQueue[s] : rfQueue[s][i].chan = c /\ nth(i) <= PageSize}
           batch == DrainChannelBatch(s, c)
<1>0. rfQueue[s] \in Seq(EntryType) /\ rfStore \in Seq(Nat)
    BY DEF RfedInv, RfedTyped
<1>1. batch.taken = Picked(rfQueue[s], page) /\ batch.kept = Picked(rfQueue[s], DOMAIN rfQueue[s] \ page)
    BY DEF DrainChannelBatch
<1>2. page \subseteq DOMAIN rfQueue[s]
    OBVIOUS
<1> HIDE DEF page, nth
<1>3. \A n \in page : \E k \in DOMAIN batch.taken : batch.taken[k] = rfQueue[s][n]
    BY <1>0, <1>1, <1>2, PickedProperties
<1>4. batch.kept \in Seq(EntryType) /\ \A n \in DOMAIN rfQueue[s] \ page : \E k \in DOMAIN batch.kept : batch.kept[k] = rfQueue[s][n]
  <2>1. DOMAIN rfQueue[s] \ page \subseteq DOMAIN rfQueue[s]
    OBVIOUS
  <2>2. PICK ns : ns = DOMAIN rfQueue[s] \ page
    OBVIOUS
  <2>3. batch.kept = Picked(rfQueue[s], ns) /\ ns \subseteq DOMAIN rfQueue[s]
    BY <1>1, <2>1, <2>2
  <2> HIDE DEF batch
  <2>4. batch.kept \in Seq(EntryType) /\ \A n \in ns : \E k \in DOMAIN batch.kept : batch.kept[k] = rfQueue[s][n]
    BY <1>0, <2>3, PickedProperties
  <2> QED
    BY <2>2, <2>4
<1>5. /\ rfQueue' = [rfQueue EXCEPT ![s] = batch.kept]
      /\ rfServed' = rfServed \cup {<<s, batch.taken[i].msg>> : i \in DOMAIN batch.taken}
      /\ rfStore' = rfStore /\ rfDropped' = rfDropped
      /\ UNCHANGED <<rfSubs, rfSubscribing, rfMsgs, rfFan, rfDrains, rfOwed, rfSkipped>>
    BY DEF HandlePull
<1> HIDE DEF batch
<1>6. ASSUME NEW i \in DOMAIN rfQueue[s]
      PROVE  (\E j \in DOMAIN batch.kept : batch.kept[j] = rfQueue[s][i]) \/ <<s, rfQueue[s][i].msg>> \in rfServed' \cup rfDropped'
  <2>1. CASE i \in page
    BY <1>3, <1>5, <2>1
  <2>2. CASE i \notin page
    BY <1>4, <2>2
  <2> QED
    BY <2>1, <2>2
<1>7. rfServed \subseteq rfServed' /\ rfDropped \subseteq rfDropped' /\ rfStore' \in Seq(Nat)
    BY <1>0, <1>5
<1>8. PICK q : q = batch.kept
    OBVIOUS
<1> QED
    BY <1>4, <1>5, <1>6, <1>7, <1>8, BucketKeeps

\* Maintenance drops the oldest entries of a bucket.
LEMMA TickMaintenanceKeeps ==
    ASSUME RfedInv, NEW s \in Subscribers, TickMaintenance(s)
    PROVE  RfedInv'
<1>0. rfQueue[s] \in Seq(EntryType) /\ rfStore \in Seq(Nat)
    BY DEF RfedInv, RfedTyped
<1>1. PICK n \in 0..Len(rfQueue[s]) :
        /\ rfQueue' = [rfQueue EXCEPT ![s] = SubSeq(@, n + 1, Len(@))]
        /\ rfDropped' = rfDropped \cup {<<s, rfQueue[s][i].msg>> : i \in 1..n}
    BY DEF TickMaintenance
<1>2. PICK q : q = SubSeq(rfQueue[s], n + 1, Len(rfQueue[s]))
    OBVIOUS
<1>3. rfQueue' = [rfQueue EXCEPT ![s] = q]
    BY <1>1, <1>2
<1>4. q \in Seq(EntryType) /\ Len(q) = Len(rfQueue[s]) - n /\ \A i \in 1..(Len(rfQueue[s]) - n) : q[i] = rfQueue[s][n + i]
  <2>1. n + 1 \in 1..(Len(rfQueue[s]) + 1) /\ Len(rfQueue[s]) \in Nat
    BY <1>0
  <2>2. CASE n = Len(rfQueue[s])
    BY <1>0, <1>2, <2>1, <2>2
  <2>3. CASE n < Len(rfQueue[s])
    BY <1>0, <1>2, <2>1, <2>3, SubSeqProperties
  <2> QED
    BY <2>1, <2>2, <2>3
<1>5. ASSUME NEW i \in DOMAIN rfQueue[s]
      PROVE  (\E j \in DOMAIN q : q[j] = rfQueue[s][i]) \/ <<s, rfQueue[s][i].msg>> \in rfServed' \cup rfDropped'
  <2>1. CASE i \in 1..n
    BY <1>1, <2>1
  <2>2. CASE i \notin 1..n
    <3>1. i - n \in 1..(Len(rfQueue[s]) - n) /\ n + (i - n) = i /\ DOMAIN q = 1..(Len(rfQueue[s]) - n)
        BY <1>0, <1>4, <2>2
    <3> QED
        BY <1>4, <3>1
  <2> QED
    BY <2>1, <2>2
<1>6. rfStore' \in Seq(Nat)
  <2>1. CASE UNCHANGED rfStore
    BY <1>0, <2>1
  <2>2. CASE rfStore # << >> /\ rfStore' = Tail(rfStore)
    BY <1>0, <2>2, TailEntries
  <2> QED
    BY <2>1, <2>2 DEF TickMaintenance
<1>7. rfDropped \subseteq rfDropped' /\ rfServed \subseteq rfServed'
      /\ UNCHANGED <<rfSubs, rfSubscribing, rfMsgs, rfFan, rfDrains, rfOwed, rfSkipped>>
    BY <1>1 DEF TickMaintenance
<1> QED
    BY <1>3, <1>4, <1>5, <1>6, <1>7, BucketKeeps

\* The backlog of a backup pair goes into an empty bucket.
LEMMA BackupDeliveryKeeps ==
    ASSUME RfedInv, NEW i \in DOMAIN rfSubs, BackupDeliveryTick(i)
    PROVE  RfedInv'
<1>1. PICK s, c : s = rfSubs[i].who /\ c = rfSubs[i].chan
    OBVIOUS
<1>2. PICK ids : ids = Picked(rfStore, {j \in DOMAIN rfStore : rfMsgs[rfStore[j]] = rfSubs[i].chan})
    OBVIOUS
<1>3. s \in Subscribers /\ c \in Channels
  <2>1. rfSubs[i] \in SubscriptionType
    BY DEF RfedInv, RfedTyped
  <2> QED
    BY <1>1, <2>1 DEF SubscriptionType
<1>4. rfStore \in Seq(Nat) /\ ids \in Seq(Nat)
    BY <1>2, PickedProperties DEF RfedInv, RfedTyped
<1>5. PICK n \in 1..Len(ids) : rfQueue' = [rfQueue EXCEPT ![s] = [k \in 1..Held(n) |-> [msg |-> ids[n - Held(n) + k], chan |-> c]]]
  <2>1. \E n \in 1..Len(Picked(rfStore, {j \in DOMAIN rfStore : rfMsgs[rfStore[j]] = rfSubs[i].chan})) :
          rfQueue' = [rfQueue EXCEPT ![rfSubs[i].who] = [k \in 1..Held(n) |->
            [msg |-> Picked(rfStore, {j \in DOMAIN rfStore : rfMsgs[rfStore[j]] = rfSubs[i].chan})[n - Held(n) + k], chan |-> rfSubs[i].chan]]]
    BY Zenon DEF BackupDeliveryTick
  <2> QED
    BY ONLY <1>1, <1>2, <2>1, Zenon
<1>6. Held(n) \in 1..n /\ n \in Nat /\ Len(ids) \in Nat
    BY <1>4, RfedAssumption DEF Held
<1>7. PICK q : q = [k \in 1..Held(n) |-> [msg |-> ids[n - Held(n) + k], chan |-> c]]
    OBVIOUS
<1>8. q \in Seq(EntryType)
  <2>1. ASSUME NEW k \in 1..Held(n) PROVE [msg |-> ids[n - Held(n) + k], chan |-> c] \in EntryType
    <3>1. n - Held(n) + k \in 1..Len(ids)
        BY <1>6
    <3>2. ids[n - Held(n) + k] \in Nat
        BY <1>4, <3>1
    <3> QED
        BY <1>3, <3>2 DEF EntryType
  <2>2. Held(n) \in Nat /\ q \in [1..Held(n) -> EntryType]
    BY <1>6, <1>7, <2>1
  <2> QED
    BY <2>2
<1>9. /\ rfQueue[s] = << >> /\ rfServed' = rfServed /\ rfDropped' = rfDropped /\ rfStore' = rfStore
      /\ UNCHANGED <<rfSubs, rfSubscribing, rfMsgs, rfFan, rfDrains, rfOwed, rfSkipped>>
    BY <1>1 DEF BackupDeliveryTick, rfHistory
<1>10. rfQueue' = [rfQueue EXCEPT ![s] = q] /\ DOMAIN rfQueue[s] = {}
    BY <1>5, <1>7, <1>9
<1>11. rfServed \subseteq rfServed' /\ rfDropped \subseteq rfDropped' /\ rfStore' \in Seq(Nat)
    BY <1>4, <1>9
<1>12. \A j \in DOMAIN rfQueue[s] : (\E k \in DOMAIN q : q[k] = rfQueue[s][j]) \/ <<s, rfQueue[s][j].msg>> \in rfServed' \cup rfDropped'
    BY <1>10
<1> QED
    BY <1>3, <1>8, <1>9, <1>10, <1>11, <1>12, BucketKeeps

\* Every step of the node keeps its invariant.
LEMMA RfedKeeps == RfedInv /\ [RfedNext]_rfedVars => RfedInv'
<1> SUFFICES ASSUME RfedInv, [RfedNext]_rfedVars PROVE RfedInv'
    OBVIOUS
<1>0. rfSubs \in Seq(SubscriptionType) /\ rfSubscribing \in Seq(RequestType) /\ rfStore \in Seq(Nat)
    BY DEF RfedInv, RfedTyped
<1>1. CASE UNCHANGED rfedVars
    BY <1>0, <1>1, SubscriptionsKeep DEF rfedVars, rfHistory
<1>2. CASE \E s \in Subscribers, c \in Channels : HandleSubscribe(s, c) \/ SubscribeBackup(s, c) \/ HandleUnsubscribe(s, c)
    BY <1>2, SubscribingKeeps
<1>3. CASE \E s \in Subscribers, c \in Channels : HandlePull(s, c)
    BY <1>3, HandlePullKeeps
<1>4. CASE \E i \in DOMAIN rfSubscribing : Subscribe(i)
    BY <1>4, SubscribeKeeps
<1>5. CASE \E c \in Channels : HandleSend(c)
    BY <1>5, HandleSendKeeps
<1>6. CASE \E i \in DOMAIN rfFan : FanoutDefers(i) \/ FanoutLeavesToOwner(i) \/ FanoutSends(i)
    BY <1>6, FanoutDefersKeeps, FanoutLeavesKeeps, FanoutSendsKeeps
<1>7. CASE \E s \in Subscribers : SubscriberAnnounced(s)
    BY <1>7, AnnouncedKeeps
<1>8. CASE \E s \in Subscribers : PresenceLapses(s)
    BY <1>0, <1>8, SubscriptionsKeep DEF PresenceLapses
<1>9. CASE \E s \in Subscribers : TickMaintenance(s)
    BY <1>9, TickMaintenanceKeeps
<1>10. CASE \E i \in DOMAIN rfDrains : DrainSends(i)
    BY <1>10, DrainSendsKeeps
<1>11. CASE \E i \in DOMAIN rfSubs : BackupDeliveryTick(i)
    BY <1>11, BackupDeliveryKeeps
<1> QED
    BY <1>1, <1>2, <1>3, <1>4, <1>5, <1>6, <1>7, <1>8, <1>9, <1>10, <1>11 DEF RfedNext

\* What the fan-outs of a node owe.
FanoutAccounted ==
    \A p \in rfOwed \ (rfServed \cup rfDropped \cup rfSkipped) :
       \/ \E i \in DOMAIN rfQueue[p[1]] : rfQueue[p[1]][i].msg = p[2]
       \/ \E i \in DOMAIN rfDrains : rfDrains[i].who = p[1] /\ \E j \in DOMAIN rfDrains[i].rest : rfDrains[i].rest[j].msg = p[2]
       \/ \E i \in DOMAIN rfFan : rfFan[i].msg = p[2] /\ \E j \in DOMAIN rfFan[i].rest : rfFan[i].rest[j].who = p[1]

\* The invariant says that they pay it.
LEMMA OwedIsAccounted == RfedInv => FanoutAccounted
<1> SUFFICES ASSUME RfedInv, NEW p \in rfOwed \ (rfServed \cup rfDropped \cup rfSkipped)
             PROVE  \/ \E i \in DOMAIN rfQueue[p[1]] : rfQueue[p[1]][i].msg = p[2]
                    \/ \E i \in DOMAIN rfDrains : rfDrains[i].who = p[1] /\ \E j \in DOMAIN rfDrains[i].rest : rfDrains[i].rest[j].msg = p[2]
                    \/ \E i \in DOMAIN rfFan : rfFan[i].msg = p[2] /\ \E j \in DOMAIN rfFan[i].rest : rfFan[i].rest[j].who = p[1]
    BY DEF FanoutAccounted
<1>1. PICK s \in Subscribers, m \in Nat : p = <<s, m>>
    BY DEF RfedInv, RfedTyped
<1>2. Waits(s, m) /\ p[1] = s /\ p[2] = m
    BY <1>1 DEF RfedInv, Settled
<1> QED
    BY <1>2 DEF Waits, InQueue, InDrain, InFan

-----------------------------------------------------------------------------
\* The program that runs an rfed node.

\* The four table files.
LEMMA FourTables ==
    /\ Len(Tables) = 4 /\ \A k \in 1..4 : Tables[k] \in Range(Tables)
    /\ \A j, k \in 1..4 : Tables[j] = Tables[k] => j = k
    /\ \A t \in Range(Tables) : \E k \in 1..4 : t = Tables[k]
<1>1. DOMAIN Tables = 1..4 /\ Len(Tables) = 4
    BY DEF Tables
<1>2. \A j, k \in 1..4 : Tables[j] = Tables[k] => j = k
  <2>1. /\ Tables[1] = "subscriptions" /\ Tables[2] = "deferred" /\ Tables[3] = "notify" /\ Tables[4] = "messages"
    BY DEF Tables
  <2>2. \A k \in 1..4 : k = 1 \/ k = 2 \/ k = 3 \/ k = 4
    OBVIOUS
  <2> QED
    BY <2>1, <2>2
<1> QED
    BY <1>1, <1>2 DEF Range

\* Where a save is.
SaveType == [pc : {"remove", "export", "next", "open", "write", "put", "done"}, left : SUBSET StoredBlobs,
             blob : StoredBlobs \cup {0}, table : 1..5, val : Nat, last : BOOLEAN]

\* The stores, in memory or as a shutdown found them.
StoresType == [blobs : SUBSET StoredBlobs, damaged : SUBSET StoredBlobs, tables : [Range(Tables) -> Nat]]

\* The type of the runner.
RunnerTyped ==
    /\ rsUp \in {"up", "leaving", "down", "refused"}
    /\ rsMem \in StoresType /\ rsOwed \in StoresType
    /\ rsBlobFile \in [StoredBlobs -> {"none", "part", "whole"}] /\ rsFiles \in [Range(Tables) -> Nat]
    /\ rsSaves \in Seq(SaveType) /\ rsCounts \in [changes : 0..MaxChanges, starts : Nat]

\* A table is as old as a change that has been, in memory, on its way and in its file.
TablesInv ==
    /\ \A t \in Range(Tables) : rsMem.tables[t] <= rsCounts.changes /\ (rsFiles[t] <= rsCounts.changes \/ rsFiles[t] = CutOff)
    /\ \A i \in DOMAIN rsSaves : rsSaves[i].val <= rsCounts.changes /\ (rsSaves[i].pc # "done" => rsSaves[i].table \in 1..4)
    /\ ~Running => rsSaves = << >>

\* What a save that meets no other finds.
SaveInv(s) ==
    /\ s.pc = "open" => s.blob \in rsDirs /\ s.blob \in StoredBlobs
    /\ s.pc = "write" => s.blob \in StoredBlobs /\ rsBlobFile[s.blob] # "none"
    /\ s.pc \in {"put", "done"} => s.left = {}
    /\ s.pc = "done" => s.table = 5
    /\ s.pc \in {"remove", "export"} => s.table = 1
    /\ s.pc = "put" => rsFiles[Tables[s.table]] = CutOff

\* The file of a blob as shutdown() found the blob.
Written(b) == rsBlobFile[b] = IF b \in rsOwed.damaged THEN "part" ELSE "whole"

\* What the save of a shutdown has written and has still to write.
ShutdownInv(s) ==
    /\ s.last /\ rsOwed.blobs \subseteq rsMem.blobs /\ rsMem.damaged = rsOwed.damaged
    /\ \A t \in Range(Tables) : rsOwed.tables[t] <= rsMem.tables[t]
    /\ \A k \in 1..4 : k < s.table => rsOwed.tables[Tables[k]] <= rsFiles[Tables[k]]
    /\ s.pc = "put" => rsOwed.tables[Tables[s.table]] <= s.val
    /\ s.pc \notin {"remove", "export"} =>
         \A b \in rsOwed.blobs : b \in s.left \/ (s.pc \in {"open", "write"} /\ b = s.blob) \/ Written(b)

\* When no two saves have met and none was broken off: there is one at most, only the file it
\* writes is cut off, and the one of a shutdown loses nothing.
CleanInv ==
    /\ rsUp # "refused" /\ Len(rsSaves) <= 1
    /\ \A t \in Range(Tables) : rsFiles[t] = CutOff => rsSaves # << >> /\ rsSaves[1].pc = "put" /\ t = Tables[rsSaves[1].table]
    /\ rsSaves # << >> => SaveInv(rsSaves[1])
    /\ rsUp = "up" /\ rsSaves # << >> => ~rsSaves[1].last
    /\ rsUp = "leaving" => rsSaves # << >> /\ ShutdownInv(rsSaves[1])
    /\ rsUp = "down" =>
         /\ \A t \in Range(Tables) : rsFiles[t] # CutOff /\ rsFiles[t] >= rsOwed.tables[t]
         /\ \A b \in rsOwed.blobs : Written(b)

\* The invariant of the runner.
RunnerInv == RunnerTyped /\ TablesInv /\ (~rsClash => CleanInv)


\* The runner starts with nothing.
LEMMA RunnerInitially == RunnerInit => RunnerInv
<1> SUFFICES ASSUME RunnerInit PROVE RunnerInv
    OBVIOUS
<1>1. NoStores \in StoresType /\ NoStores.blobs = {} /\ NoStores.tables = [t \in Range(Tables) |-> 0]
    BY DEF NoStores, StoresType
<1>2. rsSaves = << >> /\ Len(rsSaves) = 0 /\ rsSaves \in Seq(SaveType)
    BY EmptySeq DEF RunnerInit
<1>3. rsFiles = [t \in Range(Tables) |-> 0] /\ rsCounts = [changes |-> 0, starts |-> 0] /\ CutOff # 0 /\ 0 \in 0..MaxChanges
    BY <1>1, RfedAssumption DEF RunnerInit, CutOff
<1>4. RunnerTyped
    BY <1>1, <1>2, <1>3 DEF RunnerInit, RunnerTyped
<1>5. TablesInv
    BY <1>1, <1>2, <1>3 DEF RunnerInit, TablesInv
<1>6. CleanInv
    BY <1>2, <1>3 DEF RunnerInit, CleanInv
<1> QED
    BY <1>4, <1>5, <1>6 DEF RunnerInv

\* A save moves on, and its type with it.
LEMMA SaveMoves ==
    ASSUME RunnerTyped, TablesInv, NEW i \in DOMAIN rsSaves, NEW s \in SaveType, rsSaves' = [rsSaves EXCEPT ![i] = s],
           s.val <= rsCounts.changes, s.pc # "done" => s.table \in 1..4
    PROVE  /\ rsSaves' \in Seq(SaveType) /\ DOMAIN rsSaves' = DOMAIN rsSaves /\ Len(rsSaves') = Len(rsSaves) /\ rsSaves'[i] = s
           /\ \A j \in DOMAIN rsSaves' : rsSaves'[j].val <= rsCounts.changes /\ (rsSaves'[j].pc # "done" => rsSaves'[j].table \in 1..4)
<1>1. rsSaves \in Seq(SaveType)
    BY DEF RunnerTyped
<1>2. rsSaves' \in Seq(SaveType) /\ DOMAIN rsSaves' = DOMAIN rsSaves /\ Len(rsSaves') = Len(rsSaves) /\ rsSaves'[i] = s
      /\ \A j \in DOMAIN rsSaves : j # i => rsSaves'[j] = rsSaves[j]
    BY <1>1
<1>3. ASSUME NEW j \in DOMAIN rsSaves' PROVE rsSaves'[j].val <= rsCounts.changes /\ (rsSaves'[j].pc # "done" => rsSaves'[j].table \in 1..4)
  <2>1. CASE j = i
    BY <1>2, <2>1
  <2>2. CASE j # i
    BY <1>2, <2>2 DEF TablesInv
  <2> QED
    BY <2>1, <2>2
<1> QED
    BY <1>2, <1>3

\* The save that is alone moves on.
LEMMA LoneSaveMoves ==
    ASSUME RunnerTyped, CleanInv, Running, NEW i \in DOMAIN rsSaves, NEW s, rsUp' = rsUp,
           Len(rsSaves') = Len(rsSaves), rsSaves'[i] = s, rsSaves' \in Seq(SaveType),
           s.last = rsSaves[i].last, SaveInv(s)',
           \A t \in Range(Tables) : rsFiles'[t] = CutOff => s.pc = "put" /\ t = Tables[s.table],
           rsUp = "leaving" => ShutdownInv(s)'
    PROVE  CleanInv'
<1>1. rsSaves \in Seq(SaveType) /\ Len(rsSaves) <= 1 /\ i \in 1..Len(rsSaves) /\ Len(rsSaves) \in Nat
    BY DEF RunnerTyped, CleanInv
<1>2. i = 1 /\ rsSaves # << >> /\ rsSaves' # << >> /\ Len(rsSaves') <= 1
    BY <1>1
<1>3. rsUp' = "up" => ~s.last
    BY <1>2 DEF CleanInv
<1>4. rsUp' # "refused" /\ rsUp' # "down"
    BY DEF Running
<1> QED
    BY <1>2, <1>3, <1>4 DEF CleanInv

\* It is the only one.
LEMMA Lone ==
    ASSUME RunnerTyped, CleanInv, NEW i \in DOMAIN rsSaves
    PROVE  i = 1 /\ rsSaves # << >> /\ Len(rsSaves) = 1
<1>1. rsSaves \in Seq(SaveType) /\ Len(rsSaves) <= 1 /\ i \in 1..Len(rsSaves) /\ Len(rsSaves) \in Nat
    BY DEF RunnerTyped, CleanInv
<1>2. \A n \in Nat : n <= 1 /\ i \in 1..n => n = 1 /\ i = 1
    OBVIOUS
<1>3. Len(rsSaves) = 1 /\ i = 1
    BY ONLY <1>1, <1>2
<1>4. rsSaves # << >>
    BY ONLY <1>3
<1> QED
    BY ONLY <1>3, <1>4

\* The files when the process is gone.
LEMMA FilesWhenGone ==
    ASSUME RunnerTyped, TablesInv, NEW others, Gone(others)
    PROVE  /\ rsUp' = "down" /\ rsSaves' = << >> /\ rsSaves' \in Seq(SaveType) /\ Len(rsSaves') = 0
           /\ rsFiles' \in [Range(Tables) -> Nat]
           /\ \A t \in Range(Tables) : rsFiles'[t] <= rsCounts.changes \/ rsFiles'[t] = CutOff
           /\ others = {} => rsFiles' = rsFiles
<1>1. rsUp' = "down" /\ rsSaves' = << >> /\ rsSaves' \in Seq(SaveType) /\ Len(rsSaves') = 0
    BY EmptySeq DEF Gone
<1> DEFINE writing == {Tables[rsSaves[i].table] : i \in {j \in others : rsSaves[j].pc = "put"}}
           cut == {t \in writing : rsFiles[t] = CutOff}
<1>2. PICK f \in [cut -> {0, CutOff}] : rsFiles' = [t \in Range(Tables) |-> IF t \in cut THEN f[t] ELSE rsFiles[t]]
    BY DEF Gone
<1>3. rsFiles \in [Range(Tables) -> Nat] /\ rsCounts.changes \in Nat /\ CutOff \in Nat
    BY RfedAssumption DEF RunnerTyped, CutOff
<1>4. ASSUME NEW t \in Range(Tables) PROVE rsFiles'[t] = rsFiles[t] \/ (rsFiles'[t] \in {0, CutOff})
    BY <1>2
<1>5. others = {} => rsFiles' = rsFiles
    BY <1>2, <1>3
<1> HIDE DEF cut
<1>6. rsFiles' = [t \in Range(Tables) |-> rsFiles'[t]]
    BY <1>2
<1>7. \A t \in Range(Tables) : rsFiles[t] <= rsCounts.changes \/ rsFiles[t] = CutOff
    BY DEF TablesInv
<1>8. rsFiles' \in [Range(Tables) -> Nat] /\ \A t \in Range(Tables) : rsFiles'[t] <= rsCounts.changes \/ rsFiles'[t] = CutOff
    BY ONLY <1>3, <1>4, <1>6, <1>7
<1> QED
    BY <1>1, <1>5, <1>8

\* A save is over.
LEMMA SaveIsOver ==
    ASSUME RunnerInv, Running, NEW i \in DOMAIN rsSaves, Over(i),
           UNCHANGED <<rsMem, rsDirs, rsCounts, rsOwed, rsClash, rsBlobFile>>,
           rsSaves[i].pc # "put", ~rsClash => ~rsSaves[i].last \/ rsSaves[i].pc = "done"
    PROVE  RunnerInv'
<1>0. RunnerTyped /\ TablesInv /\ (~rsClash => CleanInv) /\ rsSaves \in Seq(SaveType)
    BY DEF RunnerInv, RunnerTyped
<1>1. CASE rsSaves[i].last
  <2>1. Gone(DOMAIN rsSaves \ {i})
    BY <1>1 DEF Over
  <2>2. rsUp' = "down" /\ rsSaves' = << >> /\ rsSaves' \in Seq(SaveType) /\ Len(rsSaves') = 0
    BY <1>0, <2>1, FilesWhenGone
  <2>3. /\ rsFiles' \in [Range(Tables) -> Nat] /\ \A t \in Range(Tables) : rsFiles'[t] <= rsCounts.changes \/ rsFiles'[t] = CutOff
        /\ DOMAIN rsSaves \ {i} = {} => rsFiles' = rsFiles
    BY <1>0, <2>1, FilesWhenGone
  <2>4. RunnerTyped' /\ TablesInv'
    BY <1>0, <2>2, <2>3 DEF RunnerTyped, TablesInv, Running
  <2>5. ASSUME ~rsClash' PROVE CleanInv'
    <3>1. CleanInv /\ i = 1 /\ Len(rsSaves) = 1 /\ rsSaves # << >>
        BY <1>0, <2>5, Lone
    <3>2. DOMAIN rsSaves \ {i} = {}
        BY <1>0, <3>1
    <3>3. rsFiles' = rsFiles
        BY <2>3, <3>2
    <3>4. rsUp = "leaving" /\ rsSaves[1].pc = "done"
        BY <1>1, <2>5, <3>1 DEF CleanInv, Running
    <3>5. ShutdownInv(rsSaves[1]) /\ SaveInv(rsSaves[1])
        BY <3>1, <3>4 DEF CleanInv
    <3>6. rsSaves[1].left = {} /\ rsSaves[1].table = 5
        BY <3>4, <3>5 DEF SaveInv
    <3>7. \A t \in Range(Tables) : rsFiles[t] # CutOff
        BY <3>1, <3>4 DEF CleanInv
    <3>8. \A t \in Range(Tables) : rsFiles[t] >= rsOwed.tables[t]
      <4>1. \A k \in 1..4 : rsOwed.tables[Tables[k]] <= rsFiles[Tables[k]]
        BY <3>5, <3>6 DEF ShutdownInv
      <4> QED
        BY <1>0, <4>1, FourTables DEF RunnerTyped, StoresType
    <3>9. \A b \in rsOwed.blobs : Written(b)
        BY <3>4, <3>5, <3>6 DEF ShutdownInv
    <3>10. \A b \in rsOwed'.blobs : Written(b)'
        BY <3>9 DEF Written
    <3> QED
        BY <2>2, <3>3, <3>7, <3>8, <3>10 DEF CleanInv
  <2> QED
    BY <2>4, <2>5 DEF RunnerInv
<1>2. CASE ~rsSaves[i].last
  <2>1. rsSaves' = RemoveAt(rsSaves, i) /\ UNCHANGED <<rsUp, rsFiles>>
    BY <1>2 DEF Over
  <2>2. /\ rsSaves' \in Seq(SaveType) /\ Len(rsSaves') = Len(rsSaves) - 1
        /\ \A j \in DOMAIN rsSaves' : \E k \in DOMAIN rsSaves : rsSaves'[j] = rsSaves[k]
    BY <1>0, <2>1, RemovedEntries
  <2>3. RunnerTyped'
    BY <1>0, <2>1, <2>2 DEF RunnerTyped
  <2>4. TablesInv'
    BY <1>0, <2>1, <2>2 DEF TablesInv, Running
  <2>5. ASSUME ~rsClash' PROVE CleanInv'
    <3>1. CleanInv /\ i = 1 /\ Len(rsSaves) = 1 /\ rsSaves # << >>
        BY <1>0, <2>5, Lone
    <3>2. rsSaves' = << >> /\ Len(rsSaves') = 0
        BY <2>2, <3>1, EmptySeq
    <3>3. rsUp = "up"
        BY <1>2, <3>1 DEF CleanInv, Running, ShutdownInv
    <3>4. \A t \in Range(Tables) : rsFiles[t] # CutOff
        BY <3>1 DEF CleanInv
    <3> QED
        BY <2>1, <3>2, <3>3, <3>4 DEF CleanInv
  <2> QED
    BY <2>3, <2>4, <2>5 DEF RunnerInv
<1> QED
    BY <1>1, <1>2


\* A step of a save that only moves it on, and what it writes.
SaveStep(i, s) ==
    /\ Running /\ rsSaves' = [rsSaves EXCEPT ![i] = s]
    /\ UNCHANGED <<rsUp, rsMem, rsCounts, rsOwed, rsClash>>

\* The invariant after such a step.
LEMMA SaveStepKeeps ==
    ASSUME RunnerInv, NEW i \in DOMAIN rsSaves, NEW s \in SaveType, SaveStep(i, s),
           s.val <= rsCounts.changes, s.pc # "done" => s.table \in 1..4, s.last = rsSaves[i].last,
           rsBlobFile' \in [StoredBlobs -> {"none", "part", "whole"}], rsFiles' \in [Range(Tables) -> Nat],
           \A t \in Range(Tables) : rsFiles'[t] <= rsCounts.changes \/ rsFiles'[t] = CutOff,
           CleanInv /\ ~rsClash =>
             /\ SaveInv(s)' /\ \A t \in Range(Tables) : rsFiles'[t] = CutOff => s.pc = "put" /\ t = Tables[s.table]
             /\ rsUp = "leaving" => ShutdownInv(s)'
    PROVE  RunnerInv'
<1>0. RunnerTyped /\ TablesInv /\ (~rsClash => CleanInv)
    BY DEF RunnerInv
<1>1. Running /\ rsSaves' = [rsSaves EXCEPT ![i] = s] /\ rsUp' = rsUp /\ rsMem' = rsMem /\ rsCounts' = rsCounts /\ rsOwed' = rsOwed
    BY DEF SaveStep
<1>2. /\ rsSaves' \in Seq(SaveType) /\ DOMAIN rsSaves' = DOMAIN rsSaves /\ Len(rsSaves') = Len(rsSaves) /\ rsSaves'[i] = s
      /\ \A j \in DOMAIN rsSaves' : rsSaves'[j].val <= rsCounts.changes /\ (rsSaves'[j].pc # "done" => rsSaves'[j].table \in 1..4)
    BY <1>0, <1>1, SaveMoves
<1>3. RunnerTyped'
    BY <1>0, <1>1, <1>2 DEF RunnerTyped
<1>4. TablesInv'
    BY <1>0, <1>1, <1>2 DEF TablesInv, Running
<1>5. ASSUME ~rsClash' PROVE CleanInv'
  <2>1. ~rsClash /\ CleanInv
    BY <1>0, <1>5 DEF SaveStep
  <2> QED
    BY <1>0, <1>1, <1>2, <2>1, LoneSaveMoves
<1> QED
    BY <1>3, <1>4, <1>5 DEF RunnerInv

\* The record of a save with other fields.
LEMMA SaveRecords ==
    ASSUME NEW o \in SaveType, NEW pc \in {"remove", "export", "next", "open", "write", "put", "done"},
           NEW left \in SUBSET StoredBlobs, NEW blob \in StoredBlobs \cup {0}, NEW table \in 1..5, NEW val \in Nat, NEW s,
           s = [pc |-> pc, left |-> left, blob |-> blob, table |-> table, val |-> val, last |-> o.last]
    PROVE  s \in SaveType
<1>2. o.last \in BOOLEAN
    BY Zenon DEF SaveType
<1> QED
    BY <1>2, Zenon DEF SaveType

\* A save is its record.
LEMMA SaveIsRecord ==
    ASSUME NEW o \in SaveType
    PROVE  o = [pc |-> o.pc, left |-> o.left, blob |-> o.blob, table |-> o.table, val |-> o.val, last |-> o.last]
BY DEF SaveType

\* A save has these fields.
IsSave(o) == o = [pc |-> o.pc, left |-> o.left, blob |-> o.blob, table |-> o.table, val |-> o.val, last |-> o.last]

\* The fields of a save that its steps set.
LEMMA SaveExcepts ==
    ASSUME NEW o, NEW x, NEW y, IsSave(o)
    PROVE  /\ [o EXCEPT !.pc = x, !.left = y] = [pc |-> x, left |-> y, blob |-> o.blob, table |-> o.table, val |-> o.val, last |-> o.last]
           /\ [o EXCEPT !.pc = x, !.val = y] = [pc |-> x, left |-> o.left, blob |-> o.blob, table |-> o.table, val |-> y, last |-> o.last]
           /\ [o EXCEPT !.table = y, !.pc = x] = [pc |-> x, left |-> o.left, blob |-> o.blob, table |-> y, val |-> o.val, last |-> o.last]
<1> DEFINE a == [o EXCEPT !.pc = x]
           c == [o EXCEPT !.table = y]
<1>1. /\ a = [pc |-> x, left |-> o.left, blob |-> o.blob, table |-> o.table, val |-> o.val, last |-> o.last]
      /\ c = [pc |-> o.pc, left |-> o.left, blob |-> o.blob, table |-> y, val |-> o.val, last |-> o.last]
    BY DEF IsSave
<1> HIDE DEF a, c
<1>2. /\ [a EXCEPT !.left = y] = [pc |-> x, left |-> y, blob |-> o.blob, table |-> o.table, val |-> o.val, last |-> o.last]
      /\ [a EXCEPT !.val = y] = [pc |-> x, left |-> o.left, blob |-> o.blob, table |-> o.table, val |-> y, last |-> o.last]
      /\ [c EXCEPT !.pc = x] = [pc |-> x, left |-> o.left, blob |-> o.blob, table |-> y, val |-> o.val, last |-> o.last]
    BY ONLY <1>1
<1> QED
    BY ONLY <1>2 DEF a, c

\* The fields set for the next blob.
LEMMA BlobExcepts ==
    ASSUME NEW o, NEW x, NEW y, NEW w, IsSave(o)
    PROVE  [o EXCEPT !.pc = x, !.blob = y, !.left = w] =
             [pc |-> x, left |-> w, blob |-> y, table |-> o.table, val |-> o.val, last |-> o.last]
<1> DEFINE a == [o EXCEPT !.pc = x]
<1>1. a = [pc |-> x, left |-> o.left, blob |-> o.blob, table |-> o.table, val |-> o.val, last |-> o.last]
    BY DEF IsSave
<1> DEFINE e == [a EXCEPT !.blob = y]
<1> HIDE DEF a
<1>2. e = [pc |-> x, left |-> o.left, blob |-> y, table |-> o.table, val |-> o.val, last |-> o.last]
    BY <1>1
<1> HIDE DEF e
<1>3. [e EXCEPT !.left = w] = [pc |-> x, left |-> w, blob |-> y, table |-> o.table, val |-> o.val, last |-> o.last]
    BY ONLY <1>2
<1> QED
    BY ONLY <1>3 DEF a, e

\* What is known of a save.
LEMMA SaveFields ==
    ASSUME RunnerInv, NEW i \in DOMAIN rsSaves
    PROVE  LET o == rsSaves[i]
           IN  /\ RunnerTyped /\ TablesInv /\ rsSaves \in Seq(SaveType) /\ o \in SaveType
               /\ o = [pc |-> o.pc, left |-> o.left, blob |-> o.blob, table |-> o.table, val |-> o.val, last |-> o.last]
               /\ o.left \in SUBSET StoredBlobs /\ o.blob \in StoredBlobs \cup {0} /\ o.table \in 1..5 /\ o.val \in Nat
<1>1. rsSaves \in Seq(SaveType) /\ RunnerTyped /\ TablesInv
    BY DEF RunnerInv, RunnerTyped
<1>2. rsSaves[i] \in SaveType
    BY <1>1
<1>3. /\ rsSaves[i].left \in SUBSET StoredBlobs /\ rsSaves[i].blob \in StoredBlobs \cup {0}
      /\ rsSaves[i].table \in 1..5 /\ rsSaves[i].val \in Nat
    BY <1>2 DEF SaveType
<1> QED
    BY <1>1, <1>2, <1>3, SaveIsRecord

\* The steps of a save keep the invariant: the tree of blobs is removed...
LEMMA RemovesBlobsKeeps ==
    ASSUME RunnerInv, NEW i \in DOMAIN rsSaves, RemovesBlobs(i)
    PROVE  RunnerInv'
<1> DEFINE o == rsSaves[i]
<1>0. /\ RunnerTyped /\ TablesInv /\ rsSaves \in Seq(SaveType) /\ o \in SaveType
      /\ o = [pc |-> o.pc, left |-> o.left, blob |-> o.blob, table |-> o.table, val |-> o.val, last |-> o.last]
      /\ o.left \in SUBSET StoredBlobs /\ o.blob \in StoredBlobs \cup {0} /\ o.table \in 1..5 /\ o.val \in Nat
    BY SaveFields
<1>1. o.left \in SUBSET StoredBlobs /\ o.blob \in StoredBlobs \cup {0} /\ o.table \in 1..5 /\ o.val \in Nat
    BY <1>0
<1>2. PICK s : s = [pc |-> "export", left |-> o.left, blob |-> o.blob, table |-> o.table, val |-> o.val, last |-> o.last]
    OBVIOUS
<1>3. s.pc = "export" /\ s.left = o.left /\ s.blob = o.blob /\ s.table = o.table /\ s.val = o.val /\ s.last = o.last
    BY ONLY <1>2
<1>4. s \in SaveType
    BY <1>0, <1>1, <1>2, SaveRecords
<1>5. SaveStep(i, s) /\ o.pc = "remove" /\ rsFiles' = rsFiles /\ rsBlobFile' = [b \in StoredBlobs |-> "none"]
    BY <1>0, <1>2, <1>3 DEF RemovesBlobs, At, SaveStep
<1>6. s.val <= rsCounts.changes /\ (s.pc # "done" => s.table \in 1..4)
    BY <1>0, <1>3, <1>5 DEF TablesInv
<1>7. rsBlobFile' \in [StoredBlobs -> {"none", "part", "whole"}] /\ rsFiles' \in [Range(Tables) -> Nat]
      /\ \A t \in Range(Tables) : rsFiles'[t] <= rsCounts.changes \/ rsFiles'[t] = CutOff
    BY <1>0, <1>5 DEF RunnerTyped, TablesInv
<1>8. ASSUME CleanInv, ~rsClash
      PROVE  /\ SaveInv(s)' /\ \A t \in Range(Tables) : rsFiles'[t] = CutOff => s.pc = "put" /\ t = Tables[s.table]
             /\ rsUp = "leaving" => ShutdownInv(s)'
  <2>1. i = 1 /\ SaveInv(o) /\ (rsUp = "leaving" => ShutdownInv(o))
    BY <1>0, <1>8, Lone DEF CleanInv
  <2>2. SaveInv(s)'
    BY <1>0, <1>3, <1>5, <2>1 DEF SaveInv
  <2>3. \A t \in Range(Tables) : rsFiles'[t] = CutOff => s.pc = "put" /\ t = Tables[s.table]
    BY <1>0, <1>3, <1>5, <1>8, <2>1 DEF CleanInv
  <2>4. rsUp = "leaving" => ShutdownInv(s)'
    BY <1>0, <1>3, <1>5, <2>1 DEF ShutdownInv, SaveStep, Written, SaveInv
  <2> QED
    BY <2>2, <2>3, <2>4
<1> HIDE DEF o
<1> QED
    BY <1>3, <1>4, <1>5, <1>6, <1>7, <1>8, SaveStepKeeps DEF o

\* ...the blobs are exported...
LEMMA ExportsBlobsKeeps ==
    ASSUME RunnerInv, NEW i \in DOMAIN rsSaves, ExportsBlobs(i)
    PROVE  RunnerInv'
<1> DEFINE o == rsSaves[i]
<1>0. /\ RunnerTyped /\ TablesInv /\ rsSaves \in Seq(SaveType) /\ o \in SaveType
      /\ o = [pc |-> o.pc, left |-> o.left, blob |-> o.blob, table |-> o.table, val |-> o.val, last |-> o.last]
      /\ o.left \in SUBSET StoredBlobs /\ o.blob \in StoredBlobs \cup {0} /\ o.table \in 1..5 /\ o.val \in Nat
    BY SaveFields
<1>1. rsMem.blobs \in SUBSET StoredBlobs /\ o.blob \in StoredBlobs \cup {0} /\ o.table \in 1..5 /\ o.val \in Nat
    BY <1>0 DEF RunnerTyped, StoresType
<1>2. PICK s : s = [pc |-> "next", left |-> rsMem.blobs, blob |-> o.blob, table |-> o.table, val |-> o.val, last |-> o.last]
    OBVIOUS
<1>3. s.pc = "next" /\ s.left = rsMem.blobs /\ s.blob = o.blob /\ s.table = o.table /\ s.val = o.val /\ s.last = o.last
    BY ONLY <1>2
<1>4. s \in SaveType
    BY <1>0, <1>1, <1>2, SaveRecords
<1>5. SaveStep(i, s) /\ o.pc = "export" /\ rsFiles' = rsFiles /\ rsBlobFile' = rsBlobFile
  <2>1. rsSaves' = [rsSaves EXCEPT ![i] = [o EXCEPT !.pc = "next", !.left = rsMem.blobs]]
    BY DEF ExportsBlobs, ExportBlobs
  <2>2. rsSaves' = [rsSaves EXCEPT ![i] = s]
    <3>1. [o EXCEPT !.pc = "next", !.left = rsMem.blobs] = s
      <4> HIDE DEF o
      <4>1. IsSave(o)
        BY <1>0 DEF IsSave
      <4> QED
        BY ONLY <1>2, <4>1, SaveExcepts, Zenon
    <3> QED
        BY ONLY <2>1, <3>1, Zenon
  <2> QED
    BY <2>2 DEF ExportsBlobs, At, SaveStep
<1>6. s.val <= rsCounts.changes /\ (s.pc # "done" => s.table \in 1..4)
    BY <1>0, <1>3, <1>5 DEF TablesInv
<1>7. rsBlobFile' \in [StoredBlobs -> {"none", "part", "whole"}] /\ rsFiles' \in [Range(Tables) -> Nat]
      /\ \A t \in Range(Tables) : rsFiles'[t] <= rsCounts.changes \/ rsFiles'[t] = CutOff
    BY <1>0, <1>5 DEF RunnerTyped, TablesInv
<1>8. ASSUME CleanInv, ~rsClash
      PROVE  /\ SaveInv(s)' /\ \A t \in Range(Tables) : rsFiles'[t] = CutOff => s.pc = "put" /\ t = Tables[s.table]
             /\ rsUp = "leaving" => ShutdownInv(s)'
  <2>1. i = 1 /\ SaveInv(o) /\ (rsUp = "leaving" => ShutdownInv(o))
    BY <1>0, <1>8, Lone DEF CleanInv
  <2>2. SaveInv(s)'
    BY <1>0, <1>3, <1>5, <2>1 DEF SaveInv
  <2>3. \A t \in Range(Tables) : rsFiles'[t] = CutOff => s.pc = "put" /\ t = Tables[s.table]
    BY <1>0, <1>3, <1>5, <1>8, <2>1 DEF CleanInv
  <2>4. rsUp = "leaving" => ShutdownInv(s)'
    BY <1>0, <1>3, <1>5, <2>1 DEF ShutdownInv, SaveStep, Written, SaveInv
  <2> QED
    BY <2>2, <2>3, <2>4
<1> HIDE DEF o
<1> QED
    BY <1>3, <1>4, <1>5, <1>6, <1>7, <1>8, SaveStepKeeps DEF o

\* ...a directory is made...
LEMMA MakesDirectoryKeeps ==
    ASSUME RunnerInv, NEW i \in DOMAIN rsSaves, MakesDirectory(i)
    PROVE  RunnerInv'
<1> DEFINE o == rsSaves[i]
<1>0. /\ RunnerTyped /\ TablesInv /\ rsSaves \in Seq(SaveType) /\ o \in SaveType
      /\ o = [pc |-> o.pc, left |-> o.left, blob |-> o.blob, table |-> o.table, val |-> o.val, last |-> o.last]
      /\ o.left \in SUBSET StoredBlobs /\ o.blob \in StoredBlobs \cup {0} /\ o.table \in 1..5 /\ o.val \in Nat
    BY SaveFields
<1>9. PICK b \in o.left :
        /\ At(i, "next") /\ rsDirs' = rsDirs \cup {b}
        /\ rsSaves' = [rsSaves EXCEPT ![i] = [@ EXCEPT !.pc = "open", !.blob = b, !.left = rsSaves[i].left \ {b}]]
        /\ UNCHANGED <<rsUp, rsMem, rsBlobFile, rsFiles, rsCounts, rsOwed, rsClash>>
    BY Zenon DEF MakesDirectory
<1>10. rsSaves' = [rsSaves EXCEPT ![i] = [o EXCEPT !.pc = "open", !.blob = b, !.left = o.left \ {b}]]
    BY ONLY <1>9 DEF o
<1>11. [o EXCEPT !.pc = "open", !.blob = b, !.left = o.left \ {b}] =
         [pc |-> "open", left |-> o.left \ {b}, blob |-> b, table |-> o.table, val |-> o.val, last |-> o.last]
  <2> HIDE DEF o
  <2>1. IsSave(o)
    BY <1>0 DEF IsSave
  <2>2. \A x, y, w : [o EXCEPT !.pc = x, !.blob = y, !.left = w] =
          [pc |-> x, left |-> w, blob |-> y, table |-> o.table, val |-> o.val, last |-> o.last]
    BY ONLY <2>1, BlobExcepts, Zenon
  <2> QED
    BY ONLY <2>2, Zenon
<1>1. o.left \ {b} \in SUBSET StoredBlobs /\ b \in StoredBlobs \cup {0} /\ o.table \in 1..5 /\ o.val \in Nat
    BY <1>0, <1>9
<1>2. PICK s : s = [pc |-> "open", left |-> o.left \ {b}, blob |-> b, table |-> o.table, val |-> o.val, last |-> o.last]
    OBVIOUS
<1>3. s.pc = "open" /\ s.left = o.left \ {b} /\ s.blob = b /\ s.table = o.table /\ s.val = o.val /\ s.last = o.last
    BY ONLY <1>2
<1>4. s \in SaveType
    BY <1>0, <1>1, <1>2, SaveRecords
<1>5. SaveStep(i, s) /\ o.pc = "next" /\ rsFiles' = rsFiles /\ rsBlobFile' = rsBlobFile /\ rsDirs' = rsDirs \cup {b}
  <2>1. [o EXCEPT !.pc = "open", !.blob = b, !.left = o.left \ {b}] = s
    BY ONLY <1>2, <1>11, Zenon DEF o
  <2>2. rsSaves' = [rsSaves EXCEPT ![i] = s]
    BY ONLY <1>10, <2>1, Zenon DEF o
  <2> QED
    BY <1>9, <2>2 DEF At, SaveStep
<1>6. s.val <= rsCounts.changes /\ (s.pc # "done" => s.table \in 1..4)
    BY <1>0, <1>3, <1>5 DEF TablesInv
<1>7. rsBlobFile' \in [StoredBlobs -> {"none", "part", "whole"}] /\ rsFiles' \in [Range(Tables) -> Nat]
      /\ \A t \in Range(Tables) : rsFiles'[t] <= rsCounts.changes \/ rsFiles'[t] = CutOff
    BY <1>0, <1>5 DEF RunnerTyped, TablesInv
<1>8. ASSUME CleanInv, ~rsClash
      PROVE  /\ SaveInv(s)' /\ \A t \in Range(Tables) : rsFiles'[t] = CutOff => s.pc = "put" /\ t = Tables[s.table]
             /\ rsUp = "leaving" => ShutdownInv(s)'
  <2>1. i = 1 /\ SaveInv(o) /\ (rsUp = "leaving" => ShutdownInv(o))
    BY <1>0, <1>8, Lone DEF CleanInv
  <2>2. SaveInv(s)'
    BY <1>0, <1>3, <1>5, <2>1, <1>9 DEF SaveInv
  <2>3. \A t \in Range(Tables) : rsFiles'[t] = CutOff => s.pc = "put" /\ t = Tables[s.table]
    BY <1>0, <1>3, <1>5, <1>8, <2>1, <1>9 DEF CleanInv
  <2>4. rsUp = "leaving" => ShutdownInv(s)'
    BY <1>0, <1>3, <1>5, <2>1, <1>9 DEF ShutdownInv, SaveStep, Written, SaveInv
  <2> QED
    BY <2>2, <2>3, <2>4
<1> HIDE DEF o
<1> QED
    BY <1>3, <1>4, <1>5, <1>6, <1>7, <1>8, SaveStepKeeps DEF o

\* ...a file opened...
LEMMA OpensBlobKeeps ==
    ASSUME RunnerInv, NEW i \in DOMAIN rsSaves, OpensBlob(i), rsSaves[i].blob \in rsDirs
    PROVE  RunnerInv'
<1> DEFINE o == rsSaves[i]
<1>0. /\ RunnerTyped /\ TablesInv /\ rsSaves \in Seq(SaveType) /\ o \in SaveType
      /\ o = [pc |-> o.pc, left |-> o.left, blob |-> o.blob, table |-> o.table, val |-> o.val, last |-> o.last]
      /\ o.left \in SUBSET StoredBlobs /\ o.blob \in StoredBlobs \cup {0} /\ o.table \in 1..5 /\ o.val \in Nat
    BY SaveFields
<1>1. o.left \in SUBSET StoredBlobs /\ o.blob \in StoredBlobs \cup {0} /\ o.table \in 1..5 /\ o.val \in Nat
    BY <1>0
<1>2. PICK s : s = [pc |-> "write", left |-> o.left, blob |-> o.blob, table |-> o.table, val |-> o.val, last |-> o.last]
    OBVIOUS
<1>3. s.pc = "write" /\ s.left = o.left /\ s.blob = o.blob /\ s.table = o.table /\ s.val = o.val /\ s.last = o.last
    BY ONLY <1>2
<1>4. s \in SaveType
    BY <1>0, <1>1, <1>2, SaveRecords
<1>5. SaveStep(i, s) /\ o.pc = "open" /\ rsFiles' = rsFiles /\ rsBlobFile' = [rsBlobFile EXCEPT ![o.blob] = "part"]
    BY <1>0, <1>2, <1>3 DEF OpensBlob, At, SaveStep
<1>6. s.val <= rsCounts.changes /\ (s.pc # "done" => s.table \in 1..4)
    BY <1>0, <1>3, <1>5 DEF TablesInv
<1>7. rsBlobFile' \in [StoredBlobs -> {"none", "part", "whole"}] /\ rsFiles' \in [Range(Tables) -> Nat]
      /\ \A t \in Range(Tables) : rsFiles'[t] <= rsCounts.changes \/ rsFiles'[t] = CutOff
    BY <1>0, <1>5 DEF RunnerTyped, TablesInv
<1>8. ASSUME CleanInv, ~rsClash
      PROVE  /\ SaveInv(s)' /\ \A t \in Range(Tables) : rsFiles'[t] = CutOff => s.pc = "put" /\ t = Tables[s.table]
             /\ rsUp = "leaving" => ShutdownInv(s)'
  <2>1. i = 1 /\ SaveInv(o) /\ (rsUp = "leaving" => ShutdownInv(o))
    BY <1>0, <1>8, Lone DEF CleanInv
  <2>2. SaveInv(s)'
    BY <1>0, <1>3, <1>5, <2>1 DEF SaveInv, RunnerTyped
  <2>3. \A t \in Range(Tables) : rsFiles'[t] = CutOff => s.pc = "put" /\ t = Tables[s.table]
    BY <1>0, <1>3, <1>5, <1>8, <2>1 DEF CleanInv, RunnerTyped
  <2>4. rsUp = "leaving" => ShutdownInv(s)'
    BY <1>0, <1>3, <1>5, <2>1 DEF ShutdownInv, SaveStep, Written, SaveInv, RunnerTyped
  <2> QED
    BY <2>2, <2>3, <2>4
<1> HIDE DEF o
<1> QED
    BY <1>3, <1>4, <1>5, <1>6, <1>7, <1>8, SaveStepKeeps DEF o

\* ...and written...
LEMMA WritesBlobKeeps ==
    ASSUME RunnerInv, NEW i \in DOMAIN rsSaves, WritesBlob(i), rsBlobFile[rsSaves[i].blob] # "none"
    PROVE  RunnerInv'
<1> DEFINE o == rsSaves[i]
<1>0. /\ RunnerTyped /\ TablesInv /\ rsSaves \in Seq(SaveType) /\ o \in SaveType
      /\ o = [pc |-> o.pc, left |-> o.left, blob |-> o.blob, table |-> o.table, val |-> o.val, last |-> o.last]
      /\ o.left \in SUBSET StoredBlobs /\ o.blob \in StoredBlobs \cup {0} /\ o.table \in 1..5 /\ o.val \in Nat
    BY SaveFields
<1>1. o.left \in SUBSET StoredBlobs /\ o.blob \in StoredBlobs \cup {0} /\ o.table \in 1..5 /\ o.val \in Nat
    BY <1>0
<1>2. PICK s : s = [pc |-> "next", left |-> o.left, blob |-> o.blob, table |-> o.table, val |-> o.val, last |-> o.last]
    OBVIOUS
<1>3. s.pc = "next" /\ s.left = o.left /\ s.blob = o.blob /\ s.table = o.table /\ s.val = o.val /\ s.last = o.last
    BY ONLY <1>2
<1>4. s \in SaveType
    BY <1>0, <1>1, <1>2, SaveRecords
<1>5. SaveStep(i, s) /\ o.pc = "write" /\ rsFiles' = rsFiles /\ rsBlobFile' = [rsBlobFile EXCEPT ![o.blob] = IF o.blob \in rsMem.damaged THEN "part" ELSE "whole"]
    BY <1>0, <1>2, <1>3 DEF WritesBlob, At, SaveStep
<1>6. s.val <= rsCounts.changes /\ (s.pc # "done" => s.table \in 1..4)
    BY <1>0, <1>3, <1>5 DEF TablesInv
<1>7. rsBlobFile' \in [StoredBlobs -> {"none", "part", "whole"}] /\ rsFiles' \in [Range(Tables) -> Nat]
      /\ \A t \in Range(Tables) : rsFiles'[t] <= rsCounts.changes \/ rsFiles'[t] = CutOff
    BY <1>0, <1>5 DEF RunnerTyped, TablesInv
<1>8. ASSUME CleanInv, ~rsClash
      PROVE  /\ SaveInv(s)' /\ \A t \in Range(Tables) : rsFiles'[t] = CutOff => s.pc = "put" /\ t = Tables[s.table]
             /\ rsUp = "leaving" => ShutdownInv(s)'
  <2>1. i = 1 /\ SaveInv(o) /\ (rsUp = "leaving" => ShutdownInv(o))
    BY <1>0, <1>8, Lone DEF CleanInv
  <2>2. SaveInv(s)'
    BY <1>0, <1>3, <1>5, <2>1 DEF SaveInv
  <2>3. \A t \in Range(Tables) : rsFiles'[t] = CutOff => s.pc = "put" /\ t = Tables[s.table]
    BY <1>0, <1>3, <1>5, <1>8, <2>1 DEF CleanInv, RunnerTyped
  <2>4. rsUp = "leaving" => ShutdownInv(s)'
    BY <1>0, <1>3, <1>5, <2>1 DEF ShutdownInv, SaveStep, Written, SaveInv, RunnerTyped
  <2> QED
    BY <2>2, <2>3, <2>4
<1> HIDE DEF o
<1> QED
    BY <1>3, <1>4, <1>5, <1>6, <1>7, <1>8, SaveStepKeeps DEF o

\* ...a table is exported, its file opened...
LEMMA OpensTableKeeps ==
    ASSUME RunnerInv, NEW i \in DOMAIN rsSaves, OpensTable(i)
    PROVE  RunnerInv'
<1> DEFINE o == rsSaves[i]
<1>0. /\ RunnerTyped /\ TablesInv /\ rsSaves \in Seq(SaveType) /\ o \in SaveType
      /\ o = [pc |-> o.pc, left |-> o.left, blob |-> o.blob, table |-> o.table, val |-> o.val, last |-> o.last]
      /\ o.left \in SUBSET StoredBlobs /\ o.blob \in StoredBlobs \cup {0} /\ o.table \in 1..5 /\ o.val \in Nat
    BY SaveFields
<1>9. /\ o.pc = "next" /\ o.table \in 1..4 /\ Tables[o.table] \in Range(Tables) /\ CutOff \in Nat
      /\ rsMem.tables[Tables[o.table]] \in Nat
  <2>1. o.pc = "next"
    BY DEF OpensTable, At
  <2>2. o.table \in 1..4
    BY <1>0, <2>1 DEF TablesInv
  <2>3. Tables[o.table] \in Range(Tables)
    BY <2>2, FourTables
  <2>4. rsMem.tables[Tables[o.table]] \in Nat
    BY <1>0, <2>3 DEF RunnerTyped, StoresType
  <2> QED
    BY <2>1, <2>2, <2>3, <2>4, RfedAssumption DEF CutOff
<1>10. [o EXCEPT !.pc = "put", !.val = rsMem.tables[Tables[o.table]]] =
         [pc |-> "put", left |-> o.left, blob |-> o.blob, table |-> o.table, val |-> rsMem.tables[Tables[o.table]], last |-> o.last]
  <2> HIDE DEF o
  <2>1. IsSave(o)
    BY <1>0 DEF IsSave
  <2>2. \A x, y : [o EXCEPT !.pc = x, !.val = y] =
          [pc |-> x, left |-> o.left, blob |-> o.blob, table |-> o.table, val |-> y, last |-> o.last]
    BY ONLY <2>1, SaveExcepts, Zenon
  <2> QED
    BY ONLY <2>2, Zenon
<1>1. o.left \in SUBSET StoredBlobs /\ o.blob \in StoredBlobs \cup {0} /\ o.table \in 1..5 /\ rsMem.tables[Tables[o.table]] \in Nat
    BY <1>0, <1>9
<1>2. PICK s : s = [pc |-> "put", left |-> o.left, blob |-> o.blob, table |-> o.table, val |-> rsMem.tables[Tables[o.table]], last |-> o.last]
    OBVIOUS
<1>3. s.pc = "put" /\ s.left = o.left /\ s.blob = o.blob /\ s.table = o.table /\ s.val = rsMem.tables[Tables[o.table]] /\ s.last = o.last
    BY ONLY <1>2
<1>4. s \in SaveType
    BY <1>0, <1>1, <1>2, SaveRecords
<1>5. SaveStep(i, s) /\ o.pc = "next" /\ o.left = {} /\ rsFiles' = [rsFiles EXCEPT ![Tables[o.table]] = CutOff] /\ rsBlobFile' = rsBlobFile
  <2>1. rsSaves' = [rsSaves EXCEPT ![i] = [o EXCEPT !.pc = "put", !.val = rsMem.tables[Tables[o.table]]]]
    BY DEF OpensTable, ExportTable
  <2>2. rsSaves' = [rsSaves EXCEPT ![i] = s]
    <3>1. [o EXCEPT !.pc = "put", !.val = rsMem.tables[Tables[o.table]]] = s
        BY ONLY <1>2, <1>10, Zenon DEF o
    <3> QED
        BY ONLY <2>1, <3>1, Zenon
  <2> QED
    BY <2>2 DEF OpensTable, At, SaveStep
<1>6. s.val <= rsCounts.changes /\ (s.pc # "done" => s.table \in 1..4)
    BY <1>0, <1>3, <1>5, <1>9 DEF TablesInv
<1>7. rsBlobFile' \in [StoredBlobs -> {"none", "part", "whole"}] /\ rsFiles' \in [Range(Tables) -> Nat]
      /\ \A t \in Range(Tables) : rsFiles'[t] <= rsCounts.changes \/ rsFiles'[t] = CutOff
    BY <1>0, <1>5, <1>9 DEF RunnerTyped, TablesInv
<1>8. ASSUME CleanInv, ~rsClash
      PROVE  /\ SaveInv(s)' /\ \A t \in Range(Tables) : rsFiles'[t] = CutOff => s.pc = "put" /\ t = Tables[s.table]
             /\ rsUp = "leaving" => ShutdownInv(s)'
  <2>1. i = 1 /\ SaveInv(o) /\ (rsUp = "leaving" => ShutdownInv(o))
    BY <1>0, <1>8, Lone DEF CleanInv
  <2>2. SaveInv(s)'
    BY <1>0, <1>3, <1>5, <2>1, <1>9, FourTables DEF SaveInv, RunnerTyped
  <2>3. \A t \in Range(Tables) : rsFiles'[t] = CutOff => s.pc = "put" /\ t = Tables[s.table]
    BY <1>0, <1>3, <1>5, <1>8, <2>1, <1>9, FourTables DEF CleanInv, RunnerTyped
  <2>4. rsUp = "leaving" => ShutdownInv(s)'
    BY <1>0, <1>3, <1>5, <2>1, <1>9, FourTables DEF ShutdownInv, SaveStep, Written, SaveInv, RunnerTyped
  <2> QED
    BY <2>2, <2>3, <2>4
<1> HIDE DEF o
<1> QED
    BY <1>3, <1>4, <1>5, <1>6, <1>7, <1>8, SaveStepKeeps DEF o

\* ...and written.
LEMMA WritesTableKeeps ==
    ASSUME RunnerInv, NEW i \in DOMAIN rsSaves, WritesTable(i)
    PROVE  RunnerInv'
<1> DEFINE o == rsSaves[i]
<1>0. /\ RunnerTyped /\ TablesInv /\ rsSaves \in Seq(SaveType) /\ o \in SaveType
      /\ o = [pc |-> o.pc, left |-> o.left, blob |-> o.blob, table |-> o.table, val |-> o.val, last |-> o.last]
      /\ o.left \in SUBSET StoredBlobs /\ o.blob \in StoredBlobs \cup {0} /\ o.table \in 1..5 /\ o.val \in Nat
    BY SaveFields
<1>9. /\ o.pc = "put" /\ o.table \in 1..4 /\ Tables[o.table] \in Range(Tables) /\ CutOff \in Nat
  <2>1. o.pc = "put"
    BY DEF WritesTable, At
  <2>2. o.table \in 1..4
    BY <1>0, <2>1 DEF TablesInv
  <2> QED
    BY <2>1, <2>2, FourTables, RfedAssumption DEF CutOff
<1> DEFINE next == IF o.table = 4 THEN "done" ELSE "next"
<1>10. PICK v \in {o.val, CutOff} :
         rsFiles' = [rsFiles EXCEPT ![Tables[o.table]] = v] /\ (rsFiles[Tables[o.table]] = CutOff => v = o.val)
    BY DEF WritesTable
<1>11. rsSaves' = [rsSaves EXCEPT ![i] = [o EXCEPT !.table = o.table + 1, !.pc = next]] /\ next \in {"done", "next"}
  <2>1. rsSaves' = [rsSaves EXCEPT ![i] = [@ EXCEPT !.table = rsSaves[i].table + 1,
                                                    !.pc = IF rsSaves[i].table = Len(Tables) THEN "done" ELSE "next"]]
    BY DEF WritesTable
  <2>2. Len(Tables) = 4
    BY FourTables
  <2>3. rsSaves' = [rsSaves EXCEPT ![i] = [rsSaves[i] EXCEPT !.table = rsSaves[i].table + 1,
                                                             !.pc = IF rsSaves[i].table = 4 THEN "done" ELSE "next"]]
    BY ONLY <2>1, <2>2
  <2> QED
    BY <2>3
<1>12. o.val # CutOff
  <2>1. o.val <= rsCounts.changes
    BY <1>0 DEF TablesInv
  <2>2. rsCounts.changes \in 0..MaxChanges
    BY <1>0 DEF RunnerTyped
  <2> QED
    BY <1>0, <2>1, <2>2, RfedAssumption DEF CutOff
<1>13. [o EXCEPT !.table = o.table + 1, !.pc = next] =
         [pc |-> next, left |-> o.left, blob |-> o.blob, table |-> o.table + 1, val |-> o.val, last |-> o.last]
  <2> HIDE DEF o, next
  <2>1. IsSave(o)
    BY <1>0 DEF IsSave
  <2> QED
    BY ONLY <2>1, SaveExcepts
<1>1. o.left \in SUBSET StoredBlobs /\ o.blob \in StoredBlobs \cup {0} /\ o.table + 1 \in 1..5 /\ o.val \in Nat
    BY <1>0, <1>9
<1>2. PICK s : s = [pc |-> next, left |-> o.left, blob |-> o.blob, table |-> o.table + 1, val |-> o.val, last |-> o.last]
    OBVIOUS
<1>3. s.pc = next /\ s.left = o.left /\ s.blob = o.blob /\ s.table = o.table + 1 /\ s.val = o.val /\ s.last = o.last
    BY ONLY <1>2
<1>4. s \in SaveType
    BY <1>0, <1>1, <1>2, SaveRecords, <1>11
<1>5. SaveStep(i, s) /\ o.pc = "put" /\ rsFiles' = [rsFiles EXCEPT ![Tables[o.table]] = v] /\ rsBlobFile' = rsBlobFile
  <2>1. rsSaves' = [rsSaves EXCEPT ![i] = s]
    <3>1. [o EXCEPT !.table = o.table + 1, !.pc = next] = s
        BY ONLY <1>2, <1>13, Zenon DEF o, next
    <3> QED
        BY ONLY <1>11, <3>1, Zenon
  <2> QED
    BY <1>10, <2>1 DEF WritesTable, At, SaveStep
<1>6. s.val <= rsCounts.changes /\ (s.pc # "done" => s.table \in 1..4)
    BY <1>0, <1>3, <1>5, <1>9, <1>10 DEF TablesInv
<1>7. rsBlobFile' \in [StoredBlobs -> {"none", "part", "whole"}] /\ rsFiles' \in [Range(Tables) -> Nat]
      /\ \A t \in Range(Tables) : rsFiles'[t] <= rsCounts.changes \/ rsFiles'[t] = CutOff
    BY <1>0, <1>5, <1>9, <1>10 DEF RunnerTyped, TablesInv
<1>8. ASSUME CleanInv, ~rsClash
      PROVE  /\ SaveInv(s)' /\ \A t \in Range(Tables) : rsFiles'[t] = CutOff => s.pc = "put" /\ t = Tables[s.table]
             /\ rsUp = "leaving" => ShutdownInv(s)'
  <2>1. i = 1 /\ SaveInv(o) /\ (rsUp = "leaving" => ShutdownInv(o))
    BY <1>0, <1>8, Lone DEF CleanInv
  <2>2. SaveInv(s)'
    BY <1>0, <1>3, <1>5, <2>1, <1>9, <1>10, FourTables DEF SaveInv
  <2>3. \A t \in Range(Tables) : rsFiles'[t] = CutOff => s.pc = "put" /\ t = Tables[s.table]
    BY <1>0, <1>3, <1>5, <1>8, <2>1, <1>9, <1>10, <1>12 DEF CleanInv, SaveInv, RunnerTyped
  <2>4. rsUp = "leaving" => ShutdownInv(s)'
    BY <1>0, <1>3, <1>5, <2>1, <1>9, <1>10, FourTables DEF ShutdownInv, SaveStep, Written, SaveInv, RunnerTyped
  <2> QED
    BY <2>2, <2>3, <2>4
<1> HIDE DEF o
<1> QED
    BY <1>3, <1>4, <1>5, <1>6, <1>7, <1>8, SaveStepKeeps DEF o


\* A save that meets no other finds its directory and its file.
LEMMA SaveGoesOn ==
    ASSUME RunnerInv, NEW i \in DOMAIN rsSaves,
           \/ rsSaves[i].pc = "open" /\ rsSaves[i].blob \notin rsDirs
           \/ rsSaves[i].pc = "write" /\ rsBlobFile[rsSaves[i].blob] = "none"
    PROVE  rsClash
<1>1. RunnerTyped /\ (~rsClash => CleanInv)
    BY DEF RunnerInv
<1>2. CleanInv => i = 1 /\ SaveInv(rsSaves[i])
    BY <1>1, Lone DEF CleanInv
<1> QED
    BY <1>1, <1>2 DEF SaveInv

\* The steps of a save.
LEMMA SavesKeep ==
    ASSUME RunnerInv, NEW i \in DOMAIN rsSaves,
           \/ RemovesBlobs(i) \/ ExportsBlobs(i) \/ MakesDirectory(i) \/ OpensBlob(i) \/ WritesBlob(i)
           \/ OpensTable(i) \/ WritesTable(i) \/ SaveEnds(i)
    PROVE  RunnerInv'
<1>1. CASE RemovesBlobs(i)
    BY <1>1, RemovesBlobsKeeps
<1>2. CASE ExportsBlobs(i)
    BY <1>2, ExportsBlobsKeeps
<1>3. CASE MakesDirectory(i)
    BY <1>3, MakesDirectoryKeeps
<1>4. CASE OpensBlob(i)
  <2>1. CASE rsSaves[i].blob \in rsDirs
    BY <1>4, <2>1, OpensBlobKeeps
  <2>2. CASE rsSaves[i].blob \notin rsDirs
    <3>1. Running /\ rsSaves[i].pc = "open" /\ Over(i) /\ UNCHANGED <<rsMem, rsDirs, rsCounts, rsOwed, rsClash, rsBlobFile>>
        BY <1>4, <2>2 DEF OpensBlob, At
    <3>2. rsClash
        BY <2>2, <3>1, SaveGoesOn
    <3> QED
        BY <3>1, <3>2, SaveIsOver
  <2> QED
    BY <2>1, <2>2
<1>5. CASE WritesBlob(i)
  <2>1. CASE rsBlobFile[rsSaves[i].blob] # "none"
    BY <1>5, <2>1, WritesBlobKeeps
  <2>2. CASE rsBlobFile[rsSaves[i].blob] = "none"
    <3>1. Running /\ rsSaves[i].pc = "write" /\ Over(i) /\ UNCHANGED <<rsMem, rsDirs, rsCounts, rsOwed, rsClash, rsBlobFile>>
        BY <1>5, <2>2 DEF WritesBlob, At
    <3>2. rsClash
        BY <2>2, <3>1, SaveGoesOn
    <3> QED
        BY <3>1, <3>2, SaveIsOver
  <2> QED
    BY <2>1, <2>2
<1>6. CASE OpensTable(i)
    BY <1>6, OpensTableKeeps
<1>7. CASE WritesTable(i)
    BY <1>7, WritesTableKeeps
<1>8. CASE SaveEnds(i)
  <2>1. Running /\ rsSaves[i].pc = "done" /\ Over(i) /\ UNCHANGED <<rsMem, rsDirs, rsCounts, rsOwed, rsClash, rsBlobFile>>
    BY <1>8 DEF SaveEnds, At
  <2> QED
    BY <2>1, SaveIsOver
<1> QED
    BY <1>1, <1>2, <1>3, <1>4, <1>5, <1>6, <1>7, <1>8

\* The stores change while the node runs, also during the save of a shutdown.
LEMMA StoresChangeKeeps ==
    ASSUME RunnerInv, StoresChange
    PROVE  RunnerInv'
<1>0. /\ RunnerTyped /\ TablesInv /\ (~rsClash => CleanInv) /\ Running
      /\ UNCHANGED <<rsUp, rsBlobFile, rsDirs, rsFiles, rsSaves, rsOwed, rsClash>>
    BY DEF RunnerInv, StoresChange
<1>1. /\ rsMem' \in StoresType /\ rsCounts' \in [changes : 0..MaxChanges, starts : Nat] /\ rsCounts.changes <= rsCounts'.changes
      /\ rsMem.blobs \subseteq rsMem'.blobs /\ rsMem'.damaged = rsMem.damaged
      /\ \A t \in Range(Tables) : rsMem.tables[t] <= rsMem'.tables[t] /\ rsMem'.tables[t] <= rsCounts'.changes
  <2>0. /\ rsMem \in StoresType /\ rsCounts \in [changes : 0..MaxChanges, starts : Nat] /\ MaxChanges \in Nat
        /\ \A t \in Range(Tables) : rsMem.tables[t] \in Nat /\ rsMem.tables[t] <= rsCounts.changes
    BY <1>0, RfedAssumption DEF RunnerTyped, TablesInv, StoresType
  <2>1. CASE \E t \in Range(Tables) :
               /\ rsCounts.changes < MaxChanges /\ rsCounts' = [rsCounts EXCEPT !.changes = @ + 1]
               /\ rsMem' = [rsMem EXCEPT !.tables[t] = rsCounts.changes + 1]
    BY <2>0, <2>1 DEF StoresType
  <2>2. CASE \E b \in StoredBlobs \ rsMem.blobs :
               rsMem' = [rsMem EXCEPT !.blobs = @ \cup {b}] /\ UNCHANGED rsCounts
    BY <2>0, <2>2 DEF StoresType
  <2> QED
    BY <2>1, <2>2 DEF StoresChange
<1>2. RunnerTyped'
    BY <1>0, <1>1 DEF RunnerTyped
<1>3. TablesInv'
  <2>1. /\ \A t \in Range(Tables) : rsFiles[t] \in Nat /\ (rsFiles[t] <= rsCounts.changes \/ rsFiles[t] = CutOff)
        /\ rsCounts.changes \in Nat /\ rsCounts'.changes \in Nat
    BY <1>0, <1>1, RfedAssumption DEF RunnerTyped, TablesInv
  <2>4. \A i \in DOMAIN rsSaves : rsSaves[i].val \in Nat /\ rsSaves[i].val <= rsCounts.changes
    BY <1>0, SaveFields DEF TablesInv
  <2>2. \A t \in Range(Tables) : rsMem'.tables[t] <= rsCounts'.changes /\ (rsFiles'[t] <= rsCounts'.changes \/ rsFiles'[t] = CutOff)
    BY <1>0, <1>1, <2>1
  <2>3. \A i \in DOMAIN rsSaves' : rsSaves'[i].val <= rsCounts'.changes /\ (rsSaves'[i].pc # "done" => rsSaves'[i].table \in 1..4)
    BY <1>0, <1>1, <2>1, <2>4 DEF TablesInv
  <2> QED
    BY <1>0, <2>2, <2>3 DEF TablesInv, Running
<1>4. ASSUME ~rsClash' PROVE CleanInv'
  <2>1. CleanInv
    BY <1>0, <1>4
  <2>2. rsUp' # "down"
    BY <1>0 DEF Running
  <2>3. ASSUME NEW s, SaveInv(s) PROVE SaveInv(s)'
    BY <1>0, <2>3 DEF SaveInv
  <2>4. ASSUME NEW s, ShutdownInv(s) PROVE ShutdownInv(s)'
    <3>1. \A t \in Range(Tables) : rsOwed.tables[t] <= rsMem'.tables[t]
      <4>1. \A t \in Range(Tables) : rsOwed.tables[t] \in Nat /\ rsMem.tables[t] \in Nat /\ rsMem'.tables[t] \in Nat
        BY <1>0, <1>1 DEF RunnerTyped, StoresType
      <4> QED
        BY <1>1, <2>4, <4>1 DEF ShutdownInv
    <3> QED
        BY <1>0, <1>1, <2>4, <3>1 DEF ShutdownInv, Written
  <2> QED
    BY <1>0, <2>1, <2>2, <2>3, <2>4 DEF CleanInv
<1> QED
    BY <1>2, <1>3, <1>4 DEF RunnerInv

\* A save begins.
LEMMA SaveBeginsTyped ==
    ASSUME RunnerTyped, TablesInv, NEW last \in BOOLEAN, SaveBegins(last)
    PROVE  /\ rsSaves' \in Seq(SaveType) /\ (~rsClash' => ~rsClash /\ rsSaves = << >>)
           /\ \A i \in DOMAIN rsSaves' : rsSaves'[i].val <= rsCounts.changes /\ (rsSaves'[i].pc # "done" => rsSaves'[i].table \in 1..4)
           /\ rsSaves = << >> =>
                /\ Len(rsSaves') = 1 /\ rsSaves' # << >>
                /\ rsSaves'[1] = [pc |-> "remove", left |-> {}, blob |-> 0, table |-> 1, val |-> 0, last |-> last]
<1>1. PICK s : s = [pc |-> "remove", left |-> {}, blob |-> 0, table |-> 1, val |-> 0, last |-> last]
    OBVIOUS
<1>2. s \in SaveType
  <2>1. {} \in SUBSET StoredBlobs /\ 0 \in StoredBlobs \cup {0} /\ 1 \in 1..5 /\ 0 \in Nat
    OBVIOUS
  <2>2. "remove" \in {"remove", "export", "next", "open", "write", "put", "done"}
    OBVIOUS
  <2> QED
    BY <1>1, <2>1, <2>2, Zenon DEF SaveType
<1>3. s.pc = "remove" /\ s.val = 0 /\ s.table = 1
    BY ONLY <1>1
<1>4. rsSaves' = Append(rsSaves, s) /\ rsSaves \in Seq(SaveType)
    BY <1>1 DEF SaveBegins, RunnerTyped
<1>5. rsSaves' \in Seq(SaveType) /\ Len(rsSaves') = Len(rsSaves) + 1 /\ rsSaves'[Len(rsSaves) + 1] = s
      /\ \A i \in 1..Len(rsSaves) : rsSaves'[i] = rsSaves[i]
    BY ONLY <1>2, <1>4, AppendProperties
<1>6. ASSUME NEW i \in DOMAIN rsSaves' PROVE rsSaves'[i].val <= rsCounts.changes /\ (rsSaves'[i].pc # "done" => rsSaves'[i].table \in 1..4)
  <2>1. rsCounts.changes \in Nat
    BY RfedAssumption DEF RunnerTyped
  <2>2. CASE i = Len(rsSaves) + 1
    BY <1>3, <1>5, <2>1, <2>2
  <2>3. CASE i # Len(rsSaves) + 1
    <3>1. i \in DOMAIN rsSaves
        BY <1>4, <1>5, <2>3
    <3> QED
        BY <1>4, <1>5, <3>1 DEF TablesInv
  <2> QED
    BY <2>2, <2>3
<1>7. rsSaves = << >> => Len(rsSaves') = 1 /\ rsSaves' # << >> /\ rsSaves'[1] = s
    BY <1>4, <1>5
<1>8. ~rsClash' => ~rsClash /\ rsSaves = << >>
    BY DEF SaveBegins
<1> QED
    BY <1>1, <1>5, <1>6, <1>7, <1>8

\* The timer's save begins.
LEMMA PersistKeeps ==
    ASSUME RunnerInv, Persist
    PROVE  RunnerInv'
<1>0. RunnerTyped /\ TablesInv /\ (~rsClash => CleanInv) /\ FALSE \in BOOLEAN
    BY DEF RunnerInv
<1>1. PICK aged \in SUBSET rsMem.blobs :
        /\ rsUp = "up" /\ SaveBegins(FALSE) /\ rsMem' = [rsMem EXCEPT !.blobs = @ \ aged, !.damaged = @ \ aged]
        /\ UNCHANGED <<rsUp, rsBlobFile, rsDirs, rsFiles, rsCounts, rsOwed>>
    BY DEF Persist
<1>2. rsMem' \in StoresType /\ rsMem'.tables = rsMem.tables
    BY <1>0, <1>1 DEF RunnerTyped, StoresType
<1>3. /\ rsSaves' \in Seq(SaveType) /\ (~rsClash' => ~rsClash /\ rsSaves = << >>)
      /\ \A i \in DOMAIN rsSaves' : rsSaves'[i].val <= rsCounts.changes /\ (rsSaves'[i].pc # "done" => rsSaves'[i].table \in 1..4)
      /\ rsSaves = << >> =>
           /\ Len(rsSaves') = 1 /\ rsSaves' # << >>
           /\ rsSaves'[1] = [pc |-> "remove", left |-> {}, blob |-> 0, table |-> 1, val |-> 0, last |-> FALSE]
    BY <1>0, <1>1, SaveBeginsTyped, Zenon
<1>4. RunnerTyped'
    BY <1>0, <1>1, <1>2, <1>3 DEF RunnerTyped
<1>5. TablesInv'
    BY <1>0, <1>1, <1>2, <1>3 DEF TablesInv, Running
<1>6. ASSUME ~rsClash' PROVE CleanInv'
  <2>1. CleanInv /\ rsSaves = << >>
    BY <1>0, <1>3, <1>6
  <2>2. \A t \in Range(Tables) : rsFiles'[t] # CutOff
    BY <1>1, <2>1 DEF CleanInv
  <2>3. PICK s : s = rsSaves'[1]
    OBVIOUS
  <2>4. s = [pc |-> "remove", left |-> {}, blob |-> 0, table |-> 1, val |-> 0, last |-> FALSE]
    BY <1>3, <2>1, <2>3
  <2>5. s.pc = "remove" /\ s.table = 1
    BY ONLY <2>4
  <2>6. ~s.last
    BY ONLY <2>4
  <2>7. SaveInv(s)'
    BY <2>5 DEF SaveInv
  <2>9. Len(rsSaves') = 1
    BY <1>3, <2>1, Zenon
  <2>8. Len(rsSaves') <= 1 /\ rsUp' = "up"
    BY ONLY <1>1, <2>9
  <2> QED
    BY <2>2, <2>3, <2>6, <2>7, <2>8 DEF CleanInv
<1> QED
    BY <1>4, <1>5, <1>6 DEF RunnerInv

\* The save of a shutdown begins.
LEMMA ShutdownKeeps ==
    ASSUME RunnerInv, Shutdown
    PROVE  RunnerInv'
<1>0. RunnerTyped /\ TablesInv /\ (~rsClash => CleanInv) /\ TRUE \in BOOLEAN
    BY DEF RunnerInv
<1>1. /\ rsUp' = "leaving" /\ SaveBegins(TRUE) /\ rsOwed' = rsMem
      /\ UNCHANGED <<rsMem, rsBlobFile, rsDirs, rsFiles, rsCounts>>
    BY DEF Shutdown
<1>3. /\ rsSaves' \in Seq(SaveType) /\ (~rsClash' => ~rsClash /\ rsSaves = << >>)
      /\ \A i \in DOMAIN rsSaves' : rsSaves'[i].val <= rsCounts.changes /\ (rsSaves'[i].pc # "done" => rsSaves'[i].table \in 1..4)
      /\ rsSaves = << >> =>
           /\ Len(rsSaves') = 1 /\ rsSaves' # << >>
           /\ rsSaves'[1] = [pc |-> "remove", left |-> {}, blob |-> 0, table |-> 1, val |-> 0, last |-> TRUE]
    BY <1>0, <1>1, SaveBeginsTyped, Zenon
<1>4. RunnerTyped'
    BY <1>0, <1>1, <1>3 DEF RunnerTyped
<1>5. TablesInv'
    BY <1>0, <1>1, <1>3 DEF TablesInv, Running
<1>6. ASSUME ~rsClash' PROVE CleanInv'
  <2>1. CleanInv /\ rsSaves = << >>
    BY <1>0, <1>3, <1>6
  <2>2. \A t \in Range(Tables) : rsFiles'[t] # CutOff
    BY <1>1, <2>1 DEF CleanInv
  <2>3. PICK s : s = rsSaves'[1]
    OBVIOUS
  <2>4. s = [pc |-> "remove", left |-> {}, blob |-> 0, table |-> 1, val |-> 0, last |-> TRUE]
    BY <1>3, <2>1, <2>3
  <2>5. s.pc = "remove" /\ s.table = 1
    BY ONLY <2>4
  <2>6. s.last
    BY ONLY <2>4
  <2>7. SaveInv(s)'
    BY <2>5 DEF SaveInv
  <2>10. Len(rsSaves') = 1 /\ rsSaves' # << >>
    BY <1>3, <2>1, Zenon
  <2>8. Len(rsSaves') <= 1 /\ rsSaves' # << >> /\ rsUp' = "leaving"
    BY ONLY <1>1, <2>10
  <2>9. ShutdownInv(s)'
    <3>1. \A t \in Range(Tables) : rsMem.tables[t] <= rsMem.tables[t]
        BY <1>0 DEF RunnerTyped, StoresType
    <3> QED
        BY <1>1, <2>5, <2>6, <3>1 DEF ShutdownInv
  <2> QED
    BY <2>2, <2>3, <2>7, <2>8, <2>9 DEF CleanInv
<1> QED
    BY <1>4, <1>5, <1>6 DEF RunnerInv

\* A save fails.
LEMMA SaveFailsKeeps ==
    ASSUME RunnerInv, NEW i \in DOMAIN rsSaves, SaveFails(i)
    PROVE  RunnerInv'
<1>0. /\ RunnerTyped /\ TablesInv /\ Running /\ Over(i) /\ rsClash' = TRUE /\ rsSaves \in Seq(SaveType)
      /\ UNCHANGED <<rsMem, rsBlobFile, rsDirs, rsCounts, rsOwed>>
    BY DEF RunnerInv, RunnerTyped, SaveFails
<1>1. CASE rsSaves[i].last
  <2>1. Gone(DOMAIN rsSaves \ {i})
    BY <1>0, <1>1 DEF Over
  <2>2. /\ rsUp' = "down" /\ rsSaves' = << >> /\ rsSaves' \in Seq(SaveType) /\ Len(rsSaves') = 0
        /\ rsFiles' \in [Range(Tables) -> Nat] /\ \A t \in Range(Tables) : rsFiles'[t] <= rsCounts.changes \/ rsFiles'[t] = CutOff
    BY <1>0, <2>1, FilesWhenGone
  <2> QED
    BY <1>0, <2>2 DEF RunnerInv, RunnerTyped, TablesInv, Running
<1>2. CASE ~rsSaves[i].last
  <2>1. rsSaves' = RemoveAt(rsSaves, i) /\ UNCHANGED <<rsUp, rsFiles>>
    BY <1>0, <1>2 DEF Over
  <2>2. /\ rsSaves' \in Seq(SaveType)
        /\ \A j \in DOMAIN rsSaves' : \E k \in DOMAIN rsSaves : rsSaves'[j] = rsSaves[k]
    BY <1>0, <2>1, RemovedEntries
  <2>3. RunnerTyped'
    BY <1>0, <2>1, <2>2 DEF RunnerTyped
  <2>4. TablesInv'
    BY <1>0, <2>1, <2>2 DEF TablesInv, Running
  <2> QED
    BY <1>0, <2>3, <2>4 DEF RunnerInv
<1> QED
    BY <1>1, <1>2

\* The process dies.
LEMMA RunnerDiesKeeps ==
    ASSUME RunnerInv, RunnerDies
    PROVE  RunnerInv'
<1>0. RunnerTyped /\ TablesInv /\ (~rsClash => CleanInv)
    BY DEF RunnerInv
<1>1. /\ Running /\ Gone(DOMAIN rsSaves) /\ rsOwed' = NoStores /\ rsClash' = (rsClash \/ rsSaves # << >>)
      /\ UNCHANGED <<rsMem, rsBlobFile, rsDirs, rsCounts>>
    BY DEF RunnerDies
<1>2. /\ rsUp' = "down" /\ rsSaves' = << >> /\ rsSaves' \in Seq(SaveType) /\ Len(rsSaves') = 0
      /\ rsFiles' \in [Range(Tables) -> Nat]
      /\ \A t \in Range(Tables) : rsFiles'[t] <= rsCounts.changes \/ rsFiles'[t] = CutOff
      /\ DOMAIN rsSaves = {} => rsFiles' = rsFiles
    BY <1>0, <1>1, FilesWhenGone
<1>3. NoStores \in StoresType /\ NoStores.blobs = {} /\ NoStores.tables = [t \in Range(Tables) |-> 0]
    BY DEF NoStores, StoresType
<1>4. RunnerTyped'
    BY <1>0, <1>1, <1>2, <1>3 DEF RunnerTyped
<1>5. TablesInv'
    BY <1>0, <1>1, <1>2 DEF TablesInv
<1>6. ASSUME ~rsClash' PROVE CleanInv'
  <2>1. CleanInv /\ rsSaves = << >>
    BY <1>0, <1>1, <1>6
  <2>2. rsFiles' = rsFiles /\ \A t \in Range(Tables) : rsFiles[t] # CutOff
    BY <1>2, <2>1 DEF CleanInv
  <2>3. \A t \in Range(Tables) : rsFiles'[t] >= rsOwed'.tables[t]
    BY <1>1, <1>2, <1>3
  <2> QED
    BY <1>1, <1>2, <1>3, <2>2, <2>3 DEF CleanInv
<1> QED
    BY <1>4, <1>5, <1>6 DEF RunnerInv

\* It starts again.
LEMMA RunnerStartsKeeps ==
    ASSUME RunnerInv, RunnerStarts
    PROVE  RunnerInv'
<1>0. /\ RunnerTyped /\ TablesInv /\ (~rsClash => CleanInv) /\ rsUp = "down" /\ rsSaves = << >> /\ Len(rsSaves) = 0
      /\ rsCounts' = [rsCounts EXCEPT !.starts = @ + 1] /\ UNCHANGED <<rsBlobFile, rsDirs, rsFiles, rsSaves>>
    BY DEF RunnerInv, RunnerStarts, TablesInv, Running
<1>1. rsCounts' \in [changes : 0..MaxChanges, starts : Nat] /\ rsCounts'.changes = rsCounts.changes
    BY <1>0 DEF RunnerTyped
<1>2. CASE \E t \in Range(Tables) : rsFiles[t] = CutOff
  <2>1. rsUp' = "refused" /\ UNCHANGED <<rsMem, rsOwed, rsClash>>
    BY <1>2 DEF RunnerStarts, Throws
  <2>2. rsClash
    BY <1>0, <1>2 DEF CleanInv
  <2>3. RunnerTyped'
    BY <1>0, <1>1, <2>1 DEF RunnerTyped
  <2>4. TablesInv'
    BY <1>0, <1>1, <2>1 DEF TablesInv
  <2> QED
    BY <2>1, <2>2, <2>3, <2>4 DEF RunnerInv
<1>3. CASE ~\E t \in Range(Tables) : rsFiles[t] = CutOff
  <2>1. rsUp' = "up" /\ rsOwed' = NoStores /\ rsClash' = FALSE /\ rsMem' = LoadStores
    BY <1>3 DEF RunnerStarts, Throws
  <2>2. NoStores \in StoresType
    BY DEF NoStores, StoresType
  <2>3. rsMem' \in StoresType /\ \A t \in Range(Tables) : rsMem'.tables[t] = rsFiles[t]
    BY <1>0, <2>1 DEF LoadStores, ImportBlobs, ImportTable, StoresType, RunnerTyped
  <2>4. RunnerTyped'
    BY <1>0, <1>1, <2>1, <2>2, <2>3 DEF RunnerTyped
  <2>5. TablesInv'
    BY <1>0, <1>1, <1>3, <2>1, <2>3 DEF TablesInv
  <2>6. CleanInv'
    BY <1>0, <1>3, <2>1 DEF CleanInv
  <2> QED
    BY <2>4, <2>5, <2>6 DEF RunnerInv
<1> QED
    BY <1>2, <1>3

\* The runner keeps its invariant.
LEMMA RunnerKeeps == RunnerInv /\ [RunnerNext]_runnerVars => RunnerInv'
<1> SUFFICES ASSUME RunnerInv, [RunnerNext]_runnerVars PROVE RunnerInv'
    OBVIOUS
<1>1. CASE UNCHANGED runnerVars
    BY <1>1 DEF runnerVars, RunnerInv, RunnerTyped, TablesInv, Running, CleanInv, SaveInv, ShutdownInv, Written
<1>2. CASE StoresChange
    BY <1>2, StoresChangeKeeps
<1>3. CASE Persist
    BY <1>3, PersistKeeps
<1>4. CASE Shutdown
    BY <1>4, ShutdownKeeps
<1>5. CASE RunnerDies
    BY <1>5, RunnerDiesKeeps
<1>6. CASE RunnerStarts
    BY <1>6, RunnerStartsKeeps
<1>7. CASE \E i \in DOMAIN rsSaves :
             \/ RemovesBlobs(i) \/ ExportsBlobs(i) \/ MakesDirectory(i) \/ OpensBlob(i) \/ WritesBlob(i)
             \/ OpensTable(i) \/ WritesTable(i) \/ SaveEnds(i)
    BY <1>7, SavesKeep
<1>8. CASE \E i \in DOMAIN rsSaves : SaveFails(i)
    BY <1>8, SaveFailsKeeps
<1> QED
    BY <1>1, <1>2, <1>3, <1>4, <1>5, <1>6, <1>7, <1>8 DEF RunnerNext

-----------------------------------------------------------------------------
\* The client.

\* A call, and what a node holds for the client, have these fields.
IsCall(o) == o = [op |-> o.op, node |-> o.node, chan |-> o.chan, pc |-> o.pc, value |-> o.value]
IsTable(t) == t = [subs |-> t.subs, notify |-> t.notify, pending |-> t.pending]

\* The shape of the client's state.
ClientShape ==
    /\ rcCall = [k \in ClientCalls |-> rcCall[k]] /\ \A k \in ClientCalls : IsCall(rcCall[k])
    /\ rcTable = [n \in FedNodes |-> rcTable[n]] /\ \A n \in FedNodes : IsTable(rcTable[n])
    /\ rcCosts = [c \in Channels |-> rcCosts[c]] /\ rcUsed \subseteq FedNodes /\ IsFiniteSet(rcUsed)

Subscribing == {"subscribe", "unsubscribe"}

\* A call goes to a node that is used, and only trouble has two of them under way.
CallsInv ==
    /\ \A k \in ClientCalls : rcCall[k].pc # "idle" => rcCall[k].node \in rcUsed /\ (rcCall[k].op \in Subscribing => rcCall[k].chan \in Channels)
    /\ \A n \in FedNodes : rcTable[n].subs # {} => n \in rcUsed
    /\ ~rcTrouble => \A j, k \in ClientCalls : rcCall[j].pc # "idle" /\ rcCall[k].pc # "idle" => j = k

\* Only raw channels are marked, and what is published there is raw.
ReadInv ==
    ~rcMisread /\ rcRaw \subseteq RawNames /\ \A blob \in rcWire : blob.chan \in RawNames => blob.kind = "raw"

\* A call that the node has answered changes the channel.
Changes(k, c) == rcCall[k].pc \in {"answered", "closing"} /\ rcCall[k].op \in Subscribing /\ rcCall[k].chan = c

\* The client knows how to decode a channel, and its cost.
Known(c) ==
    /\ c \in rcRaw <=> c \in RawNames /\ \E n \in FedNodes : c \in rcTable[n].subs
    /\ \A n \in FedNodes : c \in rcTable[n].subs => rcCosts[c] = CostOf[n]

\* What the answer of a call has changed so far.
Changed(o) ==
    /\ o.op = "subscribe" /\ o.pc = "answered" => o.chan \in rcTable[o.node].subs /\ o.value = CostOf[o.node]
    /\ o.op = "subscribe" /\ o.pc = "closing" => o.chan \in rcTable[o.node].subs /\ rcCosts[o.chan] = CostOf[o.node]
    /\ o.op = "unsubscribe" /\ o.pc \in {"answered", "closing"} => o.chan \notin rcTable[o.node].subs
    /\ o.op = "unsubscribe" /\ o.pc = "closing" => o.chan \notin rcRaw

\* One node, one call after the other, no failure.
Orderly == ~rcTrouble /\ \A a, b \in rcUsed : a = b

FollowInv ==
    Orderly => /\ \A c \in Channels : (\A k \in ClientCalls : ~Changes(k, c)) => Known(c)
               /\ \A k \in ClientCalls : Changed(rcCall[k])

\* The invariant of the client.
ClientInv == ClientShape /\ CallsInv /\ ReadInv /\ FollowInv

\* The client starts idle.
LEMMA ClientInitially == RfedClientInit => ClientInv
<1> SUFFICES ASSUME RfedClientInit PROVE ClientInv
    OBVIOUS
<1>0. IdleCall.pc = "idle" /\ IdleCall.op = "none" /\ IsCall(IdleCall)
    BY DEF IdleCall, IsCall
<1>1. ClientShape
  <2>1. rcCall = [k \in ClientCalls |-> rcCall[k]] /\ \A k \in ClientCalls : rcCall[k] = IdleCall
    BY DEF RfedClientInit
  <2>2. rcTable = [n \in FedNodes |-> rcTable[n]] /\ \A n \in FedNodes : IsTable(rcTable[n])
    BY DEF RfedClientInit, IsTable
  <2>3. rcCosts = [c \in Channels |-> rcCosts[c]] /\ rcUsed \subseteq FedNodes
    BY DEF RfedClientInit
  <2>4. IsFiniteSet(rcUsed)
    BY FS_EmptySet DEF RfedClientInit
  <2> QED
    BY <1>0, <2>1, <2>2, <2>3, <2>4 DEF ClientShape
<1>2. CallsInv
    BY <1>0 DEF RfedClientInit, CallsInv
<1>3. ReadInv
    BY DEF RfedClientInit, ReadInv
<1>4. FollowInv
    BY <1>0 DEF RfedClientInit, FollowInv, Known, Changed
<1> QED
    BY <1>1, <1>2, <1>3, <1>4 DEF ClientInv

\* One call moves on.
LEMMA CallMoves ==
    ASSUME ClientShape, NEW k \in ClientCalls, NEW o, rcCall' = [rcCall EXCEPT ![k] = o], IsCall(o)
    PROVE  /\ rcCall' = [j \in ClientCalls |-> rcCall'[j]] /\ \A j \in ClientCalls : IsCall(rcCall'[j])
           /\ rcCall'[k] = o /\ \A j \in ClientCalls : j # k => rcCall'[j] = rcCall[j]
<1>1. rcCall = [j \in ClientCalls |-> rcCall[j]] /\ \A j \in ClientCalls : IsCall(rcCall[j])
    BY DEF ClientShape
<1>2. /\ rcCall' = [j \in ClientCalls |-> rcCall'[j]] /\ rcCall'[k] = o
      /\ \A j \in ClientCalls : j # k => rcCall'[j] = rcCall[j]
    BY <1>1
<1> QED
    BY <1>1, <1>2

\* The fields of a call that its steps set.
LEMMA CallExcepts ==
    ASSUME NEW o, NEW x, NEW y, IsCall(o)
    PROVE  /\ [o EXCEPT !.pc = x] = [op |-> o.op, node |-> o.node, chan |-> o.chan, pc |-> x, value |-> o.value]
           /\ [o EXCEPT !.pc = x, !.value = y] = [op |-> o.op, node |-> o.node, chan |-> o.chan, pc |-> x, value |-> y]
<1> DEFINE a == [o EXCEPT !.pc = x]
<1>1. a = [op |-> o.op, node |-> o.node, chan |-> o.chan, pc |-> x, value |-> o.value]
    BY DEF IsCall
<1> HIDE DEF a
<1>2. [a EXCEPT !.value = y] = [op |-> o.op, node |-> o.node, chan |-> o.chan, pc |-> x, value |-> y]
    BY ONLY <1>1
<1> QED
    BY ONLY <1>1, <1>2 DEF a

\* A method is called.
LEMMA CallKeeps ==
    ASSUME ClientInv, NEW k \in ClientCalls, NEW op, NEW n \in FedNodes, NEW c, NEW value, Call(k, op, n, c, value),
           op \in Subscribing => c \in Channels
    PROVE  ClientInv'
<1>0. ClientShape /\ CallsInv /\ ReadInv /\ FollowInv
    BY DEF ClientInv
<1>1. PICK o : o = [op |-> op, node |-> n, chan |-> c, pc |-> "asking", value |-> value]
    OBVIOUS
<1>2. o.op = op /\ o.node = n /\ o.chan = c /\ o.pc = "asking" /\ o.value = value
    BY ONLY <1>1
<1>3. IsCall(o)
    BY <1>1, <1>2 DEF IsCall
<1>4. /\ rcCall[k].pc = "idle" /\ rcCall' = [rcCall EXCEPT ![k] = o] /\ rcUsed' = rcUsed \cup {n}
      /\ rcTrouble' = (rcTrouble \/ \E j \in ClientCalls : rcCall[j].pc # "idle")
      /\ rcCosts' = rcCosts /\ rcRaw' = rcRaw /\ rcTable' = rcTable /\ rcWire' = rcWire /\ rcMisread' = rcMisread
    BY <1>1 DEF Call
<1>5. /\ rcCall' = [j \in ClientCalls |-> rcCall'[j]] /\ \A j \in ClientCalls : IsCall(rcCall'[j])
      /\ rcCall'[k] = o /\ \A j \in ClientCalls : j # k => rcCall'[j] = rcCall[j]
    BY <1>0, <1>3, <1>4, CallMoves
<1>6. ClientShape'
  <2>1. IsFiniteSet(rcUsed')
    BY <1>0, <1>4, FS_AddElement DEF ClientShape
  <2> QED
    BY <1>0, <1>4, <1>5, <2>1 DEF ClientShape
<1>7. CallsInv'
  <2>1. \A j \in ClientCalls : rcCall'[j].pc # "idle" => rcCall'[j].node \in rcUsed' /\ (rcCall'[j].op \in Subscribing => rcCall'[j].chan \in Channels)
    <3> SUFFICES ASSUME NEW j \in ClientCalls, rcCall'[j].pc # "idle"
                 PROVE  rcCall'[j].node \in rcUsed' /\ (rcCall'[j].op \in Subscribing => rcCall'[j].chan \in Channels)
        OBVIOUS
    <3>1. CASE j = k
        BY <1>2, <1>4, <1>5, <3>1
    <3>2. CASE j # k
        BY <1>0, <1>4, <1>5, <3>2 DEF CallsInv
    <3> QED
        BY <3>1, <3>2
  <2>2. \A m \in FedNodes : rcTable'[m].subs # {} => m \in rcUsed'
    BY <1>0, <1>4 DEF CallsInv
  <2>3. ~rcTrouble' => \A i, j \in ClientCalls : rcCall'[i].pc # "idle" /\ rcCall'[j].pc # "idle" => i = j
    BY <1>4, <1>5
  <2> QED
    BY <2>1, <2>2, <2>3 DEF CallsInv
<1>8. ReadInv'
    BY <1>0, <1>4 DEF ReadInv
<1>9. FollowInv'
  <2> SUFFICES ASSUME Orderly'
               PROVE  /\ \A d \in Channels : (\A j \in ClientCalls : ~Changes(j, d)') => Known(d)'
                      /\ \A j \in ClientCalls : Changed(rcCall[j])'
    BY DEF FollowInv
  <2>1. Orderly
    BY <1>4 DEF Orderly
  <2>2. ASSUME NEW d \in Channels, \A j \in ClientCalls : ~Changes(j, d)' PROVE Known(d)'
    <3>1. \A j \in ClientCalls : ~Changes(j, d)
        BY <1>4, <1>5, <2>2 DEF Changes
    <3>2. Known(d)
        BY <1>0, <2>1, <3>1 DEF FollowInv
    <3> QED
        BY <1>4, <3>2 DEF Known
  <2>3. ASSUME NEW j \in ClientCalls PROVE Changed(rcCall[j])'
    <3>1. CASE j = k
        BY <1>2, <1>5, <3>1 DEF Changed
    <3>2. CASE j # k
      <4>1. Changed(rcCall[j])
        BY <1>0, <2>1 DEF FollowInv
      <4> QED
        BY <1>4, <1>5, <3>2, <4>1 DEF Changed
    <3> QED
        BY <3>1, <3>2
  <2> QED
    BY <2>2, <2>3
<1> QED
    BY <1>6, <1>7, <1>8, <1>9 DEF ClientInv


\* The call a client makes when it is orderly is the only one.
LEMMA TheOnlyCall ==
    ASSUME CallsInv, Orderly, NEW k \in ClientCalls, rcCall[k].pc # "idle"
    PROVE  /\ \A j \in ClientCalls : j # k => rcCall[j].pc = "idle"
           /\ \A n \in FedNodes : rcTable[n].subs # {} => n = rcCall[k].node
BY DEF CallsInv, Orderly

\* The node answers.
LEMMA AnsweredKeeps ==
    ASSUME ClientInv, NEW k \in ClientCalls, NEW op, NEW table, NEW value, NEW w, NEW c, IsTable(table),
           w = rcCall[k].node, c = rcCall[k].chan, Answered(k, op, table, value),
           \/ op = "subscribe" /\ table.subs = rcTable[w].subs \cup {c} /\ value = CostOf[w]
           \/ op = "unsubscribe" /\ table.subs = rcTable[w].subs \ {c}
           \/ op \notin Subscribing /\ table.subs = rcTable[w].subs
    PROVE  ClientInv'
<1>0. ClientShape /\ CallsInv /\ ReadInv /\ FollowInv
    BY DEF ClientInv
<1>1. /\ rcCall[k].pc = "asking" /\ rcCall[k].op = op /\ rcTable' = [rcTable EXCEPT ![w] = table]
      /\ rcCall' = [rcCall EXCEPT ![k] = [rcCall[k] EXCEPT !.pc = "answered", !.value = value]]
      /\ rcCosts' = rcCosts /\ rcRaw' = rcRaw /\ rcWire' = rcWire /\ rcUsed' = rcUsed /\ rcTrouble' = rcTrouble /\ rcMisread' = rcMisread
    BY DEF Answered, clientHistory
<1>2. PICK o : o = [op |-> op, node |-> w, chan |-> c, pc |-> "answered", value |-> value]
    OBVIOUS
<1>3. o.op = op /\ o.node = w /\ o.chan = c /\ o.pc = "answered" /\ o.value = value
    BY ONLY <1>2
<1>4. IsCall(o)
    BY <1>2, <1>3 DEF IsCall
<1>5. rcCall' = [rcCall EXCEPT ![k] = o]
  <2>1. IsCall(rcCall[k])
    BY <1>0 DEF ClientShape
  <2>2. \A x, y : [rcCall[k] EXCEPT !.pc = x, !.value = y] =
          [op |-> rcCall[k].op, node |-> rcCall[k].node, chan |-> rcCall[k].chan, pc |-> x, value |-> y]
    BY ONLY <2>1, CallExcepts, Zenon
  <2>3. [rcCall[k] EXCEPT !.pc = "answered", !.value = value] = o
    BY <1>1, <1>2, <2>2
  <2> QED
    BY ONLY <1>1, <2>3, Zenon
<1>6. /\ rcCall' = [j \in ClientCalls |-> rcCall'[j]] /\ \A j \in ClientCalls : IsCall(rcCall'[j])
      /\ rcCall'[k] = o /\ \A j \in ClientCalls : j # k => rcCall'[j] = rcCall[j]
    BY <1>0, <1>4, <1>5, CallMoves
<1>7. w \in rcUsed /\ w \in FedNodes /\ (op \in Subscribing => c \in Channels)
    BY <1>0, <1>1 DEF CallsInv, ClientShape
<1>8. /\ rcTable' = [n \in FedNodes |-> rcTable'[n]] /\ rcTable'[w] = table
      /\ \A n \in FedNodes : n # w => rcTable'[n] = rcTable[n]
    BY <1>0, <1>1, <1>7 DEF ClientShape
<1>9. ClientShape'
    BY <1>0, <1>1, <1>6, <1>8 DEF ClientShape
<1>10. CallsInv'
  <2>1. \A j \in ClientCalls : rcCall'[j].pc # "idle" => rcCall'[j].node \in rcUsed' /\ (rcCall'[j].op \in Subscribing => rcCall'[j].chan \in Channels)
    <3> SUFFICES ASSUME NEW j \in ClientCalls, rcCall'[j].pc # "idle"
                 PROVE  rcCall'[j].node \in rcUsed' /\ (rcCall'[j].op \in Subscribing => rcCall'[j].chan \in Channels)
        OBVIOUS
    <3>1. CASE j = k
        BY <1>1, <1>3, <1>6, <1>7, <3>1
    <3>2. CASE j # k
        BY <1>0, <1>1, <1>6, <3>2 DEF CallsInv
    <3> QED
        BY <3>1, <3>2
  <2>2. \A n \in FedNodes : rcTable'[n].subs # {} => n \in rcUsed'
    BY <1>0, <1>1, <1>7, <1>8 DEF CallsInv
  <2>3. ~rcTrouble' => \A i, j \in ClientCalls : rcCall'[i].pc # "idle" /\ rcCall'[j].pc # "idle" => i = j
    <3>1. \A j \in ClientCalls : rcCall'[j].pc # "idle" => rcCall[j].pc # "idle"
        BY <1>1, <1>6
    <3> QED
        BY <1>0, <1>1, <3>1 DEF CallsInv
  <2> QED
    BY <2>1, <2>2, <2>3 DEF CallsInv
<1>11. ReadInv'
    BY <1>0, <1>1 DEF ReadInv
<1>12. FollowInv'
  <2> SUFFICES ASSUME Orderly'
               PROVE  /\ \A d \in Channels : (\A j \in ClientCalls : ~Changes(j, d)') => Known(d)'
                      /\ \A j \in ClientCalls : Changed(rcCall[j])'
    BY DEF FollowInv
  <2>1. Orderly
    BY <1>1 DEF Orderly
  <2>4. \A j \in ClientCalls : j # k => rcCall[j].pc = "idle"
    BY <1>0, <1>1, <2>1, TheOnlyCall
  <2>2. ASSUME NEW d \in Channels, \A j \in ClientCalls : ~Changes(j, d)' PROVE Known(d)'
    <3>1. \A j \in ClientCalls : ~Changes(j, d)
        BY <1>1, <2>4 DEF Changes
    <3>2. Known(d)
        BY <1>0, <2>1, <3>1 DEF FollowInv
    <3>3. op \in Subscribing => c # d
        BY <1>3, <1>6, <2>2 DEF Changes
    <3>4. \A n \in FedNodes : d \in rcTable'[n].subs <=> d \in rcTable[n].subs
        BY <1>8, <3>3 DEF Subscribing
    <3> QED
        BY <1>1, <3>2, <3>4 DEF Known
  <2>3. ASSUME NEW j \in ClientCalls PROVE Changed(rcCall[j])'
    <3>1. CASE j = k
        BY <1>3, <1>6, <1>8, <3>1 DEF Changed, Subscribing
    <3>2. CASE j # k
        BY <1>6, <2>4, <3>2 DEF Changed
    <3> QED
        BY <3>1, <3>2
  <2> QED
    BY <2>2, <2>3
<1> QED
    BY <1>9, <1>10, <1>11, <1>12 DEF ClientInv

\* A field of what a node holds for the client changes.
LEMMA TableExcepts ==
    ASSUME NEW t, NEW x, IsTable(t)
    PROVE  /\ IsTable([t EXCEPT !.subs = x]) /\ [t EXCEPT !.subs = x].subs = x
           /\ IsTable([t EXCEPT !.notify = x]) /\ [t EXCEPT !.notify = x].subs = t.subs
           /\ IsTable([t EXCEPT !.pending = x]) /\ [t EXCEPT !.pending = x].subs = t.subs
<1>1. /\ [t EXCEPT !.subs = x] = [subs |-> x, notify |-> t.notify, pending |-> t.pending]
      /\ [t EXCEPT !.notify = x] = [subs |-> t.subs, notify |-> x, pending |-> t.pending]
      /\ [t EXCEPT !.pending = x] = [subs |-> t.subs, notify |-> t.notify, pending |-> x]
    BY DEF IsTable
<1>2. ASSUME NEW a, NEW b, NEW d
      PROVE  IsTable([subs |-> a, notify |-> b, pending |-> d]) /\ [subs |-> a, notify |-> b, pending |-> d].subs = a
    BY DEF IsTable
<1>3. IsTable([t EXCEPT !.subs = x]) /\ [t EXCEPT !.subs = x].subs = x
  <2>1. PICK b, d : b = t.notify /\ d = t.pending
    OBVIOUS
  <2>2. [t EXCEPT !.subs = x] = [subs |-> x, notify |-> b, pending |-> d]
    BY ONLY <1>1, <2>1, Zenon
  <2>3. IsTable([subs |-> x, notify |-> b, pending |-> d]) /\ [subs |-> x, notify |-> b, pending |-> d].subs = x
    BY ONLY <1>2, Zenon
  <2> QED
    BY ONLY <2>2, <2>3, Zenon
<1>4. IsTable([t EXCEPT !.notify = x]) /\ [t EXCEPT !.notify = x].subs = t.subs
  <2>1. PICK a, d : a = t.subs /\ d = t.pending
    OBVIOUS
  <2>2. [t EXCEPT !.notify = x] = [subs |-> a, notify |-> x, pending |-> d]
    BY ONLY <1>1, <2>1, Zenon
  <2>3. IsTable([subs |-> a, notify |-> x, pending |-> d]) /\ [subs |-> a, notify |-> x, pending |-> d].subs = a
    BY ONLY <1>2, Zenon
  <2> QED
    BY ONLY <2>1, <2>2, <2>3, Zenon
<1>5. IsTable([t EXCEPT !.pending = x]) /\ [t EXCEPT !.pending = x].subs = t.subs
  <2>1. PICK a, b : a = t.subs /\ b = t.notify
    OBVIOUS
  <2>2. [t EXCEPT !.pending = x] = [subs |-> a, notify |-> b, pending |-> x]
    BY ONLY <1>1, <2>1, Zenon
  <2>3. IsTable([subs |-> a, notify |-> b, pending |-> x]) /\ [subs |-> a, notify |-> b, pending |-> x].subs = a
    BY ONLY <1>2, Zenon
  <2> QED
    BY ONLY <2>1, <2>2, <2>3, Zenon
<1> QED
    BY ONLY <1>3, <1>4, <1>5, Zenon

\* The answers of the node's handlers.
LEMMA AnswersKeep ==
    ASSUME ClientInv, NEW k \in ClientCalls,
           \/ AnswerSubscribe(k) \/ AnswerUnsubscribe(k) \/ AnswerPull(k)
           \/ AnswerRegister(k) \/ AnswerUnregister(k) \/ AnswerClear(k)
    PROVE  ClientInv'
<1>1. PICK w, c : w = rcCall[k].node /\ c = rcCall[k].chan
    OBVIOUS
<1>2. IsTable(rcTable[w])
  <2>1. rcCall[k].pc = "asking"
    BY DEF AnswerSubscribe, AnswerUnsubscribe, AnswerPull, AnswerRegister, AnswerUnregister, AnswerClear, Answered
  <2> QED
    BY <1>1, <2>1 DEF ClientInv, ClientShape, CallsInv
<1>3. CASE AnswerSubscribe(k)
  <2>1. PICK t, v : t = [rcTable[w] EXCEPT !.subs = rcTable[w].subs \cup {c}] /\ v = CostOf[w]
    OBVIOUS
  <2>2. Answered(k, "subscribe", t, v)
    BY <1>1, <1>3, <2>1 DEF AnswerSubscribe
  <2>3. IsTable(t) /\ t.subs = rcTable[w].subs \cup {c}
    BY <1>2, <2>1, TableExcepts, Zenon
  <2> QED
    BY <1>1, <2>1, <2>2, <2>3, AnsweredKeeps
<1>4. CASE AnswerUnsubscribe(k)
  <2>1. PICK t : t = [rcTable[w] EXCEPT !.subs = rcTable[w].subs \ {c}]
    OBVIOUS
  <2>2. Answered(k, "unsubscribe", t, 0)
    BY <1>1, <1>4, <2>1 DEF AnswerUnsubscribe
  <2>3. IsTable(t) /\ t.subs = rcTable[w].subs \ {c}
    BY <1>2, <2>1, TableExcepts, Zenon
  <2> QED
    BY <1>1, <2>2, <2>3, AnsweredKeeps
<1>5. ASSUME NEW op, op \notin Subscribing, NEW t, NEW x, t = [rcTable[w] EXCEPT !.pending = x] \/ t = [rcTable[w] EXCEPT !.notify = x],
             NEW v, Answered(k, op, t, v)
      PROVE  ClientInv'
  <2>1. IsTable(t) /\ t.subs = rcTable[w].subs
    <3>1. CASE t = [rcTable[w] EXCEPT !.pending = x]
        BY <1>2, <3>1, TableExcepts, Zenon
    <3>2. CASE t = [rcTable[w] EXCEPT !.notify = x]
        BY <1>2, <3>2, TableExcepts, Zenon
    <3> QED
        BY <1>5, <3>1, <3>2
  <2> QED
    BY <1>1, <1>5, <2>1, AnsweredKeeps
<1>6. "pull" \notin Subscribing /\ "register" \notin Subscribing /\ "unregister" \notin Subscribing /\ "clear" \notin Subscribing
    BY DEF Subscribing
<1>7. CASE AnswerPull(k)
  <2> DEFINE page == {b \in rcTable[w].pending : b.chan = c}
  <2>1. PICK t, x, v : x = rcTable[w].pending \ page /\ t = [rcTable[w] EXCEPT !.pending = x] /\ v = Cardinality(page)
    OBVIOUS
  <2>2. Answered(k, "pull", t, v)
    BY <1>1, <1>7, <2>1 DEF AnswerPull
  <2> QED
    BY <1>5, <1>6, <2>1, <2>2
<1>8. CASE AnswerRegister(k)
  <2>1. PICK cmd : Answered(k, "register", Registered(rcTable[w], ParseNotifyCommand(cmd, "register")), 0)
    BY <1>1, <1>8 DEF AnswerRegister
  <2>2. PICK t, x : x = rcTable[w].notify \cup ParseNotifyCommand(cmd, "register") /\ t = [rcTable[w] EXCEPT !.notify = x]
    OBVIOUS
  <2>3. Answered(k, "register", t, 0)
    BY <2>1, <2>2 DEF Registered
  <2> QED
    BY <1>5, <1>6, <2>2, <2>3
<1>9. CASE AnswerUnregister(k)
  <2>1. PICK cmd : Answered(k, "unregister", Unregistered(rcTable[w], ParseNotifyCommand(cmd, "unregister")), 0)
    BY <1>1, <1>9 DEF AnswerUnregister
  <2>2. PICK t, x : x = rcTable[w].notify \ ParseNotifyCommand(cmd, "unregister") /\ t = [rcTable[w] EXCEPT !.notify = x]
    OBVIOUS
  <2>3. Answered(k, "unregister", t, 0)
    BY <2>1, <2>2 DEF Unregistered
  <2> QED
    BY <1>5, <1>6, <2>2, <2>3
<1>10. CASE AnswerClear(k)
  <2>1. PICK t, x : x = {} /\ t = [rcTable[w] EXCEPT !.notify = x]
    OBVIOUS
  <2>2. Answered(k, "clear", t, 0)
    BY <1>1, <1>10, <2>1 DEF AnswerClear
  <2> QED
    BY <1>5, <1>6, <2>1, <2>2
<1> QED
    BY <1>3, <1>4, <1>7, <1>8, <1>9, <1>10

\* A fan-out at a node leaves the subscriptions.
LEMMA ServeKeeps ==
    ASSUME ClientShape, NEW n \in FedNodes, NEW blob, ServeClient(n, blob)
    PROVE  /\ rcTable' = [m \in FedNodes |-> rcTable'[m]] /\ rcWire' \subseteq rcWire \cup {blob}
           /\ \A m \in FedNodes : IsTable(rcTable'[m]) /\ rcTable'[m].subs = rcTable[m].subs
<1>0. rcTable = [m \in FedNodes |-> rcTable[m]] /\ \A m \in FedNodes : IsTable(rcTable[m])
    BY DEF ClientShape
<1>1. CASE rcTable' = rcTable /\ (rcWire' = rcWire \/ rcWire' = rcWire \cup {blob})
    BY <1>0, <1>1
<1>2. CASE rcTable' = [rcTable EXCEPT ![n].pending = @ \cup {blob}] /\ rcWire' = rcWire
  <2>1. PICK t, x : x = rcTable[n].pending \cup {blob} /\ t = [rcTable[n] EXCEPT !.pending = x]
    OBVIOUS
  <2>2. IsTable(t) /\ t.subs = rcTable[n].subs
    BY <1>0, <2>1, TableExcepts, Zenon
  <2>3. rcTable' = [rcTable EXCEPT ![n] = t]
    BY <1>0, <1>2, <2>1
  <2>4. rcTable' = [m \in FedNodes |-> rcTable'[m]] /\ rcTable'[n] = t /\ \A m \in FedNodes : m # n => rcTable'[m] = rcTable[m]
    BY ONLY <1>0, <2>3
  <2> QED
    BY <1>0, <1>2, <2>2, <2>4
<1> QED
    BY <1>1, <1>2 DEF ServeClient

\* Blobs are published and delivered: no call and no subscription changes, and what is on its
\* way is of the kind of its channel.
LEMMA ServedKeeps ==
    ASSUME ClientInv, UNCHANGED <<rcCall, rcCosts, rcRaw, rcUsed, rcTrouble>>,
           rcTable' = [n \in FedNodes |-> rcTable'[n]], \A n \in FedNodes : IsTable(rcTable'[n]) /\ rcTable'[n].subs = rcTable[n].subs, ReadInv'
    PROVE  ClientInv'
<1>0. ClientShape /\ CallsInv /\ FollowInv
    BY DEF ClientInv
<1>1. ClientShape'
    BY <1>0 DEF ClientShape
<1>2. CallsInv'
    BY <1>0 DEF CallsInv
<1>3. FollowInv'
  <2> SUFFICES ASSUME Orderly'
               PROVE  /\ \A d \in Channels : (\A j \in ClientCalls : ~Changes(j, d)') => Known(d)'
                      /\ \A j \in ClientCalls : Changed(rcCall[j])'
    BY DEF FollowInv
  <2>1. Orderly
    BY DEF Orderly
  <2>2. ASSUME NEW d \in Channels, \A j \in ClientCalls : ~Changes(j, d)' PROVE Known(d)'
    <3>1. Known(d)
        BY <1>0, <2>1, <2>2 DEF FollowInv, Changes
    <3> QED
        BY <3>1 DEF Known
  <2>3. ASSUME NEW j \in ClientCalls PROVE Changed(rcCall[j])'
    <3>1. Changed(rcCall[j])
        BY <1>0, <2>1 DEF FollowInv
    <3>2. rcCall[j].pc # "idle" => rcCall[j].node \in FedNodes
        BY <1>0 DEF CallsInv, ClientShape
    <3> QED
        BY <3>1, <3>2 DEF Changed
  <2> QED
    BY <2>2, <2>3
<1> QED
    BY <1>1, <1>2, <1>3 DEF ClientInv


\* The kind of a blob on its way.
LEMMA BlobKinds ==
    ASSUME NEW c, NEW v, NEW n, NEW blob, blob = Wrapped(c, v) \/ blob = ParseSendPayload(n, Wrapped(c, v)).blob
    PROVE  blob.chan = c /\ (blob.chan \in RawNames => blob.kind = "raw")
<1>1. PICK p : p = Wrapped(c, v)
    OBVIOUS
<1>2. p = [chan |-> c, kind |-> IF c \in RawNames THEN "raw" ELSE "lxmf", stamp |-> v]
    BY <1>1 DEF Wrapped, WrapRawChannelMessage, WrapChannelMessage
<1>3. [p EXCEPT !.stamp = 0] = [chan |-> c, kind |-> IF c \in RawNames THEN "raw" ELSE "lxmf", stamp |-> 0]
    BY ONLY <1>2
<1>4. blob = p \/ blob = [p EXCEPT !.stamp = 0]
    BY <1>1 DEF ParseSendPayload
<1>5. CASE blob = p
    BY ONLY <1>2, <1>5
<1>6. CASE blob = [p EXCEPT !.stamp = 0]
    BY ONLY <1>3, <1>6
<1> QED
    BY <1>4, <1>5, <1>6

\* Someone else publishes.
LEMMA OthersPublishKeeps ==
    ASSUME ClientInv, NEW n \in FedNodes, NEW c \in Channels, OthersPublish(n, c)
    PROVE  ClientInv'
<1>1. PICK blob : blob = Wrapped(c, 0)
    OBVIOUS
<1>2. ServeClient(n, blob) /\ UNCHANGED <<rcCall, rcCosts, rcRaw, rcUsed, rcTrouble, rcMisread>>
    BY <1>1 DEF OthersPublish
<1>3. ClientShape /\ ReadInv
    BY DEF ClientInv
<1>4. /\ rcTable' = [m \in FedNodes |-> rcTable'[m]] /\ rcWire' \subseteq rcWire \cup {blob}
      /\ \A m \in FedNodes : IsTable(rcTable'[m]) /\ rcTable'[m].subs = rcTable[m].subs
    BY <1>2, <1>3, ServeKeeps
<1>5. blob.chan \in RawNames => blob.kind = "raw"
    BY <1>1, BlobKinds
<1>6. ReadInv'
    BY <1>2, <1>3, <1>4, <1>5 DEF ReadInv
<1> QED
    BY <1>2, <1>4, <1>6, ServedKeeps

\* A blob is delivered: it is never shown for what it is not.
LEMMA HandleDeliveryKeeps ==
    ASSUME ClientInv, NEW blob \in rcWire, HandleDelivery(blob)
    PROVE  ClientInv'
<1>1. ClientShape /\ ReadInv
    BY DEF ClientInv
<1>2. UNCHANGED <<rcCall, rcCosts, rcRaw, rcTable, rcUsed, rcTrouble>> /\ rcWire' = rcWire \ {blob}
    BY DEF HandleDelivery
<1>3. ~rcMisread'
  <2>1. CASE blob.chan \in rcRaw
    <3>1. blob.kind = "raw"
        BY <1>1, <2>1 DEF ReadInv
    <3> QED
        BY <1>1, <2>1, <3>1 DEF HandleDelivery, ReadInv
  <2>2. CASE blob.chan \notin rcRaw
    BY <1>1, <2>2 DEF HandleDelivery, ReadInv, UnwrapChannelMessage
  <2> QED
    BY <2>1, <2>2
<1>4. ReadInv'
    BY <1>1, <1>2, <1>3 DEF ReadInv
<1>5. rcTable' = [n \in FedNodes |-> rcTable'[n]] /\ \A n \in FedNodes : IsTable(rcTable'[n]) /\ rcTable'[n].subs = rcTable[n].subs
    BY <1>1, <1>2 DEF ClientShape
<1> QED
    BY <1>2, <1>4, <1>5, ServedKeeps

\* A call that changes nothing more is over.
LEMMA CallEnds ==
    ASSUME ClientInv, NEW k \in ClientCalls, rcCall' = [rcCall EXCEPT ![k] = IdleCall], UNCHANGED <<rcCosts, rcUsed>>,
           rcTable' = [n \in FedNodes |-> rcTable'[n]], \A n \in FedNodes : IsTable(rcTable'[n]) /\ rcTable'[n].subs = rcTable[n].subs,
           ~rcTrouble' => ~rcTrouble, ReadInv',
           Orderly => \A d \in Channels : (Changes(k, d) => Known(d)') /\ (~Changes(k, d) => (d \in rcRaw' <=> d \in rcRaw)),
           Orderly' => \A j \in ClientCalls : j # k => rcCall[j].pc = "idle"
    PROVE  ClientInv'
<1>0. ClientShape /\ CallsInv /\ FollowInv
    BY DEF ClientInv
<1>1. IdleCall.pc = "idle" /\ IdleCall.op = "none" /\ IsCall(IdleCall)
    BY DEF IdleCall, IsCall
<1>2. /\ rcCall' = [j \in ClientCalls |-> rcCall'[j]] /\ \A j \in ClientCalls : IsCall(rcCall'[j])
      /\ rcCall'[k] = IdleCall /\ \A j \in ClientCalls : j # k => rcCall'[j] = rcCall[j]
    BY <1>0, <1>1, CallMoves
<1>3. ClientShape'
    BY <1>0, <1>2 DEF ClientShape
<1>4. CallsInv'
    BY <1>0, <1>1, <1>2 DEF CallsInv
<1>5. FollowInv'
  <2> SUFFICES ASSUME Orderly'
               PROVE  /\ \A d \in Channels : (\A j \in ClientCalls : ~Changes(j, d)') => Known(d)'
                      /\ \A j \in ClientCalls : Changed(rcCall[j])'
    BY DEF FollowInv
  <2>1. Orderly
    BY DEF Orderly
  <2>2. ASSUME NEW d \in Channels, \A j \in ClientCalls : ~Changes(j, d)' PROVE Known(d)'
    <3>1. CASE Changes(k, d)
        BY <2>1, <3>1
    <3>2. CASE ~Changes(k, d)
      <4>1. \A j \in ClientCalls : ~Changes(j, d)
        BY <3>2 DEF Changes
      <4>2. Known(d)
        BY <1>0, <2>1, <4>1 DEF FollowInv
      <4>3. d \in rcRaw' <=> d \in rcRaw
        BY <2>1, <3>2
      <4> QED
        BY <4>2, <4>3 DEF Known
    <3> QED
        BY <3>1, <3>2
  <2>3. ASSUME NEW j \in ClientCalls PROVE Changed(rcCall[j])'
    <3>1. rcCall'[j].pc = "idle"
        BY <1>1, <1>2
    <3> QED
        BY <3>1 DEF Changed
  <2> QED
    BY <2>2, <2>3
<1> QED
    BY <1>3, <1>4, <1>5 DEF ClientInv

\* A publish reaches its node.
LEMMA PublishArrivesKeeps ==
    ASSUME ClientInv, NEW k \in ClientCalls, PublishArrives(k)
    PROVE  ClientInv'
<1>0. ClientShape /\ CallsInv /\ ReadInv
    BY DEF ClientInv
<1>1. PICK n, blob : n = rcCall[k].node /\ blob = ParseSendPayload(rcCall[k].node, Wrapped(rcCall[k].chan, rcCall[k].value)).blob
    OBVIOUS
<1>2. /\ rcCall[k].pc = "asking" /\ rcCall[k].op = "publish" /\ rcCall' = [rcCall EXCEPT ![k] = IdleCall]
      /\ ServeClient(n, blob) \/ UNCHANGED <<rcWire, rcTable>>
      /\ rcCosts' = rcCosts /\ rcRaw' = rcRaw /\ rcUsed' = rcUsed /\ rcTrouble' = rcTrouble /\ rcMisread' = rcMisread
    BY <1>1 DEF PublishArrives
<1>3. n \in FedNodes
    BY <1>0, <1>1, <1>2 DEF CallsInv, ClientShape
<1>4. /\ rcTable' = [m \in FedNodes |-> rcTable'[m]] /\ rcWire' \subseteq rcWire \cup {blob}
      /\ \A m \in FedNodes : IsTable(rcTable'[m]) /\ rcTable'[m].subs = rcTable[m].subs
  <2>1. CASE ServeClient(n, blob)
    BY <1>0, <1>3, <2>1, ServeKeeps
  <2>2. CASE UNCHANGED <<rcWire, rcTable>>
    BY <1>0, <2>2 DEF ClientShape
  <2> QED
    BY <1>2, <2>1, <2>2
<1>5. blob.chan \in RawNames => blob.kind = "raw"
  <2>1. PICK c, v : c = rcCall[k].chan /\ v = rcCall[k].value
    OBVIOUS
  <2>2. blob = ParseSendPayload(n, Wrapped(c, v)).blob
    BY <1>1, <2>1
  <2> QED
    BY <2>2, BlobKinds
<1>6. ReadInv'
    BY <1>0, <1>2, <1>4, <1>5 DEF ReadInv
<1>7. \A d \in Channels : ~Changes(k, d)
    BY <1>2 DEF Changes
<1>8. Orderly' => \A j \in ClientCalls : j # k => rcCall[j].pc = "idle"
  <2>1. Orderly' => Orderly
    BY <1>2 DEF Orderly
  <2> QED
    BY <1>0, <1>2, <2>1, TheOnlyCall
<1> QED
    BY <1>2, <1>4, <1>6, <1>7, <1>8, CallEnds

\* A call fails.
LEMMA CallFailsKeeps ==
    ASSUME ClientInv, NEW k \in ClientCalls, CallFails(k)
    PROVE  ClientInv'
<1>0. ClientShape /\ CallsInv /\ ReadInv
    BY DEF ClientInv
<1>1. /\ rcCall' = [rcCall EXCEPT ![k] = IdleCall] /\ rcTrouble' /\ rcTable' = rcTable /\ rcWire' = rcWire
      /\ rcCosts' = rcCosts /\ rcRaw' = rcRaw /\ rcUsed' = rcUsed /\ rcMisread' = rcMisread
    BY DEF CallFails
<1>2. ReadInv'
    BY <1>0, <1>1 DEF ReadInv
<1>3. ~Orderly'
    BY <1>1 DEF Orderly
<1>4. IdleCall.pc = "idle" /\ IdleCall.op = "none" /\ IsCall(IdleCall)
    BY DEF IdleCall, IsCall
<1>5. /\ rcCall' = [j \in ClientCalls |-> rcCall'[j]] /\ \A j \in ClientCalls : IsCall(rcCall'[j])
      /\ rcCall'[k] = IdleCall /\ \A j \in ClientCalls : j # k => rcCall'[j] = rcCall[j]
    BY <1>0, <1>1, <1>4, CallMoves
<1>6. ClientShape'
    BY <1>0, <1>1, <1>5 DEF ClientShape
<1>7. CallsInv'
    BY <1>0, <1>1, <1>4, <1>5 DEF CallsInv
<1>8. FollowInv'
    BY <1>3 DEF FollowInv
<1> QED
    BY <1>2, <1>6, <1>7, <1>8 DEF ClientInv

\* A call goes on with its response.
LEMMA ClientResumesKeeps ==
    ASSUME ClientInv, NEW k \in ClientCalls, ClientResumes(k)
    PROVE  ClientInv'
<1>0. ClientShape /\ CallsInv /\ ReadInv /\ FollowInv
    BY DEF ClientInv
<1>1. PICK op, w, c, v : op = rcCall[k].op /\ w = rcCall[k].node /\ c = rcCall[k].chan /\ v = rcCall[k].value
    OBVIOUS
<1>2. /\ rcCall[k].pc = "answered" /\ rcCall' = [rcCall EXCEPT ![k].pc = "closing"]
      /\ rcCosts' = IF op = "subscribe" THEN [rcCosts EXCEPT ![c] = v] ELSE rcCosts
      /\ rcRaw' = IF op = "unsubscribe" THEN rcRaw \ {c} ELSE rcRaw
      /\ rcTable' = rcTable /\ rcWire' = rcWire /\ rcUsed' = rcUsed /\ rcTrouble' = rcTrouble /\ rcMisread' = rcMisread
    BY <1>1 DEF ClientResumes, clientHistory
<1>3. PICK o : o = [op |-> op, node |-> w, chan |-> c, pc |-> "closing", value |-> v]
    OBVIOUS
<1>4. o.op = op /\ o.node = w /\ o.chan = c /\ o.pc = "closing" /\ o.value = v
    BY ONLY <1>3
<1>5. IsCall(o)
    BY <1>3, <1>4 DEF IsCall
<1>6. rcCall' = [rcCall EXCEPT ![k] = o]
  <2>1. IsCall(rcCall[k]) /\ rcCall = [j \in ClientCalls |-> rcCall[j]]
    BY <1>0 DEF ClientShape
  <2>2. \A x : [rcCall[k] EXCEPT !.pc = x] =
          [op |-> rcCall[k].op, node |-> rcCall[k].node, chan |-> rcCall[k].chan, pc |-> x, value |-> rcCall[k].value]
    BY ONLY <2>1, CallExcepts, Zenon
  <2>3. [rcCall[k] EXCEPT !.pc = "closing"] = o
    BY ONLY <1>1, <1>3, <2>2, Zenon
  <2>4. rcCall' = [rcCall EXCEPT ![k] = [rcCall[k] EXCEPT !.pc = "closing"]]
    BY ONLY <1>2, <2>1
  <2> QED
    BY ONLY <2>3, <2>4, Zenon
<1>7. /\ rcCall' = [j \in ClientCalls |-> rcCall'[j]] /\ \A j \in ClientCalls : IsCall(rcCall'[j])
      /\ rcCall'[k] = o /\ \A j \in ClientCalls : j # k => rcCall'[j] = rcCall[j]
    BY <1>0, <1>5, <1>6, CallMoves
<1>8. w \in rcUsed /\ w \in FedNodes /\ (op \in Subscribing => c \in Channels)
    BY <1>0, <1>1, <1>2 DEF CallsInv, ClientShape
<1>9. /\ rcCosts' = [d \in Channels |-> rcCosts'[d]] /\ (op = "subscribe" => rcCosts'[c] = v)
      /\ \A d \in Channels : op # "subscribe" \/ d # c => rcCosts'[d] = rcCosts[d]
    BY <1>0, <1>2, <1>8 DEF ClientShape, Subscribing
<1>10. ClientShape'
    BY <1>0, <1>2, <1>7, <1>9 DEF ClientShape
<1>11. CallsInv'
    BY <1>0, <1>1, <1>2, <1>4, <1>7 DEF CallsInv
<1>12. ReadInv'
    BY <1>0, <1>2 DEF ReadInv
<1>13. FollowInv'
  <2> SUFFICES ASSUME Orderly'
               PROVE  /\ \A d \in Channels : (\A j \in ClientCalls : ~Changes(j, d)') => Known(d)'
                      /\ \A j \in ClientCalls : Changed(rcCall[j])'
    BY DEF FollowInv
  <2>1. Orderly
    BY <1>2 DEF Orderly
  <2>4. \A j \in ClientCalls : j # k => rcCall[j].pc = "idle"
    BY <1>0, <1>2, <2>1, TheOnlyCall
  <2>2. ASSUME NEW d \in Channels, \A j \in ClientCalls : ~Changes(j, d)' PROVE Known(d)'
    <3>1. op \in Subscribing => c # d
        BY <1>4, <1>7, <2>2 DEF Changes
    <3>2. \A j \in ClientCalls : ~Changes(j, d)
        BY <1>1, <2>4, <3>1 DEF Changes
    <3>3. Known(d)
        BY <1>0, <2>1, <3>2 DEF FollowInv
    <3>4. rcCosts'[d] = rcCosts[d] /\ (d \in rcRaw' <=> d \in rcRaw)
        BY <1>2, <1>9, <3>1 DEF Subscribing
    <3> QED
        BY <1>2, <3>3, <3>4 DEF Known
  <2>3. ASSUME NEW j \in ClientCalls PROVE Changed(rcCall[j])'
    <3>1. CASE j = k
      <4>1. Changed(rcCall[k])
        BY <1>0, <2>1 DEF FollowInv
      <4> QED
        BY <1>1, <1>2, <1>4, <1>7, <1>9, <3>1, <4>1 DEF Changed
    <3>2. CASE j # k
        BY <1>7, <2>4, <3>2 DEF Changed
    <3> QED
        BY <3>1, <3>2
  <2> QED
    BY <2>2, <2>3
<1> QED
    BY <1>10, <1>11, <1>12, <1>13 DEF ClientInv

\* A call ends.
LEMMA ClientEndsKeeps ==
    ASSUME ClientInv, NEW k \in ClientCalls, ClientEnds(k)
    PROVE  ClientInv'
<1>0. ClientShape /\ CallsInv /\ ReadInv /\ FollowInv
    BY DEF ClientInv
<1>1. PICK op, w, c : op = rcCall[k].op /\ w = rcCall[k].node /\ c = rcCall[k].chan
    OBVIOUS
<1>2. /\ rcCall[k].pc = "closing" /\ rcCall' = [rcCall EXCEPT ![k] = IdleCall]
      /\ rcRaw' = IF op = "subscribe" THEN rcRaw \cup ({c} \cap RawNames) ELSE rcRaw
      /\ rcTable' = rcTable /\ rcWire' = rcWire /\ rcCosts' = rcCosts /\ rcUsed' = rcUsed /\ rcTrouble' = rcTrouble /\ rcMisread' = rcMisread
    BY <1>1 DEF ClientEnds, clientHistory
<1>3. ReadInv'
    BY <1>0, <1>2 DEF ReadInv
<1>4. rcTable' = [n \in FedNodes |-> rcTable'[n]] /\ \A n \in FedNodes : IsTable(rcTable'[n]) /\ rcTable'[n].subs = rcTable[n].subs
    BY <1>0, <1>2 DEF ClientShape
<1>5. Orderly => \A j \in ClientCalls : j # k => rcCall[j].pc = "idle"
    BY <1>0, <1>2, TheOnlyCall
<1>6. ASSUME Orderly, NEW d \in Channels
      PROVE  (Changes(k, d) => Known(d)') /\ (~Changes(k, d) => (d \in rcRaw' <=> d \in rcRaw))
  <2>1. ASSUME Changes(k, d) PROVE Known(d)'
    <3>1. c = d /\ op \in Subscribing /\ Changed(rcCall[k])
        BY <1>0, <1>1, <1>6, <2>1 DEF Changes, FollowInv
    <3>2. \A n \in FedNodes : d \in rcTable[n].subs => n = w
        BY <1>0, <1>1, <1>2, <1>6, TheOnlyCall
    <3>3. w \in FedNodes
        BY <1>0, <1>1, <1>2 DEF CallsInv, ClientShape
    <3>4. CASE op = "subscribe"
      <4>1. d \in rcTable[w].subs /\ rcCosts[d] = CostOf[w]
        BY <1>1, <1>2, <3>1, <3>4 DEF Changed
      <4>2. d \in rcRaw' <=> d \in RawNames
        BY <1>0, <1>2, <3>1, <3>4 DEF ReadInv
      <4> QED
        BY <1>2, <3>2, <3>3, <4>1, <4>2 DEF Known
    <3>5. CASE op = "unsubscribe"
      <4>1. d \notin rcTable[w].subs /\ d \notin rcRaw
        BY <1>1, <1>2, <3>1, <3>5 DEF Changed
      <4>2. d \notin rcRaw'
        BY <1>2, <3>5, <4>1
      <4> QED
        BY <1>2, <3>2, <4>1, <4>2 DEF Known
    <3> QED
        BY <3>1, <3>4, <3>5 DEF Subscribing
  <2>2. ~Changes(k, d) => (d \in rcRaw' <=> d \in rcRaw)
    BY <1>1, <1>2 DEF Changes, Subscribing
  <2> QED
    BY <2>1, <2>2
<1>7. Orderly' => Orderly
    BY <1>2 DEF Orderly
<1> QED
    BY <1>2, <1>3, <1>4, <1>5, <1>6, <1>7, CallEnds

\* Every step of the client and its nodes keeps the invariant.
LEMMA ClientKeeps == ClientInv /\ [RfedClientNext]_clientVars => ClientInv'
<1> SUFFICES ASSUME ClientInv, [RfedClientNext]_clientVars PROVE ClientInv'
    OBVIOUS
<1>0. "pull" \notin Subscribing /\ "register" \notin Subscribing /\ "unregister" \notin Subscribing /\ "clear" \notin Subscribing
      /\ "publish" \notin Subscribing
    BY DEF Subscribing
<1>1. CASE UNCHANGED clientVars
    BY <1>1 DEF clientVars, ClientInv, ClientShape, CallsInv, ReadInv, FollowInv, Orderly, Known, Changes, Changed
<1>2. ASSUME NEW k \in ClientCalls, NEW n \in FedNodes, NEW c \in Channels,
             \/ CallSubscribe(k, n, c) \/ CallUnsubscribe(k, n, c) \/ CallPull(k, n, c) \/ Publish(k, n, c) \/ PublishRaw(k, n, c)
      PROVE  ClientInv'
  <2>1. PICK v : v = rcCosts[c]
    OBVIOUS
  <2>2. \/ Call(k, "subscribe", n, c, 0) \/ Call(k, "unsubscribe", n, c, 0) \/ Call(k, "pull", n, c, 0)
        \/ Call(k, "publish", n, c, v)
    BY <1>2, <2>1 DEF CallSubscribe, CallUnsubscribe, CallPull, Publish, PublishRaw
  <2> QED
    BY <2>2, CallKeeps
<1>3. ASSUME NEW k \in ClientCalls, NEW n \in FedNodes, NEW c, NotifyCommand(k, n, c) \/ ClearNotify(k, n) PROVE ClientInv'
  <2>1. Call(k, "register", n, c, 0) \/ Call(k, "unregister", n, c, 0) \/ Call(k, "clear", n, Global, 0)
    BY <1>3 DEF NotifyCommand, ClearNotify
  <2> QED
    BY <1>0, <2>1, CallKeeps
<1>4. ASSUME NEW k \in ClientCalls,
             \/ ClientResumes(k) \/ ClientEnds(k) \/ CallFails(k) \/ PublishArrives(k)
             \/ AnswerSubscribe(k) \/ AnswerUnsubscribe(k) \/ AnswerPull(k)
             \/ AnswerRegister(k) \/ AnswerUnregister(k) \/ AnswerClear(k)
      PROVE  ClientInv'
    BY <1>4, ClientResumesKeeps, ClientEndsKeeps, CallFailsKeeps, PublishArrivesKeeps, AnswersKeep
<1>5. ASSUME NEW n \in FedNodes, NEW c \in Channels, OthersPublish(n, c) PROVE ClientInv'
    BY <1>5, OthersPublishKeeps
<1>6. ASSUME NEW blob \in rcWire, HandleDelivery(blob) PROVE ClientInv'
    BY <1>6, HandleDeliveryKeeps
<1>7. CASE RfedClientNext
  <2>1. CASE \E n \in FedNodes, c \in Channels : OthersPublish(n, c)
    BY <1>5, <2>1
  <2>2. CASE \E blob \in rcWire : HandleDelivery(blob)
    BY <1>6, <2>2
  <2>3. ASSUME NEW k \in ClientCalls, NEW n \in FedNodes,
               \/ ClearNotify(k, n)
               \/ \E c \in Channels \cup {Global} : NotifyCommand(k, n, c)
               \/ \E c \in Channels :
                     \/ CallSubscribe(k, n, c) \/ CallUnsubscribe(k, n, c) \/ CallPull(k, n, c)
                     \/ Publish(k, n, c) \/ PublishRaw(k, n, c)
        PROVE  ClientInv'
    BY <1>2, <1>3, <2>3
  <2> QED
    BY <1>4, <1>7, <2>1, <2>2, <2>3 DEF RfedClientNext
<1> QED
    BY <1>1, <1>7

\* A set with at most one element.
LEMMA AtMostOne ==
    ASSUME NEW S, IsFiniteSet(S), Cardinality(S) <= 1
    PROVE  \A a, b \in S : a = b
<1> SUFFICES ASSUME NEW a \in S, NEW b \in S, a # b PROVE FALSE
    OBVIOUS
<1>1. IsFiniteSet({a}) /\ Cardinality({a}) = 1
    BY FS_Singleton
<1>2. b \notin {a}
    OBVIOUS
<1>3. Cardinality({a} \cup {b}) = 2
    BY ONLY <1>1, <1>2, FS_AddElement
<1>4. {a} \cup {b} \in SUBSET S
    OBVIOUS
<1>5. Cardinality({a} \cup {b}) <= Cardinality(S) /\ Cardinality(S) \in Nat
    BY <1>4, FS_Subset, FS_CardinalityType
<1> QED
    BY <1>3, <1>5

\* The invariant says that the client follows.
LEMMA InvFollows == ClientInv => ClientFollows
<1> SUFFICES ASSUME ClientInv PROVE ClientFollows
    OBVIOUS
<1>1. ~rcMisread
    BY DEF ClientInv, ReadInv
<1>2. ASSUME ~rcTrouble, Cardinality(rcUsed) <= 1, \A k \in ClientCalls : rcCall[k].pc = "idle", NEW c \in Channels PROVE Known(c)
  <2>1. Orderly
    BY <1>2, AtMostOne DEF Orderly, ClientInv, ClientShape
  <2>2. \A k \in ClientCalls : ~Changes(k, c)
    BY <1>2 DEF Changes
  <2> QED
    BY <2>1, <2>2 DEF ClientInv, FollowInv
<1> QED
    BY <1>1, <1>2 DEF ClientFollows, Known

\* An rfed node, its client and the program that runs it: every message a fan-out owed is
\* sent, pulled, queued, under way or given up; an orderly client knows how to decode what it
\* subscribed to; and a node's stores outlive its process. For any number of subscribers,
\* channels, messages, fan-outs, drains, nodes, calls, blobs, saves and starts.
THEOREM RfedSafety ==
    /\ RfedInit /\ [][RfedNext]_rfedVars
    /\ RfedClientInit /\ [][RfedClientNext]_clientVars
    /\ RunnerInit /\ [][RunnerNext]_runnerVars
    => []RfedAccounted
<1>1. RunnerInv => StoresSurvive
    BY DEF RunnerInv, CleanInv, StoresSurvive, Written
<1>2. RfedInv /\ ClientInv /\ RunnerInv => RfedAccounted
    BY <1>1, OwedIsAccounted, InvFollows DEF RfedAccounted, FanoutAccounted
<1> QED
    BY <1>2, RfedInitially, RfedKeeps, ClientInitially, ClientKeeps, RunnerInitially, RunnerKeeps, PTL

-----------------------------------------------------------------------------
\* Federation sync.

FedSyncTyped ==
    /\ \E S : fsStore \in [Sites -> Seq(S)]
    /\ DOMAIN fsWanted = Sites /\ DOMAIN fsSent = Sites
    /\ fsPc \in [Sites -> {"idle", "offer", "get", "ingest"}]
    /\ fsFanned \in [Sites -> [Blobs -> Nat]]
SentWithin == \A n \in Sites : fsSent[n] <= SyncLimit
AnswerWithin == \A n \in Sites : fsPc[n] = "ingest" => Weight(fsWanted[n]) <= TransferLimit
FannedWithin == \A n \in Sites, b \in Blobs : fsFanned[n][b] <= IF b \in BlobsOf(n) THEN 1 ELSE 0

FedSyncInv == FedSyncTyped /\ SentWithin /\ AnswerWithin /\ FannedWithin

\* What is left of a store, and a store with one blob more.
LEMMA StoreShrinks ==
    ASSUME NEW S, NEW s \in Seq(S), NEW k \in 0..Len(s)
    PROVE  Newest(s, k) \in Seq(S) /\ ToSet(Newest(s, k)) \subseteq ToSet(s)
<1>1. Newest(s, k) \in Seq(S) /\ Len(Newest(s, k)) = Len(s) - k /\ \A i \in 1..Len(s) - k : Newest(s, k)[i] = s[k + i]
    BY DEF Newest
<1>2. ASSUME NEW i \in 1..Len(s) - k PROVE \E j \in DOMAIN s : Newest(s, k)[i] = s[j]
  <2>1. Len(s) \in Nat /\ DOMAIN s = 1..Len(s)
    OBVIOUS
  <2>2. k + i \in 1..Len(s)
    BY <2>1
  <2>3. Newest(s, k)[i] = s[k + i]
    BY <1>1
  <2> QED
    BY <2>1, <2>2, <2>3
<1>3. DOMAIN Newest(s, k) = 1..Len(s) - k
    BY <1>1
<1> QED
    BY <1>1, <1>2, <1>3 DEF ToSet

LEMMA StoreGrows ==
    ASSUME NEW S, NEW s \in Seq(S), NEW b
    PROVE  Append(s, b) \in Seq(S \cup {b}) /\ ToSet(Append(s, b)) = ToSet(s) \cup {b}
<1>1. s \in Seq(S \cup {b})
    OBVIOUS
<1>2. /\ Append(s, b) \in Seq(S \cup {b}) /\ DOMAIN Append(s, b) = 1..Len(s) + 1 /\ DOMAIN s = 1..Len(s)
      /\ Append(s, b)[Len(s) + 1] = b /\ \A i \in 1..Len(s) : Append(s, b)[i] = s[i]
    BY <1>1
<1>3. PICK l \in Nat : l = Len(s)
    OBVIOUS
<1> QED
    BY <1>2, <1>3 DEF ToSet

\* Storing a blob that is not held, whatever goes to make room for it.
LEMMA StoringKeeps ==
    ASSUME FedSyncTyped, FannedWithin, NEW n \in Sites, NEW b, b \notin BlobsOf(n), StoreWithId(n, b)
    PROVE  /\ (\E S : fsStore \in [Sites -> Seq(S)])'
           /\ (fsFanned \in [Sites -> [Blobs -> Nat]])'
           /\ FannedWithin'
<1>1. PICK S : fsStore \in [Sites -> Seq(S)]
    BY DEF FedSyncTyped
<1>2. PICK kept \in EvictToFit(fsStore[n], b) :
        /\ fsStore' = [fsStore EXCEPT ![n] = Append(kept, b)]
        /\ fsFanned' = [fsFanned EXCEPT ![n] = [c \in Blobs |-> IF c = b THEN @[b] + 1 ELSE IF c \in ToSet(kept) THEN @[c] ELSE 0]]
    BY Zenon DEF StoreWithId
<1>3. PICK k \in 0..Len(fsStore[n]) : kept = Newest(fsStore[n], k)
    BY <1>2, Zenon DEF EvictToFit
<1>4. fsStore[n] \in Seq(S)
    BY <1>1
<1>5. kept \in Seq(S) /\ ToSet(kept) \subseteq BlobsOf(n)
    BY <1>3, <1>4, StoreShrinks DEF BlobsOf
<1>6. PICK more : more = Append(kept, b)
    OBVIOUS
<1>7. more \in Seq(S \cup {b}) /\ ToSet(more) = ToSet(kept) \cup {b}
    BY <1>5, <1>6, StoreGrows
<1>8. fsStore' = [fsStore EXCEPT ![n] = more]
    BY <1>2, <1>6
<1>9. fsStore' \in [Sites -> Seq(S \cup {b})] /\ BlobsOf(n)' = ToSet(more) /\ \A m \in Sites : m # n => BlobsOf(m)' = BlobsOf(m)
  <2>1. \A m \in Sites : fsStore[m] \in Seq(S \cup {b})
    BY <1>1
  <2> QED
    BY <1>1, <1>7, <1>8, <2>1 DEF BlobsOf
<1>10. PICK f : f = [c \in Blobs |-> IF c = b THEN fsFanned[n][b] + 1 ELSE IF c \in ToSet(kept) THEN fsFanned[n][c] ELSE 0]
    OBVIOUS
<1>11. fsFanned' = [fsFanned EXCEPT ![n] = f]
    BY <1>2, <1>10 DEF FedSyncTyped
<1>12. \A c \in Blobs : f[c] \in Nat /\ f[c] <= IF c \in ToSet(kept) \cup {b} THEN 1 ELSE 0
  <2> TAKE c \in Blobs
  <2>1. fsFanned[n][c] \in Nat /\ fsFanned[n][c] <= (IF c \in BlobsOf(n) THEN 1 ELSE 0)
    BY DEF FedSyncTyped, FannedWithin
  <2>2. CASE c = b
    BY <1>10, <2>1, <2>2
  <2>3. CASE c # b
    BY <1>10, <2>1, <2>3
  <2> QED
    BY <2>2, <2>3
<1>13. f \in [Blobs -> Nat]
    BY <1>10, <1>12
<1>14. fsFanned' \in [Sites -> [Blobs -> Nat]]
    BY <1>11, <1>13 DEF FedSyncTyped
<1>15. FannedWithin'
  <2> SUFFICES ASSUME NEW m \in Sites, NEW c \in Blobs PROVE fsFanned'[m][c] <= IF c \in BlobsOf(m)' THEN 1 ELSE 0
    BY DEF FannedWithin
  <2>1. CASE m = n
    BY <1>7, <1>9, <1>11, <1>12, <2>1 DEF FedSyncTyped
  <2>2. CASE m # n
    BY <1>9, <1>11, <2>2 DEF FedSyncTyped, FannedWithin
  <2> QED
    BY <2>1, <2>2
<1> QED
    BY <1>9, <1>14, <1>15

LEMMA FedSyncSteps == FedSyncInv /\ [FedSyncNext]_fedSyncVars => FedSyncInv'
<1> SUFFICES ASSUME FedSyncInv, [FedSyncNext]_fedSyncVars PROVE FedSyncInv'
    OBVIOUS
<1> USE FedSyncAssumption
<1>0. FedSyncTyped /\ SentWithin /\ AnswerWithin /\ FannedWithin
    BY DEF FedSyncInv
<1>1. ASSUME UNCHANGED <<fsStore, fsFanned>>
      PROVE  FannedWithin' /\ (\E S : fsStore \in [Sites -> Seq(S)])' /\ (fsFanned \in [Sites -> [Blobs -> Nat]])'
    BY <1>0, <1>1 DEF FannedWithin, BlobsOf, FedSyncTyped
<1>2. ASSUME UNCHANGED <<fsPc, fsWanted>>
      PROVE  AnswerWithin' /\ DOMAIN fsWanted' = Sites /\ fsPc' \in [Sites -> {"idle", "offer", "get", "ingest"}]
    BY <1>0, <1>2 DEF AnswerWithin, FedSyncTyped
<1>3. ASSUME UNCHANGED fsSent PROVE SentWithin' /\ DOMAIN fsSent' = Sites
    BY <1>0, <1>3 DEF SentWithin, FedSyncTyped
<1>4. ASSUME NEW n \in Sites, NEW pc \in {"idle", "offer", "get"}, NEW w,
             fsPc' = [fsPc EXCEPT ![n] = pc], fsWanted' = [fsWanted EXCEPT ![n] = w],
             UNCHANGED <<fsStore, fsSent, fsFanned>>
      PROVE  FedSyncInv'
  <2>1. AnswerWithin' /\ DOMAIN fsWanted' = Sites /\ fsPc' \in [Sites -> {"idle", "offer", "get", "ingest"}]
    BY <1>0, <1>4 DEF AnswerWithin, FedSyncTyped
  <2> QED
    BY <1>1, <1>3, <1>4, <2>1 DEF FedSyncInv, FedSyncTyped
<1>5. ASSUME NEW n \in Sites, NEW b \in Blobs, PublishBlob(n, b) PROVE FedSyncInv'
  <2>1. b \notin BlobsOf(n) /\ StoreWithId(n, b) /\ UNCHANGED <<fsPc, fsWanted, fsSent>>
    BY <1>5 DEF PublishBlob
  <2> QED
    BY <1>0, <1>2, <1>3, <2>1, StoringKeeps DEF FedSyncInv, FedSyncTyped
<1>6. ASSUME NEW n \in Sites, PeerHeard(n) \/ PeerSilent(n) \/ NextAttemptComes(n) PROVE FedSyncInv'
  <2>1. UNCHANGED <<fsStore, fsPc, fsWanted, fsSent, fsFanned>>
    BY <1>6 DEF PeerHeard, PeerSilent, NextAttemptComes
  <2> QED
    BY <1>1, <1>2, <1>3, <2>1 DEF FedSyncInv, FedSyncTyped
<1>7. ASSUME NEW n \in Sites, SyncPeers(n) PROVE FedSyncInv'
  <2>1. /\ fsPc' = fsPc \/ fsPc' = [fsPc EXCEPT ![n] = "offer"]
        /\ UNCHANGED <<fsStore, fsWanted, fsSent, fsFanned>>
    BY <1>7 DEF SyncPeers
  <2>2. AnswerWithin' /\ DOMAIN fsWanted' = Sites /\ fsPc' \in [Sites -> {"idle", "offer", "get", "ingest"}]
    BY <1>0, <2>1 DEF AnswerWithin, FedSyncTyped
  <2> QED
    BY <1>1, <1>3, <2>1, <2>2 DEF FedSyncInv, FedSyncTyped
<1>8. ASSUME NEW n \in Sites, OfferAnswered(n) \/ IngestEnds(n) \/ SessionFails(n) PROVE FedSyncInv'
  <2>1. /\ UNCHANGED <<fsStore, fsSent, fsFanned>>
        /\ \/ fsPc' = [fsPc EXCEPT ![n] = "idle"] /\ fsWanted' = [fsWanted EXCEPT ![n] = << >>]
           \/ fsPc' = [fsPc EXCEPT ![n] = "get"] /\ fsWanted' = [fsWanted EXCEPT ![n] = GapFromPeer(n)]
    BY <1>8, Zenon DEF OfferAnswered, IngestEnds, SessionFails, SyncOk, SessionOver
  <2>2. PICK gap : gap = GapFromPeer(n)
    OBVIOUS
  <2>3. PICK none : none = << >>
    OBVIOUS
  <2>4. CASE fsPc' = [fsPc EXCEPT ![n] = "idle"] /\ fsWanted' = [fsWanted EXCEPT ![n] = none]
    BY <1>4, <2>1, <2>4
  <2>5. CASE fsPc' = [fsPc EXCEPT ![n] = "get"] /\ fsWanted' = [fsWanted EXCEPT ![n] = gap]
    BY <1>4, <2>1, <2>5
  <2> QED
    BY <2>1, <2>2, <2>3, <2>4, <2>5
<1>9. ASSUME NEW n \in Sites, HandleGet(n) PROVE FedSyncInv'
  <2>1. PICK s \in Granted(n) : /\ fsSent' = [fsSent EXCEPT ![OtherSite(n)] = @ + Weight(s)]
                                /\ fsWanted' = [fsWanted EXCEPT ![n] = s]
    BY <1>9, Zenon DEF HandleGet
  <2>2. fsPc' = [fsPc EXCEPT ![n] = "ingest"] /\ UNCHANGED <<fsStore, fsFanned>>
    BY <1>9 DEF HandleGet
  <2>3. WithinLimits(n, s)
    BY Zenon DEF Granted
  <2>4. PICK o, w : o \in Sites /\ o = OtherSite(n) /\ w = Weight(s)
    BY DEF OtherSite, Sites
  <2>5. w <= TransferLimit /\ fsSent[o] + w <= SyncLimit
    BY <2>3, <2>4 DEF WithinLimits
  <2>6. fsSent' = [fsSent EXCEPT ![o] = fsSent[o] + w]
    BY <2>1, <2>4
  <2>7. SentWithin' /\ DOMAIN fsSent' = Sites
    BY <1>0, <2>5, <2>6 DEF SentWithin, FedSyncTyped
  <2>8. Weight(s) <= TransferLimit
    BY <2>4, <2>5
  <2>9. DOMAIN fsWanted' = Sites /\ fsWanted'[n] = s /\ \A m \in Sites : m # n => fsWanted'[m] = fsWanted[m]
    BY <1>0, <2>1 DEF FedSyncTyped
  <2>10. AnswerWithin' /\ fsPc' \in [Sites -> {"idle", "offer", "get", "ingest"}]
    <3>1. fsPc' \in [Sites -> {"idle", "offer", "get", "ingest"}] /\ \A m \in Sites : m # n => fsPc'[m] = fsPc[m]
      BY <1>0, <2>2 DEF FedSyncTyped
    <3>2. ASSUME NEW m \in Sites, fsPc'[m] = "ingest" PROVE Weight(fsWanted'[m]) <= TransferLimit
      <4>1. CASE m = n
        BY <2>8, <2>9, <4>1
      <4>2. CASE m # n
        BY <1>0, <2>9, <3>1, <3>2, <4>2 DEF AnswerWithin
      <4> QED
        BY <4>1, <4>2
    <3> QED
      BY <3>1, <3>2 DEF AnswerWithin
  <2> QED
    BY <1>1, <2>2, <2>7, <2>9, <2>10 DEF FedSyncInv, FedSyncTyped
<1>10. ASSUME NEW n \in Sites, IngestRecord(n) PROVE FedSyncInv'
  <2>1. PICK b : b = fsWanted[n][fsAt[n]]
    OBVIOUS
  <2>2. /\ UNCHANGED <<fsPc, fsWanted, fsSent>>
        /\ UNCHANGED <<fsStore, fsFanned>> \/ (b \notin BlobsOf(n) /\ StoreWithId(n, b))
    BY <1>10, <2>1, Zenon DEF IngestRecord
  <2>3. CASE UNCHANGED <<fsStore, fsFanned>>
    BY <1>1, <1>2, <1>3, <2>2, <2>3 DEF FedSyncInv, FedSyncTyped
  <2>4. CASE b \notin BlobsOf(n) /\ StoreWithId(n, b)
    BY <1>0, <1>2, <1>3, <2>2, <2>4, StoringKeeps DEF FedSyncInv, FedSyncTyped
  <2> QED
    BY <2>2, <2>3, <2>4
<1>11. ASSUME NEW n \in Sites, PeriodEnds(n) PROVE FedSyncInv'
  <2>1. fsSent' = [fsSent EXCEPT ![n] = 0] /\ UNCHANGED <<fsStore, fsPc, fsWanted, fsFanned>>
    BY <1>11 DEF PeriodEnds
  <2>2. SentWithin' /\ DOMAIN fsSent' = Sites
    BY <1>0, <2>1 DEF FedSyncTyped, SentWithin
  <2> QED
    BY <1>1, <1>2, <2>1, <2>2 DEF FedSyncInv, FedSyncTyped
<1>12. ASSUME NEW n \in Sites, PruneOlderThan(n) PROVE FedSyncInv'
  <2>1. PICK S : fsStore \in [Sites -> Seq(S)]
    BY <1>0 DEF FedSyncTyped
  <2>2. PICK k \in 1..Len(fsStore[n]) :
          /\ fsStore' = [fsStore EXCEPT ![n] = Newest(fsStore[n], k)]
          /\ fsFanned' = [fsFanned EXCEPT ![n] = [c \in Blobs |-> IF c \in ToSet(Newest(fsStore[n], k)) THEN @[c] ELSE 0]]
    BY <1>12, Zenon DEF PruneOlderThan
  <2>3. UNCHANGED <<fsPc, fsWanted, fsSent>>
    BY <1>12 DEF PruneOlderThan
  <2>4. PICK kept : kept = Newest(fsStore[n], k)
    OBVIOUS
  <2>5. kept \in Seq(S)
    BY <2>1, <2>2, <2>4, StoreShrinks
  <2>6. fsStore' = [fsStore EXCEPT ![n] = kept]
    BY <2>2, <2>4
  <2>7. fsStore' \in [Sites -> Seq(S)] /\ BlobsOf(n)' = ToSet(kept) /\ \A m \in Sites : m # n => BlobsOf(m)' = BlobsOf(m)
    BY <2>1, <2>5, <2>6 DEF BlobsOf
  <2>8. PICK f : f = [c \in Blobs |-> IF c \in ToSet(kept) THEN fsFanned[n][c] ELSE 0]
    OBVIOUS
  <2>9. fsFanned' = [fsFanned EXCEPT ![n] = f]
    BY <1>0, <2>2, <2>4, <2>8 DEF FedSyncTyped
  <2>10. \A c \in Blobs : f[c] \in Nat /\ f[c] <= IF c \in ToSet(kept) THEN 1 ELSE 0
    <3> TAKE c \in Blobs
    <3>1. fsFanned[n][c] \in Nat /\ fsFanned[n][c] <= 1
      <4>1. fsFanned[n][c] \in Nat /\ fsFanned[n][c] <= (IF c \in BlobsOf(n) THEN 1 ELSE 0)
        BY <1>0 DEF FedSyncTyped, FannedWithin
      <4> QED
        BY <4>1
    <3> QED
      BY <2>8, <3>1
  <2>11. f \in [Blobs -> Nat]
    BY <2>8, <2>10
  <2>12. fsFanned' \in [Sites -> [Blobs -> Nat]]
    BY <1>0, <2>9, <2>11 DEF FedSyncTyped
  <2>13. FannedWithin'
    <3> SUFFICES ASSUME NEW m \in Sites, NEW c \in Blobs PROVE fsFanned'[m][c] <= IF c \in BlobsOf(m)' THEN 1 ELSE 0
      BY DEF FannedWithin
    <3>1. CASE m = n
      BY <1>0, <2>7, <2>9, <2>10, <3>1 DEF FedSyncTyped
    <3>2. CASE m # n
      BY <1>0, <2>7, <2>9, <3>2 DEF FedSyncTyped, FannedWithin
    <3> QED
      BY <3>1, <3>2
  <2> QED
    BY <1>2, <1>3, <2>3, <2>7, <2>12, <2>13 DEF FedSyncInv, FedSyncTyped
<1>13. CASE UNCHANGED fedSyncVars
  <2>1. UNCHANGED <<fsStore, fsPc, fsWanted, fsSent, fsFanned>>
    BY <1>13 DEF fedSyncVars
  <2> QED
    BY <1>1, <1>2, <1>3, <2>1 DEF FedSyncInv, FedSyncTyped
<1> QED
    BY <1>5, <1>6, <1>7, <1>8, <1>9, <1>10, <1>11, <1>12, <1>13 DEF FedSyncNext, SyncStep

\* The answering node keeps to its limits over all sessions of a period, and a node hands a
\* blob to its subscribers at most once for as long as it holds it, for any blobs, sizes and
\* limits, whatever expires, is evicted, fails or falls silent.
THEOREM FedSyncSafety == FedSyncInit /\ [][FedSyncNext]_fedSyncVars => []SyncIsBounded
<1>1. FedSyncInit => FedSyncInv
  <2> SUFFICES ASSUME FedSyncInit PROVE FedSyncInv
    OBVIOUS
  <2>1. FedSyncTyped /\ SentWithin /\ AnswerWithin
    <3>1. << >> \in Seq(Blobs)
      OBVIOUS
    <3>2. fsStore \in [Sites -> Seq(Blobs)]
      BY <3>1 DEF FedSyncInit
    <3> QED
      BY <3>2, FedSyncAssumption DEF FedSyncInit, FedSyncTyped, SentWithin, AnswerWithin
  <2>2. FannedWithin
    BY DEF FedSyncInit, FannedWithin
  <2> QED
    BY <2>1, <2>2 DEF FedSyncInv
<1>2. FedSyncInv => SyncIsBounded
    BY DEF FedSyncInv, SentWithin, AnswerWithin, FannedWithin, SyncIsBounded
<1> QED
    BY <1>1, <1>2, FedSyncSteps, PTL
=============================================================================
