--------------------------- MODULE PeerSyncProofs ---------------------------
(***************************************************************************)
(* Proofs about PeerSync, for any mesh of nodes, any messages and any       *)
(* policies: the state stays well formed, no node takes a message twice, and *)
(* what a node no longer queues for a peer that peer has dealt with.         *)
(***************************************************************************)
EXTENDS PeerSync, TLAPS

(* A sync in progress has a peer; only a peer's batch is rejected for.      *)
SyncOK == {r \in SyncRecords : r.phase # "idle" => r.peer \in Nodes}

(* Only a peer is rejected or throttled.                                    *)
SlotOK == {r \in SlotRecords :
             r.rejected \/ r.phase = "throttling" => r.from \in Nodes}

\* The type invariant with both.
Typed ==
    /\ TypeOK
    /\ sync \in [Nodes -> SyncOK]
    /\ slot \in [Nodes -> [Slots -> SlotOK]]

(* The variables Typed strengthens the type of.                            *)
Records == sync \in [Nodes -> SyncOK] /\ slot \in [Nodes -> [Slots -> SlotOK]]

(* The types of the other variables.                                       *)
Rest ==
    /\ store \in [Nodes -> SUBSET Tids]
    /\ unhandled \in [Nodes -> [Nodes -> SUBSET Tids]]
    /\ processed \in [Nodes -> SUBSET Tids]
    /\ peers \in [Nodes -> SUBSET Nodes]
    /\ throttled \in [Nodes -> SUBSET Nodes]
    /\ postponed \in [Nodes -> SUBSET Nodes]
    /\ submitted \in SUBSET Tids
    /\ taken \in [Nodes -> [Tids -> Nat]]
    /\ skipped \in [Nodes -> SUBSET Tids]
    /\ faults \in Nat

\* Typed, variable by variable.
LEMMA TypedParts == Typed <=> Records /\ Rest
<1>1. SyncOK \subseteq SyncRecords /\ SlotOK \subseteq SlotRecords
  BY DEF SyncOK, SlotOK
<1>2. Records => sync \in [Nodes -> SyncRecords]
                 /\ slot \in [Nodes -> [Slots -> SlotRecords]]
  BY <1>1 DEF Records
<1> HIDE DEF SyncRecords, SlotRecords
<1> QED BY <1>2 DEF Typed, TypeOK, Records, Rest

\* The same of the next state.
LEMMA TypedPartsNext == Typed' <=> Records' /\ Rest'
  BY TypedParts, PTL

(* A node with no sync in progress and a free slot are well formed.        *)
LEMMA RecordsTyped == NoSync \in SyncOK /\ Free \in SlotOK
  BY DEF NoSync, Free, SyncOK, SlotOK, SyncRecords, SlotRecords, Phases, SlotPhases

\* No sync and no batch is under way.
LEMMA InitTyped == Init => Typed
<1> SUFFICES ASSUME Init PROVE Records /\ Rest
  BY TypedParts
<1>1. Records
  BY RecordsTyped DEF Init, Records
<1>2. Rest
  BY DEF Init, Rest
<1> QED BY <1>1, <1>2

-----------------------------------------------------------------------------
(* What one stretch of the ingest loop does to the types.                   *)
LEMMA IngestTyped ==
  ASSUME Records, Rest, NEW p \in Nodes, NEW s \in Slots, NEW b \in SlotOK,
         NEW kept \in SUBSET Tids, NEW delivered \in SUBSET Tids,
         Ingest(p, s, b, kept, delivered)
  PROVE  /\ store' \in [Nodes -> SUBSET Tids]
         /\ processed' \in [Nodes -> SUBSET Tids]
         /\ taken' \in [Nodes -> [Tids -> Nat]]
         /\ unhandled' \in [Nodes -> [Nodes -> SUBSET Tids]]
         /\ slot' \in [Nodes -> [Slots -> SlotOK]]
<1>1. PICK done \in SUBSET b.rest : \E next \in {{}} \cup {{t} : t \in b.rest \ done} :
        Pass(p, s, b, kept, delivered, done, next)
  BY DEF Ingest
<1>0. PICK next \in {{}} \cup {{t} : t \in b.rest \ done} :
        Pass(p, s, b, kept, delivered, done, next)
  BY <1>1
<1> DEFINE new == done \ Has(p)
           stored == b.stored \cup kept \cup new
           waiting == [b EXCEPT !.phase = "awaiting", !.cur = next,
                         !.rest = @ \ (done \cup next), !.stored = stored]
           leaving == [Free EXCEPT !.phase = "throttling", !.from = b.from]
           after == IF ~ (next = {}) THEN waiting
                    ELSE IF b.rejected THEN leaving ELSE Free
<1>2. /\ b \in SlotRecords /\ b.rest \in SUBSET Tids /\ b.stored \in SUBSET Tids
      /\ b.from \in Nodes \cup {NoNode} /\ b.rejected \in BOOLEAN
      /\ b.rejected => b.from \in Nodes
  BY DEF SlotOK, SlotRecords
<1>3. done \in SUBSET Tids /\ next \in SUBSET Tids /\ new \in SUBSET Tids
      /\ stored \in SUBSET Tids
  BY <1>0, <1>2
<1>4. store' \in [Nodes -> SUBSET Tids] /\ processed' \in [Nodes -> SUBSET Tids]
  BY <1>0, <1>3 DEF Rest, Pass
<1>5. taken' \in [Nodes -> [Tids -> Nat]]
  BY <1>0, <1>3 DEF Rest, Counted, Pass
<1>6. unhandled' \in [Nodes -> [Nodes -> SUBSET Tids]]
  <2>1. store'[p] \in SUBSET Tids
    BY <1>4
  <2>2. unhandled[p] \in [Nodes -> SUBSET Tids]
    BY DEF Rest
  <2>3. [q \in Nodes |-> IF next = {} /\ q \in peers[p]
                         THEN unhandled[p][q] \cup (stored \cap store'[p])
                         ELSE unhandled[p][q]] \in [Nodes -> SUBSET Tids]
    BY <2>1, <2>2, <1>3
  <2> QED BY <1>0, <2>3 DEF Rest, Pass
<1>7. after \in SlotOK
  <2>1. CASE next # {}
    <3>1. waiting \in SlotRecords
      BY <1>2, <1>3 DEF SlotRecords, SlotPhases
    <3>2. waiting.rejected = b.rejected /\ waiting.from = b.from
          /\ waiting.phase = "awaiting"
      BY <1>2 DEF SlotRecords
    <3> QED BY <2>1, <3>1, <3>2, <1>2 DEF SlotOK
  <2>2. CASE next = {} /\ b.rejected
    BY <2>2, <1>2 DEF SlotOK, SlotRecords, SlotPhases, Free
  <2>3. CASE next = {} /\ ~ b.rejected
    BY <2>3, RecordsTyped
  <2> QED BY <2>1, <2>2, <2>3, <1>2
<1>8. slot' = [slot EXCEPT ![p][s] = after]
  BY <1>0 DEF Pass
<1>9. slot' \in [Nodes -> [Slots -> SlotOK]]
  <2> HIDE DEF after
  <2> QED BY <1>7, <1>8 DEF Records
<1> QED BY <1>4, <1>5, <1>6, <1>9

(* The parts of one record.                                                 *)
LEMMA SlotTyped ==
  ASSUME Records, NEW p \in Nodes, NEW s \in Slots
  PROVE  /\ slot[p][s] \in SlotOK /\ slot[p][s] \in SlotRecords
         /\ slot[p][s].cur \in SUBSET Tids /\ slot[p][s].rest \in SUBSET Tids
         /\ slot[p][s].stored \in SUBSET Tids
         /\ slot[p][s].from \in Nodes \cup {NoNode}
         /\ slot[p][s].phase = "throttling" => slot[p][s].from \in Nodes
<1>1. slot[p][s] \in SlotOK
  BY DEF Records
<1> QED BY <1>1 DEF SlotOK, SlotRecords

\* The fields of a sync.
LEMMA SyncTyped ==
  ASSUME Records, NEW n \in Nodes
  PROVE  /\ sync[n] \in SyncOK /\ sync[n] \in SyncRecords
         /\ sync[n].offer \in SUBSET Tids /\ sync[n].wanted \in SUBSET Tids
         /\ sync[n].blobs \in SUBSET Tids /\ sync[n].current \in BOOLEAN
         /\ sync[n].phase # "idle" => sync[n].peer \in Nodes
<1>1. sync[n] \in SyncOK
  BY DEF Records
<1> QED BY <1>1 DEF SyncOK, SyncRecords

(* A sync in progress moves on with new contents.                           *)
LEMMA SyncMoves ==
  ASSUME NEW r \in SyncRecords, r.peer \in Nodes,
         NEW ph \in Phases, NEW o \in SUBSET Tids, NEW w \in SUBSET Tids,
         NEW bl \in SUBSET Tids, NEW re \in {"none", "list", "throttled", "error"}
  PROVE  /\ [r EXCEPT !.phase = ph, !.offer = o] \in SyncOK
         /\ [r EXCEPT !.phase = ph, !.blobs = bl] \in SyncOK
         /\ [r EXCEPT !.phase = ph, !.reply = re, !.wanted = w] \in SyncOK
         /\ [r EXCEPT !.phase = ph, !.reply = re] \in SyncOK
         /\ [r EXCEPT !.phase = ph] \in SyncOK
  BY DEF SyncOK, SyncRecords

-----------------------------------------------------------------------------
(* Every action keeps the types.                                            *)

\* The offering side keeps the types.
LEMMA OfferingTyped ==
  ASSUME Records, Rest, NEW n \in Nodes,
         Offering(n) \/ SyncFails(n) \/ OfferError(n)
  PROVE  Records' /\ Rest'
<1> DEFINE p == sync[n].peer
<1>a. /\ sync[n] \in SyncRecords
      /\ sync[n].offer \in SUBSET Tids /\ sync[n].wanted \in SUBSET Tids
      /\ sync[n].blobs \in SUBSET Tids
      /\ sync[n].phase # "idle" => p \in Nodes
  BY SyncTyped
<1>b. ASSUME NEW ts PROVE MarkHandled(n, p, ts) \in [Nodes -> [Nodes -> SUBSET Tids]]
  <2>1. unhandled \in [Nodes -> [Nodes -> SUBSET Tids]]
    BY DEF Rest
  <2>2. [unhandled[n] EXCEPT ![p] = @ \ ts] \in [Nodes -> SUBSET Tids]
    BY <2>1
  <2> QED BY <2>1, <2>2 DEF MarkHandled
<1>c. ASSUME NEW on \in BOOLEAN, p \in Nodes
      PROVE  SetPostponed(n, on) \in [Nodes -> SUBSET Nodes]
  <2>1. postponed \in [Nodes -> SUBSET Nodes]
    BY DEF Rest
  <2> QED BY <1>c, <2>1 DEF SetPostponed
<1>d. ASSUME NEW r \in SyncOK, sync' = [sync EXCEPT ![n] = r]
      PROVE  sync' \in [Nodes -> SyncOK]
  BY <1>d DEF Records
<1>e. {"offering", "transferring", "answered", "proved"} \subseteq Phases
  BY DEF Phases
<1>1. CASE LinkReady(n)
  <2>0. p \in Nodes
    BY <1>1, <1>a DEF LinkReady
  <2>1. PICK offer \in SUBSET (sync[n].offer \ (sync[n].offer \cap Pairs(TooLarge, p))) :
          sync' = [sync EXCEPT ![n] =
                 IF offer = {} THEN NoSync
                 ELSE [@ EXCEPT !.phase = "offering", !.offer = offer]]
    BY <1>1 DEF LinkReady
  <2>2. [sync[n] EXCEPT !.phase = "offering", !.offer = offer] \in SyncOK
    BY <2>0, <1>a, <1>e, SyncMoves
  <2>3. sync' \in [Nodes -> SyncOK]
    BY <2>1, <2>2, <1>d, RecordsTyped
  <2>4. unhandled' \in [Nodes -> [Nodes -> SUBSET Tids]]
    BY <1>1, <1>b DEF LinkReady
  <2>5. postponed' \in [Nodes -> SUBSET Nodes]
    BY <1>1, <1>c, <2>0 DEF LinkReady
  <2> QED BY <1>1, <2>3, <2>4, <2>5 DEF LinkReady, Records, Rest
<1>2. CASE HandleAnswer(n)
  <2>0. p \in Nodes
    BY <1>2, <1>a DEF HandleAnswer
  <2>1. [sync[n] EXCEPT !.phase = "transferring",
                        !.blobs = sync[n].wanted \cap store[n]] \in SyncOK
    BY <2>0, <1>a, <1>e, SyncMoves
  <2>2. sync' \in [Nodes -> SyncOK]
    BY <1>2, <2>1, <1>d, RecordsTyped DEF HandleAnswer
  <2>3. unhandled' \in [Nodes -> [Nodes -> SUBSET Tids]]
    BY <1>2, <1>b DEF HandleAnswer, Rest
  <2>4. postponed' \in [Nodes -> SUBSET Nodes]
    BY <1>2, <1>c, <2>0 DEF HandleAnswer, Rest
  <2> QED BY <1>2, <2>2, <2>3, <2>4 DEF HandleAnswer, Records, Rest
<1>3. CASE HandleComplete(n)
  <2>1. unhandled' \in [Nodes -> [Nodes -> SUBSET Tids]]
    BY <1>3, <1>b DEF HandleComplete
  <2>2. sync' \in [Nodes -> SyncOK]
    BY <1>3, <1>d, RecordsTyped DEF HandleComplete
  <2> QED BY <1>3, <2>1, <2>2 DEF HandleComplete, Records, Rest
<1>4. CASE HandleOffer(n)
  <2>0. p \in Nodes
    BY <1>4, <1>a DEF HandleOffer
  <2>1. PICK re \in {"list", "throttled"}, w \in SUBSET Tids :
          sync' = [sync EXCEPT ![n] = [@ EXCEPT !.phase = "answered",
                                         !.reply = re, !.wanted = w]]
    <3> DEFINE re == IF Refused(p, n) THEN "throttled" ELSE "list"
               w == IF Refused(p, n) THEN {} ELSE sync[n].offer \ Has(p)
    <3>1. re \in {"list", "throttled"} /\ w \in SUBSET Tids
      BY <1>a
    <3>2. sync' = [sync EXCEPT ![n] = [@ EXCEPT !.phase = "answered",
                                         !.reply = re, !.wanted = w]]
      BY <1>4 DEF HandleOffer
    <3> HIDE DEF re, w
    <3> QED BY <3>1, <3>2
  <2>2. [sync[n] EXCEPT !.phase = "answered", !.reply = re, !.wanted = w] \in SyncOK
    BY <2>0, <2>1, <1>a, <1>e, SyncMoves
  <2>3. sync' \in [Nodes -> SyncOK]
    BY <2>1, <2>2, <1>d
  <2> QED BY <1>4, <2>3 DEF HandleOffer, Records, Rest
<1>5. ASSUME NEW s \in Slots, TransferBegins(n, s)
      PROVE  Records' /\ Rest'
  <2>0. p \in Nodes
    BY <1>5, <1>a DEF TransferBegins
  <2> DEFINE begun == [Free EXCEPT !.phase = "receiving", !.from = n,
                                   !.rest = sync[n].blobs]
  <2>1. begun \in SlotOK
    BY <1>a DEF Free, SlotOK, SlotRecords, SlotPhases
  <2>2. slot' = [slot EXCEPT ![p][s] = begun]
    BY <1>5 DEF TransferBegins
  <2>3. slot' \in [Nodes -> [Slots -> SlotOK]]
    <3> HIDE DEF begun
    <3> QED BY <2>1, <2>2 DEF Records
  <2>4. [sync[n] EXCEPT !.at = s] \in SyncOK
    BY <2>0, <1>a DEF SyncOK, SyncRecords
  <2>5. sync' \in [Nodes -> SyncOK]
    BY <1>5, <2>4, <1>d DEF TransferBegins
  <2> QED BY <1>5, <2>3, <2>5 DEF TransferBegins, Records, Rest
<1>6. CASE SyncFails(n)
  <2>1. sync' \in [Nodes -> SyncOK]
    BY <1>6, <1>d, RecordsTyped DEF SyncFails
  <2> QED BY <1>6, <2>1 DEF SyncFails, Fault, Records, Rest
<1>7. CASE OfferError(n)
  <2>0. p \in Nodes
    BY <1>7, <1>a DEF OfferError
  <2>1. [sync[n] EXCEPT !.phase = "answered", !.reply = "error"] \in SyncOK
    BY <2>0, <1>a, <1>e, SyncMoves
  <2>2. sync' \in [Nodes -> SyncOK]
    BY <1>7, <2>1, <1>d DEF OfferError
  <2> QED BY <1>7, <2>2 DEF OfferError, Fault, Records, Rest
<1> QED BY <1>1, <1>2, <1>3, <1>4, <1>5, <1>6, <1>7 DEF Offering

(* What IngestTyped concludes.                                              *)
Stretch ==
    /\ store' \in [Nodes -> SUBSET Tids]
    /\ processed' \in [Nodes -> SUBSET Tids]
    /\ taken' \in [Nodes -> [Tids -> Nat]]
    /\ unhandled' \in [Nodes -> [Nodes -> SUBSET Tids]]
    /\ slot' \in [Nodes -> [Slots -> SlotOK]]

\* So does the receiving side.
LEMMA ReceivingTyped ==
  ASSUME Records, Rest, NEW p \in Nodes, NEW s \in Slots,
         Receiving(p, s) \/ FilterThrows(p, s)
  PROVE  Records' /\ Rest'
<1>a. /\ slot[p][s] \in SlotOK /\ slot[p][s] \in SlotRecords
      /\ slot[p][s].cur \in SUBSET Tids /\ slot[p][s].rest \in SUBSET Tids
      /\ slot[p][s].stored \in SUBSET Tids
      /\ slot[p][s].from \in Nodes \cup {NoNode}
      /\ slot[p][s].phase = "throttling" => slot[p][s].from \in Nodes
  BY SlotTyped
<1>b. ASSUME NEW r \in SlotOK, slot' = [slot EXCEPT ![p][s] = r]
      PROVE  slot' \in [Nodes -> [Slots -> SlotOK]]
  BY <1>b DEF Records
<1>1. CASE TransferEnds(p, s)
  <2>1. [slot[p][s] EXCEPT !.phase = "validating"] \in SlotOK
    BY <1>a DEF SlotOK, SlotRecords, SlotPhases
  <2>2. slot' \in [Nodes -> [Slots -> SlotOK]]
    BY <1>1, <2>1, <1>b DEF TransferEnds
  <2> DEFINE n == SenderOf(p, s)
  <2>3. sync' = [sync EXCEPT ![n] = [@ EXCEPT !.phase = "proved"]]
        /\ sync[n].peer = p
    BY <1>1 DEF TransferEnds, Carried
  <2>4. ASSUME NEW m \in Nodes, m = n
        PROVE  [sync[m] EXCEPT !.phase = "proved"] \in SyncOK
    <3>1. sync[m] \in SyncRecords
      BY SyncTyped
    <3>2. sync[m].peer \in Nodes
      BY <2>3, <2>4
    <3> QED BY <3>1, <3>2 DEF SyncOK, SyncRecords, Phases
  <2>5. sync' \in [Nodes -> SyncOK]
    <3> HIDE DEF n
    <3> QED BY <2>3, <2>4 DEF Records
  <2> QED BY <1>1, <2>2, <2>5 DEF TransferEnds, Records, Rest
<1>2. CASE TransferFails(p, s)
  <2>1. slot' \in [Nodes -> [Slots -> SlotOK]]
    BY <1>2, <1>b, RecordsTyped DEF TransferFails
  <2> QED BY <1>2, <2>1 DEF TransferFails, Records, Rest
<1>3. CASE Validated(p, s)
  <2> DEFINE weak == slot[p][s].rest \cap Pairs(Weak, p)
             batch == [slot[p][s] EXCEPT !.rest = @ \ weak,
                         !.rejected = weak # {} /\ slot[p][s].from # NoNode]
  <2>1. batch \in SlotOK
    BY <1>a DEF SlotOK, SlotRecords
  <2>2. PICK b \in SlotOK, k \in SUBSET Tids : b = batch /\ k = {}
    BY <2>1
  <2>3. Ingest(p, s, b, k, k)
    BY <1>3, <2>2 DEF Validated
  <2>4. Stretch
    BY <2>3, IngestTyped DEF Stretch
  <2> QED BY <1>3, <2>4 DEF Validated, Stretch, Records, Rest
<1>4. CASE FilterKeeps(p, s)
  <2>1. PICK b \in SlotOK, c \in SUBSET Tids, k \in SUBSET Tids :
          b = slot[p][s] /\ c = slot[p][s].cur /\ k = {}
    BY <1>a
  <2>2. Ingest(p, s, b, c, k)
    BY <1>4, <2>1 DEF FilterKeeps
  <2>3. Stretch
    BY <2>2, IngestTyped DEF Stretch
  <2> QED BY <1>4, <2>3 DEF FilterKeeps, Stretch, Records, Rest
<1>5. CASE FilterDrops(p, s)
  <2>1. PICK b \in SlotOK, c \in SUBSET Tids, k \in SUBSET Tids :
          b = slot[p][s] /\ c = slot[p][s].cur /\ k = {}
    BY <1>a
  <2>2. Ingest(p, s, b, k, k)
    BY <1>5, <2>1 DEF FilterDrops
  <2>3. Stretch
    BY <2>2, IngestTyped DEF Stretch
  <2> QED BY <1>5, <2>3 DEF FilterDrops, Stretch, Records, Rest
<1>6. CASE LocalDelivery(p, s)
  <2>1. PICK b \in SlotOK, c \in SUBSET Tids, k \in SUBSET Tids :
          b = slot[p][s] /\ c = slot[p][s].cur /\ k = {}
    BY <1>a
  <2>2. Ingest(p, s, b, k, c)
    BY <1>6, <2>1 DEF LocalDelivery
  <2>3. Stretch
    BY <2>2, IngestTyped DEF Stretch
  <2> QED BY <1>6, <2>3 DEF LocalDelivery, Stretch, Records, Rest
<1>7. CASE ThrottlePeer(p, s)
  <2>1. throttled' \in [Nodes -> SUBSET Nodes]
    BY <1>7, <1>a DEF ThrottlePeer, Rest
  <2>2. slot' \in [Nodes -> [Slots -> SlotOK]]
    BY <1>7, <1>b, RecordsTyped DEF ThrottlePeer
  <2> QED BY <1>7, <2>1, <2>2 DEF ThrottlePeer, Records, Rest
<1>8. CASE FilterThrows(p, s)
  <2>1. skipped' \in [Nodes -> SUBSET Tids]
    BY <1>8, <1>a DEF FilterThrows, Rest
  <2>2. slot' \in [Nodes -> [Slots -> SlotOK]]
    BY <1>8, <1>b, RecordsTyped DEF FilterThrows
  <2> QED BY <1>8, <2>1, <2>2 DEF FilterThrows, Fault, Records, Rest
<1> QED BY <1>1, <1>2, <1>3, <1>4, <1>5, <1>6, <1>7, <1>8 DEF Receiving

\* So does a step of a pair of nodes.
LEMMA PairTyped ==
  ASSUME Records, Rest, NEW n \in Nodes, NEW p \in Nodes,
         \/ Peer(n, p) \/ Unpeer(n, p) \/ SyncStart(n, p)
         \/ BackoffExpires(n, p) \/ ThrottleExpires(n, p)
  PROVE  Records' /\ Rest'
<1>1. CASE Peer(n, p)
  BY <1>1 DEF Peer, Records, Rest
<1>2. CASE Unpeer(n, p)
  <2> DEFINE c == sync[n].current /\ sync[n].peer # p
  <2>0. c \in BOOLEAN
    OBVIOUS
  <2>a. sync' = [sync EXCEPT ![n] = [sync[n] EXCEPT !.current = c]]
    BY <1>2, Zenon DEF Unpeer
  <2> HIDE DEF c
  <2>1. [sync[n] EXCEPT !.current = c] \in SyncOK
    BY <2>0, SyncTyped DEF SyncOK, SyncRecords
  <2>2. sync' \in [Nodes -> SyncOK]
    BY <2>a, <2>1 DEF Records
  <2> QED BY <1>2, <2>2 DEF Unpeer, Fault, Records, Rest
<1>3. CASE SyncStart(n, p)
  <2> DEFINE owed == unhandled[n][p] \ Pairs(KnownWeak, p)
             begun == [NoSync EXCEPT !.phase = "establishing",
                        !.peer = p, !.offer = owed, !.current = TRUE]
  <2>1. owed \in SUBSET Tids
    BY DEF Rest
  <2>2. begun \in SyncOK
    BY <2>1 DEF NoSync, SyncOK, SyncRecords, Phases
  <2>3. sync' = [sync EXCEPT ![n] = begun]
    BY <1>3 DEF SyncStart
  <2> HIDE DEF begun
  <2>4. sync' \in [Nodes -> SyncOK]
    BY <2>2, <2>3 DEF Records
  <2> QED BY <1>3, <2>4 DEF SyncStart, Records, Rest
<1>4. CASE BackoffExpires(n, p)
  BY <1>4 DEF BackoffExpires, Records, Rest
<1>5. CASE ThrottleExpires(n, p)
  BY <1>5 DEF ThrottleExpires, Records, Rest
<1> QED BY <1>1, <1>2, <1>3, <1>4, <1>5

\* So does every step.
LEMMA NextTyped == Typed /\ [Next]_vars => Typed'
<1> SUFFICES ASSUME Records, Rest, [Next]_vars PROVE Records' /\ Rest'
  BY TypedParts, TypedPartsNext
<1>1. ASSUME NEW n \in Nodes, NEW p \in Nodes,
             \/ Peer(n, p) \/ Unpeer(n, p) \/ SyncStart(n, p)
             \/ BackoffExpires(n, p) \/ ThrottleExpires(n, p)
      PROVE  Records' /\ Rest'
  BY <1>1, PairTyped
<1>2. ASSUME NEW n \in Nodes, Offering(n) \/ SyncFails(n) \/ OfferError(n)
      PROVE  Records' /\ Rest'
  BY <1>2, OfferingTyped
<1>3. ASSUME NEW p \in Nodes, NEW s \in Slots, Receiving(p, s) \/ FilterThrows(p, s)
      PROVE  Records' /\ Rest'
  BY <1>3, ReceivingTyped
<1>4. ASSUME NEW n \in Nodes, NEW s \in Slots, NEW t \in Tids, Submit(n, s, t)
      PROVE  Records' /\ Rest'
  <2> DEFINE begun == [Free EXCEPT !.phase = "validating", !.rest = {t}]
  <2>1. begun \in SlotOK
    BY DEF Free, SlotOK, SlotRecords, SlotPhases
  <2>2. slot' = [slot EXCEPT ![n][s] = begun]
    BY <1>4 DEF Submit
  <2> HIDE DEF begun
  <2>3. slot' \in [Nodes -> [Slots -> SlotOK]]
    BY <2>1, <2>2 DEF Records
  <2> QED BY <1>4, <2>3 DEF Submit, Records, Rest
<1>5. ASSUME NEW n \in Nodes, NEW t \in Tids, Evict(n, t)
      PROVE  Records' /\ Rest'
  <2>1. [p \in Nodes |-> unhandled[n][p] \ {t}] \in [Nodes -> SUBSET Tids]
    BY DEF Rest
  <2>2. unhandled' \in [Nodes -> [Nodes -> SUBSET Tids]]
    BY <1>5, <2>1 DEF Evict, Rest
  <2> QED BY <1>5, <2>2 DEF Evict, Fault, Records, Rest
<1>6. CASE UNCHANGED vars
  BY <1>6 DEF vars, Records, Rest
<1> QED BY <1>1, <1>2, <1>3, <1>4, <1>5, <1>6 DEF Next

(* For any mesh, the nodes' state keeps its type.                           *)
THEOREM TypeCorrect == Spec => []TypeOK
<1>1. Spec => []Typed
  BY InitTyped, NextTyped, PTL DEF Spec
<1>2. Typed => TypeOK
  BY DEF Typed
<1> QED BY <1>1, <1>2, PTL

-----------------------------------------------------------------------------
(* No node takes a message twice.  What a node has taken is recorded as     *)
(* processed; a message at which an ingest loop waits is recorded already,  *)
(* is not taken yet, and no other loop of the node waits at it.             *)
Waits(p, s) == slot[p][s].phase = "awaiting"

\* A message is taken at most once, and not before it is processed.
Once ==
    /\ \A p \in Nodes, t \in Tids : taken[p][t] > 0 => t \in processed[p]
    /\ \A p \in Nodes, s \in Slots : Waits(p, s) =>
         \A t \in slot[p][s].cur : t \in processed[p] /\ taken[p][t] = 0
    /\ \A p \in Nodes : \A s1, s2 \in Slots :
         (s1 # s2 /\ Waits(p, s1) /\ Waits(p, s2)) =>
           \A t \in slot[p][s1].cur : t \notin slot[p][s2].cur
    /\ TakenOnce

\* Nothing is taken yet.
LEMMA InitOnce == Init => Once
  BY DEF Init, Once, Waits, TakenOnce, Free

(* A slot in which no loop waits afterwards.                                *)
LEMMA SlotLeaves ==
  ASSUME Records, Once, NEW p \in Nodes, NEW s \in Slots, NEW r,
         r.phase # "awaiting", slot' = [slot EXCEPT ![p][s] = r],
         UNCHANGED <<processed, taken>>
  PROVE  Once'
<1>1. ASSUME NEW q \in Nodes, NEW u \in Slots, Waits(q, u)'
      PROVE  slot'[q][u] = slot[q][u] /\ Waits(q, u)
  BY <1>1 DEF Records, Waits
<1> QED BY <1>1 DEF Once, TakenOnce

(* One stretch of the loop, when what it lets in or delivers is what the    *)
(* loop waited at.                                                          *)
LEMMA PassOnce ==
  ASSUME Records, Rest, Once, NEW p \in Nodes, NEW s \in Slots, NEW b \in SlotOK,
         NEW kept \in SUBSET Tids, NEW delivered \in SUBSET Tids,
         NEW done \in SUBSET Tids, NEW next \in SUBSET (Tids \ done),
         Pass(p, s, b, kept, delivered, done, next),
         \A t \in kept \cup delivered : Waits(p, s) /\ t \in slot[p][s].cur
  PROVE  Once'
<1> DEFINE new == done \ Has(p)
           in == kept \cup new \cup delivered
<1>1. /\ processed' = [processed EXCEPT ![p] = @ \cup new \cup next]
      /\ taken' = [taken EXCEPT ![p] = Counted(@, in)]
  BY DEF Pass
<1>2. /\ \A q \in Nodes : processed[q] \subseteq processed'[q]
      /\ processed'[p] = processed[p] \cup new \cup next
      /\ \A q \in Nodes \ {p}, t \in Tids : taken'[q][t] = taken[q][t]
      /\ \A t \in Tids : taken'[p][t] = IF t \in in THEN taken[p][t] + 1
                                        ELSE taken[p][t]
  BY <1>1 DEF Rest, Counted
<1>3. \A t \in next : t \notin Has(p) /\ t \notin new
  BY DEF Pass, Awaited
<1>4. \A t \in Tids : t \notin Has(p) => t \notin processed[p] /\ taken[p][t] = 0
  BY DEF Has, Once, Rest
<1>5. \A t \in new : t \notin Has(p)
  OBVIOUS
<1>6. \A t \in kept \cup delivered : t \in processed[p] /\ taken[p][t] = 0
  BY DEF Once
<1>7. \A q \in Nodes, u \in Slots : ~ (q = p /\ u = s) => slot'[q][u] = slot[q][u]
  BY DEF Pass, Records
<1>8. /\ next # {} => slot'[p][s].cur = next
      /\ next = {} => slot'[p][s].phase # "awaiting"
  BY DEF Pass, Records, SlotOK, SlotRecords, Free
<1> HIDE DEF new, in
<1>9. \A t \in in : t \in Tids /\ taken[p][t] = 0 /\ t \in processed'[p]
  BY <1>2, <1>4, <1>5, <1>6 DEF in, new
<1>10. (\A q \in Nodes, t \in Tids : taken[q][t] > 0 => t \in processed[q])'
  BY <1>2, <1>9 DEF Once
<1>11. TakenOnce'
  BY <1>2, <1>9 DEF Once, TakenOnce
<1>12. \A t \in next : t \notin in
  BY <1>3, <1>6 DEF in, Has
<1>13. ASSUME NEW u \in Slots, u # s, Waits(p, u)
       PROVE  \A t \in slot[p][u].cur : t \in processed[p] /\ t \notin in
                                        /\ t \in Tids /\ taken[p][t] = 0
  <2>1. \A t \in slot[p][u].cur : t \in processed[p] /\ taken[p][t] = 0
    BY <1>13 DEF Once
  <2>2. \A t \in slot[p][u].cur : t \notin kept \cup delivered
    BY <1>13 DEF Once
  <2>3. slot[p][u].cur \subseteq Tids
    BY SlotTyped
  <2> QED BY <2>1, <2>2, <2>3, <1>5 DEF in, Has
<1>14. ASSUME NEW q \in Nodes, NEW u \in Slots, Waits(q, u)'
       PROVE  \A t \in slot'[q][u].cur : t \in processed'[q] /\ taken'[q][t] = 0
  <2>1. CASE q # p
    <3>1. slot'[q][u] = slot[q][u] /\ Waits(q, u) /\ slot[q][u].cur \subseteq Tids
      BY <2>1, <1>7, <1>14, SlotTyped DEF Waits
    <3> QED BY <3>1, <2>1, <1>2 DEF Once
  <2>2. CASE q = p /\ u # s
    <3>1. slot'[p][u] = slot[p][u] /\ Waits(p, u)
      BY <2>2, <1>7, <1>14 DEF Waits
    <3> QED BY <3>1, <2>2, <1>2, <1>13
  <2>3. CASE q = p /\ u = s
    <3>1. slot'[p][s].cur = next
      BY <2>3, <1>8, <1>14 DEF Waits
    <3> QED BY <3>1, <2>3, <1>2, <1>3, <1>4, <1>12
  <2> QED BY <2>1, <2>2, <2>3
<1>15. ASSUME NEW q \in Nodes, NEW u \in Slots, NEW v \in Slots, u # v,
              Waits(q, u)', Waits(q, v)'
       PROVE  \A t \in slot'[q][u].cur : t \notin slot'[q][v].cur
  <2>1. CASE q # p \/ (u # s /\ v # s)
    <3>1. slot'[q][u] = slot[q][u] /\ slot'[q][v] = slot[q][v]
      BY <2>1, <1>7
    <3>2. Waits(q, u) /\ Waits(q, v)
      BY <3>1, <1>15 DEF Waits
    <3> QED BY <3>1, <3>2, <1>15 DEF Once
  <2>2. ASSUME q = p, NEW w \in Slots, w # s, Waits(p, w)', Waits(p, s)'
        PROVE  \A t \in slot'[p][w].cur : t \notin slot'[p][s].cur
    <3>1. slot'[p][w] = slot[p][w] /\ Waits(p, w)
      BY <2>2, <1>7 DEF Waits
    <3>2. slot'[p][s].cur = next
      BY <2>2, <1>8 DEF Waits
    <3>3. \A t \in slot[p][w].cur : t \in Has(p)
      BY <3>1, <2>2, <1>13 DEF Has
    <3> QED BY <3>1, <3>2, <3>3, <1>3
  <2> QED BY <2>1, <2>2, <1>15
<1> QED BY <1>10, <1>11, <1>14, <1>15 DEF Once

\* A batch is taken once.
LEMMA IngestOnce ==
  ASSUME Records, Rest, Once, NEW p \in Nodes, NEW s \in Slots, NEW b \in SlotOK,
         NEW kept \in SUBSET Tids, NEW delivered \in SUBSET Tids,
         Ingest(p, s, b, kept, delivered),
         \A t \in kept \cup delivered : Waits(p, s) /\ t \in slot[p][s].cur
  PROVE  Once'
<1>1. b.rest \in SUBSET Tids
  BY DEF SlotOK, SlotRecords
<1>2. PICK done \in SUBSET b.rest : \E next \in {{}} \cup {{t} : t \in b.rest \ done} :
        Pass(p, s, b, kept, delivered, done, next)
  BY DEF Ingest
<1>3. PICK next \in {{}} \cup {{t} : t \in b.rest \ done} :
        Pass(p, s, b, kept, delivered, done, next)
  BY <1>2
<1>4. done \in SUBSET Tids /\ next \in SUBSET (Tids \ done)
  BY <1>1
<1> QED BY <1>3, <1>4, PassOnce

\* The receiving side takes nothing twice.
LEMMA ReceivingOnce ==
  ASSUME Records, Rest, Once, NEW p \in Nodes, NEW s \in Slots,
         Receiving(p, s) \/ FilterThrows(p, s)
  PROVE  Once'
<1>a. /\ slot[p][s] \in SlotOK /\ slot[p][s] \in SlotRecords
      /\ slot[p][s].cur \in SUBSET Tids /\ slot[p][s].rest \in SUBSET Tids
      /\ slot[p][s].from \in Nodes \cup {NoNode}
  BY SlotTyped
<1>b. Free.phase # "awaiting"
  BY DEF Free
<1>1. CASE TransferEnds(p, s)
  <2> DEFINE r == [slot[p][s] EXCEPT !.phase = "validating"]
  <2>1. r.phase # "awaiting"
    BY <1>a DEF SlotRecords
  <2>2. slot' = [slot EXCEPT ![p][s] = r] /\ UNCHANGED <<processed, taken>>
    BY <1>1 DEF TransferEnds
  <2> HIDE DEF r
  <2> QED BY <2>1, <2>2, SlotLeaves
<1>2. CASE TransferFails(p, s) \/ ThrottlePeer(p, s) \/ FilterThrows(p, s)
  <2>1. slot' = [slot EXCEPT ![p][s] = Free] /\ UNCHANGED <<processed, taken>>
    BY <1>2 DEF TransferFails, ThrottlePeer, FilterThrows
  <2> QED BY <2>1, <1>b, SlotLeaves
<1>3. CASE Validated(p, s)
  <2> DEFINE weak == slot[p][s].rest \cap Pairs(Weak, p)
             batch == [slot[p][s] EXCEPT !.rest = @ \ weak,
                         !.rejected = weak # {} /\ slot[p][s].from # NoNode]
  <2>1. batch \in SlotOK
    BY <1>a DEF SlotOK, SlotRecords
  <2>2. PICK b \in SlotOK, k \in SUBSET Tids : b = batch /\ k = {}
    BY <2>1
  <2>3. Ingest(p, s, b, k, k)
    BY <1>3, <2>2 DEF Validated
  <2> QED BY <2>2, <2>3, IngestOnce
<1>4. CASE FilterKeeps(p, s) \/ FilterDrops(p, s) \/ LocalDelivery(p, s)
  <2>1. PICK b \in SlotOK, c \in SUBSET Tids, k \in SUBSET Tids :
          b = slot[p][s] /\ c = slot[p][s].cur /\ k = {}
    BY <1>a
  <2>2. \/ Ingest(p, s, b, c, k) \/ Ingest(p, s, b, k, k) \/ Ingest(p, s, b, k, c)
    BY <1>4, <2>1 DEF FilterKeeps, FilterDrops, LocalDelivery
  <2>3. Waits(p, s)
    BY <1>4 DEF FilterKeeps, FilterDrops, LocalDelivery, Waits
  <2> QED BY <2>1, <2>2, <2>3, IngestOnce
<1> QED BY <1>1, <1>2, <1>3, <1>4 DEF Receiving

\* No step takes a message twice.
LEMMA NextOnce == Typed /\ Once /\ [Next]_vars => Once'
<1> SUFFICES ASSUME Records, Rest, Once, [Next]_vars PROVE Once'
  BY TypedParts
<1>1. ASSUME UNCHANGED <<slot, processed, taken>> PROVE Once'
  BY <1>1 DEF Once, Waits, TakenOnce
<1>2. ASSUME NEW n \in Nodes, NEW p \in Nodes,
             \/ Peer(n, p) \/ Unpeer(n, p) \/ SyncStart(n, p)
             \/ BackoffExpires(n, p) \/ ThrottleExpires(n, p)
      PROVE  Once'
  <2>1. UNCHANGED <<slot, processed, taken>>
    BY <1>2 DEF Peer, Unpeer, SyncStart, BackoffExpires, ThrottleExpires
  <2> QED BY <2>1, <1>1
<1>3. ASSUME NEW n \in Nodes, Offering(n) \/ SyncFails(n) \/ OfferError(n)
      PROVE  Once'
  <2>1. CASE \E s \in Slots : TransferBegins(n, s)
    <3>1. PICK s \in Slots : TransferBegins(n, s)
      BY <2>1
    <3>2. sync[n].peer \in Nodes
      BY <3>1, SyncTyped DEF TransferBegins
    <3>3. PICK p \in Nodes : p = sync[n].peer
      BY <3>2
    <3> DEFINE r == [Free EXCEPT !.phase = "receiving", !.from = n,
                                 !.rest = sync[n].blobs]
    <3>4. r.phase # "awaiting"
      BY DEF Free
    <3>5. slot' = [slot EXCEPT ![p][s] = r] /\ UNCHANGED <<processed, taken>>
      BY <3>1, <3>3 DEF TransferBegins
    <3> HIDE DEF r
    <3> QED BY <3>4, <3>5, SlotLeaves
  <2>2. CASE ~ \E s \in Slots : TransferBegins(n, s)
    <3>1. UNCHANGED <<slot, processed, taken>>
      BY <1>3, <2>2 DEF Offering, LinkReady, HandleAnswer, HandleComplete,
                        HandleOffer, SyncFails, OfferError
    <3> QED BY <3>1, <1>1
  <2> QED BY <2>1, <2>2
<1>4. ASSUME NEW p \in Nodes, NEW s \in Slots, Receiving(p, s) \/ FilterThrows(p, s)
      PROVE  Once'
  BY <1>4, ReceivingOnce
<1>5. ASSUME NEW n \in Nodes, NEW s \in Slots, NEW t \in Tids, Submit(n, s, t)
      PROVE  Once'
  <2> DEFINE r == [Free EXCEPT !.phase = "validating", !.rest = {t}]
  <2>1. r.phase # "awaiting"
    BY DEF Free
  <2>2. slot' = [slot EXCEPT ![n][s] = r] /\ UNCHANGED <<processed, taken>>
    BY <1>5 DEF Submit
  <2> HIDE DEF r
  <2> QED BY <2>1, <2>2, SlotLeaves
<1>6. ASSUME NEW n \in Nodes, NEW t \in Tids, Evict(n, t)
      PROVE  Once'
  BY <1>6, <1>1 DEF Evict
<1>7. CASE UNCHANGED vars
  BY <1>7, <1>1 DEF vars
<1> QED BY <1>2, <1>3, <1>4, <1>5, <1>6, <1>7 DEF Next

(* For any mesh and any order of overlapping batches, evictions and filter   *)
(* failures, a node stores or delivers a message at most once.              *)
THEOREM NeverTakenTwice == Spec => []TakenOnce
<1>1. Spec => []Typed
  BY InitTyped, NextTyped, PTL DEF Spec
<1>2. Spec => []Once
  BY <1>1, InitOnce, NextOnce, PTL DEF Spec
<1>3. Once => TakenOnce
  BY DEF Once
<1> QED BY <1>2, <1>3, PTL

-----------------------------------------------------------------------------
(* What a peer has acknowledged it has dealt with.                          *)

(* The peer has dealt with the message, or is just taking it in.            *)
Dealt(p, t) ==
    \/ t \in processed[p] \/ Entering(p, t)
    \/ <<t, p>> \in TooLarge \cup Weak
    \/ t \in skipped[p]

(* Entries are messages the node has taken, and it owes entries only.       *)
Entries == \A n \in Nodes :
    /\ \A t \in store[n] : taken[n][t] > 0
    /\ \A p \in Nodes : unhandled[n][p] \subseteq store[n]

(* What a sync in progress has in hand: messages the node has taken; an      *)
(* answer leaves out only what the peer has processed; what is wanted and    *)
(* still stored is in the container; a proof says the peer is taking it in.  *)
SyncHolds(n) ==
    /\ \A t \in sync[n].offer \cup sync[n].wanted : taken[n][t] > 0
    /\ sync[n].phase = "answered" /\ sync[n].reply = "list" =>
         \A t \in sync[n].offer : t \in sync[n].wanted \/ t \in processed[sync[n].peer]
    /\ sync[n].phase \in {"transferring", "proved"} =>
         \A t \in sync[n].wanted \cap store[n] : t \in sync[n].blobs
    /\ sync[n].phase = "proved" => \A t \in sync[n].blobs : Dealt(sync[n].peer, t)
    /\ sync[n].at # 0 => sync[n].phase \in {"transferring", "proved"}

(* A container being received is its sender's, and only an ingest loop has   *)
(* stored messages in hand.                                                  *)
SlotHolds(p, s) ==
    /\ slot[p][s].phase = "receiving" =>
         /\ slot[p][s].from \in Nodes
         /\ Carried(p, s) => slot[p][s].rest = sync[slot[p][s].from].blobs
    /\ slot[p][s].phase \notin {"validating", "awaiting"} => slot[p][s].stored = {}

(* SyncedIsProcessed, with its exceptions sorted by node.                    *)
Settled == \A n, p \in Nodes : \A t \in store[n] :
    (p \in peers[n] /\ t \notin unhandled[n][p]) =>
       Dealt(p, t) \/ Undistributed(n, t) \/ t \in skipped[n]

\* The invariant: what every queue, sync and slot holds between the steps of a sync.
Synced ==
    /\ Entries /\ Settled
    /\ \A n \in Nodes : SyncHolds(n)
    /\ \A p \in Nodes, s \in Slots : SlotHolds(p, s)

\* Every store and queue is empty.
LEMMA InitSynced == Init => Synced
<1> SUFFICES ASSUME Init PROVE Synced
  OBVIOUS
<1>1. Entries /\ Settled
  BY DEF Init, Entries, Settled
<1>2. \A n \in Nodes : SyncHolds(n)
  BY DEF Init, SyncHolds, NoSync
<1>3. \A p \in Nodes, s \in Slots : SlotHolds(p, s)
  BY DEF Init, SlotHolds, Free
<1> QED BY <1>1, <1>2, <1>3 DEF Synced

\* The invariant implies what is promised.
LEMMA SyncedSuffices == Synced => SyncedIsProcessed
BY DEF Synced, Settled, Dealt, SyncedIsProcessed

(* What a step of another node must not disturb.                            *)
Grows ==
    /\ \A p \in Nodes : processed[p] \subseteq processed'[p]
    /\ \A p \in Nodes, t \in Tids : Dealt(p, t) => Dealt(p, t)'
    /\ \A n \in Nodes, t \in Tids : taken[n][t] > 0 =>
         taken'[n][t] > 0 /\ (t \in store'[n] => t \in store[n])

\* A sync that a step does not touch holds on.
LEMMA SyncFrame ==
  ASSUME Records, Grows, NEW n \in Nodes, SyncHolds(n), sync'[n] = sync[n]
  PROVE  SyncHolds(n)'
<1>1. /\ sync[n].offer \in SUBSET Tids /\ sync[n].wanted \in SUBSET Tids
      /\ sync[n].blobs \in SUBSET Tids
      /\ sync[n].phase # "idle" => sync[n].peer \in Nodes
  BY SyncTyped
<1>2. \A t \in sync'[n].offer \cup sync'[n].wanted : taken'[n][t] > 0
  BY <1>1 DEF Grows, SyncHolds
<1>3. sync'[n].phase = "answered" /\ sync'[n].reply = "list" =>
         \A t \in sync'[n].offer : t \in sync'[n].wanted \/ t \in processed'[sync'[n].peer]
  BY <1>1 DEF Grows, SyncHolds
<1>4. sync'[n].phase \in {"transferring", "proved"} =>
         \A t \in sync'[n].wanted \cap store'[n] : t \in sync'[n].blobs
  BY <1>1 DEF Grows, SyncHolds
<1>5. ASSUME sync[n].phase = "proved" PROVE \A t \in sync[n].blobs : Dealt(sync[n].peer, t)'
  <2>1. PICK p \in Nodes : p = sync[n].peer
    BY <1>1, <1>5
  <2>2. \A t \in sync[n].blobs : t \in Tids /\ Dealt(p, t)
    BY <1>1, <1>5, <2>1 DEF SyncHolds
  <2>3. \A t \in sync[n].blobs : Dealt(p, t)'
    BY <2>2 DEF Grows
  <2> QED BY <2>1, <2>3
<1> QED BY <1>2, <1>3, <1>4, <1>5 DEF SyncHolds

(* A step that leaves stores and slots alone.                               *)
LEMMA QuietStep ==
  ASSUME Synced, Records, Rest, NEW n \in Nodes, NEW r \in SyncRecords,
         UNCHANGED <<store, processed, taken, slot, skipped>>,
         sync' = [sync EXCEPT ![n] = r],
         SyncHolds(n)', Entries', Settled',
         \/ r.phase # "transferring" \/ r.at = 0
         \/ r.blobs = sync[n].blobs /\ r.at = sync[n].at /\ r.peer = sync[n].peer /\ r.phase = sync[n].phase
  PROVE  Synced'
<1>1. Grows
  BY DEF Grows, Dealt, Entering
<1>2. \A m \in Nodes : sync'[m] = IF m = n THEN r ELSE sync[m]
  BY DEF Records
<1>3. ASSUME NEW m \in Nodes PROVE SyncHolds(m)'
  BY <1>1, <1>2, SyncFrame DEF Synced
<1>4. ASSUME NEW p \in Nodes, NEW s \in Slots PROVE SlotHolds(p, s)'
  <2>1. SlotHolds(p, s) /\ s # 0
    BY PeerSyncAssumption DEF Synced
  <2>2. CASE slot[p][s].phase # "receiving"
    BY <2>1, <2>2 DEF SlotHolds
  <2>3. CASE slot[p][s].phase = "receiving"
    <3>1. PICK m \in Nodes : m = slot[p][s].from
      BY <2>1, <2>3 DEF SlotHolds
    <3>2. Carried(p, s)' => Carried(p, s) /\ sync'[m].blobs = sync[m].blobs
      BY <1>2, <2>1, <3>1 DEF Carried, SenderOf
    <3> QED BY <2>1, <2>3, <3>1, <3>2 DEF SlotHolds
  <2> QED BY <2>2, <2>3
<1> QED BY <1>3, <1>4 DEF Synced

(* The offering side and the peerings.                                      *)
LEMMA PairSynced ==
  ASSUME Synced, Records, Rest, NEW n \in Nodes, NEW p \in Nodes,
         \/ Peer(n, p) \/ Unpeer(n, p) \/ SyncStart(n, p)
         \/ BackoffExpires(n, p) \/ ThrottleExpires(n, p)
  PROVE  Synced'
<1>a. sync = [sync EXCEPT ![n] = sync[n]]
  BY DEF Records
<1>b. ASSUME UNCHANGED <<store, processed, taken, slot, skipped, unhandled>>,
             \A m \in Nodes : peers'[m] \subseteq peers[m]
      PROVE  Entries' /\ Settled'
  BY <1>b DEF Synced, Entries, Settled, Dealt, Entering, Undistributed
<1>c. sync[n] \in SyncRecords /\ SyncHolds(n)
  BY SyncTyped DEF Synced
<1>d. ASSUME UNCHANGED <<store, processed, taken, slot, skipped, sync>>
      PROVE  SyncHolds(n)'
  BY <1>c, <1>d DEF SyncHolds, Dealt, Entering
<1>1. CASE Peer(n, p)
  <2>1. UNCHANGED <<store, processed, taken, slot, skipped, sync>>
    BY <1>1 DEF Peer
  <2>2. \A m, q \in Nodes : unhandled'[m][q] = IF m = n /\ q = p THEN store[n] ELSE unhandled[m][q]
    BY <1>1 DEF Peer, Rest
  <2>3. \A m \in Nodes : peers'[m] = IF m = n THEN peers[n] \cup {p} ELSE peers[m]
    BY <1>1 DEF Peer, Rest
  <2>4. Entries'
    BY <2>1, <2>2 DEF Synced, Entries
  <2>5. Settled'
    BY <2>1, <2>2, <2>3 DEF Synced, Settled, Dealt, Entering, Undistributed
  <2> QED BY <2>1, <2>4, <2>5, <1>a, <1>c, <1>d, QuietStep
<1>2. CASE Unpeer(n, p)
  <2> DEFINE c == sync[n].current /\ sync[n].peer # p
             r == [sync[n] EXCEPT !.current = c]
  <2>1. c \in BOOLEAN
    OBVIOUS
  <2>2. sync' = [sync EXCEPT ![n] = r] /\ UNCHANGED <<store, processed, taken, slot, skipped, unhandled>>
    BY <1>2, Zenon DEF Unpeer
  <2> HIDE DEF c
  <2>3. r \in SyncRecords /\ r.phase = sync[n].phase /\ r.peer = sync[n].peer /\ r.offer = sync[n].offer
        /\ r.wanted = sync[n].wanted /\ r.blobs = sync[n].blobs /\ r.reply = sync[n].reply /\ r.at = sync[n].at
    BY <1>c, <2>1 DEF SyncRecords
  <2> HIDE DEF r
  <2>4. sync'[n] = r
    BY <2>2 DEF Records
  <2>5. SyncHolds(n)'
    BY <1>c, <2>2, <2>3, <2>4 DEF SyncHolds, Dealt, Entering
  <2>6. \A m \in Nodes : peers'[m] \subseteq peers[m]
    BY <1>2 DEF Unpeer, Rest
  <2> QED BY <1>b, <2>2, <2>3, <2>5, <2>6, QuietStep
<1>3. CASE SyncStart(n, p)
  <2> DEFINE owed == unhandled[n][p] \ Pairs(KnownWeak, p)
             r == [NoSync EXCEPT !.phase = "establishing", !.peer = p, !.offer = owed, !.current = TRUE]
  <2>1. owed \in SUBSET Tids /\ \A t \in owed : taken[n][t] > 0
    BY DEF Rest, Synced, Entries
  <2>2. sync' = [sync EXCEPT ![n] = r] /\ UNCHANGED <<store, processed, taken, slot, skipped, unhandled, peers>>
    BY <1>3 DEF SyncStart
  <2>3. r \in SyncRecords /\ r.phase = "establishing" /\ r.at = 0 /\ r.offer = owed /\ r.wanted = {}
    BY <2>1 DEF NoSync, SyncRecords, Phases
  <2> HIDE DEF r, owed
  <2>4. sync'[n] = r
    BY <2>2 DEF Records
  <2>5. SyncHolds(n)'
    BY <2>1, <2>2, <2>3, <2>4 DEF SyncHolds
  <2> QED BY <1>b, <2>2, <2>3, <2>5, QuietStep
<1>4. CASE BackoffExpires(n, p) \/ ThrottleExpires(n, p)
  <2>1. UNCHANGED <<store, processed, taken, slot, skipped, sync, unhandled, peers>>
    BY <1>4 DEF BackoffExpires, ThrottleExpires
  <2> QED BY <2>1, <1>a, <1>b, <1>c, <1>d, QuietStep
<1> QED BY <1>1, <1>2, <1>3, <1>4

(* A step of one slot that stores nothing.                                   *)
LEMMA SlotStep ==
  ASSUME Synced, Records, Rest, NEW p \in Nodes, NEW s \in Slots, NEW r \in SlotRecords,
         slot' = [slot EXCEPT ![p][s] = r],
         UNCHANGED <<store, processed, taken, unhandled, peers>>,
         \A q \in Nodes : skipped[q] \subseteq skipped'[q],
         slot[p][s].phase \in {"validating", "awaiting"} =>
            slot[p][s].rest \cup slot[p][s].stored \subseteq skipped'[p]
  PROVE  /\ Grows /\ Entries' /\ Settled'
         /\ \A q \in Nodes, u \in Slots : slot'[q][u] = IF q = p /\ u = s THEN r ELSE slot[q][u]
<1>1. \A q \in Nodes, u \in Slots : slot'[q][u] = IF q = p /\ u = s THEN r ELSE slot[q][u]
  BY DEF Records
<1>2. ASSUME NEW q \in Nodes, NEW t \in Tids, Entering(q, t) PROVE Entering(q, t)' \/ t \in skipped'[q]
  BY <1>1, <1>2 DEF Entering
<1>3. Grows
  BY <1>2 DEF Grows, Dealt
<1>4. Entries'
  BY DEF Synced, Entries
<1>5. ASSUME NEW m \in Nodes, NEW t \in Tids, Undistributed(m, t) PROVE Undistributed(m, t)' \/ t \in skipped'[m]
  <2>1. PICK u \in Slots : t \in slot[m][u].stored
    BY <1>5 DEF Undistributed
  <2>2. SlotHolds(m, u)
    BY DEF Synced
  <2>3. m = p /\ u = s => t \in skipped'[m]
    BY <2>1, <2>2 DEF SlotHolds
  <2> QED BY <1>1, <2>1, <2>3 DEF Undistributed
<1>6. ASSUME NEW m \in Nodes, NEW q \in Nodes, NEW t \in store'[m], q \in peers'[m], t \notin unhandled'[m][q]
      PROVE  Dealt(q, t)' \/ Undistributed(m, t)' \/ t \in skipped'[m]
  <2>1. t \in Tids /\ t \in store[m] /\ q \in peers[m] /\ t \notin unhandled[m][q]
    BY <1>6 DEF Rest
  <2>2. Dealt(q, t) \/ Undistributed(m, t) \/ t \in skipped[m]
    BY <2>1 DEF Synced, Settled
  <2>3. Dealt(q, t) => Dealt(q, t)'
    BY <1>3, <2>1 DEF Grows
  <2>4. Undistributed(m, t) => Undistributed(m, t)' \/ t \in skipped'[m]
    BY <1>5, <2>1
  <2> QED BY <2>2, <2>3, <2>4
<1>7. Settled'
  BY <1>6 DEF Settled
<1> QED BY <1>1, <1>3, <1>4, <1>7

(* The same when no sync moves either.                                      *)
LEMMA SlotStepAlone ==
  ASSUME Synced, Records, Rest, NEW p \in Nodes, NEW s \in Slots, NEW r \in SlotRecords,
         slot' = [slot EXCEPT ![p][s] = r], r.phase # "receiving",
         r.phase # "validating" => r.stored = {},
         UNCHANGED <<store, processed, taken, unhandled, peers, sync>>,
         \A q \in Nodes : skipped[q] \subseteq skipped'[q],
         slot[p][s].phase \in {"validating", "awaiting"} =>
            slot[p][s].rest \cup slot[p][s].stored \subseteq skipped'[p]
  PROVE  Synced'
<1>1. /\ Grows /\ Entries' /\ Settled'
      /\ \A q \in Nodes, u \in Slots : slot'[q][u] = IF q = p /\ u = s THEN r ELSE slot[q][u]
  <2>1. UNCHANGED <<store, processed, taken, unhandled, peers>>
    OBVIOUS
  <2>2. slot' = [slot EXCEPT ![p][s] = r]
    OBVIOUS
  <2>3. \A q \in Nodes : skipped[q] \subseteq skipped'[q]
    OBVIOUS
  <2>4. slot[p][s].phase \in {"validating", "awaiting"} => slot[p][s].rest \cup slot[p][s].stored \subseteq skipped'[p]
    OBVIOUS
  <2> QED BY ONLY Synced, Records, Rest, <2>1, <2>2, <2>3, <2>4, SlotStep
<1>2. \A m \in Nodes : SyncHolds(m)'
  BY <1>1, SyncFrame DEF Synced
<1>3. ASSUME NEW q \in Nodes, NEW u \in Slots PROVE SlotHolds(q, u)'
  <2>1. SlotHolds(q, u)
    BY DEF Synced
  <2> QED BY <1>1, <2>1 DEF SlotHolds, Carried, SenderOf
<1> QED BY <1>1, <1>2, <1>3 DEF Synced

\* The offering side strikes from a queue only what the peer has dealt with.
LEMMA OfferingSynced ==
  ASSUME Synced, Once, Records, Rest, NEW n \in Nodes,
         Offering(n) \/ SyncFails(n) \/ OfferError(n)
  PROVE  Synced'
<1> DEFINE p == sync[n].peer
<1>a. /\ sync[n] \in SyncRecords /\ SyncHolds(n)
      /\ sync[n].offer \in SUBSET Tids /\ sync[n].wanted \in SUBSET Tids
      /\ sync[n].blobs \in SUBSET Tids
      /\ sync[n].phase # "idle" => p \in Nodes
  BY SyncTyped DEF Synced
<1>b. NoSync \in SyncRecords /\ NoSync.phase = "idle" /\ NoSync.at = 0 /\ NoSync.offer = {} /\ NoSync.wanted = {}
  BY RecordsTyped DEF NoSync, SyncOK
<1>c. ASSUME NEW r, sync' = [sync EXCEPT ![n] = r] PROVE sync'[n] = r
  BY <1>c DEF Records
<1>d. ASSUME UNCHANGED <<store, processed, taken, slot, skipped, unhandled, peers>>
      PROVE  Entries' /\ Settled'
  BY <1>d DEF Synced, Entries, Settled, Dealt, Entering, Undistributed
<1>e. ASSUME NEW ts, p \in Nodes, unhandled' = MarkHandled(n, p, ts),
             \A t \in ts : t \in store[n] => Dealt(p, t),
             UNCHANGED <<store, processed, taken, slot, skipped, peers>>
      PROVE  Entries' /\ Settled'
  <2>1. \A m, q \in Nodes : unhandled'[m][q] = IF m = n /\ q = p THEN unhandled[n][p] \ ts ELSE unhandled[m][q]
    BY <1>e DEF MarkHandled, Rest
  <2>2. Entries'
    BY <1>e, <2>1 DEF Synced, Entries
  <2>3. Settled'
    BY <1>e, <2>1 DEF Synced, Settled, Dealt, Entering, Undistributed
  <2> QED BY <2>2, <2>3
<1>f. ASSUME sync' = [sync EXCEPT ![n] = NoSync] PROVE SyncHolds(n)'
  <2>1. sync'[n] = NoSync
    BY <1>c, <1>f
  <2> QED BY <1>b, <2>1 DEF SyncHolds
<1>1. CASE LinkReady(n)
  <2> DEFINE large == sync[n].offer \cap Pairs(TooLarge, p)
  <2>0. p \in Nodes /\ UNCHANGED <<store, processed, taken, slot, skipped, peers>> /\ unhandled' = MarkHandled(n, p, large)
    BY <1>1, <1>a DEF LinkReady
  <2>1. PICK offer \in SUBSET (sync[n].offer \ large) :
          sync' = [sync EXCEPT ![n] = IF offer = {} THEN NoSync
                                      ELSE [@ EXCEPT !.phase = "offering", !.offer = offer]]
    BY <1>1 DEF LinkReady
  <2>2. \A t \in large : Dealt(p, t)
    BY DEF Dealt, Pairs
  <2>3. Entries' /\ Settled'
    BY <1>e, <2>0, <2>2
  <2>4. CASE offer = {}
    BY <1>b, <1>f, <2>0, <2>1, <2>3, <2>4, QuietStep
  <2>5. CASE offer # {}
    <3> DEFINE r == [sync[n] EXCEPT !.phase = "offering", !.offer = offer]
    <3>1. r \in SyncRecords /\ r.phase = "offering" /\ r.at = sync[n].at /\ r.offer = offer /\ r.wanted = sync[n].wanted
      BY <1>a, <2>1 DEF SyncRecords, Phases
    <3>2. sync' = [sync EXCEPT ![n] = r]
      BY <2>1, <2>5
    <3> HIDE DEF r
    <3>3. sync'[n] = r
      BY <1>c, <3>2
    <3>4. sync[n].phase = "establishing"
      BY <1>1 DEF LinkReady
    <3>5. SyncHolds(n)'
      BY <1>a, <2>0, <2>1, <3>1, <3>3, <3>4 DEF SyncHolds
    <3> QED BY <2>0, <2>3, <3>1, <3>2, <3>5, QuietStep
  <2> QED BY <2>4, <2>5
<1>2. CASE HandleAnswer(n)
  <2>0. p \in Nodes /\ sync[n].phase = "answered" /\ UNCHANGED <<store, processed, taken, slot, skipped, peers>>
    BY <1>2, <1>a DEF HandleAnswer
  <2>1. Entries' /\ Settled'
    <3>1. CASE sync[n].reply = "list"
      <4>1. unhandled' = MarkHandled(n, p, sync[n].offer \ sync[n].wanted)
        BY <1>2, <3>1 DEF HandleAnswer
      <4>2. \A t \in sync[n].offer \ sync[n].wanted : Dealt(p, t)
        BY <1>a, <2>0, <3>1 DEF SyncHolds, Dealt
      <4> QED BY <1>e, <2>0, <4>1, <4>2
    <3>2. CASE sync[n].reply # "list"
      BY <1>2, <1>d, <2>0, <3>2 DEF HandleAnswer
    <3> QED BY <3>1, <3>2
  <2>2. CASE sync[n].reply = "list" /\ sync[n].wanted # {}
    <3> DEFINE r == [sync[n] EXCEPT !.phase = "transferring", !.blobs = sync[n].wanted \cap store[n]]
    <3>1. r \in SyncRecords /\ r.phase = "transferring" /\ r.at = sync[n].at /\ r.offer = sync[n].offer /\ r.wanted = sync[n].wanted
          /\ r.blobs = sync[n].wanted \cap store[n]
      BY <1>a DEF SyncRecords, Phases
    <3>2. sync' = [sync EXCEPT ![n] = r]
      BY <1>2, <2>2 DEF HandleAnswer
    <3> HIDE DEF r
    <3>3. sync'[n] = r
      BY <1>c, <3>2
    <3>4. sync[n].at = 0
      BY <1>a, <2>0 DEF SyncHolds
    <3>5. SyncHolds(n)'
      BY <1>a, <2>0, <3>1, <3>3, <3>4 DEF SyncHolds
    <3> QED BY <2>0, <2>1, <3>1, <3>2, <3>4, <3>5, QuietStep
  <2>3. CASE ~(sync[n].reply = "list" /\ sync[n].wanted # {})
    <3>1. sync' = [sync EXCEPT ![n] = NoSync]
      BY <1>2, <2>3 DEF HandleAnswer
    <3> QED BY <1>b, <1>f, <2>0, <2>1, <3>1, QuietStep
  <2> QED BY <2>2, <2>3
<1>3. CASE HandleComplete(n)
  <2>1. p \in Nodes /\ sync[n].phase = "proved" /\ UNCHANGED <<store, processed, taken, slot, skipped, peers>>
        /\ unhandled' = MarkHandled(n, p, sync[n].wanted) /\ sync' = [sync EXCEPT ![n] = NoSync]
    BY <1>3, <1>a DEF HandleComplete
  <2>2. \A t \in sync[n].wanted : t \in store[n] => Dealt(p, t)
    BY <1>a, <2>1 DEF SyncHolds
  <2>3. Entries' /\ Settled'
    BY <1>e, <2>1, <2>2
  <2> QED BY <1>b, <1>f, <2>1, <2>3, QuietStep
<1>4. CASE HandleOffer(n)
  <2>0. p \in Nodes /\ sync[n].phase = "offering" /\ UNCHANGED <<store, processed, taken, slot, skipped, peers, unhandled>>
    BY <1>4, <1>a DEF HandleOffer
  <2> DEFINE re == IF Refused(p, n) THEN "throttled" ELSE "list"
             w == IF Refused(p, n) THEN {} ELSE sync[n].offer \ Has(p)
             r == [sync[n] EXCEPT !.phase = "answered", !.reply = re, !.wanted = w]
  <2>1. re \in {"list", "throttled"} /\ w \in SUBSET sync[n].offer /\ (re = "list" => \A t \in sync[n].offer : t \in w \/ t \in Has(p))
    OBVIOUS
  <2>2. sync' = [sync EXCEPT ![n] = r]
    BY <1>4 DEF HandleOffer
  <2> HIDE DEF re, w
  <2>3. r \in SyncRecords /\ r.phase = "answered" /\ r.at = sync[n].at /\ r.offer = sync[n].offer /\ r.wanted = w /\ r.reply = re /\ r.peer = p
    BY <1>a, <2>1 DEF SyncRecords, Phases
  <2> HIDE DEF r
  <2>4. sync'[n] = r
    BY <1>c, <2>2
  <2>5. \A t \in Has(p) : t \in processed[p]
    BY <2>0 DEF Has, Synced, Entries, Once, Rest
  <2>6. SyncHolds(n)'
    BY <1>a, <2>0, <2>1, <2>3, <2>4, <2>5 DEF SyncHolds
  <2> QED BY <1>d, <2>0, <2>2, <2>3, <2>6, QuietStep
<1>5. CASE OfferError(n)
  <2> DEFINE r == [sync[n] EXCEPT !.phase = "answered", !.reply = "error"]
  <2>0. sync[n].phase = "offering" /\ UNCHANGED <<store, processed, taken, slot, skipped, peers, unhandled>> /\ sync' = [sync EXCEPT ![n] = r]
    BY <1>5 DEF OfferError
  <2>1. r \in SyncRecords /\ r.phase = "answered" /\ r.at = sync[n].at /\ r.offer = sync[n].offer /\ r.wanted = sync[n].wanted /\ r.reply = "error"
    BY <1>a DEF SyncRecords, Phases
  <2> HIDE DEF r
  <2>2. sync'[n] = r
    BY <1>c, <2>0
  <2>3. SyncHolds(n)'
    BY <1>a, <2>0, <2>1, <2>2 DEF SyncHolds
  <2> QED BY <1>d, <2>0, <2>1, <2>3, QuietStep
<1>6. CASE SyncFails(n)
  <2>1. UNCHANGED <<store, processed, taken, slot, skipped, peers, unhandled>> /\ sync' = [sync EXCEPT ![n] = NoSync]
    BY <1>6 DEF SyncFails
  <2> QED BY <1>b, <1>d, <1>f, <2>1, QuietStep
<1>7. ASSUME NEW s \in Slots, TransferBegins(n, s) PROVE Synced'
  <2> DEFINE r == [Free EXCEPT !.phase = "receiving", !.from = n, !.rest = sync[n].blobs]
             z == [sync[n] EXCEPT !.at = s]
  <2>0. /\ p \in Nodes /\ sync[n].phase = "transferring" /\ slot[p][s] = Free
        /\ slot' = [slot EXCEPT ![p][s] = r] /\ sync' = [sync EXCEPT ![n] = z]
        /\ UNCHANGED <<store, processed, taken, unhandled, peers, skipped>>
    BY <1>7, <1>a DEF TransferBegins
  <2>1. r \in SlotRecords /\ r.phase = "receiving" /\ r.from = n /\ r.rest = sync[n].blobs /\ r.stored = {} /\ Free.phase = "free"
    BY <1>a DEF SlotRecords, SlotPhases, Free
  <2>2. z.phase = "transferring" /\ z.at = s /\ z.peer = p /\ z.offer = sync[n].offer /\ z.wanted = sync[n].wanted /\ z.blobs = sync[n].blobs
    BY <1>a, <2>0 DEF SyncRecords
  <2> HIDE DEF r, z
  <2>3. /\ Grows /\ Entries' /\ Settled'
        /\ \A q \in Nodes, u \in Slots : slot'[q][u] = IF q = p /\ u = s THEN r ELSE slot[q][u]
    BY <2>0, <2>1, SlotStep
  <2>4. \A m \in Nodes : sync'[m] = IF m = n THEN z ELSE sync[m]
    BY <2>0 DEF Records
  <2>5. SyncHolds(n)'
    BY <1>a, <2>0, <2>2, <2>4 DEF SyncHolds
  <2>6. \A m \in Nodes : SyncHolds(m)'
    BY <2>3, <2>4, <2>5, SyncFrame DEF Synced
  <2>7. ASSUME NEW q \in Nodes, NEW u \in Slots PROVE SlotHolds(q, u)'
    <3>1. SlotHolds(q, u)
      BY DEF Synced
    <3>2. CASE q = p /\ u = s
      BY <2>1, <2>2, <2>3, <2>4, <3>2 DEF SlotHolds
    <3>3. CASE ~(q = p /\ u = s)
      <4>1. slot'[q][u] = slot[q][u]
        BY <2>3, <3>3
      <4>2. CASE slot[q][u].phase # "receiving"
        BY <3>1, <4>1, <4>2 DEF SlotHolds
      <4>3. CASE slot[q][u].phase = "receiving"
        <5>1. slot[q][u].from \in Nodes
          BY <3>1, <4>3 DEF SlotHolds
        <5>2. Carried(q, u)' => slot[q][u].from # n /\ Carried(q, u)
          BY <2>2, <2>4, <3>3, <4>1, <5>1 DEF Carried, SenderOf
        <5> QED BY <2>4, <3>1, <4>1, <4>3, <5>1, <5>2 DEF SlotHolds
      <4> QED BY <4>2, <4>3
    <3> QED BY <3>2, <3>3
  <2> QED BY <2>3, <2>6, <2>7 DEF Synced
<1> QED BY <1>1, <1>2, <1>3, <1>4, <1>5, <1>6, <1>7 DEF Offering

(* One stretch of the loop: what it had in hand is stored and owed to every  *)
(* peer, still in hand, or refused.                                          *)
LEMMA PassSynced ==
  ASSUME Synced, Once, Records, Rest, NEW p \in Nodes, NEW s \in Slots, NEW b \in SlotOK,
         NEW kept \in SUBSET Tids, NEW delivered \in SUBSET Tids,
         NEW done \in SUBSET b.rest, NEW next \in SUBSET b.rest,
         Pass(p, s, b, kept, delivered, done, next),
         \A t \in kept : Waits(p, s) /\ t \in slot[p][s].cur,
         slot[p][s].phase \in {"validating", "awaiting"},
         b.stored = slot[p][s].stored,
         \A t \in slot[p][s].rest : t \in b.rest \/ <<t, p>> \in Weak,
         UNCHANGED <<peers, sync, skipped>>
  PROVE  Synced'
<1> DEFINE new == done \ Has(p)
           stored == b.stored \cup kept \cup new
           ends == next = {}
<1>1. /\ ends => done = b.rest
      /\ store' = [store EXCEPT ![p] = @ \cup kept \cup new]
      /\ processed' = [processed EXCEPT ![p] = @ \cup new \cup next]
      /\ taken' = [taken EXCEPT ![p] = Counted(@, kept \cup new \cup delivered)]
      /\ unhandled' = [unhandled EXCEPT ![p] = [q \in Nodes |->
            IF ends /\ q \in peers[p] THEN @[q] \cup (stored \cap store'[p]) ELSE @[q]]]
      /\ slot' = [slot EXCEPT ![p][s] =
            IF ~ ends THEN [b EXCEPT !.phase = "awaiting", !.cur = next,
                              !.rest = b.rest \ (done \cup next), !.stored = stored]
            ELSE IF b.rejected THEN [Free EXCEPT !.phase = "throttling", !.from = b.from]
            ELSE Free]
  BY DEF Pass
<1>2. b.rest \in SUBSET Tids /\ b.stored \in SUBSET Tids /\ b \in SlotRecords
  BY DEF SlotOK, SlotRecords
<1>3. /\ \A q \in Nodes : store'[q] = IF q = p THEN store[p] \cup kept \cup new ELSE store[q]
      /\ \A q \in Nodes : processed'[q] = IF q = p THEN processed[p] \cup new \cup next ELSE processed[q]
      /\ \A q \in Nodes, t \in Tids : taken'[q][t] = IF q = p /\ t \in kept \cup new \cup delivered THEN taken[q][t] + 1 ELSE taken[q][t]
  BY <1>1 DEF Rest, Counted
<1>4. \A q, m \in Nodes : unhandled'[q][m] = IF q = p /\ ends /\ m \in peers[p] THEN unhandled[q][m] \cup (stored \cap store'[p]) ELSE unhandled[q][m]
  BY <1>1 DEF Rest
<1>5. \A q \in Nodes, u \in Slots : ~(q = p /\ u = s) => slot'[q][u] = slot[q][u]
  BY <1>1 DEF Records
<1>6. IF ends THEN slot'[p][s].phase \in {"free", "throttling"} /\ slot'[p][s].stored = {}
      ELSE slot'[p][s].phase = "awaiting" /\ slot'[p][s].rest = b.rest \ (done \cup next) /\ slot'[p][s].stored = stored
  BY <1>1, <1>2 DEF Records, SlotRecords, Free
<1>7. \A t \in Has(p) : t \in processed[p]
  BY DEF Has, Synced, Entries, Once, Rest
<1>8. \A t \in kept : taken[p][t] = 0
  BY DEF Once
<1>9. \A t \in Tids : taken[p][t] > 0 => t \in Has(p)
  BY DEF Has, Once
<1> HIDE DEF new
<1>10. new \subseteq done /\ \A t \in done : t \in new \/ t \in Has(p)
  BY DEF new
<1>11. \A t \in new : t \notin Has(p)
  BY DEF new
<1>12. ASSUME NEW q \in Nodes, NEW t \in Tids, Entering(q, t) PROVE Entering(q, t)' \/ t \in processed'[q] \/ <<t, q>> \in Weak
  <2>1. PICK u \in Slots : slot[q][u].phase \in {"validating", "awaiting"} /\ t \in slot[q][u].rest
    BY <1>12 DEF Entering
  <2>2. CASE ~(q = p /\ u = s)
    BY <1>5, <2>1, <2>2 DEF Entering
  <2>3. CASE q = p /\ u = s /\ t \notin b.rest
    BY <2>1, <2>3
  <2>4. CASE q = p /\ u = s /\ t \in b.rest /\ t \in done \cup next
    BY <1>3, <1>7, <1>10, <2>4
  <2>5. CASE q = p /\ u = s /\ t \in b.rest /\ t \notin done \cup next
    <3>1. ~ ends
      BY <1>1, <2>5
    <3> QED BY <1>6, <2>5, <3>1 DEF Entering
  <2> QED BY <2>2, <2>3, <2>4, <2>5
<1>13. Grows
  <2>1. \A q \in Nodes : processed[q] \subseteq processed'[q]
    BY <1>3
  <2>2. \A q \in Nodes, t \in Tids : Dealt(q, t) => Dealt(q, t)'
    BY <1>12, <2>1 DEF Dealt
  <2>3. \A q \in Nodes, t \in Tids : taken[q][t] > 0 => taken'[q][t] > 0 /\ (t \in store'[q] => t \in store[q])
    <3>1. \A q \in Nodes, t \in Tids : taken[q][t] \in Nat
      BY DEF Rest
    <3>2. \A q \in Nodes, t \in Tids : taken[q][t] > 0 => taken'[q][t] > 0
      BY <1>3, <3>1
    <3>3. \A t \in Tids : taken[p][t] > 0 => t \notin kept \cup new
      BY <1>8, <1>9, <1>11
    <3> QED BY <1>3, <3>2, <3>3
  <2> QED BY <2>1, <2>2, <2>3 DEF Grows
<1>14. Entries'
  <2>1. ASSUME NEW q \in Nodes, NEW t \in store'[q] PROVE taken'[q][t] > 0
    <3>1. store[q] \subseteq Tids /\ kept \cup new \subseteq Tids /\ (t \in store[q] => taken[q][t] > 0)
      BY <1>2, <1>10 DEF Rest, Synced, Entries
    <3>2. t \in Tids /\ taken[q][t] \in Nat
      <4>1. t \in store[q] \/ t \in kept \cup new
        BY <1>3, <2>1
      <4>2. t \in Tids
        BY <3>1, <4>1
      <4> QED BY <4>2 DEF Rest
    <3> QED BY <1>3, <2>1, <3>1, <3>2
  <2>2. \A q, m \in Nodes : unhandled'[q][m] \subseteq store'[q]
    <3>1. \A q, m \in Nodes : unhandled[q][m] \subseteq store[q] /\ store[q] \subseteq store'[q]
      BY <1>3 DEF Synced, Entries
    <3> HIDE DEF stored, ends
    <3>2. ASSUME NEW q \in Nodes, NEW m \in Nodes PROVE unhandled'[q][m] \subseteq unhandled[q][m] \cup store'[q]
      BY <1>4
    <3> QED BY <3>1, <3>2
  <2> QED BY <2>1, <2>2 DEF Entries
<1>15. ASSUME NEW m \in Nodes, NEW q \in Nodes, NEW t \in store'[m], q \in peers'[m], t \notin unhandled'[m][q]
      PROVE  Dealt(q, t)' \/ Undistributed(m, t)' \/ t \in skipped'[m]
  <2>1. t \in Tids /\ t \notin unhandled[m][q] /\ q \in peers[m]
    <3>1. store'[m] \subseteq Tids
      BY <1>2, <1>3, <1>10 DEF Rest
    <3> QED BY <1>4, <1>15, <3>1
  <2>2. CASE m = p /\ t \in stored
    <3>1. ~ ends
      BY <1>4, <1>15, <2>1, <2>2
    <3> QED BY <1>6, <2>2, <3>1 DEF Undistributed
  <2>3. CASE ~(m = p /\ t \in stored)
    <3>1. t \in store[m]
      BY <1>3, <2>3
    <3>2. Dealt(q, t) \/ Undistributed(m, t) \/ t \in skipped[m]
      BY <2>1, <3>1 DEF Synced, Settled
    <3>3. Dealt(q, t) => Dealt(q, t)'
      BY <1>13, <2>1 DEF Grows
    <3>4. Undistributed(m, t) => Undistributed(m, t)'
      BY <1>5, <2>3 DEF Undistributed
    <3> QED BY <3>2, <3>3, <3>4
  <2> QED BY <2>2, <2>3
<1>16. Settled'
  BY <1>15 DEF Settled
<1>17. \A m \in Nodes : SyncHolds(m)'
  BY <1>13, SyncFrame DEF Synced
<1>18. ASSUME NEW q \in Nodes, NEW u \in Slots PROVE SlotHolds(q, u)'
  <2>1. SlotHolds(q, u)
    BY DEF Synced
  <2>2. CASE q = p /\ u = s
    BY <1>6, <2>2 DEF SlotHolds
  <2>3. CASE ~(q = p /\ u = s)
    BY <1>5, <2>1, <2>3 DEF SlotHolds, Carried, SenderOf
  <2> QED BY <2>2, <2>3
<1> QED BY <1>14, <1>16, <1>17, <1>18 DEF Synced

\* A batch that is ingested is queued for the other peers.
LEMMA IngestSynced ==
  ASSUME Synced, Once, Records, Rest, NEW p \in Nodes, NEW s \in Slots, NEW b \in SlotOK,
         NEW kept \in SUBSET Tids, NEW delivered \in SUBSET Tids,
         Ingest(p, s, b, kept, delivered),
         \A t \in kept : Waits(p, s) /\ t \in slot[p][s].cur,
         slot[p][s].phase \in {"validating", "awaiting"},
         b.stored = slot[p][s].stored,
         \A t \in slot[p][s].rest : t \in b.rest \/ <<t, p>> \in Weak,
         UNCHANGED <<peers, sync, skipped>>
  PROVE  Synced'
<1>1. PICK done \in SUBSET b.rest : \E next \in {{}} \cup {{t} : t \in b.rest \ done} :
        Pass(p, s, b, kept, delivered, done, next)
  BY DEF Ingest
<1>2. PICK next \in {{}} \cup {{t} : t \in b.rest \ done} :
        Pass(p, s, b, kept, delivered, done, next)
  BY <1>1
<1>3. next \in SUBSET b.rest
  BY <1>2
<1> QED BY <1>2, <1>3, PassSynced

\* The receiving side answers for what it has, and only for that.
LEMMA ReceivingSynced ==
  ASSUME Synced, Once, Records, Rest, NEW p \in Nodes, NEW s \in Slots,
         Receiving(p, s) \/ FilterThrows(p, s)
  PROVE  Synced'
<1>a. /\ slot[p][s] \in SlotOK /\ slot[p][s] \in SlotRecords /\ SlotHolds(p, s)
      /\ slot[p][s].cur \in SUBSET Tids /\ slot[p][s].rest \in SUBSET Tids
      /\ slot[p][s].from \in Nodes \cup {NoNode}
  BY SlotTyped DEF Synced
<1>b. Free \in SlotRecords /\ Free.phase = "free" /\ Free.stored = {}
  BY RecordsTyped DEF Free, SlotOK
<1>1. CASE TransferEnds(p, s)
  <2>1. PICK n \in Nodes : n = slot[p][s].from /\ slot[p][s].rest = sync[n].blobs
    BY <1>1, <1>a DEF TransferEnds, SlotHolds
  <2> DEFINE r == [slot[p][s] EXCEPT !.phase = "validating"]
             z == [sync[n] EXCEPT !.phase = "proved"]
  <2>2. /\ slot' = [slot EXCEPT ![p][s] = r] /\ sync' = [sync EXCEPT ![n] = z]
        /\ sync[n].phase = "transferring" /\ sync[n].peer = p /\ slot[p][s].phase = "receiving"
        /\ UNCHANGED <<store, processed, taken, unhandled, peers>> /\ UNCHANGED skipped
    BY <1>1, <2>1 DEF TransferEnds, Carried, SenderOf
  <2>3. r \in SlotRecords /\ r.phase = "validating" /\ r.rest = slot[p][s].rest /\ r.stored = slot[p][s].stored
    BY <1>a DEF SlotRecords, SlotPhases
  <2>4. sync[n] \in SyncRecords /\ SyncHolds(n)
    BY SyncTyped DEF Synced
  <2>5. z.phase = "proved" /\ z.at = sync[n].at /\ z.peer = p /\ z.offer = sync[n].offer /\ z.wanted = sync[n].wanted /\ z.blobs = sync[n].blobs
    BY <2>2, <2>4 DEF SyncRecords
  <2> HIDE DEF r, z
  <2>6. /\ Grows /\ Entries' /\ Settled'
        /\ \A q \in Nodes, u \in Slots : slot'[q][u] = IF q = p /\ u = s THEN r ELSE slot[q][u]
    BY <2>2, <2>3, SlotStep
  <2>7. \A m \in Nodes : sync'[m] = IF m = n THEN z ELSE sync[m]
    BY <2>2 DEF Records
  <2>8. \A t \in sync[n].blobs : Dealt(p, t)'
    BY <2>1, <2>3, <2>6 DEF Dealt, Entering
  <2>9. SyncHolds(n)'
    BY <2>2, <2>4, <2>5, <2>7, <2>8 DEF SyncHolds
  <2>10. \A m \in Nodes : SyncHolds(m)'
    BY <2>6, <2>7, <2>9, SyncFrame DEF Synced
  <2>11. ASSUME NEW q \in Nodes, NEW u \in Slots PROVE SlotHolds(q, u)'
    <3>1. SlotHolds(q, u)
      BY DEF Synced
    <3>2. CASE q = p /\ u = s
      BY <2>3, <2>6, <3>2 DEF SlotHolds
    <3>3. CASE ~(q = p /\ u = s)
      <4>1. slot'[q][u] = slot[q][u]
        BY <2>6, <3>3
      <4>2. CASE slot[q][u].phase # "receiving"
        BY <3>1, <4>1, <4>2 DEF SlotHolds
      <4>3. CASE slot[q][u].phase = "receiving"
        <5>1. slot[q][u].from \in Nodes
          BY <3>1, <4>3 DEF SlotHolds
        <5>2. Carried(q, u)' => slot[q][u].from # n /\ Carried(q, u)
          BY <2>5, <2>7, <4>1, <5>1 DEF Carried, SenderOf
        <5> QED BY <2>7, <3>1, <4>1, <4>3, <5>1, <5>2 DEF SlotHolds
      <4> QED BY <4>2, <4>3
    <3> QED BY <3>2, <3>3
  <2> QED BY <2>6, <2>10, <2>11 DEF Synced
<1>2. CASE TransferFails(p, s) \/ ThrottlePeer(p, s)
  <2>1. slot' = [slot EXCEPT ![p][s] = Free] /\ UNCHANGED <<store, processed, taken, unhandled, peers, sync>> /\ UNCHANGED skipped
        /\ slot[p][s].phase \in {"receiving", "throttling"}
    BY <1>2 DEF TransferFails, ThrottlePeer
  <2> QED BY <1>b, <2>1, SlotStepAlone
<1>3. CASE FilterThrows(p, s)
  <2>1. slot' = [slot EXCEPT ![p][s] = Free] /\ UNCHANGED <<store, processed, taken, unhandled, peers, sync>>
        /\ skipped' = [skipped EXCEPT ![p] = @ \cup slot[p][s].rest \cup slot[p][s].stored]
    BY <1>3 DEF FilterThrows
  <2>2. (\A q \in Nodes : skipped[q] \subseteq skipped'[q]) /\ slot[p][s].rest \cup slot[p][s].stored \subseteq skipped'[p]
    BY <2>1 DEF Rest
  <2> QED BY <1>b, <2>1, <2>2, SlotStepAlone
<1>4. CASE Validated(p, s)
  <2> DEFINE weak == slot[p][s].rest \cap Pairs(Weak, p)
             batch == [slot[p][s] EXCEPT !.rest = @ \ weak,
                         !.rejected = weak # {} /\ slot[p][s].from # NoNode]
  <2>1. batch \in SlotOK /\ batch.stored = slot[p][s].stored /\ batch.rest = slot[p][s].rest \ weak
    BY <1>a DEF SlotOK, SlotRecords
  <2>2. PICK b \in SlotOK, k \in SUBSET Tids : b = batch /\ k = {}
    BY <2>1
  <2>3. Ingest(p, s, b, k, k) /\ slot[p][s].phase = "validating" /\ UNCHANGED <<peers, sync, skipped>>
    BY <1>4, <2>2 DEF Validated
  <2>4. \A t \in slot[p][s].rest : t \in b.rest \/ <<t, p>> \in Weak
    BY <2>1, <2>2 DEF Pairs
  <2>5. b.stored = slot[p][s].stored
    BY <2>1, <2>2
  <2>6. \A t \in k : Waits(p, s) /\ t \in slot[p][s].cur
    BY <2>2
  <2> HIDE DEF batch, weak
  <2> QED BY <2>3, <2>4, <2>5, <2>6, IngestSynced
<1>5. CASE FilterKeeps(p, s) \/ FilterDrops(p, s) \/ LocalDelivery(p, s)
  <2>1. PICK b \in SlotOK, c \in SUBSET Tids, k \in SUBSET Tids :
          b = slot[p][s] /\ c = slot[p][s].cur /\ k = {}
    BY <1>a
  <2>2. Ingest(p, s, b, c, k) \/ Ingest(p, s, b, k, k) \/ Ingest(p, s, b, k, c)
    BY <1>5, <2>1 DEF FilterKeeps, FilterDrops, LocalDelivery
  <2>3. Waits(p, s) /\ slot[p][s].phase = "awaiting" /\ UNCHANGED <<peers, sync, skipped>>
    BY <1>5 DEF FilterKeeps, FilterDrops, LocalDelivery, Waits
  <2> QED BY <2>1, <2>2, <2>3, IngestSynced
<1> QED BY <1>1, <1>2, <1>3, <1>4, <1>5 DEF Receiving

\* Every step keeps the invariant.
LEMMA NextSynced == Typed /\ Once /\ Synced /\ [Next]_vars => Synced'
<1> SUFFICES ASSUME Records, Rest, Once, Synced, [Next]_vars PROVE Synced'
  BY TypedParts
<1>1. ASSUME NEW n \in Nodes, NEW s \in Slots, NEW t \in Tids, Submit(n, s, t) PROVE Synced'
  <2> DEFINE r == [Free EXCEPT !.phase = "validating", !.rest = {t}]
  <2>1. r \in SlotRecords /\ r.phase = "validating" /\ Free.phase = "free"
    BY DEF Free, SlotRecords, SlotPhases
  <2>2. slot' = [slot EXCEPT ![n][s] = r] /\ UNCHANGED <<store, processed, taken, unhandled, peers, sync>>
        /\ UNCHANGED skipped /\ slot[n][s] = Free
    BY <1>1 DEF Submit
  <2> HIDE DEF r
  <2> QED BY <2>1, <2>2, SlotStepAlone
<1>2. ASSUME NEW n \in Nodes, NEW t \in Tids, Evict(n, t) PROVE Synced'
  <2>1. /\ \A m \in Nodes : store'[m] = IF m = n THEN store[n] \ {t} ELSE store[m]
        /\ \A m, p \in Nodes : unhandled'[m][p] = IF m = n THEN unhandled[n][p] \ {t} ELSE unhandled[m][p]
        /\ UNCHANGED <<processed, peers, sync, slot, taken, skipped>>
    BY <1>2 DEF Evict, Rest
  <2>2. Grows
    BY <2>1 DEF Grows, Dealt, Entering
  <2>3. Entries'
    <3>1. \A m \in Nodes : store'[m] \subseteq store[m]
      BY <2>1
    <3>2. ASSUME NEW m \in Nodes, NEW p \in Nodes PROVE unhandled'[m][p] \subseteq store'[m]
      <4>1. unhandled[m][p] \subseteq store[m]
        BY DEF Synced, Entries
      <4> QED BY <2>1, <4>1
    <3> QED BY <2>1, <3>1, <3>2 DEF Synced, Entries
  <2>4. Settled'
    <3>1. ASSUME NEW m \in Nodes, NEW q \in Nodes, NEW x \in store'[m], q \in peers[m], x \notin unhandled'[m][q]
          PROVE  x \in store[m] /\ x \notin unhandled[m][q]
      BY <2>1, <3>1
    <3>2. \A m, q \in Nodes, x \in Tids : (Dealt(q, x)' <=> Dealt(q, x)) /\ (Undistributed(m, x)' <=> Undistributed(m, x))
      BY <2>1 DEF Dealt, Entering, Undistributed
    <3>3. \A m \in Nodes : store[m] \subseteq Tids
      BY DEF Rest
    <3>4. ASSUME NEW m \in Nodes, NEW q \in Nodes, NEW x \in store'[m], q \in peers[m], x \notin unhandled'[m][q]
          PROVE  Dealt(q, x)' \/ Undistributed(m, x)' \/ x \in skipped[m]
      <4>1. x \in store[m] /\ x \notin unhandled[m][q] /\ x \in Tids
        BY <3>1, <3>3, <3>4
      <4>2. Dealt(q, x) \/ Undistributed(m, x) \/ x \in skipped[m]
        BY <3>4, <4>1 DEF Synced, Settled
      <4> QED BY <3>2, <4>1, <4>2
    <3> QED BY <2>1, <3>4 DEF Settled
  <2>5. \A m \in Nodes : SyncHolds(m)'
    BY <2>1, <2>2, SyncFrame DEF Synced
  <2>6. \A p \in Nodes, s \in Slots : SlotHolds(p, s)'
    BY <2>1 DEF Synced, SlotHolds, Carried, SenderOf
  <2> QED BY <2>3, <2>4, <2>5, <2>6 DEF Synced
<1>3. CASE UNCHANGED vars
  BY <1>3 DEF vars, Synced, Entries, Settled, SyncHolds, SlotHolds, Dealt, Entering, Undistributed, Carried, SenderOf
<1> QED BY <1>1, <1>2, <1>3, PairSynced, OfferingSynced, ReceivingSynced DEF Next

(* For any mesh and any order of syncs, failures, broken peerings and        *)
(* evictions, no node stops owing a message to a peer that has not dealt     *)
(* with it.                                                                  *)
THEOREM SyncSafety == Spec => []SyncedIsProcessed
<1>1. Spec => []Typed
  BY InitTyped, NextTyped, PTL DEF Spec
<1>2. Spec => []Once
  BY <1>1, InitOnce, NextOnce, PTL DEF Spec
<1>3. Spec => []Synced
  BY <1>1, <1>2, InitSynced, NextSynced, PTL DEF Spec
<1> QED BY <1>3, SyncedSuffices, PTL

(* A message is neither written off nor taken twice, for any mesh, messages, *)
(* slots and policies (syncPeers, _handleOffer, the ingest loop).            *)
THEOREM MeshSafety == Spec => []SyncSafe
<1>1. SyncedIsProcessed /\ TakenOnce => SyncSafe
  BY DEF SyncSafe
<1> QED BY <1>1, SyncSafety, NeverTakenTwice, PTL
=============================================================================
