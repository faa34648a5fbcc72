------------------------------ MODULE PeerSync ------------------------------
(***************************************************************************)
(* The mesh of LXMF propagation nodes (packages/lxmf/src: peer.js,          *)
(* propagation_node.js, message_store.js and the node half of router.js).   *)
(* Each node stores messages, by transient id, and offers them to the nodes *)
(* it has peered with; an offer is answered with the ids the other side     *)
(* wants, which are then sent as one Resource and taken in blob by blob.    *)
(*                                                                          *)
(* The model runs for less than the 180 days after which a processed id is  *)
(* forgotten.  Clients' downloads are in module Download.                    *)
(***************************************************************************)
EXTENDS Integers, FiniteSets

CONSTANTS
    Nodes,       \* propagation nodes
    Tids,        \* transient ids
    Outbound,    \* {<<t, n>>}: n is the outbound node of t's sender
    Slots,       \* containers a node can be handling at a time (a bound)
    Local,       \* {<<t, n>>}: t is addressed to an identity of n itself
    Weak,        \* {<<t, n>>}: n rejects t's stamp
    KnownWeak,   \* {<<t, n>>}: t's stamp is below the cost n advertised
    TooLarge,    \* {<<t, n>>}: t is over n's per-message transfer limit
    SyncLimit,   \* messages in one offer (propagationSyncLimit)
    MaxInbound,  \* maxInboundSyncs
    MaxPeers,    \* maxPeers
    Static,      \* {<<p, n>>}: n is a static peer of p
    Filters,     \* nodes with an ingestFilter
    MaxFaults    \* failures, evictions, broken peerings in a run (a bound)

ASSUME PeerSyncAssumption ==
    /\ Outbound \cup Local \cup Weak \cup KnownWeak \cup TooLarge
         \subseteq Tids \X Nodes
    /\ 0 \notin Slots
    /\ Static \subseteq Nodes \X Nodes /\ Filters \subseteq Nodes
    /\ SyncLimit \in Nat \ {0} /\ MaxInbound \in Nat /\ MaxPeers \in Nat
    /\ MaxFaults \in Nat

NoNode == "no node"
ASSUME NoNodeAssumption == NoNode \notin Nodes

VARIABLES
    store,      \* MessageStore._entries: [Nodes -> SUBSET Tids]
    unhandled,  \* unhandledPeers: unhandled[n][p] are the entries n owes p
    processed,  \* locallyProcessed
    peers,      \* LXMRouter.peers
    throttled,  \* throttledPeers whose window is open
    postponed,  \* peers whose nextSyncAttempt lies in the future
    sync,       \* the LXMPeer.sync() in progress at each node
    slot,       \* the containers each node is receiving or ingesting
    submitted,  \* messages clients have submitted
    taken,      \* history: how often a node stored or delivered a message
    skipped,    \* history: what a throwing ingestFilter left behind
    faults      \* what has gone wrong so far

vars == <<store, unhandled, processed, peers, throttled, postponed, sync, slot,
          submitted, taken, skipped, faults>>

NoSync == [phase |-> "idle", peer |-> NoNode, offer |-> {}, wanted |-> {}, blobs |-> {},
           reply |-> "none", at |-> 0, current |-> FALSE]
Free == [phase |-> "free", from |-> NoNode, rest |-> {}, stored |-> {},
         cur |-> {}, rejected |-> FALSE]

Init ==
    /\ store = [n \in Nodes |-> {}]
    /\ unhandled = [n \in Nodes |-> [p \in Nodes |-> {}]]
    /\ processed = [n \in Nodes |-> {}]
    /\ peers = [n \in Nodes |-> {}]
    /\ throttled = [n \in Nodes |-> {}]
    /\ postponed = [n \in Nodes |-> {}]
    /\ sync = [n \in Nodes |-> NoSync]
    /\ slot = [n \in Nodes |-> [s \in Slots |-> Free]]
    /\ submitted = {}
    /\ taken = [n \in Nodes |-> [t \in Tids |-> 0]]
    /\ skipped = [n \in Nodes |-> {}]
    /\ faults = 0

Pairs(ts, n) == {t \in Tids : <<t, n>> \in ts}
Fault == faults < MaxFaults /\ faults' = faults + 1

-----------------------------------------------------------------------------
(* Peering.                                                                 *)

\* Mutant: the backlog is not queued for a new peer.
PeerForgetsBacklog(n, p) ==
    /\ p \notin peers[n] /\ p # n
    /\ Cardinality(peers[n]) < MaxPeers
    /\ peers' = [peers EXCEPT ![n] = @ \cup {p}]
    /\ postponed' = [postponed EXCEPT ![n] = @ \ {p}]
    /\ UNCHANGED <<store, unhandled, processed, throttled, sync, slot,
                   submitted, taken, skipped, faults>>

\* A new peer is owed the whole backlog and starts with a fresh LXMPeer.
Peer(n, p) ==
    /\ p \notin peers[n] /\ p # n
    /\ Cardinality(peers[n]) < MaxPeers
    /\ peers' = [peers EXCEPT ![n] = @ \cup {p}]
    /\ unhandled' = [unhandled EXCEPT ![n][p] = store[n]]
    /\ postponed' = [postponed EXCEPT ![n] = @ \ {p}]
    /\ UNCHANGED <<store, processed, throttled, sync, slot, submitted, taken,
                   skipped, faults>>

\* A sync in progress goes on with the LXMPeer that has left the map.
Unpeer(n, p) ==
    /\ p \in peers[n]
    /\ Fault
    /\ peers' = [peers EXCEPT ![n] = @ \ {p}]
    /\ sync' = [sync EXCEPT ![n] =
                  [@ EXCEPT !.current = sync[n].current /\ sync[n].peer # p]]
    /\ UNCHANGED <<store, unhandled, processed, throttled, postponed, slot,
                   submitted, taken, skipped>>

-----------------------------------------------------------------------------
(* The offering side: LXMPeer.sync, one at a time in a syncPeers pass.      *)

\* The entries to offer are read before the link exists.
SyncStart(n, p) ==
    /\ sync[n].phase = "idle" /\ p \in peers[n] \ postponed[n]
    /\ LET owed == unhandled[n][p] \ Pairs(KnownWeak, p) IN
         /\ owed # {}
         /\ sync' = [sync EXCEPT ![n] = [NoSync EXCEPT !.phase = "establishing",
                        !.peer = p, !.offer = owed, !.current = TRUE]]
    /\ postponed' = [postponed EXCEPT ![n] = @ \cup {p}]
    /\ UNCHANGED <<store, unhandled, processed, peers, throttled, slot,
                   submitted, taken, skipped, faults>>

MarkHandled(n, p, ts) == [unhandled EXCEPT ![n][p] = @ \ ts]

\* nextSyncAttempt of the LXMPeer this sync belongs to.
SetPostponed(n, on) ==
    IF ~ sync[n].current THEN postponed
    ELSE [postponed EXCEPT ![n] = IF on THEN @ \cup {sync[n].peer}
                                  ELSE @ \ {sync[n].peer}]

\* createLink and identify have succeeded: the backoff is reset, what is too
\* large counts as handled, the rest is offered up to the limit.
LinkReady(n) ==
    /\ sync[n].phase = "establishing"
    /\ LET p == sync[n].peer
           large == sync[n].offer \cap Pairs(TooLarge, p)
           small == sync[n].offer \ large
       IN \E offer \in SUBSET small :
            /\ Cardinality(offer) = SyncLimit
                 \/ (Cardinality(small) < SyncLimit /\ offer = small)
            /\ unhandled' = MarkHandled(n, p, large)
            /\ sync' = [sync EXCEPT ![n] =
                 IF offer = {} THEN NoSync
                 ELSE [@ EXCEPT !.phase = "offering", !.offer = offer]]
    /\ postponed' = SetPostponed(n, FALSE)
    /\ UNCHANGED <<store, processed, peers, throttled, slot, submitted, taken,
                   skipped, faults>>

\* createLink, identify, the request or the transfer fails or times out.
SyncFails(n) ==
    /\ sync[n].phase # "idle"
    /\ Fault
    /\ sync' = [sync EXCEPT ![n] = NoSync]
    /\ UNCHANGED <<store, unhandled, processed, peers, throttled, postponed,
                   slot, submitted, taken, skipped>>

\* Mutant: a throttled offer is taken for a complete one.
HandleAnswerUnread(n) ==
    /\ sync[n].phase = "answered"
    /\ LET p == sync[n].peer IN
         /\ unhandled' = MarkHandled(n, p, sync[n].offer \ sync[n].wanted)
         /\ postponed' = IF sync[n].reply = "throttled"
                         THEN SetPostponed(n, TRUE) ELSE postponed
         /\ sync' = [sync EXCEPT ![n] =
              IF sync[n].wanted # {}
              THEN [@ EXCEPT !.phase = "transferring",
                             !.blobs = sync[n].wanted \cap store[n]]
               ELSE NoSync]
    /\ UNCHANGED <<store, processed, peers, throttled, slot, submitted, taken,
                   skipped, faults>>

\* The answer to the offer.  An error leaves the entries alone; a container
\* is packed from the wanted entries that are still stored.
HandleAnswer(n) ==
    /\ sync[n].phase = "answered"
    /\ LET p == sync[n].peer
           listed == sync[n].reply = "list"
       IN /\ unhandled' = IF listed
                          THEN MarkHandled(n, p, sync[n].offer \ sync[n].wanted)
                          ELSE unhandled
          /\ postponed' = IF sync[n].reply = "throttled"
                          THEN SetPostponed(n, TRUE) ELSE postponed
          /\ sync' = [sync EXCEPT ![n] =
               IF listed /\ sync[n].wanted # {}
               THEN [@ EXCEPT !.phase = "transferring",
                             !.blobs = sync[n].wanted \cap store[n]]
               ELSE NoSync]
    /\ UNCHANGED <<store, processed, peers, throttled, slot, submitted, taken,
                   skipped, faults>>

\* whenComplete: the receiver has proved the Resource.
HandleComplete(n) ==
    /\ sync[n].phase = "proved"
    /\ unhandled' = MarkHandled(n, sync[n].peer, sync[n].wanted)
    /\ sync' = [sync EXCEPT ![n] = NoSync]
    /\ UNCHANGED <<store, processed, peers, throttled, postponed, slot,
                   submitted, taken, skipped, faults>>

\* The postponement of nextSyncAttempt, read between two syncs, is over.
BackoffExpires(n, p) ==
    /\ p \in postponed[n] /\ sync[n].peer # p
    /\ postponed' = [postponed EXCEPT ![n] = @ \ {p}]
    /\ UNCHANGED <<store, unhandled, processed, peers, throttled, sync, slot,
                   submitted, taken, skipped, faults>>

-----------------------------------------------------------------------------
(* The receiving side: /offer.                                              *)

Handling(p) == {s \in Slots : slot[p][s].phase # "free"}
InboundSyncs(p) == {s \in Handling(p) : slot[p][s].from # NoNode}
Validating(p) == {s \in Handling(p) :
                    slot[p][s].phase \in {"validating", "awaiting"}}

Refused(p, n) ==
    \/ n \in throttled[p]
    \/ /\ <<p, n>> \notin Static
       /\ \/ Validating(p) # {}
          \/ MaxInbound > 0 /\ Cardinality(InboundSyncs(p)) >= MaxInbound

\* Never wanted again: what is stored or was processed before.
Has(p) == store[p] \cup processed[p]

HandleOffer(n) ==
    /\ sync[n].phase = "offering"
    /\ LET p == sync[n].peer
           refused == Refused(p, n)
       IN sync' = [sync EXCEPT ![n] = [@ EXCEPT !.phase = "answered",
                     !.reply = IF refused THEN "throttled" ELSE "list",
                     !.wanted = IF refused THEN {} ELSE sync[n].offer \ Has(p)]]
    /\ UNCHANGED <<store, unhandled, processed, peers, throttled, postponed,
                   slot, submitted, taken, skipped, faults>>

\* No identity, no access or an invalid peering key.
OfferError(n) ==
    /\ sync[n].phase = "offering"
    /\ Fault
    /\ sync' = [sync EXCEPT ![n] =
                  [@ EXCEPT !.phase = "answered", !.reply = "error"]]
    /\ UNCHANGED <<store, unhandled, processed, peers, throttled, postponed,
                   slot, submitted, taken, skipped>>

\* stampThrottleSecs are over.
ThrottleExpires(p, n) ==
    /\ n \in throttled[p]
    /\ throttled' = [throttled EXCEPT ![p] = @ \ {n}]
    /\ UNCHANGED <<store, unhandled, processed, peers, postponed, sync, slot,
                   submitted, taken, skipped, faults>>

-----------------------------------------------------------------------------
(* The receiving side: containers.                                          *)

\* The advertisement arrives on a link flagged by the offer.
TransferBegins(n, s) ==
    LET p == sync[n].peer IN
    /\ sync[n].phase = "transferring" /\ sync[n].at = 0
    /\ slot[p][s] = Free
    /\ slot' = [slot EXCEPT ![p][s] = [Free EXCEPT !.phase = "receiving",
                  !.from = n, !.rest = sync[n].blobs]]
    /\ sync' = [sync EXCEPT ![n] = [@ EXCEPT !.at = s]]
    /\ UNCHANGED <<store, unhandled, processed, peers, throttled, postponed,
                   submitted, taken, skipped, faults>>

SenderOf(p, s) == slot[p][s].from
Carried(p, s) == LET n == SenderOf(p, s) IN
                   /\ sync[n].phase = "transferring"
                   /\ sync[n].peer = p /\ sync[n].at = s

\* All parts are there and the proof is on its way; ingestBlobs starts.
TransferEnds(p, s) ==
    /\ slot[p][s].phase = "receiving" /\ Carried(p, s)
    /\ slot' = [slot EXCEPT ![p][s] = [@ EXCEPT !.phase = "validating"]]
    /\ sync' = [sync EXCEPT ![SenderOf(p, s)] = [@ EXCEPT !.phase = "proved"]]
    /\ UNCHANGED <<store, unhandled, processed, peers, throttled, postponed,
                   submitted, taken, skipped, faults>>

\* The sender has given the transfer up.
TransferFails(p, s) ==
    /\ slot[p][s].phase = "receiving" /\ ~ Carried(p, s)
    /\ slot' = [slot EXCEPT ![p][s] = Free]
    /\ UNCHANGED <<store, unhandled, processed, peers, throttled, postponed,
                   sync, submitted, taken, skipped, faults>>

\* A client's container with one message, on a link without an offer.
Submit(p, s, t) ==
    /\ <<t, p>> \in Outbound /\ t \notin submitted /\ slot[p][s] = Free
    /\ submitted' = submitted \cup {t}
    /\ slot' = [slot EXCEPT ![p][s] = [Free EXCEPT !.phase = "validating",
                                                  !.rest = {t}]]
    /\ UNCHANGED <<store, unhandled, processed, peers, throttled, postponed,
                   sync, taken, skipped, faults>>

\* Blobs at which the ingest loop waits: for the decryption of a message of
\* this node's own, or for the ingest filter.
Awaited(p, s, t) ==
    /\ t \notin Has(p)
    /\ <<t, p>> \in Local \/ (p \in Filters /\ slot[p][s].from # NoNode)

Counted(count, ts) ==
    [t \in Tids |-> IF t \in ts THEN count[t] + 1 ELSE count[t]]

\* Mutant: a message counts as processed once it is stored, not before the
\* filter is asked.
PassRecordsLate(p, s, b, kept, delivered, done, next) ==
    LET new == done \ Has(p)
        stored == b.stored \cup kept \cup new
        ends == next = {}
    IN /\ \A t \in done : ~ Awaited(p, s, t)
       /\ \A t \in next : Awaited(p, s, t)
       /\ ends => done = b.rest
       /\ store' = [store EXCEPT ![p] = @ \cup kept \cup new]
       /\ processed' = [processed EXCEPT ![p] = @ \cup new \cup kept \cup delivered]
       /\ taken' = [taken EXCEPT ![p] = Counted(@, kept \cup new \cup delivered)]
       /\ unhandled' = [unhandled EXCEPT ![p] = [q \in Nodes |->
            IF ends /\ q \in peers[p] THEN @[q] \cup (stored \cap store'[p])
            ELSE @[q]]]
       /\ slot' = [slot EXCEPT ![p][s] =
            IF ~ ends THEN [b EXCEPT !.phase = "awaiting", !.cur = next,
                              !.rest = b.rest \ (done \cup next), !.stored = stored]
            ELSE IF b.rejected THEN [Free EXCEPT !.phase = "throttling",
                                                 !.from = b.from]
            ELSE Free]

\* The loop of _ingestBlobsInner from one wait to the next, over the blobs
\* b.rest, after kept has been let in: it passes the blobs done and either
\* waits at the one of next or ends.  At the end onStored queues what was
\* stored, and is still there, for every peer of the moment.
Pass(p, s, b, kept, delivered, done, next) ==
    LET new == done \ Has(p)
        stored == b.stored \cup kept \cup new
        ends == next = {}
    IN /\ \A t \in done : ~ Awaited(p, s, t)
       /\ \A t \in next : Awaited(p, s, t)
       /\ ends => done = b.rest
       /\ store' = [store EXCEPT ![p] = @ \cup kept \cup new]
       /\ processed' = [processed EXCEPT ![p] = @ \cup new \cup next]
       /\ taken' = [taken EXCEPT ![p] = Counted(@, kept \cup new \cup delivered)]
       /\ unhandled' = [unhandled EXCEPT ![p] = [q \in Nodes |->
            IF ends /\ q \in peers[p] THEN @[q] \cup (stored \cap store'[p])
            ELSE @[q]]]
       /\ slot' = [slot EXCEPT ![p][s] =
            IF ~ ends THEN [b EXCEPT !.phase = "awaiting", !.cur = next,
                              !.rest = b.rest \ (done \cup next), !.stored = stored]
            ELSE IF b.rejected THEN [Free EXCEPT !.phase = "throttling",
                                                 !.from = b.from]
            ELSE Free]

Ingest(p, s, b, kept, delivered) ==
    \E done \in SUBSET b.rest :
    \E next \in {{}} \cup {{t} : t \in b.rest \ done} :
      Pass(p, s, b, kept, delivered, done, next)

\* validatePnStamps has answered.  Only a peer's batch can be throttled for.
Validated(p, s) ==
    LET batch == slot[p][s]
        weak == batch.rest \cap Pairs(Weak, p)
    IN /\ batch.phase = "validating"
       /\ Ingest(p, s, [batch EXCEPT !.rest = @ \ weak,
                          !.rejected = weak # {} /\ batch.from # NoNode], {}, {})
       /\ UNCHANGED <<peers, throttled, postponed, sync, submitted, skipped,
                      faults>>

IsLocal(p, s) == slot[p][s].cur \subseteq Pairs(Local, p)

FilterKeeps(p, s) ==
    /\ slot[p][s].phase = "awaiting" /\ ~ IsLocal(p, s)
    /\ Ingest(p, s, slot[p][s], slot[p][s].cur, {})
    /\ UNCHANGED <<peers, throttled, postponed, sync, submitted, skipped, faults>>

FilterDrops(p, s) ==
    /\ slot[p][s].phase = "awaiting" /\ ~ IsLocal(p, s)
    /\ Ingest(p, s, slot[p][s], {}, {})
    /\ UNCHANGED <<peers, throttled, postponed, sync, submitted, skipped, faults>>

\* The filter throws: the rest of the batch is given up, and what the batch
\* has stored is not queued for anyone.
FilterThrows(p, s) ==
    /\ slot[p][s].phase = "awaiting" /\ ~ IsLocal(p, s)
    /\ Fault
    /\ skipped' = [skipped EXCEPT ![p] =
                     @ \cup slot[p][s].rest \cup slot[p][s].stored]
    /\ slot' = [slot EXCEPT ![p][s] = Free]
    /\ UNCHANGED <<store, unhandled, processed, peers, throttled, postponed,
                   sync, submitted, taken>>

\* Decrypted and dispatched (or undecryptable): never stored.
LocalDelivery(p, s) ==
    /\ slot[p][s].phase = "awaiting" /\ IsLocal(p, s)
    /\ Ingest(p, s, slot[p][s], {}, slot[p][s].cur)
    /\ UNCHANGED <<peers, throttled, postponed, sync, submitted, skipped, faults>>

\* The sender of a batch with a rejected stamp is throttled and its link torn
\* down, which fails a sync still waiting for the proof.
ThrottlePeer(p, s) ==
    /\ slot[p][s].phase = "throttling"
    /\ throttled' = [throttled EXCEPT ![p] = @ \cup {slot[p][s].from}]
    /\ slot' = [slot EXCEPT ![p][s] = Free]
    /\ UNCHANGED <<store, unhandled, processed, peers, postponed, sync,
                   submitted, taken, skipped, faults>>

\* TTL or capacity takes an entry out of a store, with its peer marks.
Evict(n, t) ==
    /\ t \in store[n]
    /\ Fault
    /\ store' = [store EXCEPT ![n] = @ \ {t}]
    /\ unhandled' = [unhandled EXCEPT ![n] = [p \in Nodes |-> @[p] \ {t}]]
    /\ UNCHANGED <<processed, peers, throttled, postponed, sync, slot,
                   submitted, taken, skipped>>

-----------------------------------------------------------------------------
Offering(n) == LinkReady(n) \/ HandleAnswer(n) \/ HandleComplete(n)
                 \/ HandleOffer(n) \/ \E s \in Slots : TransferBegins(n, s)

Receiving(p, s) ==
    \/ TransferEnds(p, s) \/ TransferFails(p, s) \/ Validated(p, s)
    \/ FilterKeeps(p, s) \/ FilterDrops(p, s) \/ LocalDelivery(p, s)
    \/ ThrottlePeer(p, s)

Next ==
    \/ \E n, p \in Nodes : \/ Peer(n, p) \/ Unpeer(n, p) \/ SyncStart(n, p)
                           \/ BackoffExpires(n, p) \/ ThrottleExpires(n, p)
    \/ \E n \in Nodes : Offering(n) \/ SyncFails(n) \/ OfferError(n)
    \/ \E p \in Nodes, s \in Slots : Receiving(p, s) \/ FilterThrows(p, s)
    \/ \E n \in Nodes, s \in Slots, t \in Tids : Submit(n, s, t)
    \/ \E n \in Nodes, t \in Tids : Evict(n, t)

Spec == Init /\ [][Next]_vars

\* A syncPeers pass tries every peer in turn; what it starts is run by the
\* event loop, and postponements and throttles are timers.
FairSpec ==
    /\ Spec
    /\ \A n \in Nodes : \A p \in Nodes \ {n} :
         /\ SF_vars(SyncStart(n, p))
         /\ WF_vars(BackoffExpires(n, p)) /\ WF_vars(ThrottleExpires(n, p))
    /\ \A n \in Nodes : WF_vars(Offering(n))
    /\ \A p \in Nodes, s \in Slots : WF_vars(Receiving(p, s))

-----------------------------------------------------------------------------
Phases == {"idle", "establishing", "offering", "answered", "transferring",
           "proved"}
SlotPhases == {"free", "receiving", "validating", "awaiting", "throttling"}

SyncRecords == [phase : Phases, peer : Nodes \cup {NoNode}, offer : SUBSET Tids,
                wanted : SUBSET Tids, blobs : SUBSET Tids,
                reply : {"none", "list", "throttled", "error"},
                at : Slots \cup {0}, current : BOOLEAN]
SlotRecords == [phase : SlotPhases, from : Nodes \cup {NoNode},
                rest : SUBSET Tids, stored : SUBSET Tids, cur : SUBSET Tids,
                rejected : BOOLEAN]

\* The type of every variable of the mesh.
TypeOK ==
    /\ store \in [Nodes -> SUBSET Tids]
    /\ unhandled \in [Nodes -> [Nodes -> SUBSET Tids]]
    /\ processed \in [Nodes -> SUBSET Tids]
    /\ peers \in [Nodes -> SUBSET Nodes]
    /\ throttled \in [Nodes -> SUBSET Nodes]
    /\ postponed \in [Nodes -> SUBSET Nodes]
    /\ sync \in [Nodes -> SyncRecords]
    /\ slot \in [Nodes -> [Slots -> SlotRecords]]
    /\ submitted \in SUBSET Tids
    /\ taken \in [Nodes -> [Tids -> Nat]]
    /\ skipped \in [Nodes -> SUBSET Tids]
    /\ faults \in Nat

Entering(p, t) == \E s \in Slots :
    slot[p][s].phase \in {"validating", "awaiting"} /\ t \in slot[p][s].rest
Undistributed(n, t) == \E s \in Slots : t \in slot[n][s].stored

\* A node stops owing a stored message to a peer only when the peer has it or
\* has dealt with it: it has processed the id, is just ingesting it, or
\* refuses it for its size or stamp.  The exceptions are the messages of a
\* batch whose storing is not finished, or was broken off by a throwing
\* ingest filter.
SyncedIsProcessed ==
    \A n, p \in Nodes : \A t \in store[n] :
      (p \in peers[n] /\ t \notin unhandled[n][p]) =>
         \/ t \in processed[p] \/ Entering(p, t)
         \/ <<t, p>> \in TooLarge \cup Weak
         \/ Undistributed(n, t)
         \/ t \in skipped[n] \cup skipped[p]

\* However many peers send it, at the same time or again after an eviction, a
\* node stores or delivers a message at most once.
TakenOnce == \A p \in Nodes, t \in Tids : taken[p][t] <= 1

\* What a mesh of nodes never does: write off a message for a peer that has not dealt with it,
\* or take one twice (syncPeers, _handleOffer, the ingest loop).
SyncSafe == SyncedIsProcessed /\ TakenOnce

\* A stored message reaches every peer, as long as the peering and the entry
\* last and the peer can accept it, over failing links, refused offers,
\* throttling and lost proofs.
Converges ==
    \A n \in Nodes : \A p \in Nodes \ {n}, t \in Tids :
      (t \in store[n] /\ p \in peers[n]) ~>
         \/ t \in processed[p] \/ t \notin store[n] \/ p \notin peers[n]
         \/ <<t, p>> \in TooLarge \cup Weak \cup KnownWeak
         \/ t \in skipped[n] \cup skipped[p]

(* What comments of the code say and the code does not guarantee.           *)

\* "Cap on concurrent inbound peer-sync transfers": refuted, the cap is tested
\* when an offer is answered and counted when its transfer starts.
InboundCapHolds == \A p \in Nodes :
    MaxInbound = 0 \/ Cardinality(InboundSyncs(p)) <= MaxInbound

\* "at most one batch's blobs are in memory for validation at a time": refuted
\* by two offers answered before either batch has arrived.
OneValidation == \A p \in Nodes : Cardinality(Validating(p)) <= 1

\* "guarantees that every ingest path ... distributes identically": refuted by
\* an ingest filter that throws after a blob of its batch has been stored.
StoredIsDistributed == \A n \in Nodes :
    \A p \in peers[n] : \A t \in store[n] \cap skipped[n] :
      t \in unhandled[n][p] \cup processed[p]
=============================================================================
