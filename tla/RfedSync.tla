------------------------------ MODULE RfedSync ------------------------------
(***************************************************************************)
(* Federation sync between two rfed nodes that pull from each other: the    *)
(* peer record with its back-off and its pruning (FedSync), one pass at a   *)
(* time, the offer - gap - get - ingest session, the limits of the          *)
(* answering node, and blob stores that drop their oldest blobs by age and  *)
(* for room while the other node still has them.                            *)
(***************************************************************************)
EXTENDS Naturals, FiniteSetsExt, SequencesExt

CONSTANTS
    Blobs,          \* blobs of a channel both nodes have subscribers for
    SizeOf,         \* their lengths
    StorageLimit,     \* storageLimitBytes
    TransferLimit,  \* transferLimitBytes, per answer
    SyncLimit,      \* syncLimitBytes, per period over all peers
    StaticSites,    \* nodes that have the other one among their staticPeers
    MaxBackoff,     \* SYNC_BACKOFF_MAX, in doublings
    MaxErrors,      \* bound: sessions that fail
    MaxExpiries     \* bound: sweeps that find blobs past their TTL

ASSUME FedSyncAssumption == SizeOf \in [Blobs -> Nat] /\ {StorageLimit, TransferLimit, SyncLimit} \subseteq Nat

VARIABLES
    fsStore,        \* blob store of each node, oldest first
    fsPublished,    \* blobs that exist
    fsPeer,         \* the record each node has of the other: "unknown", "due" or "waiting"
    fsHeard,        \* its lastHeard is within pruneAgeSecs, or it is static and that does not matter
    fsBackoff,      \* its syncBackoff, in doublings
    fsPc,           \* syncPeers(): "idle", "offer", "get" or "ingest"
    fsWanted,       \* the gap, then what the answer brought
    fsAt,           \* the record of the answer that is next
    fsSent,         \* syncBytesSent of this period, as the answering node
    fsErrors, fsExpiries,
    fsFanned        \* history: how often a node has fanned a blob out since the blob was last gone

fedSyncVars == <<fsStore, fsPublished, fsPeer, fsHeard, fsBackoff, fsPc, fsWanted, fsAt, fsSent, fsErrors, fsExpiries, fsFanned>>

Sites == {1, 2}
OtherSite(n) == 3 - n
BlobsOf(n) == ToSet(fsStore[n])
Weight(s) == LET upTo[k \in 0..Len(s)] == IF k = 0 THEN 0 ELSE upTo[k - 1] + SizeOf[s[k]] IN upTo[Len(s)]

FedSyncInit ==
    /\ fsStore = [n \in Sites |-> << >>] /\ fsPublished = {}
    /\ fsPeer = [n \in Sites |-> IF n \in StaticSites THEN "due" ELSE "unknown"]
    /\ fsHeard = [n \in Sites |-> n \in StaticSites] /\ fsBackoff = [n \in Sites |-> 0]
    /\ fsPc = [n \in Sites |-> "idle"] /\ fsWanted = [n \in Sites |-> << >>] /\ fsAt = [n \in Sites |-> 1]
    /\ fsSent = [n \in Sites |-> 0] /\ fsErrors = 0 /\ fsExpiries = 0
    /\ fsFanned = [n \in Sites |-> [b \in Blobs |-> 0]]

\* A blob store without its k oldest.
Newest(s, k) == SubSeq(s, k + 1, Len(s))

\* _evictToFit: the oldest go until there is room for b, or nothing is left.
EvictToFit(s, b) ==
    LET fits(k) == k = Len(s) \/ Weight(Newest(s, k)) + SizeOf[b] <= StorageLimit
    IN  {Newest(s, k) : k \in {i \in 0..Len(s) : fits(i) /\ \A j \in 0..i - 1 : ~fits(j)}}

\* storeWithId of a blob that is not held, and its fan-out.
StoreWithId(n, b) ==
    \E kept \in EvictToFit(fsStore[n], b) :
        /\ fsStore' = [fsStore EXCEPT ![n] = Append(kept, b)]
        /\ fsFanned' = [fsFanned EXCEPT ![n] = [c \in Blobs |->
                          IF c = b THEN @[b] + 1 ELSE IF c \in ToSet(kept) THEN @[c] ELSE 0]]

\* A blob is published at one node, where store() gives it a new random id.
PublishBlob(n, b) ==
    /\ b \notin fsPublished \cup BlobsOf(n) /\ fsPublished' = fsPublished \cup {b}
    /\ StoreWithId(n, b)
    /\ UNCHANGED <<fsPeer, fsHeard, fsBackoff, fsPc, fsWanted, fsAt, fsSent, fsErrors, fsExpiries>>

\* The other node announces: it is on record and alive, and its back-off starts anew. A far
\* attempt is brought forward, which is still one that is waited for.
PeerHeard(n) ==
    /\ fsPeer[n] = "unknown" \/ fsBackoff[n] > 0 \/ ~fsHeard[n]
    /\ fsPeer' = [fsPeer EXCEPT ![n] = IF @ = "unknown" THEN "due" ELSE @]
    /\ fsHeard' = [fsHeard EXCEPT ![n] = TRUE] /\ fsBackoff' = [fsBackoff EXCEPT ![n] = 0]
    /\ UNCHANGED <<fsStore, fsPublished, fsPc, fsWanted, fsAt, fsSent, fsErrors, fsExpiries, fsFanned>>

\* pruneAgeSecs have passed without an announce of the other node.
PeerSilent(n) ==
    /\ fsHeard[n] /\ n \notin StaticSites /\ fsHeard' = [fsHeard EXCEPT ![n] = FALSE]
    /\ UNCHANGED <<fsStore, fsPublished, fsPeer, fsBackoff, fsPc, fsWanted, fsAt, fsSent, fsErrors, fsExpiries, fsFanned>>

\* nextSyncAttempt is reached.
NextAttemptComes(n) ==
    /\ fsPeer[n] = "waiting" /\ fsPeer' = [fsPeer EXCEPT ![n] = "due"]
    /\ UNCHANGED <<fsStore, fsPublished, fsHeard, fsBackoff, fsPc, fsWanted, fsAt, fsSent, fsErrors, fsExpiries, fsFanned>>

\* pruneStalePeers: whoever was not heard of for long is forgotten, but for static peers.
Stale(n) == fsPeer[n] # "unknown" /\ ~fsHeard[n]

\* A driver's tick: a pass that outlives the interval makes the next one a no-op. It prunes
\* first and then starts a session with a peer that is due.
SyncPeers(n) ==
    /\ fsPc[n] = "idle"
    /\ IF Stale(n) THEN /\ fsPeer' = [fsPeer EXCEPT ![n] = "unknown"] /\ fsBackoff' = [fsBackoff EXCEPT ![n] = 0]
                        /\ UNCHANGED fsPc
       ELSE fsPeer[n] = "due" /\ fsPc' = [fsPc EXCEPT ![n] = "offer"] /\ UNCHANGED <<fsPeer, fsBackoff>>
    /\ UNCHANGED <<fsStore, fsPublished, fsHeard, fsWanted, fsAt, fsSent, fsErrors, fsExpiries, fsFanned>>

\* The session is over, well or not.
SessionOver(n) ==
    /\ fsPc' = [fsPc EXCEPT ![n] = "idle"] /\ fsWanted' = [fsWanted EXCEPT ![n] = << >>] /\ fsAt' = [fsAt EXCEPT ![n] = 1]

SyncOk(n) ==
    /\ SessionOver(n)
    /\ fsPeer' = [fsPeer EXCEPT ![n] = "waiting"] /\ fsBackoff' = [fsBackoff EXCEPT ![n] = 0]

\* gapFromPeer: what the peer's manifest lists and this node does not hold.
GapFromPeer(n) == SelectSeq(fsStore[OtherSite(n)], LAMBDA b : b \notin BlobsOf(n))

OfferAnswered(n) ==
    /\ fsPc[n] = "offer"
    /\ IF GapFromPeer(n) = << >> THEN SyncOk(n)
       ELSE /\ fsPc' = [fsPc EXCEPT ![n] = "get"] /\ fsWanted' = [fsWanted EXCEPT ![n] = GapFromPeer(n)]
            /\ UNCHANGED <<fsPeer, fsBackoff, fsAt>>
    /\ UNCHANGED <<fsStore, fsPublished, fsHeard, fsSent, fsErrors, fsExpiries, fsFanned>>

\* The blobs of the request that are still held, in its order.
Available(n) == SelectSeq(fsWanted[n], LAMBDA b : b \in BlobsOf(OtherSite(n)))

\* Mutant: the budget of the period is not looked at.
WithinLimitsPerAnswer(n, s) == Weight(s) <= TransferLimit

\* The answer and the period have room for them.
WithinLimits(n, s) == Weight(s) <= TransferLimit /\ fsSent[OtherSite(n)] + Weight(s) <= SyncLimit

\* _handleGet: the available blobs up to the first one that does not fit.
Granted(n) ==
    LET firsts(k) == SubSeq(Available(n), 1, k)
    IN  {firsts(k) : k \in {i \in 0..Len(Available(n)) : /\ WithinLimits(n, firsts(i))
                                                         /\ i < Len(Available(n)) => ~WithinLimits(n, firsts(i + 1))}}

HandleGet(n) ==
    /\ fsPc[n] = "get"
    /\ \E s \in Granted(n) :
          /\ fsSent' = [fsSent EXCEPT ![OtherSite(n)] = @ + Weight(s)]
          /\ fsWanted' = [fsWanted EXCEPT ![n] = s]
    /\ fsPc' = [fsPc EXCEPT ![n] = "ingest"]
    /\ UNCHANGED <<fsStore, fsPublished, fsPeer, fsHeard, fsBackoff, fsAt, fsErrors, fsExpiries, fsFanned>>

\* One record of the answer: already held ones are passed over, the others stored under their
\* id and fanned out.
IngestRecord(n) ==
    /\ fsPc[n] = "ingest" /\ fsAt[n] <= Len(fsWanted[n])
    /\ fsAt' = [fsAt EXCEPT ![n] = @ + 1]
    /\ IF fsWanted[n][fsAt[n]] \in BlobsOf(n) THEN UNCHANGED <<fsStore, fsFanned>> ELSE StoreWithId(n, fsWanted[n][fsAt[n]])
    /\ UNCHANGED <<fsPublished, fsPeer, fsHeard, fsBackoff, fsPc, fsWanted, fsSent, fsErrors, fsExpiries>>

IngestEnds(n) ==
    /\ fsPc[n] = "ingest" /\ fsAt[n] > Len(fsWanted[n])
    /\ SyncOk(n)
    /\ UNCHANGED <<fsStore, fsPublished, fsHeard, fsSent, fsErrors, fsExpiries, fsFanned>>

\* Mutant: a peer that failed is no longer alive.
SyncErrDead(n) == fsPeer' = [fsPeer EXCEPT ![n] = "dead"] /\ UNCHANGED fsBackoff

SyncErr(n) ==
    /\ fsPeer' = [fsPeer EXCEPT ![n] = "waiting"]
    /\ fsBackoff' = [fsBackoff EXCEPT ![n] = Min({@ + 1, MaxBackoff})]

\* The identity is not known, the link fails, a request times out, or a fan-out throws.
SessionFails(n) ==
    /\ fsPc[n] # "idle" /\ fsErrors < MaxErrors /\ fsErrors' = fsErrors + 1
    /\ SessionOver(n) /\ SyncErr(n)
    /\ UNCHANGED <<fsStore, fsPublished, fsHeard, fsSent, fsExpiries, fsFanned>>

\* The hour of the budget is over; the next /rfed/get starts a new one.
PeriodEnds(n) ==
    /\ fsSent[n] > 0 /\ fsSent' = [fsSent EXCEPT ![n] = 0]
    /\ UNCHANGED <<fsStore, fsPublished, fsPeer, fsHeard, fsBackoff, fsPc, fsWanted, fsAt, fsErrors, fsExpiries, fsFanned>>

\* tickMaintenance, or the sweep of an ingest: the oldest blobs have been held for their TTL,
\* counted from when this node got them.
PruneOlderThan(n) ==
    /\ fsExpiries < MaxExpiries /\ fsExpiries' = fsExpiries + 1
    /\ \E k \in 1..Len(fsStore[n]) :
          /\ fsStore' = [fsStore EXCEPT ![n] = Newest(fsStore[n], k)]
          /\ fsFanned' = [fsFanned EXCEPT ![n] = [c \in Blobs |-> IF c \in ToSet(Newest(fsStore[n], k)) THEN @[c] ELSE 0]]
    /\ UNCHANGED <<fsPublished, fsPeer, fsHeard, fsBackoff, fsPc, fsWanted, fsAt, fsSent, fsErrors>>

\* What a node does about its peer: of these steps there is one at a time.
SyncStep(n) == NextAttemptComes(n) \/ SyncPeers(n) \/ OfferAnswered(n) \/ HandleGet(n) \/ IngestRecord(n) \/ IngestEnds(n)

FedSyncNext == \E n \in Sites :
    \/ SyncStep(n) \/ PeriodEnds(n) \/ PeerHeard(n) \/ PeerSilent(n) \/ SessionFails(n) \/ PruneOlderThan(n)
    \/ \E b \in Blobs : PublishBlob(n, b)
-----------------------------------------------------------------------------
\* No blob that the peer lists up to b is too large for an answer, and there is room at n for
\* all that the two nodes hold.
InReach(n, b) ==
    LET theirs == fsStore[OtherSite(n)]
    IN  /\ \A i \in DOMAIN theirs : SizeOf[theirs[i]] <= Min({TransferLimit, SyncLimit}) \/ \E j \in 1..i - 1 : theirs[j] = b
        /\ Weight(fsStore[n] \o GapFromPeer(n)) <= StorageLimit

\* Both nodes converge: a blob one node holds reaches the other once it knows its peer,
\* whatever sessions fail and however often the limits cut an answer short - unless its owner
\* drops it, the peer falls silent and is pruned, the store is too small for both, or a blob
\* that no answer can carry lies before it (syncPeers, syncErr, _handleGet, gapFromPeer).
SyncConverges == \A n \in Sites, b \in Blobs :
    (fsPeer[n] # "unknown" /\ b \in BlobsOf(OtherSite(n))) ~>
        (b \in BlobsOf(n) \/ b \notin BlobsOf(OtherSite(n)) \/ fsPeer[n] = "unknown" \/ ~InReach(n, b))

\* The limits of the answering node hold for all sessions of a period together and for each
\* answer, and a node hands a blob to its subscribers at most once for as long as it holds it
\* (_handleGet, storeWithId, _evictToFit, pruneOlderThan).
SyncIsBounded == \A n \in Sites :
    /\ fsSent[n] <= SyncLimit /\ (fsPc[n] = "ingest" => Weight(fsWanted[n]) <= TransferLimit)
    /\ \A b \in Blobs : fsFanned[n][b] <= IF b \in BlobsOf(n) THEN 1 ELSE 0

\* tickMaintenance prunes: a blob that a node has dropped does not come back to it.
DroppedStaysGone == \A n \in Sites, b \in Blobs :
    [](b \in BlobsOf(n) => [](b \notin BlobsOf(n) => [](b \notin BlobsOf(n))))
=============================================================================
