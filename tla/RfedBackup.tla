----------------------------- MODULE RfedBackup -----------------------------
(***************************************************************************)
(* What an rfed node does about its own failure and about its publishers:   *)
(* it pushes its subscriptions to a backup node, which keeps them for a     *)
(* while and adopts them when the owner falls silent; and it admits large   *)
(* publishes through gates on the publisher's link.                         *)
(***************************************************************************)
EXTENDS Naturals, Sequences, FiniteSets

CONSTANTS
    Pairs,            \* (subscriber, channel) pairs
    PendingCap,       \* PENDING_BACKUP_CAP
    MaxPairRequests,  \* bound: subscribe requests at the owner
    MaxBackupAge,     \* bound: ticks of age a backup entry can reach
    BackupTtl,        \* pruneStaleBackups' TTL, in ticks
    MaxPushFailures,  \* bound: pushes that are refused or throw
    PubLinks, Trusted, MaxInboundPublishes

ASSUME BackupAssumption == {PendingCap, MaxBackupAge, BackupTtl} \subseteq Nat

VARIABLES
    bkSubscribed,     \* pairs the owner has accepted
    bkRequests,
    bkPending,        \* _pendingBackupPushes
    bkTick,           \* tickBackupDelivery: "idle", "pushing" or "answered" (the backup has the pairs)
    bkBatch,          \* the pairs of the push under way
    bkThrown,         \* history: pairs of a push that threw
    bkCapped,         \* history: pairs the cap turned away
    bkFailures,
    bkEntries,        \* at the backup node: pair -> age of its last refresh, or None
    bkAdopted,        \* pairs the backup node has queued the backlog of
    pbGate,           \* maxResourceSize of a publish link: "none", "open", "any" or "closed"
    pbIdent,          \* its remote identity is known
    pbThrottled,      \* publishers in throttledPublishers
    pbInbound         \* inboundPublishes

backupVars == <<bkSubscribed, bkRequests, bkPending, bkTick, bkBatch, bkThrown, bkCapped, bkFailures, bkEntries, bkAdopted>>
publishVars == <<pbGate, pbIdent, pbThrottled, pbInbound>>
rfedBackupVars == <<backupVars, publishVars>>

None == MaxBackupAge + 1

RfedBackupInit ==
    /\ bkSubscribed = {} /\ bkRequests = 0 /\ bkPending = << >> /\ bkTick = "idle" /\ bkBatch = << >>
    /\ bkThrown = {} /\ bkCapped = {} /\ bkFailures = 0
    /\ bkEntries = [p \in Pairs |-> None] /\ bkAdopted = {}
    /\ pbGate = [l \in PubLinks |-> "none"] /\ pbIdent = {} /\ pbThrottled = {} /\ pbInbound = {}

InSeq(p, q) == \E i \in DOMAIN q : q[i] = p
-----------------------------------------------------------------------------
\* The owner.

\* _handleSubscribe: every accepted request queues its pair once, room permitting.
QueuePair(p) ==
    /\ bkRequests < MaxPairRequests /\ bkRequests' = bkRequests + 1
    /\ bkSubscribed' = bkSubscribed \cup {p}
    /\ IF Len(bkPending) < PendingCap
       THEN bkPending' = Append(bkPending, p) /\ UNCHANGED bkCapped
       ELSE bkCapped' = bkCapped \cup {p} /\ UNCHANGED bkPending
    /\ UNCHANGED <<bkTick, bkBatch, bkThrown, bkFailures, bkEntries, bkAdopted, publishVars>>

\* The tick takes the whole list before it awaits the push; a tick that finds another one
\* running does nothing.
TickBackup ==
    /\ bkTick = "idle" /\ bkPending # << >>
    /\ bkTick' = "pushing" /\ bkBatch' = bkPending /\ bkPending' = << >>
    /\ UNCHANGED <<bkSubscribed, bkRequests, bkThrown, bkCapped, bkFailures, bkEntries, bkAdopted, publishVars>>

\* Mutant: the failed batch replaces what was queued during the push.
RequeueBackupPairsOver(batch) == bkPending' = batch /\ UNCHANGED bkCapped

\* As many of the pairs as the cap leaves room for go back behind what was queued meanwhile.
RequeueBackupPairs(batch) ==
    LET room == PendingCap - Len(bkPending)
        n    == IF Len(batch) < room THEN Len(batch) ELSE room
    IN  /\ bkPending' = bkPending \o SubSeq(batch, 1, n)
        /\ bkCapped' = bkCapped \cup {batch[i] : i \in n + 1..Len(batch)}

\* The backup takes the pairs: new entries, and a refresh of those it has.
HandleBackupPush ==
    /\ bkTick = "pushing" /\ bkTick' = "answered"
    /\ bkEntries' = [p \in Pairs |-> IF InSeq(p, bkBatch) THEN 0 ELSE bkEntries[p]]
    /\ UNCHANGED <<bkSubscribed, bkRequests, bkPending, bkBatch, bkThrown, bkCapped, bkFailures, bkAdopted, publishVars>>

\* Its answer arrives.
PushAccepted ==
    /\ bkTick = "answered" /\ bkTick' = "idle" /\ bkBatch' = << >>
    /\ UNCHANGED <<bkSubscribed, bkRequests, bkPending, bkThrown, bkCapped, bkFailures, bkEntries, bkAdopted, publishVars>>

\* There is no path to it, or it does not trust this owner.
PushRefused ==
    /\ bkTick = "pushing" /\ bkFailures < MaxPushFailures /\ bkFailures' = bkFailures + 1
    /\ bkTick' = "idle" /\ bkBatch' = << >>
    /\ RequeueBackupPairs(bkBatch)
    /\ UNCHANGED <<bkSubscribed, bkRequests, bkThrown, bkEntries, bkAdopted, publishVars>>

\* The link or the request fails, before or after the backup took the pairs: the exception
\* leaves the tick, and nothing is queued again.
PushThrows ==
    /\ bkTick # "idle" /\ bkFailures < MaxPushFailures /\ bkFailures' = bkFailures + 1
    /\ bkTick' = "idle" /\ bkBatch' = << >>
    /\ bkThrown' = bkThrown \cup {bkBatch[i] : i \in DOMAIN bkBatch}
    /\ UNCHANGED <<bkSubscribed, bkRequests, bkPending, bkCapped, bkEntries, bkAdopted, publishVars>>
-----------------------------------------------------------------------------
\* The backup node.

\* Its own tick: entries not refreshed for the TTL go, and those of a silent owner are adopted.
PruneStaleBackups(silent) ==
    LET kept == [p \in Pairs |-> IF bkEntries[p] # None /\ bkEntries[p] > BackupTtl THEN None ELSE bkEntries[p]]
    IN  /\ \E p \in Pairs : kept[p] # None \/ bkEntries[p] # None
        /\ bkEntries' = kept
        /\ bkAdopted' = IF silent THEN bkAdopted \cup {p \in Pairs : kept[p] # None} ELSE bkAdopted
        /\ UNCHANGED <<bkSubscribed, bkRequests, bkPending, bkTick, bkBatch, bkThrown, bkCapped, bkFailures, publishVars>>

AgePasses ==
    /\ \E p \in Pairs : bkEntries[p] < MaxBackupAge
    /\ bkEntries' = [p \in Pairs |-> IF bkEntries[p] < MaxBackupAge THEN bkEntries[p] + 1 ELSE bkEntries[p]]
    /\ UNCHANGED <<bkSubscribed, bkRequests, bkPending, bkTick, bkBatch, bkThrown, bkCapped, bkFailures, bkAdopted, publishVars>>
-----------------------------------------------------------------------------
\* Admission of publishes that need a resource.

\* applyPublishGates, when the link is accepted and again when its peer identifies itself.
Gate(l, known) ==
    IF l \in known /\ l \in Trusted THEN "any"
    ELSE IF l \in known /\ l \in pbThrottled THEN "closed"
    ELSE IF MaxInboundPublishes > 0 /\ Cardinality(pbInbound) >= MaxInboundPublishes THEN "closed"
    ELSE "open"

AcceptPublishLink(l) ==
    /\ pbGate[l] = "none"
    /\ pbGate' = [pbGate EXCEPT ![l] = Gate(l, pbIdent)]
    /\ UNCHANGED <<pbIdent, pbThrottled, pbInbound, backupVars>>

PublisherIdentifies(l) ==
    /\ pbGate[l] # "none" /\ l \notin pbIdent
    /\ pbIdent' = pbIdent \cup {l} /\ pbGate' = [pbGate EXCEPT ![l] = Gate(l, pbIdent')]
    /\ UNCHANGED <<pbThrottled, pbInbound, backupVars>>

PublishAdvertised(l) ==
    /\ pbGate[l] \in {"open", "any"} /\ l \notin pbInbound
    /\ pbInbound' = pbInbound \cup {l}
    /\ UNCHANGED <<pbGate, pbIdent, pbThrottled, backupVars>>

\* The transfer ends: a bad stamp throttles a known publisher that is not trusted.
PublishEnds(l, stamp) ==
    /\ l \in pbInbound /\ pbInbound' = pbInbound \ {l}
    /\ pbThrottled' = IF stamp = "bad" /\ l \in pbIdent \ Trusted THEN pbThrottled \cup {l} ELSE pbThrottled
    /\ UNCHANGED <<pbGate, pbIdent, backupVars>>

ThrottleEnds(l) ==
    /\ l \in pbThrottled /\ pbThrottled' = pbThrottled \ {l}
    /\ UNCHANGED <<pbGate, pbIdent, pbInbound, backupVars>>

PublishLinkCloses(l) ==
    /\ pbGate[l] # "none" /\ l \notin pbInbound
    /\ pbGate' = [pbGate EXCEPT ![l] = "none"] /\ pbIdent' = pbIdent \ {l}
    /\ UNCHANGED <<pbThrottled, pbInbound, backupVars>>

BackupNext ==
    \/ \E p \in Pairs : QueuePair(p)
    \/ TickBackup \/ HandleBackupPush \/ PushAccepted \/ PushRefused \/ PushThrows \/ AgePasses
    \/ \E silent \in BOOLEAN : PruneStaleBackups(silent)

PublishNext ==
    \/ \E l \in PubLinks : AcceptPublishLink(l) \/ PublisherIdentifies(l) \/ PublishAdvertised(l)
                              \/ ThrottleEnds(l) \/ PublishLinkCloses(l)
    \/ \E l \in PubLinks, stamp \in {"good", "bad"} : PublishEnds(l, stamp)
-----------------------------------------------------------------------------
\* No accepted subscription is forgotten on its way to the backup: one that waits or is being
\* pushed goes on to do so until the backup has taken it, unless the cap turned it away or a
\* push threw (tickBackupDelivery, _requeueBackupPairs).
BackupAccounted == [][\A p \in Pairs :
    InSeq(p, bkPending) \/ (InSeq(p, bkBatch) /\ bkTick = "pushing") =>
       InSeq(p, bkPending') \/ InSeq(p, bkBatch') \/ bkEntries'[p] # None \/ p \in bkThrown' \/ p \in bkCapped']_backupVars

\* _pushSubscriptionsToBackup: on any failure the pairs should be re-queued by the caller.
FailedPushIsRequeued == \A p \in bkThrown : InSeq(p, bkPending) \/ InSeq(p, bkBatch) \/ bkEntries[p] # None

\* A primary periodically pushes its pairs: what the backup accepted it keeps as long as the
\* owner serves the subscription.
BackupHolds == [][\A p \in bkSubscribed : bkEntries[p] # None => bkEntries'[p] # None]_backupVars

\* MAX_INBOUND_PUBLISHES: publishes beyond the cap are refused at advertisement time.
PublishCap == Cardinality(pbInbound \ Trusted) <= MaxInboundPublishes
=============================================================================
