------------------------------ MODULE RfedNode ------------------------------
(***************************************************************************)
(* One rfed node serving its subscribers: subscriptions, publishes and      *)
(* their fan-out to the subscribers that are present, the                   *)
(* deferred queue for those that are not, its draining by announce and by   *)
(* pull, and the periodic maintenance.  Fan-outs, drains and subscriptions  *)
(* await between their steps, so any number of them interleave.             *)
(*                                                                          *)
(* Then the other side: one client (RFedClient) and what the nodes it talks *)
(* to hold for it.  Every call of the client is a request on a link of its  *)
(* own, and nothing keeps calls from overlapping.                           *)
(*                                                                          *)
(* Last the program that runs a node, next to a propagation node if asked   *)
(* to: it saves their stores by a timer and at its end, and loads them.     *)
(***************************************************************************)
EXTENDS Naturals, Sequences, FiniteSets, SequencesExt

CONSTANTS
    Subscribers, Channels,
    MaxPublishes,      \* bound: messages published
    MaxSubscribes,     \* bound: subscribe requests
    QueueLimit,        \* deferredQueueLimit of a subscriber
    GlobalLimit,       \* globalLimit of the deferred queue
    PageSize,          \* pullPageSize
    StoreLimit,        \* storageLimitBytes, in blobs
    MaxDrains,         \* bound: drains under way at a time
    FedNodes,          \* the nodes a client talks to
    CostOf,            \* [FedNodes -> the stamp cost a node asks for and requires, 0 for none]
    RawNames,          \* the channels whose senders publish with publishRaw
    ClientCalls,       \* calls of the client that can be under way at once
    MaxClientCalls,    \* bound: calls of the client
    MaxBlobs,          \* bound: messages others publish for it
    StoredBlobs,       \* blobs the runner's node may hold, each in a channel of its own
    MaxSaves,          \* bound: saves of the timer under way at a time
    MaxChanges,        \* bound: changes of the stores that are saved as tables
    MaxRunnerStarts    \* bound: starts after the first

ASSUME RfedAssumption == {QueueLimit, StoreLimit} \subseteq Nat \ {0} /\ MaxChanges \in Nat

VARIABLES
    rfSubs,            \* _entries: sequence of [who, chan, backup]
    rfSubscribing,     \* subscribe() calls past their _find: sequence of [who, chan]
    rfSubCount,        \* subscribe requests received
    rfPresent,         \* subscribers whose delivery announce is within the presence TTL
    rfQueue,           \* deferred buckets: subscriber -> sequence of [msg, chan]
    rfMsgs,            \* messages published: sequence of channels
    rfStore,           \* blob store, oldest first: sequence of messages
    rfFan,             \* fan-outs in progress: sequence of [msg, rest]
    rfDrains,          \* drains in progress: sequence of [who, rest]
    rfOwed,            \* history: <<subscriber, message>> a fan-out set out to serve
    rfServed,          \* history: sent or pulled
    rfDropped,         \* history: given up by a limit, a TTL, an unsubscribe or a failed send
    rfSkipped          \* history: behind another one's failed send

rfedVars == <<rfSubs, rfSubscribing, rfSubCount, rfPresent, rfQueue, rfMsgs, rfStore, rfFan, rfDrains,
              rfOwed, rfServed, rfDropped, rfSkipped>>
rfHistory == <<rfOwed, rfServed, rfDropped, rfSkipped>>

RfedInit ==
    /\ rfSubs = << >> /\ rfSubscribing = << >> /\ rfSubCount = 0 /\ rfPresent = {}
    /\ rfQueue = [s \in Subscribers |-> << >>]
    /\ rfMsgs = << >> /\ rfStore = << >> /\ rfFan = << >> /\ rfDrains = << >>
    /\ rfOwed = {} /\ rfServed = {} /\ rfDropped = {} /\ rfSkipped = {}
-----------------------------------------------------------------------------
\* Subscriptions.

\* What a sequence holds at the given positions, in its order.
Picked(q, ns) ==
    LET nth(k) == CHOOSE n \in ns : Cardinality({o \in ns : o <= n}) = k
    IN  [k \in 1..Cardinality(ns) |-> q[nth(k)]]

IsSubscribed(s, c) == \E i \in DOMAIN rfSubs : rfSubs[i].who = s /\ rfSubs[i].chan = c

\* _handleSubscribe up to the await in SubscriptionTable.subscribe: any entry of the pair,
\* a backup one too, answers the request.
HandleSubscribe(s, c) ==
    /\ rfSubCount < MaxSubscribes /\ rfSubCount' = rfSubCount + 1
    /\ rfSubscribing' = IF IsSubscribed(s, c) THEN rfSubscribing ELSE Append(rfSubscribing, [who |-> s, chan |-> c])
    /\ UNCHANGED <<rfSubs, rfPresent, rfQueue, rfMsgs, rfStore, rfFan, rfDrains, rfHistory>>

Subscribe(i) ==
    /\ rfSubs' = Append(rfSubs, [who |-> rfSubscribing[i].who, chan |-> rfSubscribing[i].chan, backup |-> FALSE])
    /\ rfSubscribing' = RemoveAt(rfSubscribing, i)
    /\ UNCHANGED <<rfSubCount, rfPresent, rfQueue, rfMsgs, rfStore, rfFan, rfDrains, rfHistory>>

\* An owner node pushes a pair to this node as its backup.
SubscribeBackup(s, c) ==
    /\ rfSubCount < MaxSubscribes /\ rfSubCount' = rfSubCount + 1
    /\ rfSubs' = IF \E i \in DOMAIN rfSubs : rfSubs[i] = [who |-> s, chan |-> c, backup |-> TRUE]
                 THEN rfSubs ELSE Append(rfSubs, [who |-> s, chan |-> c, backup |-> TRUE])
    /\ UNCHANGED <<rfSubscribing, rfPresent, rfQueue, rfMsgs, rfStore, rfFan, rfDrains, rfHistory>>

\* Every entry of the pair goes; what is already queued for the subscriber stays.
HandleUnsubscribe(s, c) ==
    /\ IsSubscribed(s, c)
    /\ rfSubs' = Picked(rfSubs, {i \in DOMAIN rfSubs : ~(rfSubs[i].who = s /\ rfSubs[i].chan = c)})
    /\ UNCHANGED <<rfSubscribing, rfSubCount, rfPresent, rfQueue, rfMsgs, rfStore, rfFan, rfDrains, rfHistory>>
-----------------------------------------------------------------------------
\* Publishing and fan-out.

\* _handleSend of a message whose stamp is good: the blob is stored, the oldest ones making
\* room, and the fan-out starts on the subscribers of this moment.
Ingest(c) ==
    LET m    == Len(rfMsgs) + 1
        subs == Picked(rfSubs, {i \in DOMAIN rfSubs : rfSubs[i].chan = c})
        kept == IF Len(rfStore) >= StoreLimit THEN Tail(rfStore) ELSE rfStore
    IN  /\ rfMsgs' = Append(rfMsgs, c)
        /\ rfStore' = Append(kept, m)
        /\ rfFan' = IF subs = << >> THEN rfFan ELSE Append(rfFan, [msg |-> m, rest |-> subs])
        /\ rfOwed' = rfOwed \cup {<<subs[i].who, m>> : i \in {j \in DOMAIN subs : ~subs[j].backup}}

\* A publish in a single packet, or a resource that an open publish link carried; one whose
\* stamp is bad is ignored.
HandleSend(c) ==
    /\ Len(rfMsgs) < MaxPublishes
    /\ Ingest(c)
    /\ UNCHANGED <<rfSubs, rfSubscribing, rfSubCount, rfPresent, rfQueue, rfDrains,
                   rfServed, rfDropped, rfSkipped>>

QueuedTotal == MapThenSumSet(LAMBDA s : Len(rfQueue[s]), Subscribers)

\* DeferredQueue.enqueue: at the global limit nothing happens, at the subscriber's limit the
\* oldest entry makes room.
Enqueue(s, m) ==
    IF QueuedTotal >= GlobalLimit
    THEN rfDropped' = rfDropped \cup {<<s, m>>} /\ UNCHANGED rfQueue
    ELSE LET full == Len(rfQueue[s]) >= QueueLimit
             item == [msg |-> m, chan |-> rfMsgs[m]]
         IN  /\ rfQueue' = [rfQueue EXCEPT ![s] = Append(IF full THEN Tail(@) ELSE @, item)]
             /\ rfDropped' = IF full THEN rfDropped \cup {<<s, rfQueue[s][1].msg>>} ELSE rfDropped

NextSub(i) == rfFan[i].rest[1]

\* The fan-out has dealt with its next subscriber.
Advance(i) ==
    rfFan' = IF Len(rfFan[i].rest) = 1 THEN RemoveAt(rfFan, i) ELSE [rfFan EXCEPT ![i].rest = Tail(@)]

\* An absent subscriber, or one this node is only the backup of while its owner is silent.
FanoutDefers(i) ==
    /\ NextSub(i).backup \/ NextSub(i).who \notin rfPresent
    /\ Advance(i) /\ Enqueue(NextSub(i).who, rfFan[i].msg)
    /\ UNCHANGED <<rfSubs, rfSubscribing, rfSubCount, rfPresent, rfMsgs, rfStore, rfDrains,
                   rfOwed, rfServed, rfSkipped>>

\* The owner of a backup entry is reachable, so this node leaves the delivery to it.
FanoutLeavesToOwner(i) ==
    /\ NextSub(i).backup /\ Advance(i)
    /\ UNCHANGED <<rfSubs, rfSubscribing, rfSubCount, rfPresent, rfQueue, rfMsgs, rfStore, rfDrains, rfHistory>>

FanoutSends(i) ==
    LET pair == <<NextSub(i).who, rfFan[i].msg>>
        rest == {<<rfFan[i].rest[j].who, rfFan[i].msg>> : j \in 2..Len(rfFan[i].rest)}
    IN  /\ ~NextSub(i).backup /\ NextSub(i).who \in rfPresent
        /\ \/ rfServed' = rfServed \cup {pair} /\ Advance(i) /\ UNCHANGED <<rfDropped, rfSkipped>>
           \* the send throws: the rest of the fan-out is abandoned
           \/ /\ rfDropped' = rfDropped \cup {pair} /\ rfSkipped' = rfSkipped \cup rest
              /\ rfFan' = RemoveAt(rfFan, i) /\ UNCHANGED rfServed
        /\ UNCHANGED <<rfSubs, rfSubscribing, rfSubCount, rfPresent, rfQueue, rfMsgs, rfStore, rfDrains, rfOwed>>
-----------------------------------------------------------------------------
\* Presence, draining and pulling.

\* _onAnnounce of a delivery destination: present, and its bucket is taken out and sent.
SubscriberAnnounced(s) ==
    /\ Len(rfDrains) < MaxDrains
    /\ rfPresent' = rfPresent \cup {s}
    /\ IF rfQueue[s] # << >> /\ \E i \in DOMAIN rfSubs : rfSubs[i].who = s /\ ~rfSubs[i].backup
       THEN /\ rfDrains' = Append(rfDrains, [who |-> s, rest |-> rfQueue[s]])
            /\ rfQueue' = [rfQueue EXCEPT ![s] = << >>]
       ELSE s \notin rfPresent /\ UNCHANGED <<rfDrains, rfQueue>>
    /\ UNCHANGED <<rfSubs, rfSubscribing, rfSubCount, rfMsgs, rfStore, rfFan, rfHistory>>

DrainSends(i) ==
    LET d    == rfDrains[i]
        pair == <<d.who, d.rest[1].msg>>
        more == {<<d.who, d.rest[j].msg>> : j \in 2..Len(d.rest)}
    IN  /\ \/ /\ rfServed' = rfServed \cup {pair}
              /\ rfDrains' = IF Len(d.rest) = 1 THEN RemoveAt(rfDrains, i) ELSE [rfDrains EXCEPT ![i].rest = Tail(@)]
              /\ UNCHANGED <<rfDropped, rfSkipped>>
           \/ /\ rfDropped' = rfDropped \cup {pair} /\ rfSkipped' = rfSkipped \cup more
              /\ rfDrains' = RemoveAt(rfDrains, i) /\ UNCHANGED rfServed
        /\ UNCHANGED <<rfSubs, rfSubscribing, rfSubCount, rfPresent, rfQueue, rfMsgs, rfStore, rfFan, rfOwed>>

PresenceLapses(s) ==
    /\ s \in rfPresent /\ rfPresent' = rfPresent \ {s}
    /\ UNCHANGED <<rfSubs, rfSubscribing, rfSubCount, rfQueue, rfMsgs, rfStore, rfFan, rfDrains, rfHistory>>

\* Mutant: a page takes the bucket with it, entries of other channels included.
DrainChannelBatchAll(s, c) ==
    [taken |-> Picked(rfQueue[s], {i \in DOMAIN rfQueue[s] : rfQueue[s][i].chan = c}), kept |-> << >>]

\* The first PageSize entries of the channel, and what stays in the bucket.
DrainChannelBatch(s, c) ==
    LET nth(i) == Cardinality({j \in 1..i : rfQueue[s][j].chan = c})
        page == {i \in DOMAIN rfQueue[s] : rfQueue[s][i].chan = c /\ nth(i) <= PageSize}
    IN  [taken |-> Picked(rfQueue[s], page), kept |-> Picked(rfQueue[s], DOMAIN rfQueue[s] \ page)]

HandlePull(s, c) ==
    LET page == DrainChannelBatch(s, c)
    IN  /\ page.taken # << >>
        /\ rfQueue' = [rfQueue EXCEPT ![s] = page.kept]
        /\ rfServed' = rfServed \cup {<<s, page.taken[i].msg>> : i \in DOMAIN page.taken}
        /\ UNCHANGED <<rfSubs, rfSubscribing, rfSubCount, rfPresent, rfMsgs, rfStore, rfFan, rfDrains,
                       rfOwed, rfDropped, rfSkipped>>

\* tickMaintenance: the oldest blob, the oldest entries of a bucket or both are past their TTL.
TickMaintenance(s) ==
    /\ UNCHANGED rfStore \/ (rfStore # << >> /\ rfStore' = Tail(rfStore))
    /\ \E n \in 0..Len(rfQueue[s]) :
          /\ rfQueue' = [rfQueue EXCEPT ![s] = SubSeq(@, n + 1, Len(@))]
          /\ rfDropped' = rfDropped \cup {<<s, rfQueue[s][i].msg>> : i \in 1..n}
    /\ UNCHANGED <<rfSubs, rfSubscribing, rfSubCount, rfPresent, rfMsgs, rfFan, rfDrains,
                   rfOwed, rfServed, rfSkipped>>

\* What a bucket that was empty holds after n entries.
Held(n) == IF n < QueueLimit THEN n ELSE QueueLimit

\* _backupDeliveryTick: the owner is silent and nothing is queued, so the channel's whole
\* backlog is queued for the subscriber; at the global limit the rest of it is not.
BackupDeliveryTick(i) ==
    LET s   == rfSubs[i].who
        ids == Picked(rfStore, {j \in DOMAIN rfStore : rfMsgs[rfStore[j]] = rfSubs[i].chan})
    IN  /\ rfSubs[i].backup /\ rfQueue[s] = << >>
        /\ \E n \in 1..Len(ids) :
              /\ QueuedTotal + Held(n - 1) < GlobalLimit
              /\ n = Len(ids) \/ QueuedTotal + Held(n) >= GlobalLimit
              /\ rfQueue' = [rfQueue EXCEPT ![s] =
                    [k \in 1..Held(n) |-> [msg |-> ids[n - Held(n) + k], chan |-> rfSubs[i].chan]]]
        /\ UNCHANGED <<rfSubs, rfSubscribing, rfSubCount, rfPresent, rfMsgs, rfStore, rfFan, rfDrains, rfHistory>>

RfedNext ==
    \/ \E s \in Subscribers, c \in Channels :
          HandleSubscribe(s, c) \/ SubscribeBackup(s, c) \/ HandleUnsubscribe(s, c) \/ HandlePull(s, c)
    \/ \E i \in DOMAIN rfSubscribing : Subscribe(i)
    \/ \E c \in Channels : HandleSend(c)
    \/ \E i \in DOMAIN rfFan : FanoutDefers(i) \/ FanoutLeavesToOwner(i) \/ FanoutSends(i)
    \/ \E s \in Subscribers : SubscriberAnnounced(s) \/ PresenceLapses(s) \/ TickMaintenance(s)
    \/ \E i \in DOMAIN rfDrains : DrainSends(i)
    \/ \E i \in DOMAIN rfSubs : BackupDeliveryTick(i)
-----------------------------------------------------------------------------
\* The client.

VARIABLES
    rcCall,            \* call -> [op, node, chan, pc, value]
    rcCounts,          \* bounds: [calls, blobs]
    rcCosts,           \* stampCosts: channel -> cost, 0 when there is none
    rcRaw,             \* rawChannels
    rcTable,           \* node -> what it holds for this client: [subs, notify, pending]
    rcWire,            \* fan-out packets on their way to the client
    rcUsed,            \* history: nodes called
    rcTrouble,         \* history: calls overlapped, or one failed
    rcMisread,         \* history: onMessage was called with a blob decoded for what it is not
    rcUndecoded,       \* history: a raw blob was dropped
    rcPassedOver,      \* history: a blob was deferred for a client that registered for all, without a wake
    rcRefused          \* history: a publish with the cached cost came to nothing

clientVars == <<rcCall, rcCounts, rcCosts, rcRaw, rcTable, rcWire, rcUsed, rcTrouble,
                rcMisread, rcUndecoded, rcPassedOver, rcRefused>>
clientHistory == <<rcUsed, rcTrouble, rcMisread, rcUndecoded, rcPassedOver, rcRefused>>

Global == 0 \* the null channel of a notify registration
IdleCall == [op |-> "none", node |-> CHOOSE n \in FedNodes : TRUE, chan |-> Global, pc |-> "idle", value |-> 0]

RfedClientInit ==
    /\ rcCall = [k \in ClientCalls |-> IdleCall] /\ rcCounts = [calls |-> 0, blobs |-> 0]
    /\ rcCosts = [c \in Channels |-> 0] /\ rcRaw = {}
    /\ rcTable = [n \in FedNodes |-> [subs |-> {}, notify |-> {}, pending |-> {}]]
    /\ rcWire = {} /\ rcUsed = {} /\ rcTrouble = FALSE
    /\ rcMisread = FALSE /\ rcUndecoded = FALSE /\ rcPassedOver = FALSE /\ rcRefused = FALSE

\* The encrypted blob of a message, and a stamp behind it when a cost is given...
WrapChannelMessage(c, cost) == [chan |-> c, kind |-> "lxmf", stamp |-> cost]

\* ...and of any other payload.
WrapRawChannelMessage(c, cost) == [chan |-> c, kind |-> "raw", stamp |-> cost]

Wrapped(c, cost) == IF c \in RawNames THEN WrapRawChannelMessage(c, cost) ELSE WrapChannelMessage(c, cost)

\* parseSendPayload, used by a node that asks for stamps; any other one takes what follows
\* the channel hash for the blob, a stamp included.
ParseSendPayload(n, payload) ==
    [stamp |-> payload.stamp, blob |-> IF CostOf[n] > 0 THEN [payload EXCEPT !.stamp = 0] ELSE payload]

\* A blob that has become longer does not decrypt, and neither is there a message in a raw
\* payload, whose source would be the sender's address...
UnwrapChannelMessage(blob) == blob.stamp = 0 /\ blob.kind = "lxmf"

\* ...whereas as a raw payload anything will do.
UnwrapRawChannelMessage(blob) == blob.stamp = 0

\* parseNotifyCommand: with an operation, which must be the handler's; in the older form
\* without; or a relay alone.
ParseNotifyCommand(value, handler) ==
    CASE Len(value) = 3 -> IF value[1] = handler THEN {value[3]} ELSE {}
      [] Len(value) = 2 -> {value[2]}
      [] OTHER -> {Global}

NotifyCommands(op, c) == {<<op, "relay", c>>, <<"relay", c>>, <<"relay">>}
-----------------------------------------------------------------------------
\* A method of the client is called and has its link.  (A call that does not know the node's
\* identity ends at once and changes nothing.)  Calls take the first free number.
Call(k, op, n, c, value) ==
    /\ rcCall[k].pc = "idle" /\ rcCounts.calls < MaxClientCalls
    /\ \A j \in ClientCalls : j < k => rcCall[j].pc # "idle"
    /\ rcCounts' = [rcCounts EXCEPT !.calls = @ + 1]
    /\ rcCall' = [rcCall EXCEPT ![k] = [op |-> op, node |-> n, chan |-> c, pc |-> "asking", value |-> value]]
    /\ rcUsed' = rcUsed \cup {n}
    /\ rcTrouble' = (rcTrouble \/ \E j \in ClientCalls : rcCall[j].pc # "idle")
    /\ UNCHANGED <<rcCosts, rcRaw, rcTable, rcWire, rcMisread, rcUndecoded, rcPassedOver, rcRefused>>

\* subscribe, or subscribeRaw for a raw channel.
CallSubscribe(k, n, c) == Call(k, "subscribe", n, c, 0)
CallUnsubscribe(k, n, c) == Call(k, "unsubscribe", n, c, 0)
CallPull(k, n, c) == Call(k, "pull", n, c, 0)

\* publish and publishRaw, with the stamp the cache asks for.
Publish(k, n, c) == c \notin RawNames /\ Call(k, "publish", n, c, rcCosts[c])
PublishRaw(k, n, c) == c \in RawNames /\ Call(k, "publish", n, c, rcCosts[c])

\* registerNotify and unregisterNotify, for a channel or for all; clearNotify.
NotifyCommand(k, n, c) == \E op \in {"register", "unregister"} : Call(k, op, n, c, 0)
ClearNotify(k, n) == Call(k, "clear", n, Global, 0)

\* The node's handler has run: its table for this client, and its answer.
Answered(k, op, table, value) ==
    /\ rcCall[k].pc = "asking" /\ rcCall[k].op = op
    /\ rcTable' = [rcTable EXCEPT ![rcCall[k].node] = table]
    /\ rcCall' = [rcCall EXCEPT ![k] = [@ EXCEPT !.pc = "answered", !.value = value]]
    /\ UNCHANGED <<rcCounts, rcCosts, rcRaw, rcWire, clientHistory>>

AnswerSubscribe(k) ==
    LET table == rcTable[rcCall[k].node]
    IN  Answered(k, "subscribe", [table EXCEPT !.subs = @ \cup {rcCall[k].chan}], CostOf[rcCall[k].node])

AnswerUnsubscribe(k) ==
    LET table == rcTable[rcCall[k].node]
    IN  Answered(k, "unsubscribe", [table EXCEPT !.subs = @ \ {rcCall[k].chan}], 0)

\* The page leaves the queue as it is sent.
AnswerPull(k) ==
    LET table == rcTable[rcCall[k].node]
        page == {b \in table.pending : b.chan = rcCall[k].chan}
    IN  Answered(k, "pull", [table EXCEPT !.pending = @ \ page], Cardinality(page))

\* NotifyRegistry.register and unregister; a registration is its channel.
Registered(table, chans) == [table EXCEPT !.notify = @ \cup chans]
Unregistered(table, chans) == [table EXCEPT !.notify = @ \ chans]

AnswerRegister(k) == \E value \in NotifyCommands("register", rcCall[k].chan) :
    Answered(k, "register", Registered(rcTable[rcCall[k].node], ParseNotifyCommand(value, "register")), 0)

AnswerUnregister(k) == \E value \in NotifyCommands("unregister", rcCall[k].chan) :
    Answered(k, "unregister", Unregistered(rcTable[rcCall[k].node], ParseNotifyCommand(value, "unregister")), 0)

AnswerClear(k) == Answered(k, "clear", [rcTable[rcCall[k].node] EXCEPT !.notify = {}], 0)

\* The registrations of this very channel.
GetForSubscriber(n, c) == rcTable[n].notify \cap {c}

\* A wake goes to the relay of each of them that is known.
FireChannelNotify(n, c) ==
    rcPassedOver' = (rcPassedOver \/ (Global \in rcTable[n].notify /\ GetForSubscriber(n, c) = {}))

\* What a fan-out at the node does for this client: _sendDelivery while it is present, the
\* deferred queue and a wake when it is not.
ServeClient(n, blob) ==
    IF blob.chan \notin rcTable[n].subs THEN UNCHANGED <<rcWire, rcTable, rcPassedOver>>
    ELSE \/ rcWire' = rcWire \cup {blob} /\ UNCHANGED <<rcTable, rcPassedOver>>
         \/ /\ rcTable' = [rcTable EXCEPT ![n].pending = @ \cup {blob}]
            /\ FireChannelNotify(n, blob.chan) /\ UNCHANGED rcWire

\* The publish reaches the node, which serves it to this client as to any other subscriber,
\* or ignores it for want of a stamp.
PublishArrives(k) ==
    LET n == rcCall[k].node
        sent == ParseSendPayload(n, Wrapped(rcCall[k].chan, rcCall[k].value))
        enough == sent.stamp >= CostOf[n]
    IN  /\ rcCall[k].pc = "asking" /\ rcCall[k].op = "publish"
        /\ rcCall' = [rcCall EXCEPT ![k] = IdleCall]
        /\ IF enough THEN ServeClient(n, sent.blob) ELSE UNCHANGED <<rcWire, rcTable, rcPassedOver>>
        /\ rcRefused' = (rcRefused \/ (/\ ~rcTrouble /\ rcCall[k].chan \in rcTable[n].subs
                                       /\ ~(enough /\ sent.blob.stamp = 0)))
        /\ UNCHANGED <<rcCounts, rcCosts, rcRaw, rcUsed, rcTrouble, rcMisread, rcUndecoded>>

\* Someone else publishes.
OthersPublish(n, c) ==
    /\ rcCounts.blobs < MaxBlobs /\ rcCounts' = [rcCounts EXCEPT !.blobs = @ + 1]
    /\ c \in rcTable[n].subs /\ ServeClient(n, Wrapped(c, 0))
    /\ UNCHANGED <<rcCall, rcCosts, rcRaw, rcUsed, rcTrouble, rcMisread, rcUndecoded, rcRefused>>

\* The response is there: what it changes, before the link is torn down and that awaited.
ClientResumes(k) ==
    /\ rcCall[k].pc = "answered"
    /\ rcCall' = [rcCall EXCEPT ![k].pc = "closing"]
    /\ rcCosts' = IF rcCall[k].op = "subscribe" THEN [rcCosts EXCEPT ![rcCall[k].chan] = rcCall[k].value] ELSE rcCosts
    /\ rcRaw' = IF rcCall[k].op = "unsubscribe" THEN rcRaw \ {rcCall[k].chan} ELSE rcRaw
    /\ UNCHANGED <<rcCounts, rcTable, rcWire, clientHistory>>

\* The link is torn down, and subscribeRaw marks the channel.
ClientEnds(k) ==
    /\ rcCall[k].pc = "closing"
    /\ rcRaw' = IF rcCall[k].op = "subscribe" THEN rcRaw \cup ({rcCall[k].chan} \cap RawNames) ELSE rcRaw
    /\ rcCall' = [rcCall EXCEPT ![k] = IdleCall]
    /\ UNCHANGED <<rcCounts, rcCosts, rcTable, rcWire, clientHistory>>

\* The link, the request or its response fails: the call rejects, its link torn down.
CallFails(k) ==
    /\ rcCall[k].pc \in {"asking", "answered"}
    /\ rcCall' = [rcCall EXCEPT ![k] = IdleCall] /\ rcTrouble' = TRUE
    /\ UNCHANGED <<rcCounts, rcCosts, rcRaw, rcTable, rcWire, rcUsed, rcMisread, rcUndecoded,
                   rcPassedOver, rcRefused>>

\* _handleDelivery: the blob is decoded as its channel is marked, and dropped when it does
\* not decode.  (The channel is one _channelByHash finds: the call that subscribed derived it.)
HandleDelivery(blob) ==
    LET path == IF blob.chan \in rcRaw THEN "raw" ELSE "lxmf"
        shows == IF path = "raw" THEN UnwrapRawChannelMessage(blob) ELSE UnwrapChannelMessage(blob)
    IN  /\ rcWire' = rcWire \ {blob}
        /\ rcMisread' = (rcMisread \/ (shows /\ path # blob.kind))
        /\ rcUndecoded' = (rcUndecoded \/ (~shows /\ blob.kind = "raw" /\ blob.stamp = 0))
        /\ UNCHANGED <<rcCall, rcCounts, rcCosts, rcRaw, rcTable, rcUsed, rcTrouble,
                       rcPassedOver, rcRefused>>

RfedClientNext ==
    \/ \E k \in ClientCalls :
          \/ \E n \in FedNodes :
                \/ ClearNotify(k, n)
                \/ \E c \in Channels \cup {Global} : NotifyCommand(k, n, c)
                \/ \E c \in Channels :
                      \/ CallSubscribe(k, n, c) \/ CallUnsubscribe(k, n, c) \/ CallPull(k, n, c)
                      \/ Publish(k, n, c) \/ PublishRaw(k, n, c)
          \/ ClientResumes(k) \/ ClientEnds(k) \/ CallFails(k) \/ PublishArrives(k)
          \/ AnswerSubscribe(k) \/ AnswerUnsubscribe(k) \/ AnswerPull(k)
          \/ AnswerRegister(k) \/ AnswerUnregister(k) \/ AnswerClear(k)
    \/ \E n \in FedNodes, c \in Channels : OthersPublish(n, c)
    \/ \E blob \in rcWire : HandleDelivery(blob)
-----------------------------------------------------------------------------
\* The runner.

VARIABLES
    rsUp,              \* "up", "leaving" while shutdown() saves, "down", or "refused" by a load that threw
    rsMem,             \* the stores: [blobs, damaged, tables]; a table is the number of its last change
    rsBlobFile,        \* blob -> "none", "part" or "whole"
    rsDirs,            \* blobs whose channel has its directory
    rsFiles,           \* table -> what its file holds: a change, 0 for nothing, or CutOff
    rsSaves,           \* saves under way: sequence of [pc, left, blob, table, val, last]
    rsCounts,          \* bounds: [changes, starts]
    rsOwed,            \* history: the stores as shutdown() began; of a process that died, none
    rsClash            \* history: saves met, one failed, or the process died in one

runnerVars == <<rsUp, rsMem, rsBlobFile, rsDirs, rsFiles, rsSaves, rsCounts, rsOwed, rsClash>>

\* The files of one save in the order it writes them; the last is the propagation node's.
Tables == <<"subscriptions", "deferred", "notify", "messages">>
CutOff == MaxChanges + 1     \* a file opened for writing and not written to its end
NoStores == [blobs |-> {}, damaged |-> {}, tables |-> [t \in Range(Tables) |-> 0]]

RunnerInit ==
    /\ rsUp = "up" /\ rsMem = NoStores /\ rsBlobFile = [b \in StoredBlobs |-> "none"] /\ rsDirs = {}
    /\ rsFiles = NoStores.tables /\ rsSaves = << >> /\ rsCounts = [changes |-> 0, starts |-> 0]
    /\ rsOwed = NoStores /\ rsClash = FALSE

Running == rsUp \in {"up", "leaving"}

\* A request or a packet changes a table, or a blob is published; also after node.stop(),
\* which only takes the announce listener away.
StoresChange ==
    /\ Running
    /\ \/ \E t \in Range(Tables) :
             /\ rsCounts.changes < MaxChanges /\ rsCounts' = [rsCounts EXCEPT !.changes = @ + 1]
             /\ rsMem' = [rsMem EXCEPT !.tables[t] = rsCounts.changes + 1]
       \/ \E b \in StoredBlobs \ rsMem.blobs :
             rsMem' = [rsMem EXCEPT !.blobs = @ \cup {b}] /\ UNCHANGED rsCounts
    /\ UNCHANGED <<rsUp, rsBlobFile, rsDirs, rsFiles, rsSaves, rsOwed, rsClash>>

\* saveRFedStores and saveLXMFStore are called.
SaveBegins(last) ==
    /\ rsSaves' = Append(rsSaves, [pc |-> "remove", left |-> {}, blob |-> 0, table |-> 1, val |-> 0, last |-> last])
    /\ rsClash' = (rsClash \/ rsSaves # << >>)

\* persist(), by its interval: blobs past their TTL go first.
Persist == \E aged \in SUBSET rsMem.blobs :
    /\ rsUp = "up" /\ Len(rsSaves) < MaxSaves /\ SaveBegins(FALSE)
    /\ rsMem' = [rsMem EXCEPT !.blobs = @ \ aged, !.damaged = @ \ aged]
    /\ UNCHANGED <<rsUp, rsBlobFile, rsDirs, rsFiles, rsCounts, rsOwed>>

\* shutdown(), on a signal: no further save of the timer, but one under way goes on.
Shutdown ==
    /\ rsUp = "up" /\ rsUp' = "leaving" /\ SaveBegins(TRUE) /\ rsOwed' = rsMem
    /\ UNCHANGED <<rsMem, rsBlobFile, rsDirs, rsFiles, rsCounts>>

At(i, pc) == Running /\ rsSaves[i].pc = pc

\* The process is gone, and with it what a save had not written.
Gone(others) ==
    LET writing == {Tables[rsSaves[i].table] : i \in {j \in others : rsSaves[j].pc = "put"}}
        cut == {t \in writing : rsFiles[t] = CutOff}
    IN  /\ \E f \in [cut -> {0, CutOff}] : rsFiles' = [t \in Range(Tables) |-> IF t \in cut THEN f[t] ELSE rsFiles[t]]
        /\ rsUp' = "down" /\ rsSaves' = << >>

\* A save is over, or an operation of it failed.  The one of shutdown() ends the process.
Over(i) ==
    IF rsSaves[i].last THEN Gone(DOMAIN rsSaves \ {i})
    ELSE rsSaves' = RemoveAt(rsSaves, i) /\ UNCHANGED <<rsUp, rsFiles>>

\* The tree of blobs is removed, and made again empty.
RemovesBlobs(i) ==
    /\ At(i, "remove") /\ rsSaves' = [rsSaves EXCEPT ![i].pc = "export"]
    /\ rsBlobFile' = [b \in StoredBlobs |-> "none"] /\ rsDirs' = {}
    /\ UNCHANGED <<rsUp, rsMem, rsFiles, rsCounts, rsOwed, rsClash>>

\* exportRecords of the blobs: as they are now...
ExportBlobs == rsMem.blobs

\* ...and on to the first one.
ExportsBlobs(i) ==
    /\ At(i, "export") /\ rsSaves' = [rsSaves EXCEPT ![i] = [@ EXCEPT !.pc = "next", !.left = ExportBlobs]]
    /\ UNCHANGED <<rsUp, rsMem, rsBlobFile, rsDirs, rsFiles, rsCounts, rsOwed, rsClash>>

\* The directory of a channel is made...
MakesDirectory(i) == \E b \in rsSaves[i].left :
    /\ At(i, "next") /\ rsDirs' = rsDirs \cup {b}
    /\ rsSaves' = [rsSaves EXCEPT ![i] = [@ EXCEPT !.pc = "open", !.blob = b, !.left = rsSaves[i].left \ {b}]]
    /\ UNCHANGED <<rsUp, rsMem, rsBlobFile, rsFiles, rsCounts, rsOwed, rsClash>>

\* ...the file in it opened, unless another save has removed the directory since...
OpensBlob(i) ==
    LET b == rsSaves[i].blob
    IN  /\ At(i, "open")
        /\ IF b \in rsDirs
           THEN /\ rsBlobFile' = [rsBlobFile EXCEPT ![b] = "part"]
                /\ rsSaves' = [rsSaves EXCEPT ![i].pc = "write"] /\ UNCHANGED <<rsUp, rsFiles>>
           ELSE Over(i) /\ UNCHANGED rsBlobFile
        /\ UNCHANGED <<rsMem, rsDirs, rsCounts, rsOwed, rsClash>>

\* ...and the bytes written, and the file given its time, which a removed one cannot be.
WritesBlob(i) ==
    LET b == rsSaves[i].blob
    IN  /\ At(i, "write")
        /\ IF rsBlobFile[b] # "none"
           THEN /\ rsBlobFile' = [rsBlobFile EXCEPT ![b] = IF b \in rsMem.damaged THEN "part" ELSE "whole"]
                /\ rsSaves' = [rsSaves EXCEPT ![i].pc = "next"] /\ UNCHANGED <<rsUp, rsFiles>>
           ELSE Over(i) /\ UNCHANGED rsBlobFile
        /\ UNCHANGED <<rsMem, rsDirs, rsCounts, rsOwed, rsClash>>

\* exportRecords of a table.
ExportTable(t) == rsMem.tables[t]

\* The next table is exported, and its file opened and thereby emptied...
OpensTable(i) ==
    LET t == Tables[rsSaves[i].table]
    IN  /\ At(i, "next") /\ rsSaves[i].left = {}
        /\ rsSaves' = [rsSaves EXCEPT ![i] = [@ EXCEPT !.pc = "put", !.val = ExportTable(t)]]
        /\ rsFiles' = [rsFiles EXCEPT ![t] = CutOff]
        /\ UNCHANGED <<rsUp, rsMem, rsBlobFile, rsDirs, rsCounts, rsOwed, rsClash>>

\* ...and written to its end; two writes of one file may mix.
WritesTable(i) ==
    LET t == Tables[rsSaves[i].table]
    IN  /\ At(i, "put")
        /\ \E v \in IF rsFiles[t] = CutOff THEN {rsSaves[i].val} ELSE {rsSaves[i].val, CutOff} :
              rsFiles' = [rsFiles EXCEPT ![t] = v]
        /\ rsSaves' = [rsSaves EXCEPT ![i] = [@ EXCEPT !.table = rsSaves[i].table + 1,
                                                       !.pc = IF rsSaves[i].table = Len(Tables) THEN "done" ELSE "next"]]
        /\ UNCHANGED <<rsUp, rsMem, rsBlobFile, rsDirs, rsCounts, rsOwed, rsClash>>

SaveEnds(i) ==
    /\ At(i, "done") /\ Over(i)
    /\ UNCHANGED <<rsMem, rsBlobFile, rsDirs, rsCounts, rsOwed, rsClash>>

\* An operation of a save fails, and what it was writing stays as it is.
SaveFails(i) ==
    /\ Running /\ rsSaves[i].pc # "done" /\ Over(i) /\ rsClash' = TRUE
    /\ UNCHANGED <<rsMem, rsBlobFile, rsDirs, rsCounts, rsOwed>>

\* The process dies.
RunnerDies ==
    /\ Running /\ Gone(DOMAIN rsSaves) /\ rsOwed' = NoStores /\ rsClash' = (rsClash \/ rsSaves # << >>)
    /\ UNCHANGED <<rsMem, rsBlobFile, rsDirs, rsCounts>>

\* importRecords of the blobs: every file is one, whatever is in it.
ImportBlobs ==
    [blobs   |-> {b \in StoredBlobs : rsBlobFile[b] # "none"},
     damaged |-> {b \in StoredBlobs : rsBlobFile[b] = "part"},
     tables  |-> NoStores.tables]

\* loadTable and loadLXMFStore: an empty file is an empty table, and one that ends too early
\* does not decode.
Throws(file) == file = CutOff
ImportTable(file) == file

\* loadRFedStores, with the propagation node's store.
LoadStores == [ImportBlobs EXCEPT !.tables = [t \in Range(Tables) |-> ImportTable(rsFiles[t])]]

\* main(), which does not survive a load that throws.
RunnerStarts ==
    /\ rsUp = "down" /\ rsCounts.starts < MaxRunnerStarts
    /\ rsCounts' = [rsCounts EXCEPT !.starts = @ + 1]
    /\ IF \E t \in Range(Tables) : Throws(rsFiles[t])
       THEN rsUp' = "refused" /\ UNCHANGED <<rsMem, rsOwed, rsClash>>
       ELSE /\ rsUp' = "up" /\ rsOwed' = NoStores /\ rsClash' = FALSE
            /\ rsMem' = LoadStores
    /\ UNCHANGED <<rsBlobFile, rsDirs, rsFiles, rsSaves>>

RunnerNext ==
    \/ StoresChange \/ Persist \/ Shutdown \/ RunnerDies \/ RunnerStarts
    \/ \E i \in DOMAIN rsSaves :
          \/ RemovesBlobs(i) \/ ExportsBlobs(i) \/ MakesDirectory(i) \/ OpensBlob(i) \/ WritesBlob(i)
          \/ OpensTable(i) \/ WritesTable(i) \/ SaveEnds(i) \/ SaveFails(i)
-----------------------------------------------------------------------------
\* A client that makes one call after the other, to one node, without a failure, knows
\* between them how the channels it is subscribed to are to be decoded, and the stamps the
\* node asks for; and nothing is ever shown for what it is not (subscribeRaw, unsubscribe,
\* _handleDelivery).
ClientFollows ==
    /\ ~rcMisread
    /\ ~rcTrouble /\ Cardinality(rcUsed) <= 1 /\ (\A k \in ClientCalls : rcCall[k].pc = "idle") =>
         \A c \in Channels :
            /\ c \in rcRaw <=> c \in RawNames /\ \E n \in FedNodes : c \in rcTable[n].subs
            /\ \A n \in FedNodes : c \in rcTable[n].subs => rcCosts[c] = CostOf[n]

\* After a shutdown that met no other save and no failure the disk holds everything the node held when it
\* began, in files a start can load; and only a save that met another one, failed or died leaves
\* files that no start can load (persist, shutdown, saveRFedStores, loadRFedStores).
StoresSurvive ==
    /\ rsUp = "down" /\ ~rsClash =>
         /\ \A t \in Range(Tables) : rsFiles[t] # CutOff /\ rsFiles[t] >= rsOwed.tables[t]
         /\ \A b \in rsOwed.blobs : rsBlobFile[b] = IF b \in rsOwed.damaged THEN "part" ELSE "whole"
    /\ rsUp = "refused" => rsClash

\* The table files are "overwritten atomically": a start finds them as one save left them.
TablesAreWhole == rsUp \in {"down", "refused"} => \A t \in Range(Tables) : rsFiles[t] # CutOff

\* Every message a fan-out owed a subscriber is sent, pulled, queued or under way, or was
\* given up by a limit, a TTL or a failed send: announces, lapsing presence, pulls of one
\* channel and concurrent fan-outs lose nothing else (_fanout, _drainDeferredFor,
\* drainChannelBatch, enqueue).  And a client knows what it subscribed to (ClientFollows),
\* and a node's stores outlive its process (StoresSurvive).
RfedAccounted ==
  /\ ClientFollows /\ StoresSurvive
  /\ \A p \in rfOwed \ (rfServed \cup rfDropped \cup rfSkipped) :
       \/ \E i \in DOMAIN rfQueue[p[1]] : rfQueue[p[1]][i].msg = p[2]
       \/ \E i \in DOMAIN rfDrains : rfDrains[i].who = p[1] /\ \E j \in DOMAIN rfDrains[i].rest : rfDrains[i].rest[j].msg = p[2]
       \/ \E i \in DOMAIN rfFan : rfFan[i].msg = p[2] /\ \E j \in DOMAIN rfFan[i].rest : rfFan[i].rest[j].who = p[1]

\* SubscriptionTable.subscribe: registering a pair is idempotent.
SubscribeIdempotent == \A i, j \in DOMAIN rfSubs : rfSubs[i] = rfSubs[j] => i = j

\* _fanout: present subscribers receive the blob, absent ones get it queued.
EverySubscriberServed == rfSkipped = {}

\* subscribeRaw marks the channel "so incoming fanout is decoded via unwrapRawChannelMessage".
RawIsDecoded == ~rcUndecoded

\* registerNotify: the node sends a wake for a blob deferred "on the given channel (or
\* globally if channelName is omitted)".
RegisteredIsWoken == ~rcPassedOver

\* publish uses "the cached stamp cost (from the last subscribe)": enough for a node that the
\* client is subscribed at.
CachedCostIsEnough == ~rcRefused
=============================================================================
