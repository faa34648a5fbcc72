# A TLA+ verification of reticulum-js

This directory holds TLA+ models of the protocol core of reticulum-js, the TLC
configurations that check them on small instances, and TLAPS proofs of the
properties that matter most for every value of the constants.
`PROJECT.json` is the machine-readable index: which definition models which
lines, which run checks which property, which hazards of the code the
properties are aimed at, and where the code and its own documentation disagree.

The code runs on one JavaScript event loop. There are no threads, but every
`await` is a point where anything else may run: another handler, a timer, the
close of a link, the loss of an interface. The models therefore split a handler
at exactly its awaits, keep everything between two awaits in one action, and
let the actions of all components interleave. The network between two nodes
loses, delays, reorders and, where the code can meet it, repeats packets.

## 1. The system

| Part | State | Operations | Talks to |
|---|---|---|---|
| Transport core (`transport/transport.js`, `core/packet_receipt.js`) | interfaces and their writers, the default interface, `caches.receipts`, duplicate filter, pending links, destinations | `addInterface`, `removeInterface`, `sendPacket`, `_routeIncomingPacket`, `_handleAnnounce`, `_handleProof`, `requestPath`, the sweep | every other part: all packets pass it |
| Routing table (`transport/router.js`) | one entry per destination: interface, hops, expiry, replay blobs, liveness | `addOrUpdateRoute`, `getRoute`, `expireRoute`, `markState`, `dropInterface` | called by the transport only |
| Link (`transport/link.js`) | status, session keys, timers, pending proofs, pending requests, transfers, receive queue | handshake, `send`, `teardown`, keepalive and watchdog, `request` | transport below, channel, resource and request API above |
| Channel (`transport/channel.js`) | tx and rx rings, sequence numbers, adaptive window, per-packet timers | `send`, `_receive`, `_packetDelivered`, `_packetTimeout`, `_shutdown` | a link through `LinkChannelOutlet`; handlers of the application |
| Resource (`core/resource.js`) | segment, parts, hashmap, window, retries, status; a receiver's assembler | `advertise`, `accept`, `request`, `receivePart`, `hashmapUpdate`, `assemble`, `validateProof`, `cancel`, the watchdog | a link: all its messages are link packets |
| Buffers (`transport/buffer.js`) | stream id, backlog, end of stream | write loop, read callback | a channel |
| Path requests, ingress control, duplicate filters (`transport/transport.js`, `interfaces/base.js`) | path request times, solicitations in flight, held announces, burst latches, the packet hash list, path request tags | `requestPathAuto`, `recallOrSolicitIdentity`, `shouldIngressLimit`, the sweep | transport, interfaces |
| Destinations (`core/destination.js`, `core/identity.js`) | ratchet ring, announce timer and generation, path response cache | `announce`, `startAnnouncing`, `stopAnnouncing`, `enableRatchets`, `_handleData` with its reload, `_provePacket` | transport, storage |
| Persistence (`storage/`) | dirty sets, three stored namespaces | `store`, `flush`, `load` | identity cache, routing table |
| Stream and datagram interfaces (`interfaces/`, node package) | connection state, reconnect loop, spawned clients, sessions, peers | `connect`, `disconnect`, reconnection, accept, poll, peer jobs | streams of packets to and from the transport |
| RNode (`interfaces/rnode.js`) and framers | device configuration, flow control, identification timer; frame buffers | open, configure, `send`, beacon, read loop | a serial port |
| Discovery (`transport/discovery.js`) | discovered interfaces in memory and in storage, the announce chain | `start`, `stop`, `listDiscoveredInterfaces` | transport announces, storage |
| WebRTC signalling (`webrtc/`) | dials, answer waiters, adopted channels | `connect`, `_handleOffer`, `_receiveSDP` | links, resources, interfaces |
| LXMF propagation node (`propagation_node.js`, `peer.js`, `message_store.js`) | stored messages with per-peer marks, processed ids, peers and their back-off, admission counters, throttled peers | `/offer`, `/get`, `ingestBlobs`, `LXMPeer.sync`, `peer`, `unpeer`, eviction | other nodes and clients over links, requests and resources |
| LXMF router (`lxmf/src/router.js`) | parked messages, delivered and processed ids, the sync pass, cached links | `_processIncomingMessage`, `_dispatchMessage`, `syncFromPropagationNode`, `ingestUri`, `send` | destinations, links, resources, receipts; the embedded node |
| rfed (`packages/rfed`) | the node's subscriptions, deferred queues, blobs, peer records, backup pairs, and the files a runner keeps them in; the client's raw channels and stamp costs | subscribe, publish, fan-out, drain, pull, federation sync, backup delivery; the client's calls and its notify commands; the runner's start, saves and shutdown | links and requests, files |
| rngit, CLI, examples | working copies, packs | request/response clients | links |

What is hard in this code, and hard to reach with a unit test:

* **State read before an await and used after it.** `_handleLRPROOF` sets
  ACTIVE after three awaits; `advertise()` sets ADVERTISED after its send;
  `_handleProof` settles a receipt after the signature check. Each meets a
  timeout, a close or a cancel in between.
* **Answers that overtake the bookkeeping.** A proof can come back before
  `Channel.send` or `sendPacket` registered what it proves.
* **Loss, repetition and reordering.** Retransmissions, continuations and
  advertisements arrive after the thing they belong to is over.
* **Everything that must end.** Receipts, requests, transfers, handshakes and
  envelopes must settle although packets, proofs and LINKCLOSE can be lost.
* **Bounds and wraps.** Sequence numbers wrap at 0x10000, windows move between
  limits that move themselves, the replay memory forgets its oldest entry.
* **One step of several that fails.** A fan-out, a backup push, a flush or a
  federation session stops in the middle; what was not done must be done later.
* **Stop meets start.** `disconnect()`, `stop()` and `stopAnnouncing()` come while
  a dial, a hydration or an announce is awaited.
* **Evidence and verdicts.** Path health is inferred from receipts that belong
  to packets which may have left over an older path.

`PROJECT.json` lists each of them under `hazards`, at the line where it bites.

## 2. The modules

| Module | Models | State ↔ code |
|---|---|---|
| `Channel` | both ends of one direction of a channel with its outlet and link | `nextSequence`, `txRing`, `win` are the sender's fields, `sent`, `early`, `timers` the outlet's, `rxRing`, `nextRxSequence` the receiver's; `sending` and `proving` are suspended calls; `net` and `proofs` are in transit |
| `OrderedDelivery` | what a channel promises: a prefix of what was sent, in order | implemented by `Channel` under the mapping given there |
| `Link` | both ends of a link, handshake to close | per end: `status`, `token`, `registered`, `estTimer`, `watchdog`, `rxQueue`, `pendingProofs`; `stage`, `accepting`, `closing`, `sendingData` say where each suspended call is |
| `Resource` | one (possibly split) transfer over a link, both ends | `sStatus`, `segment`, `sRetries`, suspended calls (`tasks`, `cancelling`) of the sender; `incoming`, `asm`, `assemblers` of the receiver; `net` |
| `ResourceWindow` | the adaptation of the request window over the transfers of a link | the window fields and rate counters of `Resource`, and the link's `lastResourceWindow` |
| `LinkRequest` | the calls of `link.request()` of one link | `pendingRequests`, the promise and timer of each call, where each call is suspended |
| `PathTable` | the rules of `router.js` as operators on one entry | an entry is a record with the fields the rules read |
| `RoutingTable` | the table's entry for one destination under announces, marks, lookups, time and interface changes | uses `PathTable` |
| `PeerSync` | a mesh of propagation nodes: peering, offers, transfers, ingestion, throttling, eviction | per node `store`, `unhandled` (the `unhandledPeers` marks, by peer), `processed`, `peers`, `postponed` (`nextSyncAttempt`), `throttled`; `sync` is the one `LXMPeer.sync` of the pass, `slot` the containers being received or ingested |
| `LXMFDispatch` | `_dispatchMessage` and the delivered-id cache | extended by the two below |
| `Parking` | messages of unknown senders, on links and as packets | `pendingMessages` in bucket order; `arrival` says where the processing of each buffer is; `open`, `timing`, `identifying` are the links' listeners and timers |
| `Download` | `syncFromPropagationNode` against `/get`, with copies on other paths | `stored` is the node's, `processedTransientIds` the router's, `session` where each call is, `reading` the suspended `ingestUri` calls |
| `Transport` | `sendPacket`, receipts, proofs, path health, interfaces | uses `PathTable`; where each send is suspended, receipts' status, timers and registry |
| `PathSolicitation` | `recallOrSolicitIdentity` with its shared flight, `requestPathAuto` | `soInflight` is `_inflightIdentitySolicitations`, `soRecent` the time in `pathRequests`; `soPc`, `soAsking` are suspended calls |
| `AnnounceControl` | ingress control of announces on one interface and the sweep | the frequency deque, the latch and its times, `heldAnnounces` |
| `PacketFilter` | the two generations of the packet hash list, path request tags and their ingress limit | `pfCurrent`, `pfPrev` are `packetHashlist` and its predecessor; `pfSince` counts fresh packets (history) |
| `StreamBuffer` | a WritableStream and a ReadableStream over an `OrderedDelivery` channel | what the writer has sent of what it was given, the stream messages under way, the reader's state |
| `Persistence` | the Persistor for one contact with a store whose writes take time, and crashes | per namespace the version in memory, being written by each flush, on disk; `psRefused` (history) says that the store refused the last flush |
| `Reconnect` | the dial, the inbound loop and the back-off loop of the four socket clients | `online`, `detached`, `reconnecting` and the sockets; where `connect` and the loop are suspended |
| `Listener` | the TCP, Backbone and WebSocket servers and their spawned clients | `svSpawned` is `spawnedInterfaces`, plus what the transport still has attached |
| `HttpSessions` | the HTTP poll client and its server | the client's session, its queue as what no batch has taken yet, polls and armed timers, the requests under way (`posts`); the server's sessions, queues and batches being ingested |
| `AutoInterface` | the opening of the devices, multicast peering with its peer jobs and the duplicate deque | `aiConn` where `connect` is, adopted devices and their sockets and timers, the peer table with its times, datagrams under way |
| `UdpInterface` | sockets opened one after the other, datagrams that await their access code | sockets, the inbound controller, awaited seals and openings |
| `Framing` | HDLC, KISS and the RNode parser as byte machines | frame buffer, `inFrame`, `escape`, command; what was cut out and what was handed on |
| `RNode` | detection, configuration, validation, flow control and the identification beacon | `rnPc` says where the handshake is; queue, ready flag, first transmission, timer |
| `Destination` | the announce tasks and the data path over one ratchet ring, with storage, reload and restart | timer, generation, ring in memory and in storage, path response cache, what is on the air; `dsData` where `_handleData` is |
| `Discovery` | the store of discovered interfaces, its listeners and its listing | `dcStore`, `dcDisk`, `dcChain` and the awaited saves and removals, each of which may fail |
| `Signaling` | two nodes that dial each other over WebRTC | `sgDial`, `sgPeer` are the suspended calls, `sgWaiter` the answer waiter |
| `RfedNode` | a node with its subscriptions, fan-out, deferred queues, presence, drain and pull; then a client with its calls, publishes and deliveries; then the runner that saves and loads the stores | `rfSubs`, the queue, presence and blobs; fan-outs and drains under way. `rcRaw`, `rcCosts` are the client's, `rcTable` what the nodes hold for it, `rcCall` where its calls are. `rsMem` are the stores, `rsFiles`, `rsBlobFile` and `rsDirs` the disk, `rsSaves` where the saves are |
| `RfedSync` | federation sync of two nodes | the blob stores in order of age, the record of the peer with its back-off and whether it was heard of lately, the session's step and budgets |
| `RfedBackup` | backup pairs and the gates on publish links | pending pushes, what the backup holds and since when; links and their admission |
| `LXMFSend` | `send()` of one recipient with its ways and shared links | `lsPc` where each send is, `lsDirect`, `lsNode` the cached links, who holds the message |

`MC…` modules give TLC the constants. `MCNode`, `MCProgress`, `MCInterfaces` and
`MCLXMF` put components next to each other that do not share state in the code:
a behaviour chooses one of them initially (`focus`), only that one takes steps,
and all properties are stated of every state. The state graph is the union of the
components' and not their product. `…Proofs` modules hold the theorems;
`ComponentProofs` those of the small components, `LXMFProofs` those of `MCLXMF`'s two ways
in and of `LXMFSend`, `RfedProofs` those of `RfedBackup`, `RfedNode` and `RfedSync`,
`LinkProofs` also those of `Reconnect`, `HttpSessions` and `AnnounceControl`,
`TransportProofs` those of `Persistence` and `Signaling`.

What is abstracted everywhere: payload bytes, hashes and keys are identities
(two things are equal when they are the same thing), signatures and tokens
verify exactly when genuine, encodings are injective, times are order only (a
timer is armed or not, and an armed timer may fire at any moment), log calls and
statistics are left out. Definitions whose comment begins `Mutant:` are
deliberate faults next to the definition they replace; each shows that the
property it is paired with in `PROJECT.json` notices that fault.

### Channel
`SendStart`, `SendTransmit`/`SendFail` and `SendComplete` are `_sendImpl` cut at
its awaits. The outlet sends a link packet, so a proof may return before
`SendComplete` stored the packet (`_earlyDelivered`). `PacketTimeout` is the
per-packet timer with retry, window reduction and teardown at the last try.
`Receive` is the whole of `_receive` with its drain of the rx ring. The receiver
proves a packet before it looks at it, as `link.js` does.

### Link
Every handler that awaits is a chain of actions through the variable `stage`
(`BeginPacket`, `DeriveKeys`, `SendLRRTT`, `FinishLRPROOF` …). The status setter
is the operators `BecomeActive` and `BecomeClosed`, with everything they arm and
release. `Arrive` puts a packet in
`rxQueue`; the queue is processed one packet at a time.

### Resource
The two ends share `net`, a set of messages that are lost by never being
delivered and repeated by being delivered again. `tasks` are the suspended
`advertise()` calls. A tick of the watchdog is one action per end.

### Transport
One destination, since the table's entries are independent. `SendPacket` runs
up to the awaited write, `WriteResolves`/`WriteRejects` after it.
`AnnounceArrives` and `AnnounceIngested` are the two halves of
`_handleAnnounce`. A writer is none, live, or dead: an object whose stream is
gone, which the code cannot tell from a live one. `tried` is a history variable.

### PeerSync
An offer is `SyncStart` (the entries are read), `LinkReady`, `HandleOffer` at the
other node, `HandleAnswer`; a container is `TransferBegins`, `TransferEnds` (the
receiver has proved the Resource) and then, independently, `HandleComplete` at
the sender and `Validated` at the receiver. `Ingest` is the loop of
`_ingestBlobsInner` from one await to the next: it stops at a message for the
node's own identity and, for a peer's batch, at the ingest filter. A sync that
fails may leave the receiver with the container.

### Parking and Download
`Recall` is the awaited `recallIdentity`, `Park` and `Verify` what follows it, so
that an announce, a LINKIDENTIFY or a close can fall in between. The timer for
LINKIDENTIFY outlives its link, as in the code. Re-processing takes the entries
out of the map first, so that `Park` finds no older message of the sender and
requests the path again. `Download` lets two sync calls overlap, which nothing in
the router prevents; message sizes are units, so the limits count messages.

A message is decoded as the code decodes it (`LXMFDispatch`): with or without a
stamp, in the layout of a packet or in that of a link, and in the payload bytes its
sender signed or in others that decode to the same (`Encodings`). Its signature is
checked over the bytes as they came, then over the payload encoded again. `Unreadable` chooses
the copies in the propagation node whose encryption this recipient no longer opens.

### LXMFSend
A send is a chain through `lsPc`: recall the identity, take the cached direct
link or establish one, identify, transmit as packet or Resource, and on a
failure fall back as far as its `fallback` allows, to an opportunistic packet and
to the propagation link. Links close under any of these steps. The property
relates what `send()` returned to who really holds the message.

### PathSolicitation, AnnounceControl, PacketFilter
The three parts of the transport that decide what is asked for, held back and
dropped. Times are ages in ticks, cut off where no comparison distinguishes them
any more. `Reinject` is the second half of the sweep: the held announce goes
through `_handleAnnounce` again, where the latch may hold it again.

### Interfaces
Each driver is split at its awaits: the dial and `disconnect()` (`Reconnect`),
the library's close callback (`Listener`), the requests of the client and the
server's check of each posted packet (`HttpSessions`; nothing keeps the client to one
request at a time), the sockets of a device and the hash of a datagram (`AutoInterface`), the access code
(`UdpInterface`). `Framing` reads one byte at a time and may start in the middle
of a frame; what is on the wire is given by a position in the frames of the packets. The
streams await the access code of a frame, the RNode driver does not (`RadioProcessIncoming`). In `RNode` a report of the device is a step; the back-off loop is
`Reconnect`'s and only waits there.

### Destination, Discovery, Persistence, Signaling
An announce task signs over an await and reads the generation and the ring
before and after it. A packet of data is opened with the keys held when it came and,
if none opens it, with the ring read from storage; whether it is delivered and
proved is decided after the awaits. Writes to storage are started with a value and end later,
so that two of them overlap; a crash tears the one under way, and the adapter may refuse
one: the Persistor then abandons the flush, discovery logs it and goes on. The WebRTC waiter
is armed before the offer is sent, so its timer, the answer and the failure of
the offer race.

### rfed
A fan-out serves one subscriber per step, present ones over the network and
absent ones into the deferred queue, while subscribers come, lapse, drain and
pull. A federation session is offer, gap, get and ingest with the budgets of the
answering node; a pass forgets a silent peer first, and a store drops its oldest blobs by
age and for room. A client's call is a request that the node serves in a step of its
own; its answer is applied after the await, so two calls of one client overlap.
The runner's save removes the tree of blobs and writes it again, then opens and
writes one table after the other; a save of the timer goes on next to the one of a
shutdown, which ends the process when it is through. An operation of a save may fail. A load takes what it finds.
Backup pairs are pushed by the tick and adopted by the backup
when the owner falls silent.

### Awaits that are merged
These awaits of the code are inside one action, and what could fall in between is left out:
the LINKCLOSE that `teardown()` sends before it sets CLOSED and the send before
`pendingProofs` is written (`Link`); `hasRoute` and `addOrUpdateRoute` around the
validation of an announce (`RoutingTable`; `Transport` has both halves); the access code of
a datagram after its duplicate check (`AutoInterface`); the sealing of a packet before it is
queued (`HttpSessions`). A port lost while the RNode is being configured ends the
configuration; in the code it may wait on while the reconnect loop opens the port again, and
its failure then closes the newer one. A path request that cannot be sent in `Parking` counts as
one that was lost. `PeerSync` and `Download` count messages where the code adds up bytes.
The re-push of pairs a backup has adopted is not modelled.

## 3. The runs

Each run is a question the code answers well. Where a sentence of the code's own
documentation and the code disagree, section 5 quotes the sentence.

| Run | Module | Expect | Properties | Shows |
|---|---|---|---|---|
| `channel` (`Channel.cfg`) | `Channel` | pass | `DeliverySafe`, `ImplementsOrderedDelivery`, `ChannelSettles` | Three messages with two tries each over a network that loses, delays, repeats and reorders packets and proofs, with a window that is promoted while envelopes are outstanding and links that may close at any step: delivery is in order and complete, confirmations are honest, the window keeps its limits, every envelope and every gap is resolved. |
| `link` (`Link.cfg`) | `Link` | pass | `LinkSafe`, `LinkSettles` | Both ends with a teardown each and a DATA packet, over a lossy reordering network, with every timeout: what a CLOSED link has released, what an established link has agreed on, that handshakes end and that a closed end takes its peer with it. |
| `requests` (`Request.cfg`) | `LinkRequest` | pass | `PromisesSafe`, `RequestSettles` | Three concurrent requests, with timeouts, failing or hanging transmissions, failing response transfers and link closure in every order: promises, timers and entries agree, and every call is answered although the transmission may hang for ever and every packet may be lost. |
| `resource_transfer` (`ResourceTransfer.cfg`) | `Resource` | pass | `TransferSafe` | Two segments with retries, failing sends and link closures: late proofs and re-advertised segments never move the sender past what the receiver verified, and no transfer is wedged. |
| `resource_liveness` (`ResourceLiveness.cfg`) | `Resource` | pass | `TransfersSettle` | One segment of two parts with a hashmap continuation, retries, rejection and cancels by both applications: on an open link whose sends succeed, the watchdog settles both ends whatever is lost. |
| `transport` (`Transport.cfg`) | `MCTransport` | pass | `ReceiptsSafe`, `SendsSettle` | A packet to a destination and one on a link, a reconnecting interface, racing announces, genuine, forged, early and late proofs, timeouts: deliveries are real, the registry leaks nothing, path verdicts rest on evidence, every send returns and every receipt settles. |
| `peer_sync` (`PeerSync.cfg`) | `MCPeerSync` | pass | `SyncSafe`, `Converges` | Two propagation nodes that mirror each other, with refused, oversized, weak and local messages, failing links and a throttled peer: nothing is written off that the peer has not dealt with, nothing is taken twice, and every message arrives. |
| `lxmf_inbound` (`LXMF.cfg`) | `MCLXMF` | pass | `InboundSafe`, `InboundArrives` | The ways a message reaches an LXMF application: packets and links whose sender is not known yet, two overlapping downloads from a propagation node, paper and direct copies, forged messages and failing sessions. |
| `interfaces` (`Interfaces.cfg`) | `MCInterfaces` | pass | `LossResolves`, `ConnectionSafe`, `SpawnedIsAttached`, `PollsDeliver`, `AutoPeering`, `NothingAfterClose`, `FramesRecovered`, `RadioIsLawful` | The interface drivers: four socket clients and three listeners through loss, reconnection and shutdown at every await, the HTTP client with overlapping polls against its server, AutoInterface peers, UDP, the framings with their access code checks and an RNode radio. |
| `progress` (`Progress.cfg`) | `MCProgress` | pass | `ContactReachesDisk`, `ContactIsPending`, `HeldComesThrough`, `HeldIsKept`, `DialsSettle`, `SyncConverges`, `SyncIsBounded`, `StreamIntact` | What a node must get done: contacts reach the disk through overlapping flushes, crashes and refused writes, held announces come through after a flood and none is forgotten, WebRTC dials settle and leave no timer behind, federated nodes that drop blobs and forget silent peers converge within their limits, and a byte stream arrives intact. |
| `node` (`Node.cfg`) | `MCNode` | pass | `RoutesImprove`, `WindowBounds`, `AnnouncesAreKept`, `StorageFollows`, `RememberedLongEnough`, `SolicitationsAreHonest`, `RfedAccounted`, `BackupAccounted`, `SentIsHeld` | What a node must never do: worsen a route, stall a request window, announce after it was told to stop, store what it does not hold, pass a repeated packet too soon, deny a known identity, lose count of a message owed to a subscriber, forget a backup pair or report a message sent that nobody holds. |
| `stream_shutdown` (`StreamShutdown.cfg`) | `StreamBuffer` | violation | `WriteSettles` | A write() or close() of a stream whose channel has shut down never settles. |

### Bounds and why they are enough

* Channel: three messages, two tries and a window that is promoted from one to two
  while envelopes are outstanding, also when the round-trip time is only measured
  later: a gap, a retransmission behind it, a third
  message waiting for both and the final try all occur. `MaxCopies` is one, and a
  delivered packet may stay in the network, which is what repetition amounts to.
  `SEQ_MODULUS` is 8 instead of 65536: the run stays inside one cycle, as the
  theorems assume. Window limits are small but keep the order of the code's.
* Link: one teardown call per end, one DATA packet, a receive queue of one
  packet next to the one being handled: LINKCLOSE meets each suspended handler.
  There is no retransmission in the handshake, so each packet exists once. The
  safety invariants are proved for every bound.
* Resource: two segments of one part, with closing links and failing sends, and
  one segment of two parts with one hash per advertisement, so that a hashmap
  continuation is needed, with rejection and both cancels; one retry.
  `FewInTransit` limits the first to two packets in transit at a time: with a
  request window of one, more packets only wait.
* ResourceWindow: the constants of the code, except the fast ceiling of 12
  instead of 75, above both other ceilings.
* LinkRequest: three calls with ids of their own; section 5 says what happens
  when two share one.
* RoutingTable: two interfaces, three announces of which two share their second,
  a replay memory of two, three clock ticks with an expiry of two: memory
  overflow, expiry and relearning all occur.
* Transport: a packet that follows the routing table and one that follows a
  link, an interface that reconnects, two announces over at most two hops, one
  announce under validation at a time: one packet to blame a path, one to use it.
* PeerSync: two nodes that are each other's peer, three messages: one that
  travels and cannot travel back, one the peer rejects (and throttles for), one
  for the peer's own identity; two containers at a time, one failure, eviction or
  break of the peering. Every refusal and every retry of an offer occurs.
* Parking: two buffers that arrive as packet, DATA or Resource, a cap of one, a
  link, a genuine and a forged message of different senders, each with or without a
  stamp and in two encodings.
* Download: two copies of a message, one also on paper, a message forged in its
  sender's name, two overlapping calls, one failure or expiry, transfers of one
  message, a cache of one id, a copy that may be unreadable.
* LXMFSend: three sends, two of which need a Resource and two of which may fall
  back on the propagation node, two direct links: sharing, a lost link and the
  fallback of one send while another uses the link occur.
* PathSolicitation: three callers, two askers, four calls: a leader, one that
  joins, and one that comes as the solicitation ends.
* PacketFilter: four packets over a list of two, so that both generations turn, and turn
  again: a hash is forgotten and its packet let through a second time; two packets carry the
  same path request.
* AnnounceControl: three announces of three destinations over a held list of one,
  with unit times: the latch, its penalty, a full list and release all occur. Held announces
  do not compete in this run (`MaxHeld` is one, all are one hop away); `AnnounceSafety`
  is proved for any number held.
* Destination: two announce tasks, one rotation, a ring of two, a restart and a
  packet of data that may need a reload. Discovery: two interfaces, one of which announces "None"
  as its access code, four kinds of announce, and two of a second start, a listing and a failed
  storage operation (`TwoTroubles`). Persistence: two versions, two overlapping flushes, a crash
  or a refused write; the first process loads its empty store before anything else, and after a
  fault flushes overlap until the identities are loaded (`Restarts`).
* Reconnect: the four classes, two tries, three connections. Listener: three
  classes, four connections from two addresses, one forgiven flap. HttpSessions:
  two requests under way at a time, a session that is reaped; a client that is connected
  once sends two packets and takes the server's, one that is connected twice sends one. AutoInterface: two
  devices that open or fail at any socket, a peer, two datagrams that arrive on both, over a deque of one,
  three ticks against a timeout of one, two datagrams checked at once but for the last
  tick (`CopiesMeet`); traffic is explored where `disconnect()` comes
  after `connect()`, and every overlap of the two without traffic. UdpInterface: two datagrams each way. RNode: three reports, three
  sends, a lost port.
* Framing: two packets of one or two bytes out of every byte with a meaning, after noise
  that may end in an escape or a delimiter; a frame of four bytes, which an HDLC frame fills.
* Signaling: two nodes that dial each other. RfedSync: three blobs of sizes 1, 1 and
  2, of which the large one exceeds the budgets of one and a store has room for three; one node
  is a static peer of the other, which can be pruned; one failed session or one expiry
  (`OneTrouble`). StreamBuffer: five bytes, messages of two bytes that stand for
  up to four, a window of two.
* RfedNode: a subscriber of two channels, two publishes, queues of two, room for one blob, pages of
  one, one drain next to the fan-outs; the client makes two calls in any
  overlap, failing or not, to two nodes that ask for different stamps, on a raw and a
  cooked channel, and a third one when they were plain (`ThirdCallIsPlain`), and
  one message of others reaches it; the runner saves a blob and a changed table by its
  timer and in a shutdown, fails or dies in any step, and starts once more, to a life
  without a clash of saves (`LastLifeIsPlain`: nothing is claimed of a last life with one). RfedBackup: two pairs, a pending list of
  two, two failures, a lifetime of one tick; two publish links, one trusted.

Symmetry is not used: the runs are small and several check liveness.

### Deadlock and fairness

The programs modelled are allowed to stop (every message settled, the link
closed), and bounded counters stop the rest, so most configurations switch the
deadlock check off; the finished part of a `focus` run stops too.

Liveness is checked under weak fairness of what the runtime guarantees: an
armed timer fires, a promise continuation runs, an awaited write settles, a
packet in the receive queue is processed. Nothing is assumed of the network
(except for `Link`, where a packet in transit arrives *or is lost*, and for
`PeerSync`, where what fails counts against `MaxFaults`). Of applications only
this is assumed: a node's driver keeps calling `syncPeers`, whose pass tries every
peer (strong fairness of `SyncStart`, since a pass skips a postponed peer and
comes back); a recipient keeps calling `syncFromPropagationNode`; a sender whose
path is requested answers with its announce (`Parking`). The keepalive watchdog is fair
only while the peer is silent, since traffic resets it.

In `MCInterfaces` a dial settles by its timeout, a callback that is due runs, and
the HTTP client and server take their steps; the network may lose any exchange
but not every one (strong fairness of `Exchanged`). In `MCProgress` the debounce
timer of the Persistor fires and an adapter call ends, time passes and the sweep
runs, a WebRTC offer is sent or fails and a waiter times out, and each rfed node
goes on with its session or its driver calls `syncPeers` when an attempt is due, and the
hour of its budget passes. No fairness is given to
crashes, announces, applications, disconnects or to an answer from the other side.
`StreamBuffer` lets the writer poll for ever, as `_awaitReady` does: the run
`stream_shutdown` shows that polling is all it then does.

## 4. The proofs

TLC shows a property for one small instance; the theorems show it for every
number of messages, packets, interfaces, parts, segments and retries, from the
`ASSUME`s of the modules alone: the constants have their types, and the window
limits are ordered as in the code.

| Theorem | Establishes |
|---|---|
| `ChannelProofs!TypeCorrect` | Type invariant of both ends and the network, for any sizes. |
| `ChannelProofs!WindowSafety` | The adaptive window stays between its limits whatever the round-trip times. |
| `ChannelProofs!InOrder` | While sequence numbers do not wrap the receiver delivers the sent messages in order, without gap or duplicate. |
| `ChannelProofs!HonestConfirmations` | While sequence numbers do not wrap a confirmed registered message is at the receiver. |
| `ChannelProofs!Refinement` | While sequence numbers do not wrap the channel implements the ordered-delivery specification. |
| `LinkProofs!TypeCorrect` | Type invariant of both ends and the network, for any bounds. |
| `LinkProofs!ClosedHoldsNothing` | In every interleaving a CLOSED link is unregistered with both timers stopped, and the watchdog runs exactly while ACTIVE. |
| `LinkProofs!EstablishedIsKeyed` | An end that reported "established" shares session keys with its peer, by an invariant over the packets in flight and the suspended handlers. |
| `ResourceProofs!CompletionIsEarned` | The sender moves past a segment and reports completion only for segments the receiver verified, for any sizes and retry budgets, by an invariant over the proofs in transit. |
| `ResourceProofs!WindowStaysInBounds` | The request window stays between its floor and the fast ceiling for every choice of the constants. |
| `ResourceProofs!FloorBelowCeiling` | Until a link is found very slow, the floor of the window does not pass its ceiling. |
| `ComponentProofs!RejectionsAreHeld` | For any number of requests with distinct ids, no response promise is rejected before its caller holds it. |
| `ComponentProofs!AnswersAreReal` | No caller is handed the placeholder value of a settled entry. |
| `ComponentProofs!TimersAreExact` | A request's timer is armed exactly while its entry waits. |
| `TransportProofs!TypeCorrect` | The transport keeps its state well formed for any packets, interfaces and announces. |
| `TransportProofs!DeliveriesAreReal` | A receipt reads DELIVERED only for a packet the destination received. |
| `TransportProofs!RegistryExact` | The receipt registry holds exactly the waiting receipts, each with its timer. |
| `TransportProofs!VerdictsAreFounded` | A path is RESPONSIVE only after a packet arrived and UNRESPONSIVE only after a wait ran out. |
| `PeerSyncProofs!TypeCorrect` | For any mesh, messages and policies the nodes keep their state well formed. |
| `PeerSyncProofs!NeverTakenTwice` | However many batches overlap, and after evictions, a node stores or delivers a message at most once. |
| `ChannelProofs!DeliverySafety` | Order, honest confirmations and window limits together, for any number of messages below the sequence modulus. |
| `LinkProofs!LinkSafety` | What a CLOSED link has released and what an established link has agreed on, for any bounds. |
| `ComponentProofs!PromiseSafety` | Promises, timers and entries agree for any number of concurrent requests with distinct ids. |
| `TransportProofs!ReceiptSafety` | Deliveries are real, the receipt registry is exact and no path is judged without evidence, for any packets, interfaces and announces. |
| `LXMFProofs!SendSafety` | send() reports success only for what the recipient or the node holds and by a way the caller allowed, for any sends, sizes, fallbacks and number of links. |
| `ComponentProofs!SolicitSafety` | No caller is denied an identity known in time and none joins a solicitation that is over, for any number of callers. |
| `ComponentProofs!ListenerSafety` | What a Backbone or WebSocket server would disconnect is what the transport still uses, for any connections and addresses. |
| `ComponentProofs!UdpSafety` | No datagram enters the stream of a disconnected UDP interface, for any traffic. |
| `ComponentProofs!FilterSafety` | A packet is handled again only after more than half the maximum of fresh ones, and the list stays within its bound, for every maximum and any traffic. |
| `ComponentProofs!StorageSafety` | Discovered interfaces: storage ends up with what memory holds, but for the "None" a listing takes out of memory only and for the keys whose last storage operation failed, for any announces, starts, stops, listings and storage failures in which no removal and no second start meets a save. |
| `ComponentProofs!RadioSafety` | A radio that has transmitted identifies itself and is online only with a confirmed configuration, for any fields, traffic and number of reconnections. |
| `ResourceProofs!NoneIsWedged` | A transfer the watchdog skips because it is ASSEMBLING has its assemble() under way, for every number of segments and parts and every retry budget. |
| `PeerSyncProofs!SyncSafety` | What a node no longer queues for a peer that peer has processed, is ingesting or refuses, but for batches being stored or broken off by a filter, for any mesh, messages, slots and policies, whatever syncs overlap and fail. |
| `LXMFProofs!InboundSafety` | On every way in a message is shown once per stay in the cache, the node deletes only what was delivered, and the map holds exactly what is parked, for any messages, re-encoded copies, links, sessions and limits. |
| `ComponentProofs!StreamSafety` | The bytes read from a stream are a prefix of those written, and all of them when it ends, for any writes, chunk sizes, compressions and losses of the link. |
| `RfedProofs!BackupSafety` | No accepted subscription is forgotten on its way to the backup: one that waits or is being pushed goes on to do so until the backup has taken it, unless the cap or a throwing push is the reason, for any pairs, caps, batch sizes and ages. |
| `ComponentProofs!DestinationSafety` | No announce goes on air after its cadence was stopped, and unless a reload or restart brought back another ring the last MaxRatchets announced ratchets are held and no data under them is dropped, for any ring size and any concurrent announces. |
| `ComponentProofs!RouteSafety` | A live route never goes back to an older announce and changes interface or grows longer only when that was earned (unresponsive, expired or a newer announce), for any announces, hops, interfaces and times. |
| `ComponentProofs!AutoSafety` | A datagram seen on several devices is accepted once while the deque holds it, peer interfaces are those of the known addresses while the interface is up, and before disconnect() exactly the adopted devices are open and announced on, for any devices, addresses, deque, timeouts and any interleaving of connect(), peer jobs, datagrams and disconnect(). |
| `RfedProofs!RfedSafety` | No blob a fan-out owes a subscriber is lost but by a limit, a TTL or a failed send; nothing is shown for what it is not, and a client that makes one call after the other to one node knows between them which channels are raw and what stamps cost; and after a shutdown that met no other save and no failure the disk holds what the node held: for any subscribers, channels, limits, pages, calls, nodes, blobs and changes. |
| `ComponentProofs!FramingSafety` | Every packet the access code check accepts is cut out of a byte stream when the last byte of its frame is read, nothing else is, and each is handed on at most once: in order in HDLC and in KISS while none is refused, in any order through the RNode driver, whose checks nobody awaits; for any packets that fit and wherever the reader attached. |
| `LinkProofs!ConnectionSafety` | A stream interface reports each end of its connection at most once, never writes to the socket of an earlier connection and, as a WebSocket, never comes back after disconnect(), for any number of tries and connections and wherever the loss, the back-off, the dial and disconnect() interleave. |
| `LinkProofs!HttpSafety` | A running HTTP client never falls silent, and packets arrive at most once and those of an exchange in the order they were sent, for any batch size, packets, sessions and requests under way at a time, whatever polls overlap, exchanges fail, sessions are reaped and renewed, and however connect() and disconnect() interleave. |
| `LinkProofs!AnnounceSafety` | Ingress control forgets no destination whose announce it heard: it is routed, held, being injected or was turned away by holdAnnounce for its hops or the limit; the sweep runs while anything is held and no more is held than the limit, for any destinations, hops, frequencies and limits. |
| `TransportProofs!PersistSafety` | What a contact owes the store is always on its way there unless the store has refused the last flush: the timer is set or a flush has still to write the identity in that version or a newer one, for any announces, overlapping flushes, loads, refused writes and crashes. |
| `TransportProofs!SignalSafety` | A WebRTC dial that has ended left no answer timer behind, one that awaits the answer has a waiter that settles and a peer that knows of it, and a channel is waited for only when the peer has answered, for any nodes and dials. |
| `RfedProofs!FedSyncSafety` | The sync limits hold for every answer and for all the sessions of a period together, and a node fans a blob out at most once for as long as it holds it, for any blobs and sizes, limits, errors, prunings, expiries and evictions. |
| `ResourceProofs!TransferSafety` | A transfer counts as done only what the receiver has verified and is never wedged in its map, for any sizes and retry budgets (CompletionIsEarned and NoneIsWedged together). |
| `PeerSyncProofs!MeshSafety` | No node writes off a message for a peer that has not dealt with it, and none takes a message twice, for any mesh, messages, slots and policies (SyncSafety and NeverTakenTwice together). |

The arguments, each an inductive invariant stronger than the property:

* **Channel** (`Typed`, `DeliveryInv`, `ProofsHonest`). Every message that was
  transmitted has the sequence number of its position (`Numbered`,
  `Transmitted`), and the receiver stands just behind what it delivered
  (`RxPosition`). With fewer messages than sequence numbers (`NoWrap`) numbers
  and messages determine each other, which gives order, no duplicates, and the
  step simulation of `OrderedDelivery`. Honest confirmations need one fact more:
  a proof in transit exists only for a message the receiver has got.
* **Link** (`Typed`, `Keyed`). Statuses, registrations and timers move together
  in the setter; what needs the invariant are the suspended handlers: the stage
  of a handler implies what its end has derived, and a packet in flight or in a
  queue implies what its sender holds. That is why an end that reported
  "established" shares keys with its peer even while the other end closes.
* **Resource** (`ProofInv`). A proof in transit exists only for a segment the
  receiver verified. Completion follows for any number of segments and retries.
  `NoneIsWedged` needs only the shape of the receiver's records: every step that
  makes a transfer ASSEMBLING starts its assembly, and every step that ends an
  assembly, closes the link or replaces the transfer moves the status as well.
* **ResourceWindow** (`WindowInv`). Floor, window and ceiling are bounded, and
  the ceiling is below the floor only after the counters reached "very slow".
* **LinkRequest** (`RequestInv`). With distinct ids (a hypothesis: section 5
  shows what happens without it) an entry is present exactly while its call
  waits, and a call whose promise is not handed out has not been rejected.
* **Transport.** A signature check under way belongs to a sent packet and is
  valid only for an arrived one; nobody was told anything before the receipt
  settled. The second part is what makes a timeout tell FAILED in the very step
  that marks the path, so that a verdict always has its evidence; the first is
  what keeps deliveries real although the check spans an await.

* **LinkProofs, beside the link.** *Reconnect* (`ConnectionInv`): a dial or a back-off exists
  only while there is no connection, only one of `connect()` and the loop can be the
  one that dials, and while either is under way an interface that was not told to
  disconnect has not reported its end. So `LoopHead`, which reports without looking at
  `_closed`, cannot report twice; that the invariant needs the single flight flag to be
  the loop's own state is what `LoopReturnsBusy` breaks. *HttpSessions* (`PollInv`,
  `FlowInv`): whatever ends a poll of a running client arms a timer, and cancelling the
  timer that `_pollTimer` names only happens in a step that polls or stops. Batches are
  disjoint stretches of what was sent; one is in a single request until the server has
  started on it, and what has arrived of it is behind the packet looked at next.
  *AnnounceControl* (`AnnounceInv`): at most one announce is being injected, and as long
  as one is held or injected the sweep is armed; the limit is a cardinality argument.
* **TransportProofs, beside the transport.** *Persistence* (`PersistInv`): a flush that has
  yet to read the identity writes what is in memory then, which is no older than what is
  owed; one that has read it settles the debt only if that was late enough. The load
  is what makes this delicate, since it puts the stored identity in the place of a newer
  one: until it has done so, nothing stored, read or owed is newer than what is in memory
  (`BeforeLoad`), so that a write under way also settles what the load makes of the debt.
  *Signaling* (`SignalInv`): there is no waiter before the offer is under way, and one is
  resolved only by an answer.

* **PeerSync** (`Typed`, `Once`). A sync in progress has a peer, and only a peer's
  batch is rejected for its stamps, which is why the throttled are nodes. What a
  node has taken is recorded as processed, and so is, already, a message at which
  an ingest loop waits for the filter or a decryption: it is not taken yet and no
  other loop of the node waits at it. Overlapping batches therefore take a
  message once, also after its entry was evicted.
  `SyncSafety` (`Synced`) follows a message through a sync: what is offered was taken
  by the offering node; what the peer's list leaves out it has dealt with; a
  container that is received carries what the sync will strike, for as long as that sync
  is the one that sent it; and a slot holds stored messages only while its batch is
  being ingested. The last part is what bounds the exceptions of the property.

* **LXMFProofs** (`InboundInv`), in three parts. *The cache* (`CacheInv`): a remembered
  id has been shown at least once and at most once more than it was forgotten; an id
  that is not remembered no more often than it was forgotten. That is the strengthening
  `DispatchedOnce` needs, since the step that shows a message looks only at the
  cache. It rests on lemmas about the wire form: both layouts of a buffer, stamped or
  not, are read as the sender of the message and one of its ids. *Fetching*
  (`DownloadInv`): not only what the node has deleted but all that the recipient will
  vouch for (recorded ids, and the haves and received copies of every session under
  way) has reached the application, is being read, cannot be read or is forged. *The
  map* (`MapInv`): it has no repeats and holds exactly what is in phase "parked"; lemmas
  about picking, inserting and trimming entries of a sequence give its length and
  contents after each step. The parts meet only in what is shown: a step of one way in
  never makes a message unseen, which is all the others rely on.
  Sending (`SendInv`) is a machine of its own: a send is only where its fallback allows
  it to be, and the step that reports success is the step that saw the recipient or the
  node hold the message.

* **ComponentProofs.** A caller that follows a solicitation follows one that
  is in flight or whose outcome it reads (`SolicitInv`). In the hash list
  (`FilterInv`) a hash of the older generation has seen the younger one fill and a
  hash in neither has seen half the list go by; cardinalities are the argument.
  Discovered interfaces
  (`StorageInv`): a record that is neither being saved nor being deleted, and whose last
  storage operation did not fail, is the same in memory and in storage from the first
  hydration on, but for the "None" that a listing takes out of memory; a removal or a
  second start that meets a save is excluded by hypothesis (`dcCrossed`), and
  section 5 shows what it does. A listener's spawned clients are those the
  transport has (`ListenerInv`); a closed UDP interface has no stream controller
  for an awaited datagram to reach (`UdpInv`); a radio that transmitted has a
  timer or a queued beacon, and reports confirm a configuration only when they
  came on this connection (`RadioInv`).
  A byte stream (`StreamInv`): the messages under way continue each other from the last
  byte read to the last byte sent, and only the last of them carries EOF.
  Destinations (`DestinationInv`): a ratchet is never deeper in the ring than its age,
  so that the last `MaxRatchets` are in it; this is needed of the path response
  cache and of announces that wait for a signature, not only of those on the air. An
  announce of a cadence is of the present generation only while its timer runs.
  The routing table (`RouteInv`): an entry stops outranking longer paths no later than
  a lookup culls it, and the timebase of an entry is the maximum of its blobs; an
  announce that replaces a live entry has therefore been compared with it.
  AutoInterface (`AutoInv`): a datagram accepted within the deque's time to live is in
  the deque with at least that much time left, unless it was displaced by later ones
  (the history `displaced`; how much traffic fits is not the code's to say) or the
  interface is deaf: closing empties the deque, but also leaves no data socket and no
  copy with a living peer interface, and nothing opens one again (`DeafStays`). Only
  `connect` adopts a device, and everything it has opened is on record but for the
  device it is busy with, of which each of its steps says what is open (`DevicesOpen`).
  Framing (`FramingInv`): the position in the stream is state, so that what a parser
  makes of any byte string is an induction over its steps. `Positions` says which byte
  comes next and where the stream is then; between frames the reader holds nothing, and
  inside one exactly what has been read of its packet (`Reader`). The KISS parsers resolve
  escapes as they arrive; the HDLC buffer still holds them, so there the invariant is
  about what its decoding is so far (`DecodedAppend`) and bounds its length by twice the packet's.
  What is handed on are positions in what was cut out, each once; the streams keep them in turn.

* **RfedProofs.** Five machines that share no variable, each with an invariant of its own.
  Backup pairs (`BackupInv`): the list keeps to its cap, so that what a failed push
  cannot put back is what the cap turns away.
  *The node* (`RfedInv`): a message owed to a subscriber waits in its queue, in a drain or
  in a fan-out, or is over. Each step moves entries between these three sequences, so the
  argument is about what a sequence still holds after entries were picked, taken off its
  head, appended or displaced (`PickedProperties`, `TailEntries`, `AppendedEntries`), and
  `NothingIsLost` turns that into the invariant. What the full-queue and the
  global-limit branches give up is what the history records as dropped.
  *The client* (`ClientInv`): between calls the property follows, but a call that
  subscribes changes the node's table first, the cost when its answer is applied and the
  raw mark when the link is closed. The invariant says, for every stage of the only call
  of an orderly client, which of the three already agree; the channels no call is about
  agree throughout.
  *The runner* (`RunnerInv`): as long as no two saves met and none failed or was broken off there is
  one save at most (`CleanInv`), only the file it has open is cut off, and one that a
  shutdown started has written what it no longer has to write (`ShutdownInv`), although
  the stores go on changing until the process is gone.
  *Federation sync* (`FedSyncInv`): what an answer grants is within what both limits leave,
  and a blob that was not fanned out since it was last gone is not in the store; pruning and
  eviction leave the newest part of a store, and only what they drop may be fanned out again.

What the proofs assume of the constants is in the `ASSUME`s of the modules and holds
in the code: there is a message and none of them is this router's own
(`LXMFDispatch`: a router's messages to itself do not come in this way), "no route"
is not a route (`PathTable`), limits are positive or natural numbers (for rfed `RfedAssumption`, `FedSyncAssumption`;
`HttpAssumption`, `PersistAssumption`), destinations are finitely many
(`AnnounceAssumption`), the sentinels of `Destination` are
not ratchet numbers. Two theorems have a hypothesis: the channel's order needs fewer
messages than sequence numbers (`NoWrap`) and the requests of a link need
distinct ids; section 5 shows what happens without.

Only model-checked, and why:

* liveness under fairness and anything with ENABLED, which the prover does not
  handle, and every refutation of section 5. `PollsDeliver` and `DialsSettle` join a
  safety part to a liveness part: the safety part (`PollsSafe`, `WaiterFollowsDial`) is proved.

## 5. Findings

* `stream_shutdown` (core/src/transport/buffer.js:195): buffer.js:189-190 says of _awaitReady "Wait until the channel send window has room (poll). Bails if the channel shuts down." The shutdown is only tested while isReadyToSend() is false, and after a shutdown the tx ring is empty, so isReadyToSend() is true (channel.js:642, 507-518); send() then throws ME_LINK_NOT_READY (channel.js:839), on which _send loops (buffer.js:221): the write neither completes nor rejects.

Sentences of the code's documentation that the code does not keep. Each is
stated as the named definition of its module; TLC refutes it when that definition
is added to the configuration the last column names, with the constants it gives.

| Definition | Where | What | Configuration |
|---|---|---|---|
| `PeerSync!InboundCapHolds` | lxmf/src/propagation_node.js:553 | propagation_node.js:65 says "Cap on concurrent inbound peer-sync transfers". The cap is tested when an offer is answered and counted when its transfer begins (router.js:446), so two offers answered in between are both admitted. | `PeerSync.cfg` |
| `PeerSync!OneValidation` | lxmf/src/propagation_node.js:321 | propagation_node.js:318-321 says "at most one batch's blobs are in memory for validation at a time". Two offers answered before either batch has arrived are validated together. | `PeerSync.cfg` |
| `PeerSync!StoredIsDistributed` | lxmf/src/propagation_node.js:380 | propagation_node.js:96-97 says the hook "guarantees that every ingest path … distributes identically". A throwing ingestFilter ends the batch before onStored, and what the batch had stored is queued for no peer. | `PeerSync.cfg` with a third node `c`, both messages submitted at `a`, `MaxPeers = 2`, no static peers, nothing weak, local or oversized, `Filters = {b}` |
| `Parking!ClosedLinksHaveNoBucket` | lxmf/src/router.js:1424 | router.js:1420 says parked messages are "dropped wholesale when their link closes". A message whose look-up is in progress is parked after the close, under a key nothing deletes. | `LXMF.cfg` |
| `Parking!FailuresAreHandled` | lxmf/src/router.js:2210 | router.js:2190-2192 says that without the guard "a processing failure would surface as an unhandled rejection". The Resource listener calls _processIncomingMessage without returning or awaiting it, so its failures are not handled. | `LXMF.cfg` |
| `Download!PoisonIsSkipped` | lxmf/src/router.js:1147 | router.js:1143-1146 says "acks every fetched message, duplicates included, and records locally_processed before attempting delivery". A message whose signature fails throws out of the loop before its id is recorded: every sync fetches it again and ends at it. | `LXMF.cfg` |
| `LXMFDispatch!ReencodedIsTheSame` | lxmf/src/message.js:292 | message.js:353-354 verifies "messages that passed through a re-encoding relay", and router.js:1489-1493 says every delivery "carries the same id". The id of an unstamped copy is that of the bytes received, so a re-encoded copy verifies, has an id of its own and is shown a second time. | `LXMF.cfg` |
| `Download!AckedIsReceived` | lxmf/src/router.js:1147 | router.js:1155 says "ack so the node purges the messages we received". A copy that cannot be decrypted makes _ingestPropagationData return false, as a duplicate does: its id is recorded, acknowledged and the node deletes a message nobody has read. | `LXMF.cfg` |
| `RfedNode!RawIsDecoded` | rfed/src/client.js:357 | client.js:340-342 says subscribeRaw marks the channel "so incoming fanout is decoded via {@link unwrapRawChannelMessage}". The channel is marked after the response and the teardown of the link: what the node fans out before is decoded as LXMF and dropped. An unsubscribe answered late, or one at another node, removes the mark of a channel that is subscribed. | `Node.cfg` |
| `RfedNode!RegisteredIsWoken` | rfed/src/notify.js:233 | client.js:543-545 says the node sends a wake "When a blob is deferred for this subscriber on the given channel (or globally if `channelName` is omitted)". _fireChannelNotify always asks for the registrations of the channel, and getForSubscriber compares the two: a registration without a channel matches none. | `Node.cfg` |
| `RfedNode!CachedCostIsEnough` | rfed/src/client.js:296 | client.js:364-365 says publish uses "the cached stamp cost (from the last {@link subscribe})". The cache is by channel: a client subscribed at two nodes publishes to the first with the cost of the second, and is ignored there or has its stamp taken for a part of the message. | `Node.cfg` |
| `RfedNode!TablesAreWhole` | node/src/storage/rfed.js:70 | rfed.js:43-44 says "the three table files are overwritten atomically", and lxmf.js:26-27 the same of the message store. writeFile empties the file and then writes it: a process that dies in between leaves a file that loads as an empty table, or one whose decoding throws, after which no start succeeds. | `Node.cfg` |
| `AutoInterface!AbandonedIsClosed` | node/src/interfaces/auto.js:570 | auto.js:980 says _abandonInterface "Tears down everything opened for one interface". A multicast socket is recorded after it has joined the group: one that is bound and fails to join is on no record, stays open, and its messages still reach _onDiscoveryMessage. | `Interfaces.cfg` |
| `AutoInterface!DisconnectCloses` | node/src/interfaces/auto.js:505 | auto.js:1204 says disconnect() "Closes all discovery and data sockets, stops the announce loops". A connect() that still opens sockets is not told: it opens the others after the closed event, starts their announces, and ends by setting online and the timer of the peer jobs. | `Interfaces.cfg` |
| `RNode!GatedOnReady` | core/src/interfaces/rnode.js:1330 | rnode.js:1268-1270 says "with flow control, the next one is gated on CMD_READY". _processQueue writes a queued frame and leaves the interface ready, so the next send() writes a second one before the device has answered. | `Interfaces.cfg` |
| `Framing!KissResyncs` | core/src/transport/kiss-framer.js:184 | a frame that openRaw refuses is skipped by `continue`, past the lines that reset the frame: the closing FEND does not open the next frame and the bytes of the refused one are kept, so the next good packet is lost with it. The HDLC unframer resumes at the shared flag. | `Interfaces.cfg` |
| `RfedNode!SubscribeIdempotent` | rfed/src/subscription.js:68 | subscription.js:61 says "Idempotent". The look-up is followed by two awaits before the push, so two requests for one pair add it twice, and the fan-out serves it twice. | `Node.cfg` |
| `RfedNode!EverySubscriberServed` | rfed/src/node.js:1486 | node.js:1453-1455 says "Present subscribers … receive it immediately; absent subscribers get it enqueued". The send to a present subscriber is awaited without a catch: when it throws, the subscribers after it get the blob neither sent nor queued. | `Node.cfg` |
| `RfedSync!DroppedStaysGone` | rfed/src/node.js:1441 | node.js:742-744 says the tick "Prunes expired blobs (30-day TTL) … and evicts blob-store overflow to the capacity limit". A blob a node dropped by age or for room and its peer still holds is asked for, stored and fanned out to the subscribers a second time. | `Progress.cfg` |
| `HttpSessions!OnePollChain` | core/src/interfaces/http.js:215 | http.js:323-325 says _triggerSend acts "If idle". A packet written while connect() registers, or a poll that outlives disconnect() and connect(), runs beside the poll of connect(): from then on there are two chains of polls. | `Interfaces.cfg` |
| `HttpSessions!ArrivesInOrder` | node/src/interfaces/http_server.js:667 | peer.ingest() is not awaited, so the next exchange is answered, and its packets ingested, while the access codes of the former are still checked. | `Interfaces.cfg` |
| `HttpSessions!OnlineIsRunning` | core/src/interfaces/http.js:205 | connect() goes online when its registration is answered although disconnect() came meanwhile: the interface stays online and never polls. | `Interfaces.cfg` |
| `Framing!RadioInOrder` | core/src/interfaces/rnode.js:1528 | _feedBytes does not await _processIncoming, which awaits the access code check (1859): of two frames of one chunk the second may be dispatched first. | `Interfaces.cfg` |
| `Persistence!RefusedIsRetried` | core/src/storage/persistor.js:368 | persistor.js:275 says a contact "schedules a debounced flush". One that the adapter refuses is only logged, and its timer is already cleared: the contact waits until somebody is contacted or flushes again. | `Progress.cfg` |
| `Discovery!SanitizedIsSaved` | core/src/transport/discovery.js:1036 | discovery.js:1032-1035 sanitizes "invalidly persisted" values. They are deleted in memory only: storage keeps them until the interface announces itself again. | `Node.cfg` |
| `RfedBackup!FailedPushIsRequeued` | rfed/src/node.js:951 | node.js:942-943 says "On any failure the pairs should be re-queued by the caller". A link or request that fails throws out of tickBackupDelivery, which re-queues only after a refusal. | `Node.cfg` |
| `RfedBackup!BackupHolds` | rfed/src/node.js:951 | core/CHANGELOG.md:677-678 says "a primary periodically pushes its (subscriber, channel) pairs". A pair is pushed once, when it is subscribed; the backup drops it when its TTL passes without a refresh, although the primary still serves it. | `Node.cfg` |
| `RfedBackup!PublishCap` | rfed/src/node.js:549 | node.js:154-155 says "publishes arriving beyond the cap are refused with RESOURCE_RCL at advertisement time". The cap is tested when a link is accepted or identified, so links accepted while there was room all advertise later. | `Node.cfg`, `PubLinks = {1, 2, 3}`, `Trusted = {3}` |
| `Persistence!LoadKeepsNews` | core/src/storage/persistor.js:440 | persistor.js:423 says load() "Hydrates the in-memory maps". An announce ingested while it awaits the adapter is overwritten by the older stored record. | `Progress.cfg` |
| `Persistence!StoreMovesForward` | core/src/storage/persistor.js:380 | two overlapping flushes write the same key; the one that encoded the older record may be the last to write. | `Progress.cfg` |
| `Persistence!RouteHasIdentity` | node/src/storage/file.js:152 | file.js:150-153 writes a record in place. A process killed during the write of the identities leaves a record that load() skips as corrupt, and the route is restored without it. | `Progress.cfg` |
| `Destination!AnnouncedIsFindable` | core/src/core/destination.js:624 | destination.js:624-626 says the ring is persisted "so a restart can still decrypt messages encrypted to prior ratchets". The announce is sent before the write of the ring has ended, and enabling ratchets again loads the stored ring over the newer one in memory. | `Node.cfg` |
| `PathSolicitation!RequestsAreSpaced` | core/src/transport/transport.js:950 | transport.js:920 says "rate-limited to one request per PATH_REQUEST_MIN_INTERVAL_SECS seconds per destination". The time is noted by requestPath only after its await, so concurrent callers all pass the test. | `Node.cfg` |
| `Discovery!FreshIsKept` | core/src/transport/discovery.js:1009 | discovery.js:1009-1010 says "Records past THRESHOLD_REMOVE … are pruned". listDiscoveredInterfaces awaits the adapter between choosing what is stale and deleting it: a record refreshed meanwhile goes too. | `Node.cfg` |
| `Discovery!StoppedIsSilent` | core/src/transport/discovery.js:922 | discovery.js:932 says stop() "Detaches the announce listener". A stop() while start() still hydrates finds no listener, and start() attaches it afterwards. | `Node.cfg` |
| `Signaling!WaiterIsHeld` | core/src/webrtc/signaling.js:394 | signaling.js:391-395 cancels the waiter of an offer that could not be sent, lest "its timeout reject a promise nobody holds". The timer runs, and answers are taken, from the moment the waiter is armed: a timeout or a malformed answer while the offer is still being sent rejects the promise before connect() awaits it. | `Progress.cfg` |
| `LXMFSend!IdentifiedOnce` | lxmf/src/router.js:1728 | router.js:1728 says "LINKIDENTIFY is sent once before the message DATA". Two sends on one link both find it unidentified and both send it. | `Node.cfg` |
| `LXMFSend!OneDirectLink` | lxmf/src/router.js:1725 | router.js:1725 says "a DIRECT link to the recipient is established (and cached)". Two sends that find no cached link each establish one; the cache keeps the last and the other stays open beside it. | `Node.cfg` |
| `Channel!InOrderDelivery` | core/src/transport/channel.js:583 | _receive accepts a sequence number without knowing its cycle; channel.js:7-8 promises "in-order / dedup'd delivery". After the sequence space wraps, a late retransmission of the previous cycle is delivered as a new message. | `Channel.cfg`, `SEQ_MODULUS = 3` |
| `Channel!ConfirmationMeansReceived` | core/src/transport/link.js:2541 | The packet is proved before _receive looks at it, which drops a message of an unregistered type (channel.js:580); channel.js:16-18 calls that proof "delivery confirmation" before handing the plaintext to the channel. The sender counts the message as delivered and the receiver waits for its sequence number for ever. | `Channel.cfg`, `Registered = {}` |
| `Channel!ShutdownStopsTimers` | core/src/transport/channel.js:876 | _sendImpl arms the packet timer after its await without looking at _shutDown; link.js:449-450 tears the channel down "so its outlet timers / proof listener are cleaned up". A send suspended when the link closes leaves a live timer. | `Channel.cfg` |
| `Link!ClosedIsInert` | core/src/transport/link.js:1116 | _handleLRPROOF (and _handleLRRTT at link.js:1160) sets ACTIVE after its awaits without looking at the status again; link.js:449-450 says the setter cleans up "before the link object becomes inert". Closed during the await (establishment timeout or teardown), the link returns to ACTIVE with a running watchdog, but no longer in the transport. | `Link.cfg` |
| `Link!ClosedHasNoPendingProofs` | core/src/transport/link.js:913 | send() stores its pending-proof entry after two awaits without looking at the status; link.js:455-457 says the setter drops them because "leaving them would leak map entries for the lifetime of the object". A send suspended when the link closes leaves exactly such an entry. | `Link.cfg` |
| `Resource!HashmapAligned` | core/src/core/resource.js:1114 | hashmapUpdate appends every continuation it gets and ignores the segment index in it; resource.js:259 says the hashmap holds the "expected 4-byte map_hashes per part". When a stall retry repeats the exhausted request and both answers arrive, the same continuation is appended twice and later slots expect the wrong part. | `ResourceLiveness.cfg`, `Parts = 3` |
| `Resource!AssembledExact` | core/src/core/resource.js:1607 | SplitResourceAssembler.add pushes whatever segment completes; resource.js:1571-1573 says segments are sent "strictly one at a time (the sender advertises the next only after the current proof), so segments complete in order". A watchdog re-advertisement of a segment that was received and whose proof is on its way makes the receiver fetch it again and add it twice. | `ResourceTransfer.cfg` |
| `Resource!FailedIsFinal` | core/src/core/resource.js:568 | advertise() sets ADVERTISED (and validateProof QUEUED and ADVERTISED, 735-737) after its awaits without looking at the status; resource.js:1532 says "nothing can complete once failed". A cancel() or link closure during the await is overwritten. | `ResourceTransfer.cfg` |
| `Resource!NothingAbandoned` | core/src/core/resource.js:919 | accept registers the new transfer over one under way with the same hash; src/packages/core/CHANGELOG.md:24 says of released transfers that "each resource fails (dropping its transfer buffers) so `whenComplete()` waiters observe the failure". The replaced transfer is neither failed nor ticked again, so its waiters hang. | `ResourceTransfer.cfg` |
| `Resource!TerminalIsReleased` | core/src/core/resource.js:748 | validateProof reaches COMPLETE without unregistering; resource.js:1533-1536 says that a resource which "stayed pinned in the link's map until the link itself closed" is what the unregistering prevents, "and links whose endpoints keep answering keepalives never close". A completed outgoing transfer, with its part slices, does stay. | `ResourceTransfer.cfg` |
| `Resource!FailedOnce` | core/src/core/resource.js:1290 | cancel() checks for a terminal status before it awaits the ICL send and not after; resource.js:1259-1260 says "`failed` fired once (whenComplete waiters settled); firing it again would double-reject". Two cancels (two watchdog ticks, or an application's and the watchdog's), or a rejection or closure during the await, fire it twice. | `ResourceTransfer.cfg` |
| `Resource!ClosedHoldsNoTransfer` | core/src/transport/link.js:2432 | _processPacket accepts a RESOURCE_ADV that was being decrypted or waited in _rxQueue when the link closed; link.js:457-460 says that "leaving the registrations would retain the transfer buffers" of a closed link "for the lifetime of the object". The new registration is never released. | `ResourceTransfer.cfg` |
| `Resource!SenderSettles` | core/src/core/resource.js:736 | validateProof's send of the next advertisement throws into the link's receive queue, which logs it; src/packages/core/CHANGELOG.md:7 says "`Resource` transfers are now bounded by a watchdog". The transfer stays QUEUED, which _watchdogTick (resource.js:1424) ignores, and is never settled while the link lives. | `ResourceLiveness.cfg`, `Segments = 2`, `Parts = 1`, `SendFails = TRUE` |
| `ResourceWindow!VerySlowIsPinned` | core/src/core/resource.js:1020 | _onWindowDrained only lowers the ceiling; resource.js:991-992 says "very slow links are pinned to the small window". The window is already above WINDOW_MAX_VERY_SLOW (4) when the second very slow round is counted, stays there while windows drain, and cannot shrink below a floor that has crept up. | `Node.cfg` |
| `ResourceWindow!EscalationIsConsecutive` | core/src/core/resource.js:1009 | fastRateRounds is never reset; resource.js:106 says "Consecutive fast windows before the ceiling escalates to fast". Four fast windows in total are enough, whatever lies between them. | `Node.cfg` |
| `LinkRequest!RequestSettles` | core/src/transport/link.js:1540 | An oversized request's id is the hash of a body that differs only by the time in milliseconds, and _registerPendingRequest (link.js:1692) replaces an entry of the same id; link.js:2145 says pending requests are rejected "so callers awaiting `link.request()` don't hang". Two equal requests in one millisecond leave the first caller waiting for ever, because its timeout and the closure both find the second's entry. | `Request.cfg`, `Requests = {r1, r2}`, `Id <- OneId` |
| `LinkRequest!ClosedHasNoPending` | core/src/transport/link.js:1523 | request() tests for ACTIVE, awaits the hash and the encryption, and registers without testing again; the status setter says (link.js:451) "fail any in-flight REQUESTs so their Promises don't dangle". A request that registers after the close waits out its whole timeout. | `Request.cfg` |
| `RoutingTable!NeverAcceptedTwice` | core/src/transport/router.js:214 | router.js:103 says "a seen `random_blob` is never accepted twice (anti-replay / anti-loop)" and :125 "a `random_blob` already recorded for this destination is always rejected". The recorded blobs are part of the route entry, so expireRoute, dropInterface and the cull in getRoute forget them and the same announce is then accepted as new; the unresponsive gate and the gravity switch accept a recorded blob as well. | `Node.cfg` |
| `Transport!SettledIsFinal` | core/src/transport/transport.js:806 | packet_receipt.js:185 says whenSettled "Resolves once the receipt reaches a terminal state, yielding the final {@link ReceiptStatus} (`DELIVERED` or `FAILED`)". _handleProof checks the status before `await receipt.validateProof(...)`; when the timeout fires during the check, whenSettled yields FAILED (an LXMF sender reports failure) and setDelivered then overwrites the terminal FAILED with DELIVERED, firing the second callback. | `Transport.cfg` |
| `Transport!HeardProofsCount` | core/src/transport/transport.js:1247 | transport.js:1229 says "track a PacketReceipt for opportunistic CTX_NONE DATA so the receiver's PROOF can resolve it". The receipt is registered only after the awaited write; a proof handled before that finds no receipt and is dropped, its repetitions are dropped by the duplicate filter, and the receipt fails and marks the path UNRESPONSIVE although the packet was delivered and proved. | `Transport.cfg` |
| `Transport!CondemnedWasTried` | core/src/transport/transport.js:1241 | transport.js:1137 says "a route marked UNRESPONSIVE by a failed proof/link attempt is a confirmed-dead path". The failed callback marks whatever entry the table holds when the timeout fires: an entry learned from a fresh announce after the packet left (by another path or by broadcast) is condemned, and expired by the next send, without having been tried. | `Transport.cfg` |
| `Transport!AlternativesAreTried` | core/src/transport/router.js:228 | router.js:203-206 says the gate accepts the announce "so we try an alternative instead of trusting a known-dead path". The accepted alternative keeps the state UNRESPONSIVE, and sendPacket (transport.js:1144) expires every UNRESPONSIVE entry before sending, so the alternative is thrown away instead of tried. | `Transport.cfg` |
| `Transport!PathsAreLive` | core/src/transport/transport.js:1168 | transport.js:1159-1167 says a route whose interface has "no live packet writer", such as "an interface mid-reconnect between writer generations", is expired so the send degrades "instead of failing with an opaque" error. The test is `!egress?._packetWriter`, but the interfaces keep the old writer until the new streams are set up (websocket.js:363, tcp.js:349) and removeInterface leaves the released writer in place; the send is written to the dead stream and throws, and the route stays. The test for this case (test/transport/reconnect.test.js:310) sets _packetWriter to null by hand. | `Transport.cfg` |
| `Transport!RoutesAreAttached` | core/src/transport/transport.js:743 | router.js:352 says dropInterface "drops every route learned through it so subsequent sends seek an alternative path (failover)". _handleAnnounce awaits validateAnnounce, getHash and rememberIdentity before it stores the route; when the interface is removed meanwhile, the route is stored afterwards with the removed interface, whose released writer is still set, so every send to the destination throws. | `Transport.cfg` |
| `Transport!LinkDataIsExcluded` | core/src/transport/transport.js:1233 | transport.js:1230 says "Link DATA proofs are always explicit and resolved on the link itself, so they are excluded here", and the JSDoc (:1099) that sendPacket returns null for link DATA. The condition does not look at the destination type: DATA with context NONE on a link gets a receipt, registered under a hash no proof is addressed to, that always times out as FAILED. | `Transport.cfg` |


## 6. What is left

No safety invariant that the prover can reach is left to TLC alone (section 4 says which
it cannot reach). What remains is modelling:

1. Operations that belong to modelled components: rotation of peers and the export
   and import of the store in `PeerSync`, LINKIDENTIFY and handler authorisation
   in `Link` and `LinkRequest`, the auto-connect policy of WebRTC signalling, the
   multicast echo of `AutoInterface`, the re-push of adopted backup pairs, and the merged
   awaits that section 2 lists.
2. The probe for a shared instance.

## 7. Not modelled

Cryptography and stamps (assumed to be what they are meant to be), encodings and
byte layouts other than framing and the LXMF message (pure functions without
state), rngit (git object packing and a helper process that talks to git over pipes),
configuration schemas, socket, file and process I/O, command line tools other
than the rfed runner, and examples. Each part is listed in `PROJECT.json` with its reason.
