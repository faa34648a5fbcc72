--------------------------- MODULE AutoInterface ---------------------------
(***************************************************************************)
(* The zero-configuration interface: multicast discovery on every adopted   *)
(* device, one peer interface per address that was heard, the peer jobs     *)
(* (expiry, link-local changes, the carrier watchdog), and the data path,   *)
(* where a datagram that arrives on two devices is accepted once.  The      *)
(* handlers await a hash, so peers expire and the interface is disconnected *)
(* while datagrams are being looked at; connect() opens one socket after    *)
(* the other, and disconnect() may come before it has opened the last.      *)
(***************************************************************************)
EXTENDS Naturals, Sequences, FiniteSets

CONSTANTS
    Devices,      \* network devices that are not ignored and have a link-local address, numbered
    AutoPeers,    \* addresses of other nodes
    Datagrams,    \* data packets the others send
    DequeLen,     \* MULTI_IF_DEQUE_LEN
    DequeTtl,     \* MULTI_IF_DEQUE_TTL_SECS, in ticks
    PeeringTimeout,
    MaxAutoTime,  \* bound: ticks
    MaxCopies     \* bound: datagrams looked at at one time

ASSUME AutoAssumption == {DequeLen, DequeTtl} \subseteq Nat \ {0}

VARIABLES
    aiState,      \* "off", "on" (online) or "closed" (disconnect() has been called)
    adopted,      \* devices with an entry in adoptedInterfaces
    aiConn,       \* where connect() is: [pc, dev, todo]
    aiOpen,       \* discovery sockets on record: <<device, "multicast" or "unicast">>
    aiTimers,     \* devices whose announce timer runs
    aiShut,       \* where disconnect() is: [waits, socks], with the sockets it closes
    aiStray,      \* history: a socket is open that is on no record
    aiEnded,      \* history: a disconnect() has ended
    dataSock,     \* per device, the data socket: "none", "bound" or "rebinding"
    carrier,      \* per device: "up" or "lost"
    aiPeers,      \* per address, when it was last heard, 0 for unknown
    aiSpawned,    \* addresses with a peer interface that is online
    aiInst,       \* per address, how many peer interfaces it has had
    aiHashing,    \* discovery datagrams past the online check
    aiData,       \* data datagrams being processed: <<address, its peer interface, datagram, device>>
    mifDeque,     \* recently accepted datagrams: [hash, expiresAt]
    aiNow,
    acceptedAt,   \* per datagram, when it was last accepted, 0 for never
    displaced,    \* history: datagrams that made room in the deque before their time was over
    repeated      \* history: a datagram was accepted twice within the TTL without that

deviceVars == <<aiConn, aiOpen, aiTimers, aiShut, aiStray, aiEnded>>
autoVars == <<deviceVars, aiState, adopted, dataSock, carrier, aiPeers, aiSpawned, aiInst, aiHashing, aiData, mifDeque, aiNow,
              acceptedAt, displaced, repeated>>

AutoInit ==
    /\ aiState = "off" /\ adopted = {}
    /\ aiConn = [pc |-> "idle", dev |-> CHOOSE d \in Devices : TRUE, todo |-> {}] /\ aiOpen = {} /\ aiTimers = {}
    /\ aiShut = [waits |-> FALSE, socks |-> {}] /\ aiStray = FALSE /\ aiEnded = FALSE
    /\ dataSock = [d \in Devices |-> "none"] /\ carrier = [d \in Devices |-> "up"]
    /\ aiPeers = [a \in AutoPeers |-> 0] /\ aiSpawned = {}
    /\ aiInst = [a \in AutoPeers |-> 0] /\ aiHashing = {} /\ aiData = {} /\ mifDeque = << >>
    /\ aiNow = 1 /\ acceptedAt = [m \in Datagrams |-> 0] /\ displaced = {} /\ repeated = FALSE

dataVars == <<aiInst, carrier, aiPeers, aiSpawned, aiHashing, aiData, mifDeque, aiNow, acceptedAt, displaced, repeated>>

\* connect() is called.
AutoConnect ==
    /\ aiState = "off" /\ aiConn.pc = "idle"
    /\ aiConn' = [aiConn EXCEPT !.pc = "next", !.todo = Devices]
    /\ UNCHANGED <<aiState, adopted, dataSock, aiOpen, aiTimers, aiShut, aiStray, aiEnded, dataVars>>

\* The next device that is not ignored and has a link-local address.
AdoptDevice(d) ==
    /\ aiConn.pc = "next" /\ d \in aiConn.todo /\ \A e \in aiConn.todo : d <= e
    /\ aiConn' = [pc |-> "multicast", dev |-> d, todo |-> aiConn.todo \ {d}]
    /\ adopted' = adopted \cup {d}
    /\ UNCHANGED <<aiState, dataSock, aiOpen, aiTimers, aiShut, aiStray, aiEnded, dataVars>>

Opening(pc, next) == aiConn.pc = pc /\ aiConn' = [aiConn EXCEPT !.pc = next]

\* _openDiscoverySockets: the multicast socket is bound, joins the group and is recorded; it
\* may be bound and not join.
BindMulticast ==
    /\ \/ /\ Opening("multicast", "unicast") /\ aiOpen' = aiOpen \cup {<<aiConn.dev, "multicast">>}
          /\ UNCHANGED aiStray
       \/ /\ Opening("multicast", "abandon") /\ UNCHANGED aiOpen
          /\ aiStray' \in {aiStray, TRUE}
    /\ UNCHANGED <<aiState, adopted, dataSock, aiTimers, aiShut, aiEnded, dataVars>>

\* Announces by timer, beginning with one.
StartAnnounceLoop(d) == aiTimers' = aiTimers \cup {d}

\* Then the unicast socket, and the announces begin.
BindUnicast ==
    /\ \/ /\ Opening("unicast", "data") /\ aiOpen' = aiOpen \cup {<<aiConn.dev, "unicast">>}
          /\ StartAnnounceLoop(aiConn.dev)
       \/ Opening("unicast", "abandon") /\ UNCHANGED <<aiOpen, aiTimers>>
    /\ UNCHANGED <<aiState, adopted, dataSock, aiShut, aiStray, aiEnded, dataVars>>

\* _openDataSocket.
BindData ==
    /\ \/ Opening("data", "next") /\ dataSock' = [dataSock EXCEPT ![aiConn.dev] = "bound"]
       \/ Opening("data", "abandon") /\ UNCHANGED dataSock
    /\ UNCHANGED <<aiState, adopted, aiOpen, aiTimers, aiShut, aiStray, aiEnded, dataVars>>

Recorded(d) == {<<d, "multicast">>, <<d, "unicast">>}

\* _abandonInterface closes what is on record for the device and forgets it.
AbandonInterface ==
    /\ Opening("abandon", "next")
    /\ aiTimers' = aiTimers \ {aiConn.dev} /\ aiOpen' = aiOpen \ Recorded(aiConn.dev)
    /\ dataSock' = [dataSock EXCEPT ![aiConn.dev] = "none"] /\ adopted' = adopted \ {aiConn.dev}
    /\ UNCHANGED <<aiState, aiShut, aiStray, aiEnded, dataVars>>

\* After the last device the interface is online, whatever has happened to it meanwhile.
ConnectEnds ==
    /\ Opening("next", "done") /\ aiConn.todo = {}
    /\ aiState' = "on"
    /\ UNCHANGED <<adopted, dataSock, aiOpen, aiTimers, aiShut, aiStray, aiEnded, dataVars>>
-----------------------------------------------------------------------------
\* Discovery.

\* A discovery datagram of another node passes the online check and awaits its hash.
OnDiscoveryMessage(a) ==
    /\ aiState = "on" /\ adopted # {} /\ a \notin aiHashing
    /\ aiHashing' = aiHashing \cup {a}
    /\ UNCHANGED <<deviceVars, aiInst, aiState, adopted, dataSock, carrier, aiPeers, aiSpawned, aiData, mifDeque, aiNow, acceptedAt, displaced, repeated>>

\* The hash matches: a known address is refreshed, a new one gets a peer interface, which is
\* online, recorded and attached at once. It does not matter whether the interface is still up.
AddPeer(a) ==
    /\ a \in aiHashing
    /\ aiHashing' = aiHashing \ {a}
    /\ aiPeers' = [aiPeers EXCEPT ![a] = aiNow]
    /\ IF aiPeers[a] = 0
       THEN aiSpawned' = aiSpawned \cup {a} /\ aiInst' = [aiInst EXCEPT ![a] = @ + 1]
       ELSE UNCHANGED <<aiSpawned, aiInst>>
    /\ UNCHANGED <<deviceVars, aiState, adopted, dataSock, carrier, aiData, mifDeque, aiNow, acceptedAt, displaced, repeated>>

\* A datagram that fails authentication is dropped.
DiscoveryRefused(a) ==
    /\ a \in aiHashing
    /\ aiHashing' = aiHashing \ {a}
    /\ UNCHANGED <<deviceVars, aiInst, aiState, adopted, dataSock, carrier, aiPeers, aiSpawned, aiData, mifDeque, aiNow, acceptedAt, displaced, repeated>>
-----------------------------------------------------------------------------
\* Peer jobs.

TimedOut == {a \in AutoPeers : aiPeers[a] # 0 /\ aiNow > aiPeers[a] + PeeringTimeout}

\* Mutant: an expired peer keeps its interface.
ExpirePeersKeep == aiPeers' = [a \in AutoPeers |-> IF a \in TimedOut THEN 0 ELSE aiPeers[a]] /\ UNCHANGED aiSpawned

\* _expirePeer forgets the address, and closes the interface of the address.
ExpirePeers ==
    /\ aiPeers' = [a \in AutoPeers |-> IF a \in TimedOut THEN 0 ELSE aiPeers[a]]
    /\ aiSpawned' = aiSpawned \ TimedOut

\* A device whose link-local address changed gets its data socket rebound.
CheckLinkLocalChange ==
    \E changed \in SUBSET {d \in adopted : dataSock[d] = "bound"} :
        dataSock' = [d \in Devices |-> IF d \in changed THEN "rebinding" ELSE dataSock[d]]

\* The watchdog finds the last echo of its own multicast fresh or stale on each device.
CheckMulticastEcho ==
    \E stale \in SUBSET adopted :
        carrier' = [d \in Devices |-> IF d \in adopted THEN IF d \in stale THEN "lost" ELSE "up" ELSE carrier[d]]

\* Silent peers are dropped, then every device is looked at.
RunPeerJobs ==
    /\ aiState = "on"
    /\ ExpirePeers /\ CheckLinkLocalChange /\ CheckMulticastEcho
    /\ UNCHANGED <<deviceVars, aiInst, aiState, adopted, aiHashing, aiData, mifDeque, aiNow, acceptedAt, displaced, repeated>>

\* The new data socket is bound, or the attempt fails, which is not tried again.
RebindEnds(d) ==
    /\ dataSock[d] = "rebinding"
    /\ dataSock' \in {[dataSock EXCEPT ![d] = "bound"], [dataSock EXCEPT ![d] = "none"]}
    /\ UNCHANGED <<deviceVars, aiInst, aiState, adopted, carrier, aiPeers, aiSpawned, aiHashing, aiData, mifDeque, aiNow, acceptedAt, displaced, repeated>>
-----------------------------------------------------------------------------
\* Data.

\* _onData and the first half of processIncoming: only a known peer's datagrams are looked at.
\* The same datagram may arrive on several devices.
OnData(a, m, d) ==
    /\ aiState = "on" /\ a \in aiSpawned /\ dataSock[d] = "bound" /\ Cardinality(aiData) < MaxCopies
    /\ <<a, aiInst[a], m, d>> \notin aiData
    /\ aiData' = aiData \cup {<<a, aiInst[a], m, d>>}
    /\ UNCHANGED <<deviceVars, aiInst, aiState, adopted, dataSock, carrier, aiPeers, aiSpawned, aiHashing, mifDeque, aiNow, acceptedAt, displaced, repeated>>

IsDuplicate(m) == \E i \in DOMAIN mifDeque : mifDeque[i].hash = m /\ mifDeque[i].expiresAt > aiNow

Remember(m) ==
    LET grown == Append(mifDeque, [hash |-> m, expiresAt |-> aiNow + DequeTtl])
    IN  /\ mifDeque' = IF Len(grown) > DequeLen THEN Tail(grown) ELSE grown
        /\ displaced' = (displaced \ {m}) \cup
              IF Len(grown) > DequeLen /\ Head(grown).expiresAt > aiNow THEN {Head(grown).hash} ELSE {}

\* The rest of processIncoming: the duplicate check, the refresh of the peer, and the hand-over
\* to the peer's stream, unless that was closed meanwhile.
ProcessIncoming(a, i, m, d) ==
    /\ aiData' = aiData \ {<<a, i, m, d>>}
    /\ IF IsDuplicate(m)
       THEN UNCHANGED <<mifDeque, aiPeers, acceptedAt, displaced, repeated>>
       ELSE /\ Remember(m)
            /\ aiPeers' = [aiPeers EXCEPT ![a] = IF @ = 0 THEN 0 ELSE aiNow]
            /\ IF a \in aiSpawned /\ aiInst[a] = i
               THEN /\ acceptedAt' = [acceptedAt EXCEPT ![m] = aiNow]
                    /\ repeated' = (repeated \/ (/\ acceptedAt[m] # 0 /\ aiNow < acceptedAt[m] + DequeTtl
                                                  /\ m \notin displaced))
               ELSE UNCHANGED <<acceptedAt, repeated>>
    /\ UNCHANGED <<deviceVars, aiInst, aiState, adopted, dataSock, carrier, aiSpawned, aiHashing, aiNow>>
-----------------------------------------------------------------------------
OpenSockets == aiOpen \cup {<<d, "data">> : d \in {e \in Devices : dataSock[e] # "none"}}

\* disconnect() stops the timers and closes the peers and the sockets on record, and when they
\* are closed it drops its state.  A connect() under way goes on.
AutoDisconnect ==
    /\ aiState = "on" \/ (aiState = "off" /\ aiConn.pc # "idle")
    /\ ~aiShut.waits /\ aiShut' = [waits |-> TRUE, socks |-> OpenSockets]
    /\ aiState' = "closed" /\ aiSpawned' = {} /\ aiTimers' = {}
    /\ UNCHANGED <<aiConn, aiOpen, aiStray, aiEnded, aiInst, adopted, dataSock, carrier, aiPeers, aiHashing, aiData, mifDeque, aiNow,
                   acceptedAt, displaced, repeated>>

AutoClosed ==
    /\ aiShut.waits /\ aiShut' = [waits |-> FALSE, socks |-> {}] /\ aiEnded' = TRUE
    /\ aiStray' = (aiStray \/ ~ OpenSockets \subseteq aiShut.socks)
    /\ aiOpen' = {} /\ dataSock' = [d \in Devices |-> "none"]
    /\ aiSpawned' = {} /\ mifDeque' = << >> /\ aiPeers' = [a \in AutoPeers |-> 0]
    /\ UNCHANGED <<aiConn, aiState, aiTimers, aiInst, adopted, carrier, aiHashing, aiData, aiNow, acceptedAt, displaced, repeated>>

AutoTick ==
    /\ aiState # "off" /\ aiNow < MaxAutoTime /\ aiNow' = aiNow + 1
    /\ UNCHANGED <<deviceVars, aiInst, aiState, adopted, dataSock, carrier, aiPeers, aiSpawned, aiHashing, aiData, mifDeque, acceptedAt, displaced, repeated>>

AutoNext ==
    \/ AutoConnect \/ BindMulticast \/ BindUnicast \/ BindData \/ AbandonInterface \/ ConnectEnds
    \/ RunPeerJobs \/ AutoDisconnect \/ AutoClosed \/ AutoTick
    \/ \E a \in AutoPeers : OnDiscoveryMessage(a) \/ AddPeer(a) \/ DiscoveryRefused(a)
    \/ \E d \in Devices : AdoptDevice(d) \/ RebindEnds(d)
    \/ \E a \in AutoPeers, m \in Datagrams, d \in Devices : OnData(a, m, d)
    \/ \E c \in aiData : ProcessIncoming(c[1], c[2], c[3], c[4])
-----------------------------------------------------------------------------
\* A datagram seen on several devices is accepted once within the deque's time to live, although
\* its copies are hashed concurrently, unless later ones have taken its place in the full deque
\* (_isDuplicate); while the interface is up a peer
\* interface exists exactly for the addresses heard within the timeout or not yet expired
\* (addPeer, _expirePeer); and unless disconnect() was called it is adopted devices, and no
\* others, that are listened and announced on, whichever socket of another one failed
\* (_openDiscoverySockets, _abandonInterface).
AutoPeering ==
    /\ ~repeated /\ (aiState = "on" => aiSpawned = {a \in AutoPeers : aiPeers[a] # 0})
    /\ aiState = "on" /\ ~aiEnded /\ ~aiShut.waits =>
         /\ adopted = aiTimers /\ aiOpen = UNION {Recorded(d) : d \in adopted}
         /\ \A d \in Devices \ adopted : dataSock[d] = "none"

\* _abandonInterface "Tears down everything opened for one interface".
AbandonedIsClosed == aiEnded \/ aiConn.pc # "next" \/ ~aiStray

\* disconnect() "Closes all discovery and data sockets, stops the announce loops".
DisconnectCloses == aiEnded => OpenSockets = {} /\ aiTimers = {} /\ aiState = "closed"
=============================================================================
