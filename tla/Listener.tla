------------------------------ MODULE Listener ------------------------------
(***************************************************************************)
(* The listening interfaces: a server socket and one adopted client         *)
(* interface per accepted connection (TCP, Backbone and WebSocket servers), *)
(* the fast-flap guard of the Backbone listener, and the shutdown.          *)
(***************************************************************************)
EXTENDS Naturals, FiniteSets

CONSTANTS
    ServerKinds,  \* the classes explored, a subset of {"tcp", "backbone", "ws"}
    Sockets,      \* bound: connections made to the server, each used once
    Ips,          \* remote addresses
    FlapGrace,    \* fastFlapGrace: quick losses that are forgiven
    IpOf          \* the remote address of each socket

ASSUME IpOfAssumption == IpOf \in [Sockets -> Ips]

VARIABLES
    svKind,       \* fixed
    svPc,         \* "up", "closing" (the ws library's close callback is awaited) or "stopped"
    sock,         \* per socket: "new", "live", "lost" (not noticed yet), "gone", "refused"
    svSpawned,    \* spawnedInterfaces
    svAttached,   \* the spawned interfaces the transport holds
    flaps,        \* fastFlapping: quick losses per address
    flapOld       \* addresses whose last quick loss is older than fastFlapExpiry

listenerVars == <<svKind, svPc, sock, svSpawned, svAttached, flaps, flapOld>>

ListenerInit ==
    /\ svKind \in ServerKinds /\ svPc = "up"
    /\ sock = [s \in Sockets |-> "new"]
    /\ svSpawned = {} /\ svAttached = {}
    /\ flaps = [i \in Ips |-> 0] /\ flapOld = {}

\* Entries are pruned whenever the guard is asked, not when they expire.
PruneExpiredFlapBlocks == [i \in Ips |-> IF i \in flapOld THEN 0 ELSE flaps[i]]

IsFlapBlocked(ip) == PruneExpiredFlapBlocks[ip] > FlapGrace

\* The server adopts a socket: the client interface is online at once, is recorded and, through
\* the connection event, given to the transport.
Accept(s) ==
    /\ sock' = [sock EXCEPT ![s] = "live"]
    /\ svSpawned' = svSpawned \cup {s} /\ svAttached' = svAttached \cup {s}

TcpAccept(s) ==
    /\ svKind = "tcp" /\ svPc = "up" /\ sock[s] = "new"
    /\ Accept(s)
    /\ UNCHANGED <<svKind, svPc, flaps, flapOld>>

WsAccept(s) ==
    /\ svKind = "ws" /\ svPc = "up" /\ sock[s] = "new"
    /\ Accept(s)
    /\ UNCHANGED <<svKind, svPc, flaps, flapOld>>

IncomingConnection(s) ==
    /\ svKind = "backbone" /\ svPc = "up" /\ sock[s] = "new"
    /\ flaps' = PruneExpiredFlapBlocks /\ flapOld' = {}
    /\ IF IsFlapBlocked(IpOf[s])
       THEN sock' = [sock EXCEPT ![s] = "refused"] /\ UNCHANGED <<svSpawned, svAttached>>
       ELSE Accept(s)
    /\ UNCHANGED <<svKind, svPc>>

\* External: the remote end goes away.
SocketLost(s) ==
    /\ sock[s] = "live"
    /\ sock' = [sock EXCEPT ![s] = "lost"]
    /\ UNCHANGED <<svKind, svPc, svSpawned, svAttached, flaps, flapOld>>

\* External: fastFlapExpiry passes without another quick loss from the address.
FlapExpires(ip) ==
    /\ flaps[ip] > 0 /\ ip \notin flapOld
    /\ flapOld' = flapOld \cup {ip}
    /\ UNCHANGED <<svKind, svPc, sock, svSpawned, svAttached, flaps>>

\* A connection that lasted less than the threshold counts against its address; the count
\* grows even when its last entry had expired but was not pruned yet.
MaybeRecordFlap(s, quick) ==
    IF quick /\ svKind = "backbone"
    THEN /\ flaps' = [flaps EXCEPT ![IpOf[s]] = IF @ > FlapGrace THEN @ ELSE @ + 1]
         /\ flapOld' = flapOld \ {IpOf[s]}
    ELSE UNCHANGED <<flaps, flapOld>>

\* Mutant: only the transport learns that the connection ended.
SpawnedAfterLossKept(s) == svSpawned

\* The inbound loop of a spawned client ends: its closed event detaches it from the transport.
\* The Backbone client and the WebSocket server also drop it from spawnedInterfaces, the TCP
\* server keeps it.
SpawnedAfterLoss(s) == IF svKind = "tcp" THEN svSpawned ELSE svSpawned \ {s}

SpawnedLost(s) ==
    /\ sock[s] = "lost"
    /\ sock' = [sock EXCEPT ![s] = "gone"]
    /\ svSpawned' = SpawnedAfterLoss(s)
    /\ svAttached' = svAttached \ {s}
    /\ \E quick \in BOOLEAN : MaybeRecordFlap(s, quick)
    /\ UNCHANGED <<svKind, svPc>>

\* disconnect() of every spawned client: the sockets are destroyed and the clients closed.
DisconnectSpawned ==
    /\ sock' = [s \in Sockets |-> IF s \in svSpawned THEN "gone" ELSE sock[s]]
    /\ svAttached' = svAttached \ svSpawned
    /\ svSpawned' = {}

TcpServerDisconnect ==
    /\ svKind = "tcp" /\ svPc = "up"
    /\ DisconnectSpawned /\ svPc' = "stopped"
    /\ UNCHANGED <<svKind, flaps, flapOld>>

\* The inbound loops of the Backbone clients end on their destroyed sockets, and count the
\* quick ones as lost.
BackboneServerDisconnect ==
    /\ svKind = "backbone" /\ svPc = "up"
    /\ DisconnectSpawned /\ svPc' = "stopped"
    /\ \E quick \in SUBSET svSpawned :
          /\ flaps' = [ip \in Ips |-> LET n == flaps[ip] + Cardinality({s \in quick : IpOf[s] = ip})
                                     IN  IF n > FlapGrace THEN FlapGrace + 1 ELSE n]
          /\ flapOld' = flapOld \ {IpOf[s] : s \in quick}
    /\ UNCHANGED svKind

\* The WebSocket server first awaits the close of its listener, and the library reports that
\* only when the last client is gone; the clients are disconnected after it.
WsServerDisconnect ==
    /\ svKind = "ws"
    /\ \/ svPc = "up" /\ svPc' = "closing" /\ UNCHANGED <<sock, svSpawned, svAttached>>
       \/ /\ svPc = "closing" /\ \A s \in Sockets : sock[s] \notin {"live", "lost"}
          /\ DisconnectSpawned /\ svPc' = "stopped"
    /\ UNCHANGED <<svKind, flaps, flapOld>>

ListenerNext ==
    \/ \E s \in Sockets : TcpAccept(s) \/ WsAccept(s) \/ IncomingConnection(s) \/ SocketLost(s) \/ SpawnedLost(s)
    \/ \E i \in Ips : FlapExpires(i)
    \/ TcpServerDisconnect \/ BackboneServerDisconnect \/ WsServerDisconnect
-----------------------------------------------------------------------------
\* A Backbone or WebSocket server holds no dead client: what it would disconnect on shutdown
\* is exactly what the transport still sends through, and after the shutdown there is neither
\* (BackboneClientInterface._startInboundLoop, the closed listener of the WebSocket server).
SpawnedIsAttached ==
    svKind # "tcp" => /\ svSpawned = svAttached
                      /\ \A s \in svSpawned : sock[s] \in {"live", "lost"}
=============================================================================
