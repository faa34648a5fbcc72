----------------------------- MODULE Reconnect -----------------------------
(***************************************************************************)
(* The connection life cycle of the stream interfaces (TCP, WebSocket,      *)
(* Backbone and the shared-instance client): the dial, the inbound loop     *)
(* that notices a loss, the back-off loop of the base class and             *)
(* disconnect(), which may come while either of them is awaiting.           *)
(* The four classes share the base class and differ in when they publish    *)
(* the socket and in what they clean up, so each has actions of its own.    *)
(***************************************************************************)
EXTENDS Naturals

CONSTANTS
    IfKinds,     \* the classes explored, a subset of {"tcp", "ws", "backbone", "local"}
    MaxTries,    \* maxReconnectTries
    MaxDials     \* bound: connections made in one behaviour

VARIABLES
    ifKind,      \* the class of the interface, fixed
    initiator,   \* it dials (FALSE: it adopted an accepted socket), fixed
    autoReconnect,
    ifApp,       \* the caller of connect(): "idle", "dialing", "done"
    ifOnline, detached,
    ifClosed,    \* _closed: the closed event of this episode was dispatched
    reconnecting,\* _reconnecting, the single-flight flag
    loopPc,      \* where the back-off loop awaits: "off", "sleep" or "dial"
    attempts,
    dial,        \* the socket being opened: "none", "pending" or "aborted"
    wire,        \* the socket of the current streams: "none", "up" or "broken"
    conns,       \* how many connections there have been
    writer,      \* which connection the cached _packetWriter belongs to, 0 for none
    keepalive,   \* the keep-alive timer of a shared-instance client runs
    closedEvents \* closed events since the last connected event

ifConst == <<ifKind, initiator, autoReconnect>>
loopVars == <<reconnecting, loopPc, attempts>>
ifVars == <<ifKind, initiator, autoReconnect, ifApp, ifOnline, detached, ifClosed, reconnecting, loopPc, attempts,
            dial, wire, conns, writer, keepalive, closedEvents>>

ReconnectInit ==
    /\ ifKind \in IfKinds /\ initiator \in BOOLEAN /\ autoReconnect \in BOOLEAN
    /\ ifApp = "idle" /\ ifOnline = FALSE /\ detached = FALSE /\ ifClosed = FALSE
    /\ reconnecting = FALSE /\ loopPc = "off" /\ attempts = 0
    /\ dial = "none" /\ wire = "none" /\ conns = 0 /\ writer = 0 /\ keepalive = FALSE
    /\ closedEvents = 0
-----------------------------------------------------------------------------
\* Base class.

DispatchClosed ==
    /\ ifClosed' = TRUE
    /\ closedEvents' = IF ifClosed THEN closedEvents ELSE closedEvents + 1

\* The head of the loop after n attempts: another back-off, or giving up.
LoopHead(n) ==
    IF n + 1 > MaxTries
    THEN /\ ifClosed' = TRUE /\ closedEvents' = closedEvents + 1
         /\ reconnecting' = FALSE /\ loopPc' = "off" /\ attempts' = n + 1
    ELSE /\ ifClosed' = FALSE /\ UNCHANGED closedEvents
         /\ reconnecting' = TRUE /\ loopPc' = "sleep" /\ attempts' = n + 1

RunReconnectLoop ==
    IF reconnecting THEN UNCHANGED <<loopVars, ifClosed, closedEvents>> ELSE LoopHead(0)

HandleConnectionLost ==
    /\ ifOnline' = FALSE
    /\ IF ~detached /\ initiator /\ autoReconnect
       THEN RunReconnectLoop
       ELSE DispatchClosed /\ UNCHANGED loopVars

\* disconnect() sets detached and aborts the back-off; the loop notices when it wakes up.
CancelReconnect == detached' = TRUE

\* The back-off ends, by its timer or by the abort.
LoopWakes ==
    /\ loopPc = "sleep"
    /\ IF detached
       THEN reconnecting' = FALSE /\ loopPc' = "off" /\ UNCHANGED dial
       ELSE loopPc' = "dial" /\ dial' = "pending" /\ UNCHANGED reconnecting
    /\ UNCHANGED <<ifConst, ifApp, ifOnline, detached, ifClosed, attempts, wire, conns, writer, keepalive, closedEvents>>

\* Mutant: the flag is only cleared when the loop gives up.
LoopReturnsBusy == loopPc' = "off" /\ UNCHANGED <<reconnecting, attempts>>

\* The loop returns as soon as its dial succeeds; the finally block ends the single flight.
LoopReturns == loopPc' = "off" /\ reconnecting' = FALSE /\ UNCHANGED attempts

\* send() caches a writer of the current stream and keeps it.
SendPacket ==
    /\ conns > 0 /\ writer = 0
    /\ writer' = conns
    /\ UNCHANGED <<ifConst, ifApp, ifOnline, detached, ifClosed, loopVars, dial, wire, conns, keepalive, closedEvents>>
-----------------------------------------------------------------------------
\* What the classes have in common.

\* Mutant: the cached writer survives the connection.
SetupStreamsKeep == UNCHANGED writer

SetupStreams == writer' = 0

Online(timer) ==
    /\ conns' = conns + 1 /\ wire' = "up" /\ ifOnline' = TRUE
    /\ ifClosed' = FALSE /\ closedEvents' = 0 /\ keepalive' = (keepalive \/ timer)
    /\ SetupStreams

Connect(class) ==
    /\ ifKind = class /\ ifApp = "idle"
    /\ IF initiator
       THEN /\ ifApp' = "dialing" /\ dial' = "pending"
            /\ UNCHANGED <<ifOnline, ifClosed, wire, conns, writer, keepalive, closedEvents>>
       ELSE ifApp' = "done" /\ Online(FALSE) /\ UNCHANGED dial
    /\ UNCHANGED <<ifConst, detached, loopVars>>

\* The connect event of the dial, unless its timeout settled it first.
DialConnects(class, timer) ==
    /\ ifKind = class /\ dial = "pending" /\ conns < MaxDials
    /\ dial' = "none" /\ Online(timer)
    /\ IF ifApp = "dialing" THEN ifApp' = "done" /\ UNCHANGED loopVars ELSE UNCHANGED ifApp /\ LoopReturns
    /\ UNCHANGED <<ifConst, detached>>

\* The dial fails or times out. connect() starts the loop in the background and rethrows,
\* the loop goes to its next attempt or, when detached, ends.
DialFails(class) ==
    /\ ifKind = class /\ dial # "none"
    /\ dial' = "none" /\ ifOnline' = FALSE /\ ifApp' = "done"
    /\ CASE ifApp = "dialing" /\ autoReconnect /\ ~detached -> RunReconnectLoop
         [] ifApp # "dialing" /\ ~detached -> LoopHead(attempts)
         [] OTHER -> /\ reconnecting' = FALSE /\ loopPc' = "off"
                     /\ UNCHANGED <<attempts, ifClosed, closedEvents>>
    /\ UNCHANGED <<ifConst, detached, wire, conns, writer, keepalive>>

\* disconnect() destroys the socket it can see and is final; whether it can see a
\* socket that is still being opened depends on the class.
Disconnect(class, seesDial) ==
    /\ ifKind = class /\ ifApp # "idle" /\ ~detached
    /\ CancelReconnect
    /\ wire' = IF wire = "up" THEN "broken" ELSE wire
    /\ dial' = IF seesDial /\ dial = "pending" THEN "aborted" ELSE dial
    /\ ifOnline' = FALSE /\ keepalive' = FALSE
    /\ DispatchClosed
    /\ UNCHANGED <<ifConst, ifApp, loopVars, conns, writer>>

\* The inbound loop ends, because the stream closed or failed.
InboundLoopEnds(class) ==
    /\ ifKind = class /\ wire = "broken"
    /\ wire' = "none"
    /\ HandleConnectionLost
    /\ UNCHANGED <<ifConst, ifApp, detached, dial, conns, writer, keepalive>>

\* External: the peer or the network ends the connection.
WireBreaks ==
    /\ wire = "up" /\ wire' = "broken"
    /\ UNCHANGED <<ifConst, ifApp, ifOnline, detached, ifClosed, loopVars, dial, conns, writer, keepalive, closedEvents>>
-----------------------------------------------------------------------------
TcpConnect == Connect("tcp")
TcpEstablish == DialConnects("tcp", FALSE) \/ DialFails("tcp")
TcpDisconnect == Disconnect("tcp", FALSE)
TcpInboundLoop == InboundLoopEnds("tcp")

\* A WebSocket is published before it is open, so disconnect() closes a pending dial.
WsConnect == Connect("ws")
WsEstablish == DialConnects("ws", FALSE) \/ DialFails("ws")
WsDisconnect == Disconnect("ws", TRUE)
WsInboundLoop == InboundLoopEnds("ws")

BackboneConnect == Connect("backbone")
BackboneEstablish == DialConnects("backbone", FALSE) \/ DialFails("backbone")
BackboneDisconnect == Disconnect("backbone", FALSE)
BackboneInboundLoop == InboundLoopEnds("backbone")

\* The shared-instance client starts its keep-alive timer when its dial connects.
LocalConnect == Connect("local")
LocalEstablish == DialConnects("local", TRUE) \/ DialFails("local")
LocalDisconnect == Disconnect("local", FALSE)
LocalInboundLoop == InboundLoopEnds("local")

Establish == TcpEstablish \/ WsEstablish \/ BackboneEstablish \/ LocalEstablish
InboundLoop == TcpInboundLoop \/ WsInboundLoop \/ BackboneInboundLoop \/ LocalInboundLoop

ReconnectNext ==
    \/ TcpConnect \/ WsConnect \/ BackboneConnect \/ LocalConnect
    \/ Establish
    \/ TcpDisconnect \/ WsDisconnect \/ BackboneDisconnect \/ LocalDisconnect
    \/ InboundLoop
    \/ LoopWakes \/ SendPacket \/ WireBreaks
-----------------------------------------------------------------------------
\* A lost connection never strands the interface: the back-off loop, which only one
\* caller may run, brings it back online or ends it with a closed event
\* (Interface._handleConnectionLost and _runReconnectLoop).
LossResolves == (wire = "broken" \/ reconnecting) ~> (ifOnline \/ ifClosed)

\* "closed" is dispatched at most once per connection episode, although disconnect(), the
\* inbound loop and the back-off loop may all report the same end (_dispatchClosed).
ClosedOnce == closedEvents <= 1

\* send() never writes to the stream of an earlier connection once a new one is up
\* (_setupStreams drops the cached writer).
WriterIsCurrent == ifOnline => writer \in {0, conns}

\* A WebSocket interface that was told to disconnect never comes online again, even when
\* the call came in the middle of a dial or of the back-off.
DetachedStaysOffline == ifKind = "ws" /\ detached => ~ifOnline

\* What the life cycle promises although loss, back-off, dial and disconnect() interleave: one
\* closed event for each end, no write to a socket that is gone, and for the WebSocket class no
\* connection after disconnect() (_dispatchClosed, _setupStreams, _cancelReconnect).
ConnectionSafe == ClosedOnce /\ WriterIsCurrent /\ DetachedStaysOffline
=============================================================================
