---------------------------- MODULE UdpInterface ----------------------------
(***************************************************************************)
(* The UDP interface: a receive and a send socket opened one after the      *)
(* other, datagrams that await the opening of their access code, packets    *)
(* that await its sealing, and a disconnect() that may come in any of these *)
(* gaps.                                                                    *)
(***************************************************************************)
EXTENDS Naturals

CONSTANT MaxUdp    \* bound: datagrams each way

VARIABLES
    udPc,          \* connect(): "idle", "receive", "send" (what it binds), "done", "failed"
    udOnline, udStopped,
    udRecv, udSend,\* the sockets are open
    udStream,      \* the inbound stream has a controller
    udOpening,     \* datagrams whose access code is being opened
    udSealing,     \* packets being sealed
    udIn, udOut,   \* datagrams received and packets written so far
    udGot          \* packets handed to the inbound stream

udpVars == <<udPc, udOnline, udStopped, udRecv, udSend, udStream, udOpening, udSealing, udIn, udOut, udGot>>

UdpInit ==
    /\ udPc = "idle" /\ udOnline = FALSE /\ udStopped = FALSE
    /\ udRecv = FALSE /\ udSend = FALSE /\ udStream = FALSE
    /\ udOpening = 0 /\ udSealing = 0 /\ udIn = 0 /\ udOut = 0 /\ udGot = 0

\* connect() opens the inbound stream, then binds; either bind may fail, and a failure of
\* the second leaves the first open.
UdpConnect ==
    /\ \/ /\ udPc = "idle" /\ ~udStopped
          /\ udPc' = "receive" /\ udStream' = TRUE /\ UNCHANGED <<udRecv, udSend, udOnline>>
       \/ udPc = "receive" /\ udPc' = "send" /\ udRecv' = TRUE /\ UNCHANGED <<udStream, udSend, udOnline>>
       \/ /\ udPc = "send"
          /\ udPc' = "done" /\ udSend' = TRUE /\ udOnline' = TRUE /\ UNCHANGED <<udStream, udRecv>>
       \/ udPc \in {"receive", "send"} /\ udPc' = "failed" /\ UNCHANGED <<udStream, udRecv, udSend, udOnline>>
    /\ UNCHANGED <<udStopped, udOpening, udSealing, udIn, udOut, udGot>>

UdpOnMessage ==
    /\ udRecv /\ udOnline /\ udIn < MaxUdp
    /\ udIn' = udIn + 1 /\ udOpening' = udOpening + 1
    /\ UNCHANGED <<udPc, udOnline, udStopped, udRecv, udSend, udStream, udSealing, udOut, udGot>>

\* Mutant: the stream is assumed to be as it was before the await.
UdpOpenedStale ==
    /\ udOpening > 0 /\ udOpening' = udOpening - 1
    /\ udGot' = udGot + 1
    /\ UNCHANGED <<udPc, udOnline, udStopped, udRecv, udSend, udStream, udSealing, udIn, udOut>>

\* The access code was opened or refused: a packet that parses goes to the stream if there
\* still is one.
UdpOpened ==
    /\ udOpening > 0 /\ udOpening' = udOpening - 1
    /\ udGot' \in IF udStream THEN {udGot, udGot + 1} ELSE {udGot}
    /\ UNCHANGED <<udPc, udOnline, udStopped, udRecv, udSend, udStream, udSealing, udIn, udOut>>

UdpProcessOutgoing ==
    /\ udOnline /\ udSend /\ udOut < MaxUdp
    /\ udOut' = udOut + 1 /\ udSealing' = udSealing + 1
    /\ UNCHANGED <<udPc, udOnline, udStopped, udRecv, udSend, udStream, udOpening, udIn, udGot>>

\* The sealed packet is sent; when the socket is gone by now the write fails.
UdpSealed ==
    /\ udSealing > 0 /\ udSealing' = udSealing - 1
    /\ UNCHANGED <<udPc, udOnline, udStopped, udRecv, udSend, udStream, udOpening, udIn, udOut, udGot>>

UdpDisconnect ==
    /\ udPc # "idle" /\ ~udStopped
    /\ udStopped' = TRUE /\ udOnline' = FALSE /\ udRecv' = FALSE /\ udSend' = FALSE /\ udStream' = FALSE
    /\ UNCHANGED <<udPc, udOpening, udSealing, udIn, udOut, udGot>>

UdpNext == UdpConnect \/ UdpOnMessage \/ UdpOpened \/ UdpProcessOutgoing \/ UdpSealed \/ UdpDisconnect
-----------------------------------------------------------------------------
\* A datagram whose access code was being opened when disconnect() closed the inbound stream
\* is dropped, not pushed into the closed stream (_onMessage).
NothingAfterClose == [][udStopped => udGot' = udGot]_udpVars
=============================================================================
