------------------------------- MODULE RNode -------------------------------
(***************************************************************************)
(* The RNode radio driver: opening the serial port, the detect - firmware - *)
(* configure - validate sequence that brings it online, the read loop that  *)
(* notices a lost port, the outbound queue with its flow control, and the   *)
(* identification beacon that must follow a transmission.  The back-off     *)
(* loop is the base class's (Reconnect); here it only waits and retries, and *)
(* a port lost while the radio is being configured ends that attempt.       *)
(***************************************************************************)
EXTENDS Naturals, Sequences, FiniteSets

CONSTANTS
    RadioFields,   \* what the device reports about itself while it is configured
    FlowControl,   \* flowControl of the interface
    MaxRadioSends, \* bound: packets sent
    MaxRadioOpens  \* bound: times the port is opened

VARIABLES
    rnPc,          \* "off", "opening", "detect", "firmware", "radio", "up", "retry", "failed"
    rnOnline, rnReady, rnDetached,
    rnPort,        \* the port is open and read
    rnOpens,       \* how often it was opened
    rnReports,     \* per field, what the driver believes: "none", "ok" or "bad"
    rnFresh,       \* fields the device has reported since the port was opened
    rnQueue,       \* _packetQueue of "data" and "beacon"
    rnFirstTx,     \* firstTx is set: a transmission still has to be followed by a beacon
    rnIdTimer,
    rnSends,       \* packets the transport has asked to send
    rnUnacked      \* frames written since the device last said it was ready

\* The values that take more than one byte to report.
MultiByte == {"firmware", "frequency", "bandwidth"}

radioVars == <<rnPc, rnOnline, rnReady, rnDetached, rnPort, rnOpens, rnReports, rnFresh, rnQueue, rnFirstTx,
               rnIdTimer, rnSends, rnUnacked>>
queueVars == <<rnQueue, rnSends, rnUnacked>>

RadioInit ==
    /\ rnPc = "off" /\ rnOnline = FALSE /\ rnReady = FALSE /\ rnDetached = FALSE
    /\ rnPort = FALSE /\ rnOpens = 0
    /\ rnReports = [f \in RadioFields |-> "none"] /\ rnFresh = {}
    /\ rnQueue = << >> /\ rnFirstTx = FALSE /\ rnIdTimer = FALSE /\ rnSends = 0 /\ rnUnacked = 0

\* The read loop is stopped, the port closed and the beacon forgotten.
CloseTransportSafely == rnPort' = FALSE /\ rnFirstTx' = FALSE /\ rnIdTimer' = FALSE

\* connect(), or the back-off loop: the old port is closed first, which also ends the beacon.
RadioEstablish ==
    /\ rnPc \in {"off", "retry"} /\ ~rnDetached /\ rnOpens < MaxRadioOpens
    /\ rnPc' = "opening" /\ CloseTransportSafely
    /\ UNCHANGED <<rnOnline, rnReady, rnDetached, rnOpens, rnReports, rnFresh, queueVars>>

\* Mutant: what the device said on an earlier connection is kept.
ResetRadioStateKeep == UNCHANGED rnReports

ResetRadioState == rnReports' = [f \in RadioFields |-> "none"]

\* The backend opens the port (a serial device or a Web Serial port), the reported state is
\* cleared, the read loop starts and the detect request goes out.
OpenTransport ==
    /\ rnPc = "opening" /\ ~rnDetached
    /\ rnPc' = "detect" /\ rnPort' = TRUE /\ rnOpens' = rnOpens + 1
    /\ ResetRadioState /\ rnFresh' = {} /\ rnUnacked' = 0
    /\ UNCHANGED <<rnOnline, rnReady, rnDetached, rnQueue, rnSends, rnFirstTx, rnIdTimer>>

\* The device reports one value.
Reported(f, value) ==
    /\ rnPort /\ rnPc \in {"detect", "firmware", "radio"} /\ f \notin rnFresh
    /\ rnReports' = [rnReports EXCEPT ![f] = value] /\ rnFresh' = rnFresh \cup {f}
    /\ UNCHANGED <<rnPc, rnOnline, rnReady, rnDetached, rnPort, rnOpens, queueVars, rnFirstTx, rnIdTimer>>

\* A report of one byte, and one that is complete when its last byte is in.
HandleCommandByte == \E value \in {"ok", "bad"} : \E f \in RadioFields \ MultiByte : Reported(f, value)
HandleMultiByteCommand == \E value \in {"ok", "bad"} : \E f \in RadioFields \cap MultiByte : Reported(f, value)

\* A step of _configureDevice: every wait is a poll that looks at what was reported.
ConfigureDevice ==
    /\ rnPort
    /\ \/ rnPc = "detect" /\ rnReports["detected"] = "ok" /\ rnPc' = "firmware"
       \/ rnPc = "firmware" /\ rnReports["firmware"] # "bad" /\ rnPc' = "radio"
    /\ UNCHANGED <<rnOnline, rnReady, rnDetached, rnPort, rnOpens, rnReports, rnFresh, queueVars, rnFirstTx, rnIdTimer>>

\* _validateRadioState succeeded: the interface is online.
RadioUp ==
    /\ rnPc = "radio" /\ \A f \in RadioFields \ {"firmware"} : rnReports[f] = "ok"
    /\ rnPc' = "up" /\ rnReady' = TRUE /\ rnOnline' = TRUE
    /\ UNCHANGED <<rnDetached, rnPort, rnOpens, rnReports, rnFresh, queueVars, rnFirstTx, rnIdTimer>>

\* A timeout, an old firmware, a wrong value, or a port that went away while configuring.
ConfigureFails ==
    /\ rnPc \in {"opening", "detect", "firmware", "radio"}
    /\ rnPc' = IF rnDetached THEN "failed" ELSE "retry"
    /\ CloseTransportSafely
    /\ UNCHANGED <<rnOnline, rnReady, rnDetached, rnOpens, rnReports, rnFresh, queueVars>>

\* The read loop ends: the port failed, or the device reported a fatal error or a reset.
ReadLoopLost ==
    /\ rnPc = "up" /\ rnPort
    /\ rnOnline' = FALSE /\ rnPort' = FALSE /\ rnPc' = "retry"
    /\ UNCHANGED <<rnReady, rnDetached, rnOpens, rnReports, rnFresh, queueVars, rnFirstTx, rnIdTimer>>
-----------------------------------------------------------------------------
\* Outbound.

\* A transmission arms the beacon timer unless a beacon is already owed; a beacon pays it.
NoteTransmission(item, armed) ==
    IF item = "beacon"
    THEN rnFirstTx' = FALSE /\ rnIdTimer' = FALSE
    ELSE rnFirstTx' = TRUE /\ rnIdTimer' = (armed \/ ~rnFirstTx)

\* A packet, or the beacon when its timer fires: written at once when the radio is ready,
\* queued otherwise.
Transmit(item, armed) ==
    IF rnOnline /\ rnReady
    THEN /\ rnReady' = ~FlowControl /\ rnUnacked' = IF rnPort THEN rnUnacked + 1 ELSE rnUnacked
         /\ NoteTransmission(item, armed) /\ UNCHANGED rnQueue
    ELSE /\ rnQueue' = Append(rnQueue, item)
         /\ rnIdTimer' = armed /\ UNCHANGED <<rnReady, rnUnacked, rnFirstTx>>

RadioSend ==
    /\ rnSends < MaxRadioSends /\ rnSends' = rnSends + 1
    /\ Transmit("data", rnIdTimer)
    /\ UNCHANGED <<rnPc, rnOnline, rnDetached, rnPort, rnOpens, rnReports, rnFresh>>

SendIdBeacon ==
    /\ rnIdTimer
    /\ Transmit("beacon", FALSE)
    /\ UNCHANGED <<rnPc, rnOnline, rnDetached, rnPort, rnOpens, rnReports, rnFresh, rnSends>>

\* The device can take another frame: one queued item is written, and the interface counts
\* as ready either way.
ProcessQueue ==
    /\ rnPort /\ rnPc = "up" /\ rnUnacked > 0
    /\ rnReady' = TRUE
    /\ IF rnQueue = << >>
       THEN rnUnacked' = 0 /\ UNCHANGED <<rnQueue, rnFirstTx, rnIdTimer>>
       ELSE /\ rnQueue' = Tail(rnQueue) /\ rnUnacked' = 1
            /\ NoteTransmission(Head(rnQueue), rnIdTimer)
    /\ UNCHANGED <<rnPc, rnOnline, rnDetached, rnPort, rnOpens, rnReports, rnFresh, rnSends>>

\* disconnect() powers the radio down and closes the port; a configuration in progress finds
\* out by its next write or, when it only waits, not at all.
RadioDisconnect ==
    /\ rnPc # "off" /\ ~rnDetached
    /\ rnDetached' = TRUE /\ rnOnline' = FALSE /\ CloseTransportSafely
    /\ rnPc' = IF rnPc \in {"up", "retry"} THEN "failed" ELSE rnPc
    /\ UNCHANGED <<rnReady, rnOpens, rnReports, rnFresh, queueVars>>

RadioNext ==
    \/ RadioEstablish \/ OpenTransport \/ ConfigureDevice \/ RadioUp \/ ConfigureFails \/ ReadLoopLost
    \/ HandleCommandByte \/ HandleMultiByteCommand
    \/ RadioSend \/ SendIdBeacon \/ ProcessQueue \/ RadioDisconnect
-----------------------------------------------------------------------------
\* A station that has transmitted identifies itself: as long as a beacon is owed its timer
\* runs or the beacon waits in the queue, whatever mix of flow control, reconnects and queued
\* packets led there (_armIdBeacon, _sendIdBeacon, _processQueue).
BeaconIsComing == rnFirstTx => rnIdTimer \/ \E i \in DOMAIN rnQueue : rnQueue[i] = "beacon"

\* The interface only comes online on values the device itself reported on this connection
\* (_resetRadioState, _validateRadioState).
ValidatedAfresh == [][~rnOnline /\ rnOnline' => RadioFields \ {"firmware"} \subseteq rnFresh]_radioVars

\* What the radio driver promises: it identifies itself after transmitting, and it is online
\* only with a device that has confirmed its configuration (_noteTransmission,
\* _validateRadioState).
RadioIsLawful == []BeaconIsComing /\ ValidatedAfresh

\* _writeRaw with flow control: the next frame is gated on CMD_READY.
GatedOnReady == FlowControl => rnUnacked <= 1
=============================================================================
