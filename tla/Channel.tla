------------------------------ MODULE Channel ------------------------------
(***************************************************************************)
(* One direction of a Channel over a Link                                  *)
(* (packages/core/src/transport/channel.js): the sending Channel with its  *)
(* LinkChannelOutlet, the packets and link proofs in transit, and the      *)
(* receiving Channel.                                                      *)
(*                                                                         *)
(* Messages are numbered by the order in which they reach the wire: wire[m] *)
(* is the envelope of the m-th one.  A resend repeats the same bytes, so m *)
(* also stands for the packet, its hash and the proof of it.  Payloads are *)
(* abstracted away; timeouts are unordered.                                *)
(***************************************************************************)
EXTENDS Integers, Sequences, FiniteSets

CONSTANTS
    Types,       \* message types (MSGTYPE) the application uses
    Registered,  \* the types the receiver registers before any traffic
    Rtts,        \* the round-trip classes the link may have, "zero" before it is measured
    SEQ_MODULUS, WINDOW, WINDOW_MIN, WINDOW_MAX_SLOW, WINDOW_MAX_MEDIUM,
    WINDOW_MAX_FAST, WINDOW_MIN_LIMIT_MEDIUM, WINDOW_MIN_LIMIT_FAST,
    WINDOW_FLEXIBILITY, FAST_RATE_THRESHOLD,
    MaxTries,    \* _maxTries
    MaxMessages, \* bound: messages put on the wire
    MaxCopies    \* bound: copies of one packet (or proof) in transit

RttClasses == {"zero", "fast", "medium", "slow", "verySlow"}

ASSUME TypesAssumption == Registered \subseteq Types /\ Types # {}
ASSUME RttsAssumption == Rtts \subseteq RttClasses
ASSUME WindowAssumption ==
    /\ WINDOW \in Nat /\ WINDOW_MIN \in Nat /\ WINDOW_FLEXIBILITY \in Nat
    /\ WINDOW_MAX_SLOW \in Nat /\ WINDOW_MAX_MEDIUM \in Nat
    /\ WINDOW_MAX_FAST \in Nat
    /\ WINDOW_MIN_LIMIT_MEDIUM \in Nat /\ WINDOW_MIN_LIMIT_FAST \in Nat
    /\ 1 <= WINDOW_MIN /\ WINDOW_MIN <= WINDOW /\ WINDOW <= WINDOW_MAX_SLOW
    /\ WINDOW_MAX_SLOW <= WINDOW_MAX_MEDIUM
    /\ WINDOW_MAX_MEDIUM <= WINDOW_MAX_FAST
    /\ 1 <= WINDOW_MIN_LIMIT_MEDIUM
    /\ WINDOW_MIN_LIMIT_MEDIUM <= WINDOW_MAX_MEDIUM
    /\ 1 <= WINDOW_MIN_LIMIT_FAST
    /\ WINDOW_MIN_LIMIT_FAST <= WINDOW_MAX_FAST
ASSUME BoundsAssumption ==
    /\ SEQ_MODULUS \in Nat /\ SEQ_MODULUS > 0
    /\ FAST_RATE_THRESHOLD \in Nat
    /\ MaxTries \in Nat /\ MaxTries > 0
    /\ MaxMessages \in Nat
    /\ MaxCopies \in Nat /\ MaxCopies > 0

WINDOW_MAX == WINDOW_MAX_FAST

VARIABLES
    nextSequence,  \* sender: _nextSequence
    sending,       \* sender: the one _sendImpl in progress (_sendChain)
    txRing,        \* sender: _txRing, as envelopes [id, tries]
    timers,        \* outlet: packets whose timeoutTimer is armed
    sent,          \* outlet: keys of _sent
    early,         \* outlet: _earlyDelivered
    opDelivered,   \* outlet: packets whose handle is marked delivered
    win,           \* sender: window, windowMax, windowMin, ... rate rounds
    rtt,           \* outlet.rtt, as a class
    txShutDown,    \* sender: _shutDown
    wire,          \* history: the envelopes transmitted, in order
    net,           \* copies of each data packet in transit
    proofs,        \* copies of each link proof in transit
    factories,     \* receiver: keys of _messageFactories
    proving,       \* receiver: the packet awaiting _provePacket, or 0
    nextRxSequence,\* receiver: _nextRxSequence
    rxRing,        \* receiver: _rxRing
    rxShutDown,    \* receiver: _shutDown
    delivered      \* history: messages handed to the handlers, in order

txVars == <<nextSequence, sending, txRing, timers, sent, early, opDelivered,
            win, rtt, txShutDown>>
netVars == <<wire, net, proofs>>
rxVars == <<factories, proving, nextRxSequence, rxRing, rxShutDown, delivered>>
vars == <<txVars, netVars, rxVars>>

Messages == 1..MaxMessages
IdleSend == [stage |-> "idle", seq |-> 0, type |-> CHOOSE t \in Types : TRUE]

-----------------------------------------------------------------------------
(* Network (external): packets and proofs are lost, delayed and reordered,  *)
(* and packets duplicated (the duplicate filter lets CHANNEL packets pass). *)

AddCopy(bag, m) == [bag EXCEPT ![m] = IF @ < MaxCopies THEN @ + 1 ELSE @]
DropCopy(bag, m) == [bag EXCEPT ![m] = @ - 1]

-----------------------------------------------------------------------------
(* Adaptive window (constructor, _packetTxOp, _packetTimeout).              *)

NewWindow(r) ==
    IF r = "verySlow"
    THEN [cur |-> 1, max |-> 1, min |-> 1, flex |-> 1, fast |-> 0, medium |-> 0]
    ELSE [cur |-> WINDOW, max |-> WINDOW_MAX_SLOW, min |-> WINDOW_MIN,
          flex |-> WINDOW_FLEXIBILITY, fast |-> 0, medium |-> 0]

\* The rate-round accounting after a delivery, by round-trip class.
Promote(w, r) ==
    CASE r = "zero" -> w
      [] r \in {"slow", "verySlow"} -> [w EXCEPT !.fast = 0, !.medium = 0]
      [] r = "medium" ->
           IF w.max < WINDOW_MAX_MEDIUM /\ w.medium + 1 = FAST_RATE_THRESHOLD
           THEN [w EXCEPT !.fast = 0, !.medium = @ + 1,
                          !.max = WINDOW_MAX_MEDIUM,
                          !.min = WINDOW_MIN_LIMIT_MEDIUM]
           ELSE [w EXCEPT !.fast = 0, !.medium = @ + 1]
      [] r = "fast" ->
           IF w.max < WINDOW_MAX_FAST /\ w.fast + 1 = FAST_RATE_THRESHOLD
           THEN [w EXCEPT !.fast = @ + 1, !.max = WINDOW_MAX_FAST,
                          !.min = WINDOW_MIN_LIMIT_FAST]
           ELSE [w EXCEPT !.fast = @ + 1]

Grow(w) == IF w.cur < w.max THEN [w EXCEPT !.cur = @ + 1] ELSE w

Shrink(w) ==
    IF w.cur > w.min
    THEN [w EXCEPT !.cur = @ - 1,
                   !.max = IF @ > w.min + w.flex THEN @ - 1 ELSE @]
    ELSE w

-----------------------------------------------------------------------------
Init ==
    /\ nextSequence = 0
    /\ sending = IdleSend
    /\ txRing = {}
    /\ timers = {} /\ sent = {} /\ early = {} /\ opDelivered = {}
    /\ rtt \in Rtts
    /\ win = NewWindow(rtt)
    /\ txShutDown = FALSE
    /\ wire = << >>
    /\ net = [m \in Messages |-> 0]
    /\ proofs = [m \in Messages |-> 0]
    /\ factories = Registered
    /\ proving = 0
    /\ nextRxSequence = 0
    /\ rxRing = {}
    /\ rxShutDown = FALSE
    /\ delivered = << >>

-----------------------------------------------------------------------------
(* Sending Channel and its outlet.                                          *)

\* Envelopes in the ring whose handle is not yet marked delivered.
Outstanding == {e \in txRing : e.id \notin opDelivered}

IsReadyToSend == Cardinality(Outstanding) < win.cur

\* _sendImpl up to the await of outlet.send: the sequence is reserved.
SendStart(t) ==
    /\ sending.stage = "idle"
    /\ ~txShutDown
    /\ IsReadyToSend
    /\ Len(wire) < MaxMessages
    /\ sending' = [stage |-> "preparing", seq |-> nextSequence, type |-> t]
    /\ nextSequence' = (nextSequence + 1) % SEQ_MODULUS
    /\ UNCHANGED <<txRing, timers, sent, early, opDelivered, win, rtt,
                   txShutDown, netVars, rxVars>>

\* link.send hands the encrypted packet to the interface.
SendTransmit ==
    /\ sending.stage = "preparing"
    /\ sending' = [sending EXCEPT !.stage = "transmitted"]
    /\ wire' = Append(wire, [seq |-> sending.seq, type |-> sending.type])
    /\ net' = AddCopy(net, Len(wire) + 1)
    /\ UNCHANGED <<nextSequence, txRing, timers, sent, early, opDelivered, win,
                   rtt, txShutDown, proofs, rxVars>>

\* outlet.send throws (no link token yet, no interface): the reserved
\* sequence is rolled back and the send rejects.
SendFail ==
    /\ sending.stage = "preparing"
    /\ nextSequence' = sending.seq
    /\ sending' = IdleSend
    /\ UNCHANGED <<txRing, timers, sent, early, opDelivered, win, rtt,
                   txShutDown, netVars, rxVars>>

\* _emplaceEnvelope on the tx ring: an envelope whose sequence is already
\* there is not inserted.
EmplaceTx(m) ==
    IF \E e \in txRing : wire[e.id].seq = wire[m].seq
    THEN txRing
    ELSE txRing \cup {[id |-> m, tries |-> 1]}

\* Mutant: the timer is not started (again).
ArmTimerNot(armed, m) == armed \ {m}

\* setPacketTimeoutCallback: replaces the packet's timer by a new one.
ArmTimer(armed, m) == armed \cup {m}

\* outlet.send resumes and registers the handle (reconciling a proof that
\* came first), then _sendImpl emplaces the envelope and arms its timer, or
\* settles it at once when it is already delivered.
SendComplete ==
    /\ sending.stage = "transmitted"
    /\ LET m == Len(wire) IN
       /\ sent' = sent \cup {m}
       /\ early' = early \ {m}
       /\ IF m \in early
          THEN /\ opDelivered' = opDelivered \cup {m}
               /\ win' = IF EmplaceTx(m) = txRing THEN win
                         ELSE Promote(Grow(win), rtt)
               /\ UNCHANGED <<txRing, timers>>
          ELSE /\ txRing' = EmplaceTx(m)
               /\ timers' = ArmTimer(timers, m)
               /\ UNCHANGED <<opDelivered, win>>
    /\ sending' = IdleSend
    /\ UNCHANGED <<nextSequence, rtt, txShutDown, netVars, rxVars>>

\* _cleanup detaches the outlet's proof listener.
ListensToProofs == ~txShutDown

\* A link proof arrives: _markDelivered, and through the delivered callback
\* _packetTxOp.
ProofArrives(m) ==
    /\ proofs[m] > 0
    /\ proofs' = DropCopy(proofs, m)
    /\ IF ~ListensToProofs \/ (m \in sent /\ m \in opDelivered)
       THEN UNCHANGED <<txRing, timers, sent, early, opDelivered, win>>
       ELSE IF m \notin sent
       THEN /\ early' = early \cup {m}
            /\ UNCHANGED <<txRing, timers, sent, opDelivered, win>>
       ELSE /\ opDelivered' = opDelivered \cup {m}
            /\ timers' = timers \ {m}
            /\ sent' = sent \ {m}
            /\ txRing' = {e \in txRing : e.id # m}
            /\ win' = IF txRing' = txRing THEN win ELSE Promote(Grow(win), rtt)
            /\ UNCHANGED early
    /\ UNCHANGED <<nextSequence, sending, rtt, txShutDown, wire, net, rxVars>>

\* _shutdown with _clearRings and the outlet's _cleanup; a second call returns
\* at once.
Shutdown ==
    /\ txShutDown' = TRUE
    /\ IF txShutDown
       THEN UNCHANGED <<txRing, sent, early>>
       ELSE txRing' = {} /\ sent' = {} /\ early' = {}

RetriesExhausted(e) == e.tries >= MaxTries

\* _packetTimeout: retransmit and shrink the window, or give up.
PacketTimeout(m) ==
    /\ m \in timers
    /\ IF ~\E e \in txRing : e.id = m
       THEN /\ timers' = timers \ {m}
            /\ UNCHANGED <<txRing, sent, early, win, txShutDown, net>>
       ELSE LET e == CHOOSE x \in txRing : x.id = m IN
            IF RetriesExhausted(e)
            THEN /\ timers' = IF txShutDown THEN timers \ {m} ELSE {}
                 /\ Shutdown
                 /\ UNCHANGED <<win, net>>
            ELSE /\ txRing' = (txRing \ {e}) \cup {[e EXCEPT !.tries = @ + 1]}
                 /\ win' = Shrink(win)
                 /\ net' = AddCopy(net, m)
                 /\ timers' = ArmTimer(timers, m)
                 /\ UNCHANGED <<sent, early, txShutDown>>
    /\ UNCHANGED <<nextSequence, sending, opDelivered, rtt, wire, proofs, rxVars>>

\* The sender's link reaches CLOSED (teardown, peer's close, watchdog).
TxLinkClosed ==
    /\ ~txShutDown
    /\ timers' = {}
    /\ Shutdown
    /\ UNCHANGED <<nextSequence, sending, opDelivered, win, rtt, netVars, rxVars>>

\* The link measures its round-trip time after the channel was created.
RttMeasured(r) ==
    /\ rtt = "zero"
    /\ rtt' = r
    /\ UNCHANGED <<nextSequence, sending, txRing, timers, sent, early,
                   opDelivered, win, txShutDown, netVars, rxVars>>

-----------------------------------------------------------------------------
(* Receiving Channel.                                                       *)

RegisterMessageType(t) ==
    /\ factories' = factories \cup {t}
    /\ UNCHANGED <<txVars, netVars, proving, nextRxSequence, rxRing, rxShutDown,
                   delivered>>

\* Link._processPacket, CHANNEL case, up to the await: the packet is proved
\* before the channel sees it.  Link.receive handles one packet at a time.
\* The network may hold another copy, however many it delivered.
ProvePacket(m) ==
    /\ net[m] > 0
    /\ ~rxShutDown
    /\ proving = 0
    /\ net' \in {net, DropCopy(net, m)}
    /\ proofs' = AddCopy(proofs, m)
    /\ proving' = m
    /\ UNCHANGED <<txVars, wire, factories, nextRxSequence, rxRing, rxShutDown,
                   delivered>>

\* The sequence check of _receive.
ValidSequence(seq) ==
    \/ seq >= nextRxSequence
    \/ LET windowOverflow == (nextRxSequence + WINDOW_MAX) % SEQ_MODULUS
       IN windowOverflow < nextRxSequence /\ seq <= windowOverflow

HasSequence(ring, seq) == \E i \in ring : wire[i].seq = seq

\* _emplaceEnvelope on the rx ring drops a sequence that is already there.
AcceptedByRx(m) ==
    /\ wire[m].type \in factories
    /\ ValidSequence(wire[m].seq)
    /\ ~HasSequence(rxRing, wire[m].seq)

\* How many envelopes are contiguous from nextRxSequence.
ContiguousCount(ring) ==
    CHOOSE k \in 0..SEQ_MODULUS :
        /\ \A j \in 0..(k - 1) :
              HasSequence(ring, (nextRxSequence + j) % SEQ_MODULUS)
        /\ \/ k = SEQ_MODULUS
           \/ ~HasSequence(ring, (nextRxSequence + k) % SEQ_MODULUS)

\* Mutant: the received envelope is dispatched without waiting for a gap.
ContiguousUnordered(ring) == <<proving>>

\* The envelopes the drain loop takes out of the ring, in order.
Contiguous(ring) ==
    [j \in 1..ContiguousCount(ring) |->
        CHOOSE i \in ring :
            wire[i].seq = (nextRxSequence + j - 1) % SEQ_MODULUS]

\* Mutant: _shutdown leaves the handlers registered.
RunCallbacksAfterShutdown(run) == delivered \o run

\* _runCallbacks for each drained envelope.  On a shut-down channel the
\* handlers are gone and nothing is dispatched.
RunCallbacks(run) == IF rxShutDown THEN delivered ELSE delivered \o run

\* _receive: sequence check, insertion, drain and dispatch.
Receive ==
    /\ proving # 0
    /\ proving' = 0
    /\ IF AcceptedByRx(proving)
       THEN LET ring == rxRing \cup {proving}
                run == Contiguous(ring)
            IN /\ rxRing' = ring \ {run[j] : j \in DOMAIN run}
               /\ nextRxSequence' = (nextRxSequence + Len(run)) % SEQ_MODULUS
               /\ delivered' = RunCallbacks(run)
       ELSE UNCHANGED <<rxRing, nextRxSequence, delivered>>
    /\ UNCHANGED <<txVars, netVars, factories, rxShutDown>>

\* The receiver's link reaches CLOSED.
RxLinkClosed ==
    /\ ~rxShutDown
    /\ rxShutDown' = TRUE
    /\ rxRing' = {}
    /\ UNCHANGED <<txVars, netVars, factories, proving, nextRxSequence, delivered>>

-----------------------------------------------------------------------------
LosePacket(m) ==
    /\ net[m] > 0
    /\ net' = DropCopy(net, m)
    /\ UNCHANGED <<txVars, wire, proofs, rxVars>>

LoseProof(m) ==
    /\ proofs[m] > 0
    /\ proofs' = DropCopy(proofs, m)
    /\ UNCHANGED <<txVars, wire, net, rxVars>>

Sender ==
    \/ \E t \in Types : SendStart(t)
    \/ SendTransmit
    \/ SendFail
    \/ SendComplete
    \/ \E m \in Messages : ProofArrives(m)
    \/ \E m \in Messages : PacketTimeout(m)
    \/ TxLinkClosed
    \/ \E r \in Rtts \ {"zero"} : RttMeasured(r)

Receiver ==
    \/ \E t \in Types : RegisterMessageType(t)
    \/ \E m \in Messages : ProvePacket(m)
    \/ Receive
    \/ RxLinkClosed

Network ==
    \/ \E m \in Messages : LosePacket(m)
    \/ \E m \in Messages : LoseProof(m)

Next == Sender \/ Receiver \/ Network

Spec == Init /\ [][Next]_vars

\* Timers fire, in no particular order, and the promises of the send and receive paths resolve.
Fairness ==
    /\ WF_vars(SendTransmit \/ SendFail \/ SendComplete)
    /\ WF_vars(Receive)
    /\ WF_vars(\E m \in Messages : PacketTimeout(m))

FairSpec == Spec /\ Fairness

-----------------------------------------------------------------------------
(* Properties.                                                              *)

Envelopes == [id : Messages, tries : 1..MaxTries]
Windows == [cur : Nat, max : Nat, min : Nat, flex : Nat, fast : Nat, medium : Nat]

\* Type invariant of both channels, the outlet and the network.
TypeOK ==
    /\ nextSequence \in 0..(SEQ_MODULUS - 1)
    /\ sending \in [stage : {"idle", "preparing", "transmitted"},
                    seq : 0..(SEQ_MODULUS - 1), type : Types]
    /\ txRing \subseteq Envelopes
    /\ timers \subseteq Messages /\ sent \subseteq Messages
    /\ early \subseteq Messages /\ opDelivered \subseteq Messages
    /\ win \in Windows
    /\ rtt \in RttClasses
    /\ txShutDown \in BOOLEAN
    /\ wire \in Seq([seq : 0..(SEQ_MODULUS - 1), type : Types])
    /\ Len(wire) <= MaxMessages
    /\ net \in [Messages -> Nat] /\ proofs \in [Messages -> Nat]
    /\ factories \subseteq Types
    /\ proving \in 0..MaxMessages
    /\ nextRxSequence \in 0..(SEQ_MODULUS - 1)
    /\ rxRing \subseteq Messages
    /\ rxShutDown \in BOOLEAN
    /\ delivered \in Seq(Messages)

\* The receiver's handlers see the messages in the order they were sent, each
\* once and with none missing ("in-order / dedup'd delivery", _receive), in
\* spite of loss, duplication, reordering and retransmission.
InOrderDelivery == \A i \in 1..Len(delivered) : delivered[i] = i

\* The adaptive window stays usable and ordered through every growth,
\* promotion and shrink: never 0 (the channel would block for good), never
\* above windowMax, windowMax never below windowMin nor above WINDOW_MAX.
WindowSane ==
    /\ 1 <= win.cur /\ win.cur <= win.max
    /\ win.min <= win.max /\ win.max <= WINDOW_MAX

\* What the sender counts as delivered (the link proof reached it) really is
\* with the receiving channel, when every type was registered before traffic
\* and the receiver's link is still open.
ConfirmedIsReceived ==
    Registered = Types /\ ~rxShutDown =>
        \A m \in opDelivered \cup early :
            \/ m = proving
            \/ m \in rxRing
            \/ \E i \in 1..Len(delivered) : delivered[i] = m

\* The same without the premise on types: "The receiver re-proves every
\* CHANNEL packet (so the sender gets delivery confirmation)" (channel.js:16).
ConfirmationMeansReceived ==
    ~rxShutDown =>
        \A m \in opDelivered \cup early :
            \/ m = proving
            \/ m \in rxRing
            \/ \E i \in 1..Len(delivered) : delivered[i] = m

\* "Tear down the Channel first so its outlet timers / proof listener are
\* cleaned up before the link object becomes inert" (link.js, status setter):
\* a channel that was shut down has no armed timer.
ShutdownStopsTimers == txShutDown => timers = {}

\* What the channel promises at every moment: delivery in order and without gaps or repeats,
\* honest confirmations, and a window that is neither empty nor beyond its limits.
DeliverySafe == InOrderDelivery /\ ConfirmedIsReceived /\ WindowSane

\* A message is held while its envelope is in the tx ring or it waits in the rx ring for an
\* earlier one.
Held(m) == (\E e \in txRing : e.id = m) \/ (m \in rxRing /\ ~rxShutDown)

\* Every held message is let go in the end, unless the sender's channel shuts down: retries
\* are bounded and always rescheduled, and a gap is filled by a retransmission or ends in a
\* teardown, never in a silent stall.
ChannelSettles == \A m \in Messages : Held(m) ~> (txShutDown \/ ~Held(m))

\* The channel implements ordered delivery.
Ordered == INSTANCE OrderedDelivery
             WITH accepted <- Len(wire), closed <- rxShutDown

\* Whatever the two channels, the outlet and the network do, the application
\* sees only the steps of OrderedDelivery: a prefix of what was sent, growing,
\* and nothing after the receiving link closed.
ImplementsOrderedDelivery == Ordered!Spec
=============================================================================
