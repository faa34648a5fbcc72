--------------------------- MODULE ChannelProofs ---------------------------
(* Machine-checked theorems about the specification in Channel. *)
EXTENDS Channel, SequenceTheorems, FiniteSetTheorems, WellFoundedInduction, TLAPS

-----------------------------------------------------------------------------
(* The window operators.                                                    *)

\* Growing after a delivery keeps the six counters of the window natural.
LEMMA GrowType ==
    ASSUME NEW w \in Windows
    PROVE  Grow(w) \in Windows
BY DEF Grow, Windows

\* So does the rate-round accounting, for every round-trip class.
LEMMA PromoteType ==
    ASSUME NEW w \in Windows, NEW r \in RttClasses
    PROVE  Promote(w, r) \in Windows
<1>1. CASE r = "zero" BY <1>1 DEF Promote
<1>2. CASE r \in {"slow", "verySlow"} BY <1>2 DEF Promote, Windows
<1>3. CASE r = "medium"
  <2>1. w.medium + 1 \in Nat BY DEF Windows
  <2>2. [w EXCEPT !.fast = 0, !.medium = @ + 1] \in Windows
    BY <2>1 DEF Windows
  <2>3. [w EXCEPT !.fast = 0, !.medium = @ + 1, !.max = WINDOW_MAX_MEDIUM,
                  !.min = WINDOW_MIN_LIMIT_MEDIUM] \in Windows
    BY <2>1, WindowAssumption DEF Windows
  <2> QED BY <1>3, <2>2, <2>3 DEF Promote
<1>4. CASE r = "fast"
  <2>1. w.fast + 1 \in Nat BY DEF Windows
  <2>2. [w EXCEPT !.fast = @ + 1] \in Windows BY <2>1 DEF Windows
  <2>3. [w EXCEPT !.fast = @ + 1, !.max = WINDOW_MAX_FAST,
                  !.min = WINDOW_MIN_LIMIT_FAST] \in Windows
    BY <2>1, WindowAssumption DEF Windows
  <2> QED BY <1>4, <2>2, <2>3 DEF Promote
<1> QED BY <1>1, <1>2, <1>3, <1>4 DEF RttClasses

\* A shrink after a timeout keeps the window's counters natural.
LEMMA ShrinkType ==
    ASSUME NEW w \in Windows
    PROVE  Shrink(w) \in Windows
<1>1. CASE w.cur > w.min
  <2>1. w.cur - 1 \in Nat BY <1>1 DEF Windows
  <2>2. (IF w.max > w.min + w.flex THEN w.max - 1 ELSE w.max) \in Nat
    BY DEF Windows
  <2> QED BY <1>1, <2>1, <2>2 DEF Shrink, Windows
<1>2. CASE ~(w.cur > w.min) BY <1>2 DEF Shrink
<1> QED BY <1>1, <1>2

\* A fresh window is well-typed.
LEMMA NewWindowType ==
    ASSUME NEW r \in RttClasses
    PROVE  NewWindow(r) \in Windows
BY WindowAssumption DEF NewWindow, Windows

-----------------------------------------------------------------------------
(* Type correctness.                                                        *)

\* The network's bags stay bags.
LEMMA CopyType ==
    ASSUME NEW bag \in [Messages -> Nat], NEW m \in Messages
    PROVE  /\ AddCopy(bag, m) \in [Messages -> Nat]
           /\ bag[m] > 0 => DropCopy(bag, m) \in [Messages -> Nat]
BY BoundsAssumption DEF AddCopy, DropCopy

\* The idle state of the send path is one of its states.
LEMMA IdleSendType ==
    IdleSend \in [stage : {"idle", "preparing", "transmitted"},
                  seq : 0..(SEQ_MODULUS - 1), type : Types]
<1>1. (CHOOSE t \in Types : TRUE) \in Types BY TypesAssumption
<1>2. 0 \in 0..(SEQ_MODULUS - 1) BY BoundsAssumption
<1> QED BY <1>1, <1>2 DEF IdleSend

\* Sequence numbers stay below the modulus.
LEMMA ModType ==
    ASSUME NEW n \in Nat
    PROVE  n % SEQ_MODULUS \in 0..(SEQ_MODULUS - 1)
BY BoundsAssumption

\* Below the modulus nothing wraps.
LEMMA ModSmall ==
    ASSUME NEW n \in Nat, n < SEQ_MODULUS
    PROVE  n % SEQ_MODULUS = n
BY BoundsAssumption

\* Every prefix of a sequence is bounded by a least gap: the drain of _receive
\* always has a result.
LEMMA ContiguousCountType ==
    ASSUME NEW ring
    PROVE  /\ ContiguousCount(ring) \in 0..SEQ_MODULUS
           /\ \A j \in 0..(ContiguousCount(ring) - 1) :
                 HasSequence(ring, (nextRxSequence + j) % SEQ_MODULUS)
           /\ \/ ContiguousCount(ring) = SEQ_MODULUS
              \/ ~HasSequence(ring,
                     (nextRxSequence + ContiguousCount(ring)) % SEQ_MODULUS)
<1> DEFINE Has(k) == HasSequence(ring, (nextRxSequence + k) % SEQ_MODULUS)
           Stops == {k \in Nat : k = SEQ_MODULUS \/ ~Has(k)}
<1>1. SEQ_MODULUS \in Stops BY BoundsAssumption
<1>2. PICK k \in Stops : \A y \in Stops : ~(<<y, k>> \in OpToRel(<, Nat))
  BY <1>1, WFMin, NatLessThanWellFounded
<1>3. \A y \in Stops : ~(y < k)
  BY <1>2 DEF OpToRel
<1>4. k \in 0..SEQ_MODULUS BY <1>1, <1>3, BoundsAssumption
<1>5. \A j \in 0..(k - 1) : Has(j) BY <1>3, <1>4
<1>6. k = SEQ_MODULUS \/ ~Has(k) OBVIOUS
<1> QED BY <1>4, <1>5, <1>6 DEF ContiguousCount

\* The drained envelopes form a sequence of elements of the ring.
LEMMA ContiguousType ==
    ASSUME NEW ring
    PROVE  /\ Contiguous(ring) \in Seq(ring)
           /\ Len(Contiguous(ring)) = ContiguousCount(ring)
           /\ \A j \in 1..ContiguousCount(ring) :
                 /\ Contiguous(ring)[j] \in ring
                 /\ wire[Contiguous(ring)[j]].seq
                       = (nextRxSequence + j - 1) % SEQ_MODULUS
<1> DEFINE n == ContiguousCount(ring)
           Elem(j) == CHOOSE i \in ring :
                        wire[i].seq = (nextRxSequence + j - 1) % SEQ_MODULUS
<1>1. n \in Nat BY ContiguousCountType
<1>2. ASSUME NEW j \in 1..n
      PROVE  Elem(j) \in ring /\ wire[Elem(j)].seq
                                   = (nextRxSequence + j - 1) % SEQ_MODULUS
  <2>1. j - 1 \in 0..(n - 1) BY <1>1
  <2>2. HasSequence(ring, (nextRxSequence + (j - 1)) % SEQ_MODULUS)
    BY <2>1, ContiguousCountType
  <2>3. nextRxSequence + (j - 1) = nextRxSequence + j - 1 
    OBVIOUS
  <2> QED BY <2>2, <2>3 DEF HasSequence
<1>3. Contiguous(ring) = [j \in 1..n |-> Elem(j)] BY DEF Contiguous
<1> HIDE DEF n, Elem
<1>4. Contiguous(ring) \in Seq(ring) /\ Len(Contiguous(ring)) = n
  BY <1>1, <1>2, <1>3
<1>5. \A j \in 1..n : Contiguous(ring)[j] = Elem(j) BY <1>3
<1> QED BY <1>2, <1>4, <1>5 DEF n, Elem

\* The specification starts well-typed.
LEMMA InitTypeOK == Init => TypeOK
<1> SUFFICES ASSUME Init PROVE TypeOK
  OBVIOUS
<1>1. rtt \in RttClasses /\ win \in Windows
  BY NewWindowType, RttsAssumption DEF Init
<1>2. 0 \in 0..(SEQ_MODULUS - 1) BY BoundsAssumption
<1>3. factories \subseteq Types BY TypesAssumption DEF Init
<1>4. 0 \in 0..MaxMessages /\ 0 <= MaxMessages BY BoundsAssumption
<1>5. /\ wire \in Seq([seq : 0..(SEQ_MODULUS - 1), type : Types])
      /\ Len(wire) = 0 /\ delivered \in Seq(Messages)
  BY DEF Init
<1>6. net \in [Messages -> Nat] /\ proofs \in [Messages -> Nat]
  BY DEF Init
<1> QED BY <1>1, <1>2, <1>3, <1>4, <1>5, <1>6, IdleSendType DEF Init, TypeOK

\* The strengthening that makes the types inductive: a suspended send has
\* room on the wire, or its packet is the last one there.
SendRoom ==
    /\ sending.stage = "preparing" => Len(wire) < MaxMessages
    /\ sending.stage = "transmitted" => Len(wire) > 0

Typed == TypeOK /\ SendRoom

\* Every step of the sending channel and its outlet keeps the types.
LEMMA SenderTypeOK == Typed /\ Sender => Typed'
<1> SUFFICES ASSUME Typed, Sender PROVE Typed'
  OBVIOUS
<1> USE DEF Typed, TypeOK, SendRoom, txVars, netVars, rxVars
<1>1. ASSUME NEW t \in Types, SendStart(t) PROVE Typed'
  <2>1. nextSequence' \in 0..(SEQ_MODULUS - 1)
    BY <1>1, ModType DEF SendStart
  <2> QED BY <1>1, <2>1 DEF SendStart
<1>2. CASE SendTransmit
  <2>1. Len(wire) < MaxMessages BY <1>2 DEF SendTransmit
  <2>2. Len(wire) + 1 \in Messages
    <3>1. Len(wire) \in Nat OBVIOUS
    <3> QED BY <2>1, <3>1, BoundsAssumption DEF Messages
  <2>3. net' \in [Messages -> Nat] BY <1>2, <2>2, CopyType DEF SendTransmit
  <2>4. /\ wire' \in Seq([seq : 0..(SEQ_MODULUS - 1), type : Types])
        /\ Len(wire') <= MaxMessages /\ Len(wire') > 0
    BY <1>2, <2>1, BoundsAssumption DEF SendTransmit
  <2>5. /\ sending' \in [stage : {"idle", "preparing", "transmitted"},
                         seq : 0..(SEQ_MODULUS - 1), type : Types]
        /\ sending'.stage = "transmitted"
    BY <1>2 DEF SendTransmit
  <2> QED BY <1>2, <2>3, <2>4, <2>5 DEF SendTransmit
<1>3. CASE SendFail
  <2>1. nextSequence' \in 0..(SEQ_MODULUS - 1) BY <1>3 DEF SendFail
  <2>2. sending'.stage = "idle" BY <1>3 DEF SendFail, IdleSend
  <2> QED BY <1>3, <2>1, <2>2, IdleSendType DEF SendFail
<1>4. CASE SendComplete
  <2>1. Len(wire) \in Messages BY <1>4 DEF SendComplete, Messages
  <2>2. EmplaceTx(Len(wire)) \subseteq Envelopes
    <3> DEFINE new == [id |-> Len(wire), tries |-> 1]
    <3>1. new \in Envelopes
      BY <2>1, BoundsAssumption DEF Envelopes
    <3>2. EmplaceTx(Len(wire)) \in {txRing, txRing \cup {new}}
      BY Zenon DEF EmplaceTx
    <3>3. txRing \subseteq Envelopes
      OBVIOUS
    <3> HIDE DEF new
    <3> QED BY <3>1, <3>2, <3>3, Zenon
  <2>3. sending'.stage = "idle" BY <1>4 DEF SendComplete, IdleSend
  <2>4. win' \in Windows
    BY <1>4, GrowType, PromoteType DEF SendComplete
  <2>5. /\ sent' \subseteq Messages /\ early' \subseteq Messages
        /\ opDelivered' \subseteq Messages /\ timers' \subseteq Messages
        /\ txRing' \subseteq Envelopes
    BY <1>4, <2>1, <2>2 DEF SendComplete, ArmTimer
  <2> QED BY <1>4, <2>3, <2>4, <2>5, IdleSendType DEF SendComplete
<1>5. ASSUME NEW m \in Messages, ProofArrives(m) PROVE Typed'
  <2>1. proofs' \in [Messages -> Nat] BY <1>5, CopyType DEF ProofArrives
  <2>2. win' \in Windows BY <1>5, GrowType, PromoteType DEF ProofArrives
  <2>3. /\ sent' \subseteq Messages /\ early' \subseteq Messages
        /\ opDelivered' \subseteq Messages /\ timers' \subseteq Messages
        /\ txRing' \subseteq Envelopes
    BY <1>5 DEF ProofArrives
  <2> QED BY <1>5, <2>1, <2>2, <2>3 DEF ProofArrives
<1>6. ASSUME NEW m \in Messages, PacketTimeout(m) PROVE Typed'
  <2> DEFINE e == CHOOSE x \in txRing : x.id = m
  <2>1. CASE ~\E x \in txRing : x.id = m
    BY <1>6, <2>1 DEF PacketTimeout
  <2>2. CASE \E x \in txRing : x.id = m
    <3>1. e \in txRing /\ e.id = m BY <2>2
    <3> HIDE DEF e
    <3>2. CASE RetriesExhausted(e)
      BY <1>6, <2>2, <3>2 DEF PacketTimeout, Shutdown, e
    <3>3. CASE ~RetriesExhausted(e)
      <4>0. e.tries + 1 \in 1..MaxTries
        BY <3>1, <3>3, BoundsAssumption DEF RetriesExhausted, Envelopes
      <4>1. [e EXCEPT !.tries = @ + 1] \in Envelopes
        BY <3>1, <4>0 DEF Envelopes
      <4>2. /\ txRing' = (txRing \ {e}) \cup {[e EXCEPT !.tries = @ + 1]}
            /\ win' = Shrink(win) /\ net' = AddCopy(net, m)
            /\ timers' = ArmTimer(timers, m)
            /\ UNCHANGED <<sent, early, txShutDown>>
        BY <1>6, <2>2, <3>3 DEF PacketTimeout, e
      <4>3. txRing' \subseteq Envelopes BY <4>1, <4>2
      <4>4. win' \in Windows BY <4>2, ShrinkType
      <4>5. net' \in [Messages -> Nat] BY <4>2, CopyType
      <4>6. timers' \subseteq Messages BY <4>2 DEF ArmTimer
      <4> QED BY <1>6, <4>2, <4>3, <4>4, <4>5, <4>6 DEF PacketTimeout
    <3> QED BY <3>2, <3>3
  <2> QED BY <2>1, <2>2
<1>7. CASE TxLinkClosed BY <1>7 DEF TxLinkClosed, Shutdown
<1>8. ASSUME NEW r \in Rtts, RttMeasured(r) PROVE Typed'
  BY <1>8, RttsAssumption DEF RttMeasured
<1> QED BY <1>1, <1>2, <1>3, <1>4, <1>5, <1>6, <1>7, <1>8 DEF Sender

\* Every step of the receiving channel keeps the types.
LEMMA ReceiverTypeOK == Typed /\ Receiver => Typed'
<1> SUFFICES ASSUME Typed, Receiver PROVE Typed'
  OBVIOUS
<1> USE DEF Typed, TypeOK, SendRoom, txVars, netVars, rxVars
<1>1. ASSUME NEW t \in Types, RegisterMessageType(t) PROVE Typed'
  BY <1>1 DEF RegisterMessageType
<1>2. ASSUME NEW m \in Messages, ProvePacket(m) PROVE Typed'
  <2>1. net' \in [Messages -> Nat] /\ proofs' \in [Messages -> Nat]
    <3>1. DropCopy(net, m) \in [Messages -> Nat]
      BY <1>2, CopyType DEF ProvePacket
    <3>2. proofs' \in [Messages -> Nat]
      BY <1>2, CopyType DEF ProvePacket
    <3>3. net' \in {net, DropCopy(net, m)}
      BY <1>2 DEF ProvePacket
    <3> QED BY <3>1, <3>2, <3>3
  <2>2. proving' \in 0..MaxMessages BY <1>2 DEF ProvePacket, Messages
  <2> QED BY <1>2, <2>1, <2>2 DEF ProvePacket
<1>3. CASE Receive
  <2> DEFINE ring == rxRing \cup {proving}
             run == Contiguous(ring)
  <2>1. 0 \in 0..MaxMessages BY BoundsAssumption
  <2>2. ring \subseteq Messages
    BY <1>3 DEF Receive, Messages
  <2>3. run \in Seq(Messages) /\ Len(run) \in Nat
    <3>1. run \in Seq(ring) BY ContiguousType
    <3> HIDE DEF run, ring
    <3> QED BY <2>2, <3>1
  <2> HIDE DEF run, ring
  <2>4. (nextRxSequence + Len(run)) % SEQ_MODULUS \in 0..(SEQ_MODULUS - 1)
    <3>1. nextRxSequence + Len(run) \in Nat BY <2>3
    <3> QED BY <3>1, ModType
  <2>5. RunCallbacks(run) \in Seq(Messages)
    BY <2>3 DEF RunCallbacks
  <2>6. /\ rxRing' \subseteq Messages
        /\ nextRxSequence' \in 0..(SEQ_MODULUS - 1)
        /\ delivered' \in Seq(Messages)
    BY <1>3, <2>2, <2>4, <2>5 DEF Receive, run, ring
  <2> QED BY <1>3, <2>1, <2>6 DEF Receive
<1>4. CASE RxLinkClosed BY <1>4 DEF RxLinkClosed
<1> QED BY <1>1, <1>2, <1>3, <1>4 DEF Receiver

\* Losing packets and proofs keeps the types.
LEMMA NetworkTypeOK == Typed /\ Network => Typed'
<1> SUFFICES ASSUME Typed, Network PROVE Typed'
  OBVIOUS
<1> USE DEF Typed, TypeOK, SendRoom, txVars, netVars, rxVars
<1>1. ASSUME NEW m \in Messages, LosePacket(m) PROVE Typed'
  BY <1>1, CopyType DEF LosePacket
<1>2. ASSUME NEW m \in Messages, LoseProof(m) PROVE Typed'
  BY <1>2, CopyType DEF LoseProof
<1> QED BY <1>1, <1>2 DEF Network

\* The inductive step of type correctness.
LEMMA TypedStep == Typed /\ [Next]_vars => Typed'
<1>1. Typed /\ UNCHANGED vars => Typed'
  BY DEF Typed, TypeOK, SendRoom, vars, txVars, netVars, rxVars
<1> QED BY <1>1, SenderTypeOK, ReceiverTypeOK, NetworkTypeOK DEF Next

\* Typed holds throughout.
LEMMA TypedAlways == Spec => []Typed
<1>1. Init => Typed BY InitTypeOK DEF Typed, SendRoom, Init, IdleSend
<1> QED BY <1>1, TypedStep, PTL DEF Spec

\* Type correctness of the channel for every value of the constants: no send,
\* retry, proof, drain, shutdown or network step leaves the state space.
THEOREM TypeCorrect == Spec => []TypeOK
BY TypedAlways, PTL DEF Typed

-----------------------------------------------------------------------------
(* The adaptive window.                                                     *)

WindowOK(w) ==
    /\ 1 <= w.cur /\ w.cur <= w.max /\ w.min <= w.max /\ w.max <= WINDOW_MAX
    /\ 1 <= w.min

\* A delivery grows and promotes the window within its limits.
LEMMA GrowPromoteOK ==
    ASSUME NEW w \in Windows, WindowOK(w), NEW r \in RttClasses
    PROVE  WindowOK(Promote(Grow(w), r))
<1> DEFINE g == Grow(w)
<1>1. g \in Windows /\ WindowOK(g)
  BY GrowType DEF Grow, Windows, WindowOK
<1> HIDE DEF g
<1>2. CASE r = "zero" BY <1>1, <1>2 DEF Promote, g
<1>3. CASE r \in {"slow", "verySlow"}
  <2>1. Promote(g, r) = [g EXCEPT !.fast = 0, !.medium = 0]
    BY <1>3 DEF Promote
  <2> QED BY <1>1, <2>1 DEF WindowOK, Windows, g
<1>4. CASE r = "medium"
  <2>1. CASE g.max < WINDOW_MAX_MEDIUM /\ g.medium + 1 = FAST_RATE_THRESHOLD
    <3>1. Promote(g, r) = [g EXCEPT !.fast = 0, !.medium = @ + 1,
                             !.max = WINDOW_MAX_MEDIUM,
                             !.min = WINDOW_MIN_LIMIT_MEDIUM]
      BY <1>4, <2>1 DEF Promote
    <3> QED BY <1>1, <2>1, <3>1, WindowAssumption
            DEF WindowOK, Windows, WINDOW_MAX, g
  <2>2. CASE ~(g.max < WINDOW_MAX_MEDIUM /\ g.medium + 1 = FAST_RATE_THRESHOLD)
    <3>1. Promote(g, r) = [g EXCEPT !.fast = 0, !.medium = @ + 1]
      BY <1>4, <2>2 DEF Promote
    <3> QED BY <1>1, <3>1 DEF WindowOK, Windows, g
  <2> QED BY <2>1, <2>2
<1>5. CASE r = "fast"
  <2>1. CASE g.max < WINDOW_MAX_FAST /\ g.fast + 1 = FAST_RATE_THRESHOLD
    <3>1. Promote(g, r) = [g EXCEPT !.fast = @ + 1, !.max = WINDOW_MAX_FAST,
                             !.min = WINDOW_MIN_LIMIT_FAST]
      BY <1>5, <2>1 DEF Promote
    <3> QED BY <1>1, <2>1, <3>1, WindowAssumption
            DEF WindowOK, Windows, WINDOW_MAX, g
  <2>2. CASE ~(g.max < WINDOW_MAX_FAST /\ g.fast + 1 = FAST_RATE_THRESHOLD)
    <3>1. Promote(g, r) = [g EXCEPT !.fast = @ + 1]
      BY <1>5, <2>2 DEF Promote
    <3> QED BY <1>1, <3>1 DEF WindowOK, Windows, g
  <2> QED BY <2>1, <2>2
<1> QED BY <1>2, <1>3, <1>4, <1>5 DEF RttClasses

\* A timeout shrinks the window within its limits.
LEMMA ShrinkOK ==
    ASSUME NEW w \in Windows, WindowOK(w)
    PROVE  WindowOK(Shrink(w))
<1>1. CASE w.cur > w.min
  <2> DEFINE mx == IF w.max > w.min + w.flex THEN w.max - 1 ELSE w.max
  <2>1. Shrink(w) = [w EXCEPT !.cur = @ - 1, !.max = mx]
    BY <1>1 DEF Shrink
  <2>2. /\ Shrink(w).cur = w.cur - 1 /\ Shrink(w).max = mx
        /\ Shrink(w).min = w.min
    BY <2>1 DEF Windows
  <2>3. /\ w.cur \in Nat /\ w.max \in Nat /\ w.min \in Nat /\ w.flex \in Nat
    BY DEF Windows
  <2> QED BY <1>1, <2>2, <2>3, WindowAssumption DEF WindowOK, WINDOW_MAX
<1>2. CASE ~(w.cur > w.min) BY <1>2 DEF Shrink
<1> QED BY <1>1, <1>2

\* The inductive step: only deliveries and timeouts touch the window.
LEMMA WindowStep == Typed /\ WindowOK(win) /\ [Next]_vars => WindowOK(win)'
<1> SUFFICES ASSUME Typed, WindowOK(win), [Next]_vars PROVE WindowOK(win')
  BY DEF WindowOK
<1>0. win \in Windows /\ rtt \in RttClasses BY DEF Typed, TypeOK
<1> USE DEF txVars, netVars, rxVars
<1>1. ASSUME NEW t \in Types, SendStart(t) PROVE win' = win
  BY <1>1 DEF SendStart
<1>2. SendTransmit \/ SendFail => win' = win BY DEF SendTransmit, SendFail
<1>3. CASE SendComplete
  <2>1. win' = win \/ win' = Promote(Grow(win), rtt) BY <1>3 DEF SendComplete
  <2> QED BY <1>0, <2>1, GrowPromoteOK
<1>4. ASSUME NEW m \in Messages, ProofArrives(m) PROVE WindowOK(win')
  <2>1. win' = win \/ win' = Promote(Grow(win), rtt) BY <1>4 DEF ProofArrives
  <2> QED BY <1>0, <2>1, GrowPromoteOK
<1>5. ASSUME NEW m \in Messages, PacketTimeout(m) PROVE WindowOK(win')
  <2>1. win' = win \/ win' = Shrink(win) BY <1>5 DEF PacketTimeout
  <2> QED BY <1>0, <2>1, ShrinkOK
<1>6. TxLinkClosed => win' = win BY DEF TxLinkClosed
<1>7. ASSUME NEW r \in Rtts, RttMeasured(r) PROVE win' = win
  BY <1>7 DEF RttMeasured
<1>8. Receiver => win' = win
  BY DEF Receiver, RegisterMessageType, ProvePacket, Receive, RxLinkClosed
<1>9. Network => win' = win
  BY DEF Network, LosePacket, LoseProof
<1>10. UNCHANGED vars => win' = win BY DEF vars
<1> QED BY <1>1, <1>2, <1>3, <1>4, <1>5, <1>6, <1>7, <1>8, <1>9, <1>10
        DEF Next, Sender

\* For every choice of the window constants that is ordered as the code's are,
\* and for every order of deliveries, timeouts and round-trip measurements,
\* the adaptive window stays between 1 and windowMax and windowMax stays
\* between windowMin and WINDOW_MAX.
THEOREM WindowSafety == Spec => []WindowSane
<1>1. Init => WindowOK(win)
  <2> SUFFICES ASSUME Init PROVE WindowOK(win)
    OBVIOUS
  <2>1. CASE rtt = "verySlow"
    BY <2>1, WindowAssumption DEF Init, NewWindow, WindowOK, WINDOW_MAX
  <2>2. CASE rtt # "verySlow"
    BY <2>2, WindowAssumption DEF Init, NewWindow, WindowOK, WINDOW_MAX
  <2> QED BY <2>1, <2>2
<1>2. Spec => []WindowOK(win)
  BY <1>1, TypedAlways, WindowStep, PTL DEF Spec
<1>3. WindowOK(win) => WindowSane BY DEF WindowOK, WindowSane
<1> QED BY <1>2, <1>3, PTL

-----------------------------------------------------------------------------
(* In-order delivery, as long as the sequence numbers do not wrap.          *)

\* The channel carries fewer messages than there are sequence numbers.
NoWrap == MaxMessages < SEQ_MODULUS

\* Sequence numbers follow the order on the wire, with and without a send
\* in progress.
Numbered ==
    /\ \A m \in 1..Len(wire) : wire[m].seq = m - 1
    /\ sending.stage = "preparing" =>
          sending.seq = Len(wire) /\ nextSequence = Len(wire) + 1
    /\ sending.stage # "preparing" => nextSequence = Len(wire)

\* Whatever travels or waits was transmitted before.
Transmitted ==
    /\ \A m \in Messages : net[m] > 0 => m <= Len(wire)
    /\ proving <= Len(wire)
    /\ \A m \in rxRing : m <= Len(wire)
    /\ \A m \in timers : m <= Len(wire)

\* The receiver has handed over exactly the messages below nextRxSequence.
RxPosition ==
    /\ Len(delivered) <= Len(wire)
    /\ ~rxShutDown => nextRxSequence = Len(delivered)

DeliveryInv == Numbered /\ Transmitted /\ RxPosition /\ InOrderDelivery

\* What the drain takes is the run of messages that follows the last one.
LEMMA DrainedRun ==
    ASSUME NoWrap, Typed, DeliveryInv, ~rxShutDown, proving # 0
    PROVE  LET run == Contiguous(rxRing \cup {proving}) IN
           /\ run \in Seq(Messages)
           /\ Len(run) \in Nat
           /\ Len(delivered) + Len(run) <= Len(wire)
           /\ \A j \in 1..Len(run) : run[j] = Len(delivered) + j
<1> DEFINE ring == rxRing \cup {proving}
           run == Contiguous(ring)
           k == ContiguousCount(ring)
           d == Len(delivered)
           n == Len(wire)
<1>1. /\ d \in Nat /\ n \in Nat /\ d <= n /\ n <= MaxMessages /\ n < SEQ_MODULUS
      /\ nextRxSequence = d /\ SEQ_MODULUS \in Nat /\ MaxMessages \in Nat
  BY BoundsAssumption DEF Typed, TypeOK, DeliveryInv, RxPosition, NoWrap
<1>2. \A i \in ring : i \in Messages /\ i \in 1..n /\ wire[i].seq = i - 1
  <2>1. proving \in 1..n
    BY <1>1 DEF Typed, TypeOK, DeliveryInv, Transmitted, Messages
  <2>2. \A i \in rxRing : i \in 1..n
    BY <1>1 DEF Typed, TypeOK, DeliveryInv, Transmitted, Messages
  <2> QED BY <1>1, <2>1, <2>2 DEF DeliveryInv, Numbered, Messages
<1>3. /\ run \in Seq(ring) /\ Len(run) = k /\ k \in 0..SEQ_MODULUS
      /\ \A j \in 1..k : run[j] \in ring
                         /\ wire[run[j]].seq = (nextRxSequence + j - 1) % SEQ_MODULUS
      /\ \A j \in 0..(k - 1) : HasSequence(ring, (nextRxSequence + j) % SEQ_MODULUS)
  BY ContiguousType, ContiguousCountType
<1> HIDE DEF ring, run, k, d, n
<1>4. k <= n - d
  <2> SUFFICES ASSUME k > n - d PROVE FALSE
    BY <1>1, <1>3
  <2>1. n - d \in 0..(k - 1) BY <1>1, <1>3
  <2>2. HasSequence(ring, (nextRxSequence + (n - d)) % SEQ_MODULUS)
    BY <1>3, <2>1
  <2>3. (nextRxSequence + (n - d)) % SEQ_MODULUS = n
    <3>1. nextRxSequence + (n - d) = n BY <1>1
    <3>2. n % SEQ_MODULUS = n BY <1>1
    <3> QED BY <3>1, <3>2
  <2>4. PICK i \in ring : wire[i].seq = n BY <2>2, <2>3 DEF HasSequence
  <2> QED BY <1>1, <1>2, <2>4
<1>5. ASSUME NEW j \in 1..k PROVE run[j] = d + j
  <2>1. /\ d + j - 1 \in Nat /\ d + j - 1 < SEQ_MODULUS
    BY <1>1, <1>3, <1>4
  <2>2. (d + j - 1) % SEQ_MODULUS = d + j - 1 BY <1>1, <2>1
  <2>3. /\ run[j] \in ring /\ wire[run[j]].seq = d + j - 1
    BY <1>1, <1>3, <2>2
  <2>4. /\ wire[run[j]].seq = run[j] - 1 /\ run[j] \in Messages
    BY <1>2, <2>3
  <2> QED BY <1>1, <2>3, <2>4 DEF Messages
<1>6. run \in Seq(Messages) BY <1>2, <1>3
<1>7. d + k <= n BY <1>1, <1>3, <1>4
<1>8. /\ run \in Seq(Messages) /\ Len(run) \in Nat /\ d + Len(run) <= n
      /\ \A j \in 1..Len(run) : run[j] = d + j
  BY <1>3, <1>5, <1>6, <1>7
<1> QED BY <1>8 DEF run, ring, d, n

\* Delivering that run extends the delivered prefix.
LEMMA DeliveryStep ==
    ASSUME NoWrap, Typed, DeliveryInv, Receive
    PROVE  /\ \/ delivered' = delivered
              \/ /\ ~rxShutDown
                 /\ \E n \in (Len(delivered) + 1)..Len(wire) :
                       delivered' = [i \in 1..n |-> i]
           /\ DeliveryInv'
<1> DEFINE run == Contiguous(rxRing \cup {proving})
<1>0. proving # 0 /\ UNCHANGED <<txVars, netVars, factories, rxShutDown>>
      /\ proving' = 0
  BY DEF Receive
<1>1. Numbered' BY <1>0 DEF DeliveryInv, Numbered, txVars, netVars
<1>2. Transmitted'
  <2>1. \A m \in rxRing' : m \in rxRing \/ m = proving BY DEF Receive
  <2>2. 0 <= Len(wire) BY DEF Typed, TypeOK
  <2> QED BY <1>0, <2>1, <2>2 DEF DeliveryInv, Transmitted, netVars, txVars
<1>3. delivered \in Seq(Messages) /\ Len(delivered) \in Nat
  BY DEF Typed, TypeOK
<1>4. wire' = wire BY <1>0 DEF netVars
<1>5. CASE ~AcceptedByRx(proving)
  <2>1. UNCHANGED <<rxRing, nextRxSequence, delivered>> BY <1>5 DEF Receive
  <2> QED BY <1>0, <1>1, <1>2, <1>4, <2>1
          DEF DeliveryInv, RxPosition, InOrderDelivery
<1>6. CASE AcceptedByRx(proving) /\ rxShutDown
  <2>1. delivered' = delivered BY <1>6 DEF Receive, RunCallbacks
  <2> QED BY <1>0, <1>1, <1>2, <1>4, <1>6, <2>1
          DEF DeliveryInv, RxPosition, InOrderDelivery
<1>7. CASE AcceptedByRx(proving) /\ ~rxShutDown
  <2>1. /\ run \in Seq(Messages) /\ Len(run) \in Nat
        /\ Len(delivered) + Len(run) <= Len(wire)
        /\ \A j \in 1..Len(run) : run[j] = Len(delivered) + j
    BY <1>0, <1>7, DrainedRun
  <2>2. /\ delivered' = delivered \o run
        /\ nextRxSequence' = (nextRxSequence + Len(run)) % SEQ_MODULUS
    BY <1>7 DEF Receive, RunCallbacks
  <2> HIDE DEF run
  <2>3. /\ Len(delivered') = Len(delivered) + Len(run)
        /\ delivered' \in Seq(Messages)
    BY <1>3, <2>1, <2>2
  <2>4. ASSUME NEW i \in 1..Len(delivered') PROVE delivered'[i] = i
    <3>1. CASE i <= Len(delivered)
      <4>1. delivered'[i] = delivered[i] BY <1>3, <2>1, <2>2, <2>3, <3>1
      <4> QED BY <1>3, <3>1, <4>1 DEF DeliveryInv, InOrderDelivery
    <3>2. CASE i > Len(delivered)
      <4>1. delivered'[i] = run[i - Len(delivered)]
        BY <1>3, <2>1, <2>2, <2>3, <3>2
      <4>2. i - Len(delivered) \in 1..Len(run) BY <1>3, <2>1, <2>3, <3>2
      <4> QED BY <1>3, <2>1, <4>1, <4>2
    <3> QED BY <1>3, <3>1, <3>2
  <2>5. InOrderDelivery' BY <2>4 DEF InOrderDelivery
  <2>6. nextRxSequence' = Len(delivered')
    <3>1. nextRxSequence = Len(delivered)
      BY <1>7 DEF DeliveryInv, RxPosition
    <3>2. /\ Len(wire) < SEQ_MODULUS /\ Len(wire) \in Nat /\ SEQ_MODULUS \in Nat
      BY BoundsAssumption DEF NoWrap, Typed, TypeOK
    <3>3. Len(delivered) + Len(run) < SEQ_MODULUS BY <1>3, <2>1, <3>2
    <3>4. (Len(delivered) + Len(run)) % SEQ_MODULUS = Len(delivered) + Len(run)
      <4> DEFINE x == Len(delivered) + Len(run)
      <4>1. x \in Nat /\ x < SEQ_MODULUS BY <1>3, <2>1, <3>3
      <4> HIDE DEF x
      <4>2. x % SEQ_MODULUS = x BY <4>1, ModSmall
      <4> QED BY <4>2 DEF x
    <3> QED BY <2>2, <2>3, <3>1, <3>4
  <2>7. RxPosition' BY <1>4, <2>1, <2>3, <2>6 DEF RxPosition
  <2>8. delivered' = [i \in 1..Len(delivered') |-> i]
    <3>1. delivered' = [i \in 1..Len(delivered') |-> delivered'[i]]
      BY <2>3
    <3> QED BY <2>4, <3>1
  <2>9. CASE Len(run) = 0
    <3>1. Len(delivered') = Len(delivered) BY <1>3, <2>3, <2>9
    <3>2. \A i \in 1..Len(delivered) : delivered'[i] = delivered[i]
      BY <2>4, <3>1 DEF DeliveryInv, InOrderDelivery
    <3>3. delivered' = delivered BY <1>3, <2>3, <3>1, <3>2
    <3> QED BY <1>1, <1>2, <2>5, <2>7, <3>3 DEF DeliveryInv
  <2>10. CASE Len(run) > 0
    <3>1. Len(delivered') \in (Len(delivered) + 1)..Len(wire)
      BY <1>3, <2>1, <2>3, <2>10
    <3> QED BY <1>1, <1>2, <1>7, <2>5, <2>7, <2>8, <3>1 DEF DeliveryInv
  <2> QED BY <2>1, <2>9, <2>10
<1> QED BY <1>5, <1>6, <1>7

\* Steps of the sender keep the numbering and leave the receiver alone.
LEMMA SenderDelivery == NoWrap /\ Typed /\ DeliveryInv /\ Sender => DeliveryInv'
<1> SUFFICES ASSUME NoWrap, Typed, DeliveryInv, Sender PROVE DeliveryInv'
  OBVIOUS
<1>0. /\ Len(wire) \in Nat /\ Len(wire) <= MaxMessages /\ MaxMessages \in Nat
      /\ MaxMessages < SEQ_MODULUS /\ SEQ_MODULUS \in Nat /\ proofs \in [Messages -> Nat]
      /\ net \in [Messages -> Nat] /\ nextSequence \in Nat
  BY BoundsAssumption DEF NoWrap, Typed, TypeOK
<1> USE DEF DeliveryInv, txVars, netVars, rxVars
<1>1. ASSUME NEW t \in Types, SendStart(t) PROVE DeliveryInv'
  <2>1. nextSequence = Len(wire) BY <1>1 DEF SendStart, Numbered
  <2>2. nextSequence' = Len(wire) + 1
    <3>1. Len(wire) + 1 \in Nat /\ Len(wire) + 1 < SEQ_MODULUS
      BY <1>0, <1>1 DEF SendStart
    <3> QED BY <1>1, <2>1, <3>1, ModSmall DEF SendStart
  <2>3. Numbered' BY <1>1, <2>1, <2>2 DEF SendStart, Numbered
  <2> QED BY <1>1, <2>3 DEF SendStart, Transmitted, RxPosition, InOrderDelivery
<1>2. CASE SendTransmit
  <2>1. /\ sending.seq = Len(wire) /\ nextSequence = Len(wire) + 1
    BY <1>2 DEF SendTransmit, Numbered
  <2>2. /\ Len(wire') = Len(wire) + 1
        /\ \A m \in 1..Len(wire) : wire'[m] = wire[m]
        /\ wire'[Len(wire) + 1].seq = Len(wire)
    BY <1>2, <2>1 DEF SendTransmit, Typed, TypeOK
  <2>3. sending'.stage = "transmitted" /\ nextSequence' = nextSequence
    BY <1>2 DEF SendTransmit, Typed, TypeOK
  <2>4. Numbered'
    <3>1. ASSUME NEW m \in 1..Len(wire') PROVE wire'[m].seq = m - 1
      <4>1. CASE m <= Len(wire)
        BY <1>0, <2>2, <4>1 DEF Numbered
      <4>2. CASE m > Len(wire)
        <5>1. m = Len(wire) + 1 BY <1>0, <2>2, <4>2
        <5> QED BY <1>0, <2>2, <5>1
      <4> QED BY <1>0, <4>1, <4>2
    <3> QED BY <2>1, <2>2, <2>3, <3>1 DEF Numbered
  <2>5. Transmitted'
    <3>1. Len(wire) + 1 \in Messages
      BY <1>0, <1>2 DEF SendTransmit, Typed, SendRoom, Messages
    <3>2. \A m \in Messages : m # Len(wire) + 1 => net'[m] = net[m]
      BY <1>0, <1>2, <3>1 DEF SendTransmit, AddCopy
    <3>3. ASSUME NEW m \in Messages, net'[m] > 0 PROVE m <= Len(wire')
      <4>1. CASE m = Len(wire) + 1 BY <1>0, <2>2, <4>1
      <4>2. CASE m # Len(wire) + 1
        <5>1. m <= Len(wire) /\ m \in Int
          BY <3>2, <3>3, <4>2 DEF Transmitted, Messages
        <5> QED BY <1>0, <2>2, <5>1
      <4> QED BY <4>1, <4>2
    <3>4. proving' <= Len(wire')
      BY <1>0, <1>2, <2>2 DEF SendTransmit, Transmitted, Typed, TypeOK
    <3>5. \A m \in rxRing' : m <= Len(wire')
      BY <1>0, <1>2, <2>2 DEF SendTransmit, Transmitted, Typed, TypeOK, Messages
    <3>6. \A m \in timers' : m <= Len(wire')
      BY <1>0, <1>2, <2>2 DEF SendTransmit, Transmitted, Typed, TypeOK, Messages
    <3> QED BY <3>3, <3>4, <3>5, <3>6 DEF Transmitted
  <2>6. RxPosition'
    BY <1>0, <1>2, <2>2 DEF SendTransmit, RxPosition, Typed, TypeOK
  <2> QED BY <1>2, <2>4, <2>5, <2>6 DEF SendTransmit, InOrderDelivery
<1>3. CASE SendFail
  <2>1. nextSequence' = Len(wire) /\ sending'.stage = "idle"
    BY <1>3 DEF SendFail, Numbered, IdleSend
  <2> QED BY <1>3, <2>1
          DEF SendFail, Numbered, Transmitted, RxPosition, InOrderDelivery
<1>4. CASE SendComplete
  <2>1. nextSequence' = Len(wire) /\ sending'.stage = "idle"
    BY <1>4 DEF SendComplete, Numbered, IdleSend
  <2>2. \A m \in timers' : m <= Len(wire)
    BY <1>0, <1>4 DEF SendComplete, ArmTimer, Transmitted
  <2> QED BY <1>4, <2>1, <2>2
          DEF SendComplete, Numbered, Transmitted, RxPosition, InOrderDelivery
<1>5. ASSUME NEW m \in Messages, ProofArrives(m) PROVE DeliveryInv'
  <2>1. timers' \subseteq timers BY <1>5 DEF ProofArrives
  <2> QED BY <1>5, <2>1 DEF ProofArrives, Numbered, Transmitted, RxPosition, InOrderDelivery
<1>6. ASSUME NEW m \in Messages, PacketTimeout(m) PROVE DeliveryInv'
  <2>0. m <= Len(wire) /\ \A i \in timers' : i \in timers
    BY <1>6 DEF PacketTimeout, Transmitted, ArmTimer
  <2>1. net' = net \/ net' = AddCopy(net, m) BY <1>6 DEF PacketTimeout
  <2>2. \A i \in Messages : net'[i] > 0 => i <= Len(wire)
    BY <1>0, <2>0, <2>1 DEF AddCopy, Transmitted
  <2> QED BY <1>6, <2>0, <2>2
          DEF PacketTimeout, Numbered, Transmitted, RxPosition, InOrderDelivery
<1>7. CASE TxLinkClosed
  BY <1>7 DEF TxLinkClosed, Numbered, Transmitted, RxPosition, InOrderDelivery
<1>8. ASSUME NEW r \in Rtts, RttMeasured(r) PROVE DeliveryInv'
  BY <1>8 DEF RttMeasured, Numbered, Transmitted, RxPosition, InOrderDelivery
<1> QED BY <1>1, <1>2, <1>3, <1>4, <1>5, <1>6, <1>7, <1>8 DEF Sender

\* Steps of the receiver other than the drain only take packets over.
LEMMA ReceiverDelivery ==
    NoWrap /\ Typed /\ DeliveryInv /\ Receiver => DeliveryInv'
<1> SUFFICES ASSUME NoWrap, Typed, DeliveryInv, Receiver PROVE DeliveryInv'
  OBVIOUS
<1> USE DEF txVars, netVars, rxVars
<1>1. ASSUME NEW t \in Types, RegisterMessageType(t) PROVE DeliveryInv'
  BY <1>1 DEF RegisterMessageType, DeliveryInv, Numbered, Transmitted,
              RxPosition, InOrderDelivery
<1>2. ASSUME NEW m \in Messages, ProvePacket(m) PROVE DeliveryInv'
  <2>1. \A i \in Messages : net'[i] > 0 => net[i] > 0
    BY <1>2 DEF ProvePacket, DropCopy, Typed, TypeOK
  <2> QED BY <1>2, <2>1 DEF ProvePacket, DeliveryInv, Numbered, Transmitted,
              RxPosition, InOrderDelivery
<1>3. CASE Receive BY <1>3, DeliveryStep
<1>4. CASE RxLinkClosed
  BY <1>4 DEF RxLinkClosed, DeliveryInv, Numbered, Transmitted, RxPosition,
              InOrderDelivery
<1> QED BY <1>1, <1>2, <1>3, <1>4 DEF Receiver

\* The network only loses what was transmitted.
LEMMA NetworkDelivery ==
    NoWrap /\ Typed /\ DeliveryInv /\ Network => DeliveryInv'
<1> SUFFICES ASSUME NoWrap, Typed, DeliveryInv, Network PROVE DeliveryInv'
  OBVIOUS
<1> USE DEF txVars, netVars, rxVars
<1>1. ASSUME NEW m \in Messages, LosePacket(m) PROVE DeliveryInv'
  <2>1. \A i \in Messages : net'[i] > 0 => net[i] > 0
    BY <1>1 DEF LosePacket, DropCopy, Typed, TypeOK
  <2> QED BY <1>1, <2>1 DEF LosePacket, DeliveryInv, Numbered, Transmitted,
              RxPosition, InOrderDelivery
<1>2. ASSUME NEW m \in Messages, LoseProof(m) PROVE DeliveryInv'
  BY <1>2 DEF LoseProof, DeliveryInv, Numbered, Transmitted, RxPosition,
              InOrderDelivery
<1> QED BY <1>1, <1>2 DEF Network

\* The inductive invariant of delivery.
LEMMA DeliveryAlways == NoWrap => (Spec => []DeliveryInv)
<1> SUFFICES ASSUME NoWrap PROVE Spec => []DeliveryInv
  OBVIOUS
<1>1. Init => DeliveryInv
  BY BoundsAssumption DEF Init, DeliveryInv, Numbered, Transmitted, RxPosition,
     InOrderDelivery, IdleSend, Messages
<1>2. Typed /\ DeliveryInv /\ [Next]_vars => DeliveryInv'
  <2>1. DeliveryInv /\ UNCHANGED vars => DeliveryInv'
    BY DEF vars, txVars, netVars, rxVars, DeliveryInv, Numbered, Transmitted,
           RxPosition, InOrderDelivery
  <2> QED BY <2>1, SenderDelivery, ReceiverDelivery, NetworkDelivery DEF Next
<1> QED BY <1>1, <1>2, TypedAlways, PTL DEF Spec

\* For every number of messages below the sequence modulus, every window, every
\* retry limit and every loss, duplication and reordering by the network, the
\* handlers of the receiving channel see the messages in the order they were
\* sent, each once and with none missing.
THEOREM InOrder == NoWrap => (Spec => []InOrderDelivery)
BY DeliveryAlways, PTL DEF DeliveryInv

\* Under the same bound the channel implements ordered delivery: each of its
\* steps is a step of OrderedDelivery or leaves what the application sees
\* unchanged.
THEOREM Refinement == NoWrap => (Spec => ImplementsOrderedDelivery)
<1> SUFFICES ASSUME NoWrap PROVE Spec => ImplementsOrderedDelivery
  OBVIOUS
<1>1. Init => Ordered!Init BY DEF Init, Ordered!Init
<1>2. Typed /\ DeliveryInv /\ [Next]_vars => [Ordered!Next]_(Ordered!vars)
  <2> SUFFICES ASSUME Typed, DeliveryInv, [Next]_vars
               PROVE  [Ordered!Next]_(Ordered!vars)
    OBVIOUS
  <2> USE DEF txVars, netVars, rxVars
  <2>1. CASE SendTransmit
    <3>1. Len(wire') = Len(wire) + 1 /\ UNCHANGED <<delivered, rxShutDown>>
      BY <2>1 DEF SendTransmit, Typed, TypeOK
    <3> QED BY <3>1 DEF Ordered!Next, Ordered!Accept
  <2>2. CASE Receive
    <3>1. wire' = wire /\ rxShutDown' = rxShutDown BY <2>2 DEF Receive
    <3>2. \/ delivered' = delivered
          \/ /\ ~rxShutDown
             /\ \E n \in (Len(delivered) + 1)..Len(wire) :
                   delivered' = [i \in 1..n |-> i]
      BY <2>2, DeliveryStep
    <3> QED BY <3>1, <3>2
            DEF Ordered!Next, Ordered!Deliver, Ordered!FirstMessages, Ordered!vars
  <2>3. CASE RxLinkClosed
    BY <2>3 DEF RxLinkClosed, Ordered!Next, Ordered!Close
  <2>4. ASSUME UNCHANGED <<wire, delivered, rxShutDown>>
        PROVE  [Ordered!Next]_(Ordered!vars)
    BY <2>4 DEF Ordered!vars
  <2>5. CASE Sender /\ ~SendTransmit
    <3>1. UNCHANGED <<wire, delivered, rxShutDown>>
      BY <2>5 DEF Sender, SendStart, SendFail, SendComplete, ProofArrives,
         PacketTimeout, TxLinkClosed, RttMeasured
    <3> QED BY <2>4, <3>1
  <2>6. CASE Receiver /\ ~Receive /\ ~RxLinkClosed
    <3>1. UNCHANGED <<wire, delivered, rxShutDown>>
      BY <2>6 DEF Receiver, RegisterMessageType, ProvePacket
    <3> QED BY <2>4, <3>1
  <2>7. CASE Network
    <3>1. UNCHANGED <<wire, delivered, rxShutDown>>
      BY <2>7 DEF Network, LosePacket, LoseProof
    <3> QED BY <2>4, <3>1
  <2>8. CASE UNCHANGED vars BY <2>4, <2>8 DEF vars
  <2> QED BY <2>1, <2>2, <2>3, <2>5, <2>6, <2>7, <2>8 DEF Next
<1> QED BY <1>1, <1>2, TypedAlways, DeliveryAlways, PTL
        DEF Spec, ImplementsOrderedDelivery, Ordered!Spec

-----------------------------------------------------------------------------
(* Confirmations are honest.                                                *)

\* Message m is with the receiving channel.
Got(m) == m = proving \/ m \in rxRing \/ m <= Len(delivered)

\* A proof in transit, or one the sender has taken, is of such a message.
ProofsHonest ==
    Registered = Types =>
        /\ factories = Types
        /\ ~rxShutDown =>
              \A m \in Messages :
                 proofs[m] > 0 \/ m \in opDelivered \/ m \in early => Got(m)

\* The drain loses no message the receiver already has.
LEMMA ReceiveKeeps ==
    ASSUME NoWrap, Typed, DeliveryInv, Receive, ~rxShutDown, factories = Types,
           NEW m \in Messages, Got(m)
    PROVE  Got(m)'
<1> DEFINE ring == rxRing \cup {proving}
           run == Contiguous(ring)
<1>0. /\ proving # 0 /\ proving' = 0 /\ wire' = wire /\ m # 0
      /\ Len(delivered) \in Nat /\ Len(wire) \in Nat
      /\ nextRxSequence = Len(delivered)
  BY DEF Receive, netVars, Messages, Typed, TypeOK, DeliveryInv, RxPosition
<1>1. \A i \in ring : i \in Messages /\ i \in 1..Len(wire) /\ wire[i].seq = i - 1
                      /\ wire[i].type \in Types
  <2> SUFFICES ASSUME NEW i \in ring
               PROVE  /\ i \in Messages /\ i \in 1..Len(wire)
                      /\ wire[i].seq = i - 1 /\ wire[i].type \in Types
    OBVIOUS
  <2>1. i \in Messages /\ i <= Len(wire)
    BY <1>0 DEF Typed, TypeOK, DeliveryInv, Transmitted, Messages
  <2>2. i \in 1..Len(wire) BY <1>0, <2>1 DEF Messages
  <2>3. wire[i].seq = i - 1 BY <2>2 DEF DeliveryInv, Numbered
  <2>4. wire[i] \in [seq : 0..(SEQ_MODULUS - 1), type : Types]
    <3> DEFINE S == [seq : 0..(SEQ_MODULUS - 1), type : Types]
    <3>1. wire \in Seq(S) BY DEF Typed, TypeOK
    <3> HIDE DEF S
    <3>2. wire[i] \in S BY <2>2, <3>1, ElementOfSeq
    <3> QED BY <3>2 DEF S
  <2> QED BY <2>1, <2>2, <2>3, <2>4
<1>2. CASE ~AcceptedByRx(proving)
  <2>1. UNCHANGED <<rxRing, delivered>> BY <1>2 DEF Receive
  <2>2. CASE m # proving BY <2>1, <2>2 DEF Got
  <2>3. CASE m = proving
    <3>1. wire[m].type \in factories /\ wire[m].seq = m - 1 BY <1>1, <2>3
    <3>2. ~ValidSequence(m - 1) \/ HasSequence(rxRing, m - 1)
      BY <1>2, <2>3, <3>1 DEF AcceptedByRx
    <3>3. CASE ~ValidSequence(m - 1)
      <4>1. ~(m - 1 >= Len(delivered)) BY <1>0, <3>3 DEF ValidSequence
      <4>2. m <= Len(delivered) BY <1>0, <4>1 DEF Messages
      <4> QED BY <2>1, <4>2 DEF Got
    <3>4. CASE HasSequence(rxRing, m - 1)
      <4>1. PICK i \in rxRing : wire[i].seq = m - 1 BY <3>4 DEF HasSequence
      <4>2. i = m BY <1>1, <4>1 DEF Messages
      <4> QED BY <2>1, <4>1, <4>2 DEF Got
    <3> QED BY <3>2, <3>3, <3>4
  <2> QED BY <2>2, <2>3
<1>3. CASE AcceptedByRx(proving)
  <2>1. /\ run \in Seq(Messages) /\ Len(run) \in Nat
        /\ \A j \in 1..Len(run) : run[j] = Len(delivered) + j
    BY <1>0, DrainedRun
  <2>2. /\ rxRing' = ring \ {run[j] : j \in DOMAIN run}
        /\ delivered' = delivered \o run
    BY <1>3 DEF Receive, RunCallbacks
  <2> HIDE DEF run
  <2>3. Len(delivered') = Len(delivered) + Len(run) /\ DOMAIN run = 1..Len(run)
    BY <2>1, <2>2 DEF Typed, TypeOK
  <2>4. CASE m <= Len(delivered)
    <3>1. m <= Len(delivered') BY <1>0, <2>1, <2>3, <2>4 DEF Messages
    <3> QED BY <3>1 DEF Got
  <2>5. CASE m \in ring
    <3>1. CASE m \in rxRing' BY <3>1 DEF Got
    <3>2. CASE m \notin rxRing'
      <4>1. PICK j \in 1..Len(run) : m = run[j] BY <2>2, <2>3, <2>5, <3>2
      <4>2. m <= Len(delivered') BY <1>0, <2>1, <2>3, <4>1
      <4> QED BY <4>2 DEF Got
    <3> QED BY <3>1, <3>2
  <2> QED BY <2>4, <2>5 DEF Got
<1> QED BY <1>2, <1>3

\* The inductive step.
LEMMA ProofsHonestStep ==
    NoWrap /\ Typed /\ DeliveryInv /\ ProofsHonest /\ [Next]_vars => ProofsHonest'
<1> SUFFICES ASSUME NoWrap, Typed, DeliveryInv, ProofsHonest, [Next]_vars,
                    Registered = Types
             PROVE  /\ factories' = Types
                    /\ ~rxShutDown' =>
                          \A m \in Messages :
                             proofs'[m] > 0 \/ m \in opDelivered' \/ m \in early'
                                => Got(m)'
  BY DEF ProofsHonest
<1> DEFINE Honest(m) == proofs[m] > 0 \/ m \in opDelivered \/ m \in early => Got(m)
           Goal(m) == proofs'[m] > 0 \/ m \in opDelivered' \/ m \in early' => Got(m)'
<1>0. /\ factories = Types
      /\ ~rxShutDown => \A m \in Messages : Honest(m)
      /\ proofs \in [Messages -> Nat]
  BY DEF ProofsHonest, Typed, TypeOK
<1> USE DEF txVars, netVars, rxVars
<1>1. ASSUME UNCHANGED <<factories, proving, rxRing, rxShutDown, delivered>>,
             \A m \in Messages :
                proofs'[m] > 0 \/ m \in opDelivered' \/ m \in early'
                  => proofs[m] > 0 \/ m \in opDelivered \/ m \in early
      PROVE  factories' = Types /\ (~rxShutDown' => \A m \in Messages : Goal(m))
  BY <1>0, <1>1 DEF Got
<1>2. ASSUME NEW t \in Types, SendStart(t)
      PROVE  UNCHANGED <<rxVars, proofs, opDelivered, early>>
  BY <1>2 DEF SendStart
<1>3. SendTransmit \/ SendFail => UNCHANGED <<rxVars, proofs, opDelivered, early>>
  BY DEF SendTransmit, SendFail
<1>4. CASE SendComplete
  <2>1. /\ UNCHANGED <<rxVars, proofs>>
        /\ \A m : m \in opDelivered' \/ m \in early' => m \in opDelivered \/ m \in early
    BY <1>4 DEF SendComplete
  <2> QED BY <1>1, <2>1
<1>5. ASSUME NEW i \in Messages, ProofArrives(i)
      PROVE  factories' = Types /\ (~rxShutDown' => \A m \in Messages : Goal(m))
  <2>1. UNCHANGED rxVars /\ proofs[i] > 0 BY <1>5 DEF ProofArrives
  <2>2. \A m \in Messages : proofs'[m] > 0 => proofs[m] > 0
    BY <1>0, <1>5 DEF ProofArrives, DropCopy
  <2>3. \A m : m \in opDelivered' \/ m \in early'
                 => m \in opDelivered \/ m \in early \/ m = i
    BY <1>5 DEF ProofArrives
  <2> QED BY <1>1, <2>1, <2>2, <2>3
<1>6. ASSUME NEW i \in Messages, PacketTimeout(i)
      PROVE  factories' = Types /\ (~rxShutDown' => \A m \in Messages : Goal(m))
  <2>1. /\ UNCHANGED <<rxVars, proofs, opDelivered>> /\ early' \subseteq early
    BY <1>6 DEF PacketTimeout, Shutdown
  <2> QED BY <1>1, <2>1
<1>7. CASE TxLinkClosed
  <2>1. /\ UNCHANGED <<rxVars, proofs, opDelivered>> /\ early' \subseteq early
    BY <1>7 DEF TxLinkClosed, Shutdown
  <2> QED BY <1>1, <2>1
<1>8. ASSUME NEW r \in Rtts, RttMeasured(r)
      PROVE  UNCHANGED <<rxVars, proofs, opDelivered, early>>
  BY <1>8 DEF RttMeasured
<1>9. ASSUME NEW t \in Types, RegisterMessageType(t)
      PROVE  factories' = Types /\ (~rxShutDown' => \A m \in Messages : Goal(m))
  <2>1. factories' = factories
    BY <1>0, <1>9 DEF RegisterMessageType
  <2> QED BY <1>1, <1>9, <2>1 DEF RegisterMessageType
<1>10. ASSUME NEW i \in Messages, ProvePacket(i)
       PROVE  factories' = Types /\ (~rxShutDown' => \A m \in Messages : Goal(m))
  <2>1. /\ UNCHANGED <<opDelivered, early, factories, rxRing, rxShutDown, delivered>>
        /\ proving = 0 /\ proving' = i /\ ~rxShutDown
    BY <1>10 DEF ProvePacket
  <2>2. \A m \in Messages : proofs'[m] > 0 => proofs[m] > 0 \/ m = i
    BY <1>0, <1>10 DEF ProvePacket, AddCopy
  <2>3. \A m \in Messages : m # 0 BY DEF Messages
  <2> QED BY <1>0, <2>1, <2>2, <2>3 DEF Got
<1>11. CASE Receive
  <2>1. UNCHANGED <<txVars, netVars, factories, rxShutDown>> BY <1>11 DEF Receive
  <2> QED BY <1>0, <1>11, <2>1, ReceiveKeeps
<1>12. CASE RxLinkClosed BY <1>0, <1>12 DEF RxLinkClosed
<1>13. CASE Network
  <2>1. UNCHANGED <<txVars, rxVars>>
    BY <1>13 DEF Network, LosePacket, LoseProof
  <2>2. \A m \in Messages : proofs'[m] > 0 => proofs[m] > 0
    BY <1>0, <1>13 DEF Network, LosePacket, LoseProof, DropCopy
  <2> QED BY <1>1, <2>1, <2>2
<1>14. CASE UNCHANGED vars BY <1>1, <1>14 DEF vars
<1> QED BY <1>1, <1>2, <1>3, <1>4, <1>5, <1>6, <1>7, <1>8, <1>9, <1>10, <1>11,
           <1>12, <1>13, <1>14 DEF Next, Sender, Receiver

\* When every message type is registered before traffic, the sender's delivery
\* confirmations are honest for any number of messages below the modulus: what
\* it has been given a link proof for is with the receiving channel, in its
\* hands, its ring or already dispatched.
THEOREM HonestConfirmations == NoWrap => (Spec => []ConfirmedIsReceived)
<1> SUFFICES ASSUME NoWrap PROVE Spec => []ConfirmedIsReceived
  OBVIOUS
<1>1. Init => ProofsHonest BY DEF Init, ProofsHonest
<1>2. Typed /\ DeliveryInv /\ ProofsHonest => ConfirmedIsReceived
  <2> SUFFICES ASSUME Typed, DeliveryInv, ProofsHonest, Registered = Types,
                      ~rxShutDown, NEW m \in opDelivered \cup early
               PROVE  \/ m = proving \/ m \in rxRing
                      \/ \E i \in 1..Len(delivered) : delivered[i] = m
    BY DEF ConfirmedIsReceived
  <2>1. m \in Messages BY DEF Typed, TypeOK
  <2>2. Got(m) BY <2>1 DEF ProofsHonest
  <2>3. CASE m <= Len(delivered)
    <3>1. m \in 1..Len(delivered) BY <2>1, <2>3 DEF Messages, Typed, TypeOK
    <3> QED BY <3>1 DEF DeliveryInv, InOrderDelivery
  <2> QED BY <2>2, <2>3 DEF Got
<1>3. Spec => []ProofsHonest
  BY <1>1, ProofsHonestStep, TypedAlways, DeliveryAlways, PTL DEF Spec
<1> QED BY <1>2, <1>3, TypedAlways, DeliveryAlways, PTL

\* Delivery in order, honest confirmations and a sane window together, for any number of
\* messages below the modulus (send, _packetDelivered, _packetTimeout, _receive).
THEOREM DeliverySafety == NoWrap => (Spec => []DeliverySafe)
<1>1. InOrderDelivery /\ ConfirmedIsReceived /\ WindowSane => DeliverySafe
  BY DEF DeliverySafe
<1> QED BY <1>1, InOrder, HonestConfirmations, WindowSafety, PTL
=============================================================================
