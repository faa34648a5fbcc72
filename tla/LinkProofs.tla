----------------------------- MODULE LinkProofs -----------------------------
(***************************************************************************)
(* Proofs about Link, and about what carries its packets: the connection of *)
(* a stream interface, the poll session of an HTTP interface and the        *)
(* ingress control of announces. The four share no variable.                *)
(***************************************************************************)
EXTENDS Link, Reconnect, HttpSessions, AnnounceControl, FiniteSetTheorems, SequenceTheorems, TLAPS

\* The packet under way is still in the queue.
QueueBusy == \A e \in Ends : stage[e] # "idle" => rxQueue[e] # << >>

Typed == TypeOK /\ QueueBusy

\* Removing the head of a non-empty queue keeps the queues typed.
LEMMA DequeueType ==
    ASSUME Typed, NEW e \in Ends, rxQueue[e] # << >>, Dequeue(e)
    PROVE  rxQueue' \in [Ends -> Seq(Contexts)]
<1>1. rxQueue[e] \in Seq(Contexts) BY DEF Typed, TypeOK
<1>2. Tail(rxQueue[e]) \in Seq(Contexts) BY <1>1
<1> QED BY <1>2 DEF Typed, TypeOK, Dequeue

\* Transmitting keeps the network typed.
LEMMA TransmitType ==
    ASSUME Typed, NEW e \in Ends, NEW p \in Contexts, Transmit(e, p)
    PROVE  net' \in [Ends -> SUBSET Contexts]
BY DEF Typed, TypeOK, Transmit

\* The status setter keeps the types.
LEMMA BecomeType ==
    ASSUME Typed, NEW e \in Ends
    PROVE  /\ BecomeActive(e) \/ BecomeClosed(e) =>
                /\ status' \in [Ends -> Statuses]
                /\ registered' \in [Ends -> BOOLEAN]
                /\ estTimer' \in [Ends -> BOOLEAN]
                /\ watchdog' \in [Ends -> BOOLEAN]
                /\ pendingProofs' \in [Ends -> Nat]
                /\ pathExpired' \in [Ends -> BOOLEAN]
<1>1. ASSUME BecomeActive(e)
      PROVE  /\ status' \in [Ends -> Statuses]
             /\ registered' \in [Ends -> BOOLEAN]
             /\ estTimer' \in [Ends -> BOOLEAN]
             /\ watchdog' \in [Ends -> BOOLEAN]
             /\ pendingProofs' \in [Ends -> Nat]
             /\ pathExpired' \in [Ends -> BOOLEAN]
  BY <1>1 DEF Typed, TypeOK, BecomeActive, Statuses
<1>2. ASSUME BecomeClosed(e)
      PROVE  /\ status' \in [Ends -> Statuses]
             /\ registered' \in [Ends -> BOOLEAN]
             /\ estTimer' \in [Ends -> BOOLEAN]
             /\ watchdog' \in [Ends -> BOOLEAN]
             /\ pendingProofs' \in [Ends -> Nat]
             /\ pathExpired' \in [Ends -> BOOLEAN]
  <2>1. status' \in [Ends -> Statuses]
    BY <1>2 DEF Typed, TypeOK, BecomeClosed, Statuses
  <2>2. CASE status[e] = "CLOSED" BY <1>2, <2>1, <2>2 DEF Typed, TypeOK, BecomeClosed
  <2>3. CASE status[e] # "CLOSED"
    <3>1. /\ registered' \in [Ends -> BOOLEAN] /\ estTimer' \in [Ends -> BOOLEAN]
          /\ watchdog' \in [Ends -> BOOLEAN] /\ pendingProofs' \in [Ends -> Nat]
      <4>1. /\ registered' = [registered EXCEPT ![e] = FALSE]
            /\ estTimer' = [estTimer EXCEPT ![e] = FALSE]
            /\ watchdog' = [watchdog EXCEPT ![e] = FALSE]
            /\ pendingProofs' = [pendingProofs EXCEPT ![e] = 0]
        BY <1>2, <2>3 DEF BecomeClosed
      <4> QED BY <4>1 DEF Typed, TypeOK
    <3>2. pathExpired' \in [Ends -> BOOLEAN]
      <4>1. pathExpired \in [Ends -> BOOLEAN] BY DEF Typed, TypeOK
      <4>2. CASE status[e] = "ACTIVE"
        <5>1. pathExpired' = [pathExpired EXCEPT ![e] = pathExpired[e]]
          BY <1>2, <2>3, <4>2 DEF BecomeClosed
        <5> QED BY <4>1, <5>1
      <4>3. CASE status[e] # "ACTIVE"
        <5>1. pathExpired' = [pathExpired EXCEPT ![e] = TRUE]
          BY <1>2, <2>3, <4>3 DEF BecomeClosed
        <5> QED BY <4>1, <5>1
      <4> QED BY <4>2, <4>3
    <3> QED BY <2>1, <3>1, <3>2
  <2> QED BY <2>2, <2>3
<1> QED BY <1>1, <1>2

\* Each packet context travels, and the peer of an end is an end.
LEMMA EndFacts ==
    /\ "initiator" \in Ends /\ "responder" \in Ends
    /\ \A e \in Ends : Peer(e) \in Ends
    /\ {"LINKREQUEST", "LRPROOF", "LRRTT", "LINKCLOSE", "DATA", "PROOF", "PING",
        "PONG"} = Contexts
BY DEF Ends, Peer, Contexts

\* Handshake steps keep the types.
LEMMA HandshakeTyped == Typed /\ Handshake => Typed'
<1> SUFFICES ASSUME Typed, Handshake PROVE Typed'
  OBVIOUS
<1> USE DEF lifeVars, rxVars, appVars, Stages
<1>1. CASE Initiate
  <2>1. net' \in [Ends -> SUBSET Contexts]
    BY <1>1, TransmitType, EndFacts DEF Initiate, Contexts
  <2> QED BY <1>1, <2>1, EndFacts
          DEF Initiate, Typed, TypeOK, QueueBusy, ArmEstablishmentTimeout, Statuses
<1>2. CASE Accept
  BY <1>2, EndFacts
  DEF Accept, Typed, TypeOK, QueueBusy, ArmEstablishmentTimeout, Statuses
<1>3. CASE SendLRProof
  <2>1. net' \in [Ends -> SUBSET Contexts]
    BY <1>3, TransmitType, EndFacts DEF SendLRProof, Contexts
  <2> QED BY <1>3, <2>1 DEF SendLRProof, Typed, TypeOK, QueueBusy
<1>4. CASE DeriveKeys
  BY <1>4, EndFacts DEF DeriveKeys, Typed, TypeOK, QueueBusy
<1>5. CASE SendLRRTT
  <2>1. net' \in [Ends -> SUBSET Contexts]
    BY <1>5, TransmitType, EndFacts DEF SendLRRTT, Contexts
  <2> QED BY <1>5, <2>1, EndFacts DEF SendLRRTT, Typed, TypeOK, QueueBusy
<1>6. CASE SendLRRTTFails
  <2>1. rxQueue' \in [Ends -> Seq(Contexts)]
    BY <1>6, DequeueType, EndFacts DEF SendLRRTTFails, Typed, QueueBusy
  <2> QED BY <1>6, <2>1, EndFacts
          DEF SendLRRTTFails, Typed, TypeOK, QueueBusy, Dequeue
<1>7. CASE FinishLRPROOF
  <2>1. rxQueue' \in [Ends -> Seq(Contexts)]
    BY <1>7, DequeueType, EndFacts DEF FinishLRPROOF, Typed, QueueBusy
  <2>2. established' \in [Ends -> Nat]
    BY <1>7, EndFacts DEF FinishLRPROOF, Typed, TypeOK
  <2> QED BY <1>7, <2>1, <2>2, BecomeType, EndFacts
          DEF FinishLRPROOF, Typed, TypeOK, QueueBusy, Dequeue
<1>8. CASE HandleLRRTT
  <2>1. rxQueue' \in [Ends -> Seq(Contexts)]
    BY <1>8, DequeueType, EndFacts DEF HandleLRRTT, Typed, QueueBusy
  <2>2. established' \in [Ends -> Nat]
    <3>1. established' = [established EXCEPT !["responder"] = @ + 1]
      BY <1>8 DEF HandleLRRTT
    <3> QED BY <3>1, EndFacts DEF Typed, TypeOK
  <2> QED BY <1>8, <2>1, <2>2, BecomeType, EndFacts
          DEF HandleLRRTT, Typed, TypeOK, QueueBusy, Dequeue
<1> QED BY <1>1, <1>2, <1>3, <1>4, <1>5, <1>6, <1>7, <1>8 DEF Handshake

\* LINKCLOSE keeps the network typed.
LEMMA LinkCloseType ==
    ASSUME Typed, NEW e \in Ends, SendLinkClose(e)
    PROVE  net' \in [Ends -> SUBSET Contexts]
<1>1. CASE token[e] BY <1>1, TransmitType, EndFacts DEF SendLinkClose, Contexts
<1>2. CASE ~token[e] BY <1>2 DEF SendLinkClose, Typed, TypeOK
<1> QED BY <1>1, <1>2

\* The steps that receive packets keep the types.
LEMMA ReceiveTyped ==
    ASSUME Typed, NEW e \in Ends,
           \/ \E p \in Contexts : Arrive(e, p) \/ Lose(e, p)
           \/ BeginPacket(e) \/ HandleLinkClose(e)
           \/ ProveData(e) \/ DispatchData(e) \/ HandleLinkProof(e)
    PROVE  Typed'
<1> USE DEF lifeVars, rxVars, appVars, Stages
<1>1. ASSUME NEW p \in Contexts, Arrive(e, p) PROVE Typed'
  <2>1. rxQueue[e] \in Seq(Contexts) BY DEF Typed, TypeOK
  <2>2. Append(rxQueue[e], p) \in Seq(Contexts) /\ Append(rxQueue[e], p) # << >>
    BY <2>1
  <2>3. rxQueue' \in [Ends -> Seq(Contexts)]
    BY <1>1, <2>1, <2>2 DEF Arrive, Typed, TypeOK
  <2>4. QueueBusy'
    BY <1>1, <2>2 DEF Arrive, Typed, TypeOK, QueueBusy
  <2> QED BY <1>1, <2>3, <2>4 DEF Arrive, Typed, TypeOK
<1>2. ASSUME NEW p \in Contexts, Lose(e, p) PROVE Typed'
  BY <1>2 DEF Lose, Typed, TypeOK, QueueBusy
<1>3. CASE BeginPacket(e)
  <2>1. rxQueue[e] # << >> /\ stage[e] = "idle" BY <1>3 DEF BeginPacket
  <2>2. CASE Dequeue(e) /\ UNCHANGED <<stage, net>>
    <3>1. rxQueue' \in [Ends -> Seq(Contexts)] BY <2>1, <2>2, DequeueType
    <3> QED BY <1>3, <2>1, <2>2, <3>1
            DEF BeginPacket, Typed, TypeOK, QueueBusy, Dequeue
  <2>3. CASE /\ Dequeue(e) /\ UNCHANGED stage
             /\ (IF e = "responder" THEN Transmit("initiator", "PONG")
                 ELSE UNCHANGED net)
    <3>1. rxQueue' \in [Ends -> Seq(Contexts)] BY <2>1, <2>3, DequeueType
    <3>2. net' \in [Ends -> SUBSET Contexts]
      <4>1. CASE e = "responder"
        BY <2>3, <4>1, TransmitType, EndFacts DEF Contexts
      <4>2. CASE e # "responder" BY <2>3, <4>2 DEF Typed, TypeOK
      <4> QED BY <4>1, <4>2
    <3>3. QueueBusy' BY <2>1, <2>3 DEF Typed, TypeOK, QueueBusy, Dequeue
    <3> QED BY <1>3, <2>3, <3>1, <3>2, <3>3 DEF BeginPacket, Typed, TypeOK
  <2>4. CASE /\ UNCHANGED <<rxQueue, net>>
             /\ stage' = [stage EXCEPT ![e] =
                   CASE Head(rxQueue[e]) = "LRPROOF" -> "validating"
                     [] Head(rxQueue[e]) = "PROOF" -> "verifying"
                     [] OTHER -> "decrypting"]
    <3>1. stage' \in [Ends -> Stages] BY <2>4 DEF Typed, TypeOK
    <3> QED BY <1>3, <2>1, <2>4, <3>1 DEF BeginPacket, Typed, TypeOK, QueueBusy
  <2> QED BY <1>3, <2>2, <2>3, <2>4 DEF BeginPacket
<1>4. CASE HandleLinkClose(e)
  <2>1. rxQueue' \in [Ends -> Seq(Contexts)]
    BY <1>4, DequeueType DEF HandleLinkClose, Typed, QueueBusy
  <2>2. teardownReason' \in [Ends -> Reasons]
    BY <1>4 DEF HandleLinkClose, Typed, TypeOK, Reasons
  <2>3. QueueBusy'
    BY <1>4 DEF HandleLinkClose, Typed, TypeOK, QueueBusy, Dequeue
  <2> QED BY <1>4, <2>1, <2>2, <2>3, BecomeType DEF HandleLinkClose, Typed, TypeOK
<1>5. CASE ProveData(e)
  <2>1. net' \in [Ends -> SUBSET Contexts]
    BY <1>5, TransmitType, EndFacts DEF ProveData, Contexts
  <2> QED BY <1>5, <2>1 DEF ProveData, Typed, TypeOK, QueueBusy
<1>6. CASE DispatchData(e)
  <2>1. rxQueue' \in [Ends -> Seq(Contexts)]
    BY <1>6, DequeueType DEF DispatchData, Typed, QueueBusy
  <2> QED BY <1>6, <2>1 DEF DispatchData, Typed, TypeOK, QueueBusy, Dequeue
<1>7. CASE HandleLinkProof(e)
  <2>1. rxQueue' \in [Ends -> Seq(Contexts)]
    BY <1>7, DequeueType DEF HandleLinkProof, Typed, QueueBusy
  <2>2. pendingProofs' \in [Ends -> Nat]
    BY <1>7 DEF HandleLinkProof, Typed, TypeOK
  <2>3. QueueBusy'
    BY <1>7 DEF HandleLinkProof, Typed, TypeOK, QueueBusy, Dequeue
  <2> QED BY <1>7, <2>1, <2>2, <2>3 DEF HandleLinkProof, Typed, TypeOK
<1> QED BY <1>1, <1>2, <1>3, <1>4, <1>5, <1>6, <1>7

\* The steps that send, close and time out keep the types.
LEMMA CloseTyped ==
    ASSUME Typed, NEW e \in Ends,
           \/ EstablishmentTimeout(e)
           \/ SendData(e) \/ TransmitData(e) \/ TransmitDataFails(e)
           \/ Teardown(e) \/ FinishTeardown(e) \/ WatchdogStale(e)
    PROVE  Typed'
<1> USE BoundsAssumption DEF lifeVars, rxVars, appVars, Reasons
<1>1. CASE EstablishmentTimeout(e)
  <2>1. CASE status[e] = "HANDSHAKE"
    BY <1>1, <2>1, BecomeType DEF EstablishmentTimeout, Typed, TypeOK, QueueBusy
  <2>2. CASE status[e] # "HANDSHAKE"
    BY <1>1, <2>2 DEF EstablishmentTimeout, Typed, TypeOK, QueueBusy
  <2> QED BY <2>1, <2>2
<1>2. CASE SendData(e)
  <2>1. dataSent[e] \in Nat /\ dataSent[e] + 1 \in 0..MaxData
    <3>1. \A f \in Ends : dataSent[f] \in Nat
      BY DEF Typed, TypeOK
    <3>2. dataSent["initiator"] \in Nat /\ dataSent["responder"] \in Nat
      BY <3>1 DEF Ends
    <3>3. dataSent[e] + 1 <= MaxData
      BY <1>2, <3>2, BoundsAssumption DEF SendData, Ends
    <3> QED BY <3>1, <3>3, BoundsAssumption
  <2>2. dataSent' = [dataSent EXCEPT ![e] = dataSent[e] + 1] BY <1>2 DEF SendData
  <2>3. dataSent' \in [Ends -> 0..MaxData] BY <2>1, <2>2 DEF Typed, TypeOK
  <2>4. sendingData' = [sendingData EXCEPT ![e] = sendingData[e] + 1]
    BY <1>2, Zenon DEF SendData
  <2>5. sendingData' \in [Ends -> Nat] BY <2>4 DEF Typed, TypeOK
  <2>6. UNCHANGED <<lifeVars, token, rxVars, accepting, closing, teardowns,
                    teardownReason, established, net>>
    BY <1>2 DEF SendData
  <2> QED BY <2>3, <2>5, <2>6 DEF Typed, TypeOK, QueueBusy
<1>3. CASE TransmitData(e)
  <2>1. net' \in [Ends -> SUBSET Contexts]
    BY <1>3, TransmitType, EndFacts DEF TransmitData, Contexts
  <2>2. sendingData' \in [Ends -> Nat] /\ pendingProofs' \in [Ends -> Nat]
    BY <1>3 DEF TransmitData, Typed, TypeOK
  <2> QED BY <1>3, <2>1, <2>2 DEF TransmitData, Typed, TypeOK, QueueBusy
<1>4. CASE TransmitDataFails(e)
  <2>1. sendingData' \in [Ends -> Nat] BY <1>4 DEF TransmitDataFails, Typed, TypeOK
  <2> QED BY <1>4, <2>1 DEF TransmitDataFails, Typed, TypeOK, QueueBusy
<1>5. CASE Teardown(e)
  <2>1. teardowns[e] \in Nat /\ teardowns[e] + 1 \in 0..MaxTeardowns
    BY <1>5 DEF Teardown, Typed, TypeOK
  <2>2. teardowns' = [teardowns EXCEPT ![e] = teardowns[e] + 1] BY <1>5 DEF Teardown
  <2>3. teardowns' \in [Ends -> 0..MaxTeardowns] BY <2>1, <2>2 DEF Typed, TypeOK
  <2>4. closing' \in [Ends -> Nat] BY <1>5 DEF Teardown, Typed, TypeOK
  <2> QED BY <1>5, <2>3, <2>4 DEF Teardown, Typed, TypeOK, QueueBusy
<1>6. CASE FinishTeardown(e)
  <2>1. closing' \in [Ends -> Nat] BY <1>6 DEF FinishTeardown, Typed, TypeOK
  <2>2. net' \in [Ends -> SUBSET Contexts] BY <1>6, LinkCloseType DEF FinishTeardown
  <2>3. teardownReason' \in [Ends -> Reasons]
    BY <1>6 DEF FinishTeardown, Typed, TypeOK
  <2> QED BY <1>6, <2>1, <2>2, <2>3, BecomeType
          DEF FinishTeardown, Typed, TypeOK, QueueBusy
<1>7. CASE WatchdogStale(e)
  <2>1. net' \in [Ends -> SUBSET Contexts] BY <1>7, LinkCloseType DEF WatchdogStale
  <2> QED BY <1>7, <2>1, BecomeType DEF WatchdogStale, Typed, TypeOK, QueueBusy
<1> QED BY <1>1, <1>2, <1>3, <1>4, <1>5, <1>6, <1>7

\* Every step keeps the types.
LEMMA NextTyped == Typed /\ [Next]_vars => Typed'
<1> SUFFICES ASSUME Typed, [Next]_vars PROVE Typed'
  OBVIOUS
<1>1. CASE Handshake BY <1>1, HandshakeTyped
<1>2. CASE WatchdogPing
  <2>1. net' \in [Ends -> SUBSET Contexts]
    BY <1>2, TransmitType, EndFacts DEF WatchdogPing, Contexts
  <2> QED BY <1>2, <2>1
          DEF WatchdogPing, Typed, TypeOK, QueueBusy, lifeVars, rxVars, appVars
<1>3. CASE UNCHANGED vars BY <1>3 DEF vars, Typed, TypeOK, QueueBusy
<1> QED BY <1>1, <1>2, <1>3, ReceiveTyped, CloseTyped DEF Next

LEMMA InitTyped == Init => Typed
<1> SUFFICES ASSUME Init PROVE Typed
  OBVIOUS
<1>1. /\ token \in [Ends -> BOOLEAN] /\ registered \in [Ends -> BOOLEAN]
      /\ estTimer \in [Ends -> BOOLEAN] /\ watchdog \in [Ends -> BOOLEAN]
      /\ accepting \in BOOLEAN /\ pathExpired \in [Ends -> BOOLEAN]
  BY Zenon DEF Init
<1>2. /\ status \in [Ends -> Statuses] /\ stage \in [Ends -> Stages]
      /\ teardownReason \in [Ends -> Reasons] /\ net \in [Ends -> SUBSET Contexts]
  BY DEF Init, Statuses, Stages, Reasons
<1>3. /\ closing \in [Ends -> Nat] /\ sendingData \in [Ends -> Nat]
      /\ pendingProofs \in [Ends -> Nat] /\ established \in [Ends -> Nat]
  BY DEF Init
<1>4. teardowns \in [Ends -> 0..MaxTeardowns] /\ dataSent \in [Ends -> 0..MaxData]
  BY BoundsAssumption DEF Init
<1>5. rxQueue \in [Ends -> Seq(Contexts)] BY DEF Init
<1>6. QueueBusy BY DEF Init, QueueBusy
<1> QED BY <1>1, <1>2, <1>3, <1>4, <1>5, <1>6 DEF Typed, TypeOK

LEMMA TypedAlways == Spec => []Typed
BY InitTyped, NextTyped, PTL DEF Spec

\* Both ends and the network keep their types, for any bounds.
THEOREM TypeCorrect == Spec => []TypeOK
<1>1. Typed => TypeOK BY DEF Typed
<1> QED BY <1>1, TypedAlways, PTL

-----------------------------------------------------------------------------
(* What a CLOSED link holds.                                                *)

\* ClosedReleases is inductive by itself: the only assignments to a timer or
\* to the registration are in the status setter and in the two handshake
\* entries, and each of those sets the status with them.
LEMMA ClosedReleasesStep == Typed /\ ClosedReleases /\ [Next]_vars => ClosedReleases'
<1> SUFFICES ASSUME Typed, ClosedReleases, [Next]_vars, NEW f \in Ends
             PROVE  /\ registered'[f] => status'[f] \in {"HANDSHAKE", "ACTIVE"}
                    /\ estTimer'[f] => status'[f] = "HANDSHAKE"
                    /\ watchdog'[f] <=> status'[f] = "ACTIVE"
  BY DEF ClosedReleases
<1> DEFINE Goal == /\ registered'[f] => status'[f] \in {"HANDSHAKE", "ACTIVE"}
                   /\ estTimer'[f] => status'[f] = "HANDSHAKE"
                   /\ watchdog'[f] <=> status'[f] = "ACTIVE"
<1>0. /\ registered[f] => status[f] \in {"HANDSHAKE", "ACTIVE"}
      /\ estTimer[f] => status[f] = "HANDSHAKE"
      /\ watchdog[f] <=> status[f] = "ACTIVE"
  BY DEF ClosedReleases
<1>1. ASSUME UNCHANGED <<status, registered, estTimer, watchdog>> PROVE Goal
  BY <1>0, <1>1
<1>2. ASSUME NEW e \in Ends, BecomeClosed(e) PROVE Goal
  <2>1. CASE status[e] = "CLOSED"
    BY <1>0, <1>2, <2>1 DEF BecomeClosed, Typed, TypeOK
  <2>2. CASE status[e] # "CLOSED"
    <3>1. /\ status' = [status EXCEPT ![e] = "CLOSED"]
          /\ registered' = [registered EXCEPT ![e] = FALSE]
          /\ estTimer' = [estTimer EXCEPT ![e] = FALSE]
          /\ watchdog' = [watchdog EXCEPT ![e] = FALSE]
      BY <1>2, <2>2 DEF BecomeClosed
    <3> QED BY <1>0, <3>1 DEF Typed, TypeOK
  <2> QED BY <2>1, <2>2
<1>3. ASSUME NEW e \in Ends, BecomeActive(e) PROVE Goal
  BY <1>0, <1>3 DEF BecomeActive, Typed, TypeOK
<1>4. CASE Initiate
  BY <1>0, <1>4, EndFacts DEF Initiate, ArmEstablishmentTimeout, Typed, TypeOK
<1>5. CASE Accept
  BY <1>0, <1>5, EndFacts DEF Accept, ArmEstablishmentTimeout, Typed, TypeOK
<1>6. ASSUME NEW e \in Ends, EstablishmentTimeout(e) PROVE Goal
  <2>1. CASE status[e] = "HANDSHAKE" BY <1>2, <1>6, <2>1 DEF EstablishmentTimeout
  <2>2. CASE status[e] # "HANDSHAKE"
    <3>1. /\ estTimer' = [estTimer EXCEPT ![e] = FALSE]
          /\ UNCHANGED <<status, registered, watchdog>>
      BY <1>6, <2>2 DEF EstablishmentTimeout
    <3> QED BY <1>0, <3>1 DEF Typed, TypeOK
  <2> QED BY <2>1, <2>2
<1>7. CASE Handshake
  BY <1>1, <1>3, <1>4, <1>5, <1>7, EndFacts
  DEF Handshake, SendLRProof, DeriveKeys, SendLRRTT, SendLRRTTFails,
      FinishLRPROOF, HandleLRRTT, lifeVars
<1>8. ASSUME NEW e \in Ends,
             \/ \E p \in Contexts : Arrive(e, p) \/ Lose(e, p)
             \/ BeginPacket(e) \/ HandleLinkClose(e)
             \/ ProveData(e) \/ DispatchData(e) \/ HandleLinkProof(e)
      PROVE  Goal
  BY <1>1, <1>2, <1>8
  DEF Arrive, Lose, BeginPacket, HandleLinkClose, ProveData, DispatchData,
      HandleLinkProof, lifeVars
<1>9. ASSUME NEW e \in Ends,
             \/ SendData(e) \/ TransmitData(e) \/ TransmitDataFails(e)
             \/ Teardown(e) \/ FinishTeardown(e) \/ WatchdogStale(e)
      PROVE  Goal
  BY <1>1, <1>2, <1>9
  DEF SendData, TransmitData, TransmitDataFails, Teardown, FinishTeardown,
      WatchdogStale, lifeVars
<1>10. CASE WatchdogPing BY <1>1, <1>10 DEF WatchdogPing, lifeVars
<1>11. CASE UNCHANGED vars BY <1>1, <1>11 DEF vars
<1> QED BY <1>6, <1>7, <1>8, <1>9, <1>10, <1>11 DEF Next

\* A CLOSED link is out of the transport and its timers are stopped, in every
\* interleaving and for any bounds.
THEOREM ClosedHoldsNothing == Spec => []ClosedReleases
<1>1. Init => ClosedReleases BY DEF Init, ClosedReleases
<1> QED BY <1>1, ClosedReleasesStep, TypedAlways, PTL DEF Spec

-----------------------------------------------------------------------------
(* What an established link has.  The invariant follows the keys through the *)
(* handshake: every packet and every suspended handler of a later phase is    *)
(* evidence that the earlier phases were completed.                           *)

Queued(e) == {rxQueue[e][i] : i \in 1..Len(rxQueue[e])}
Enroute(e) == net[e] \cup Queued(e)

Keyed ==
    /\ accepting => token["responder"]
    /\ "LRPROOF" \in Enroute("initiator") => token["responder"]
    /\ stage["initiator"] \in {"validating", "keyed", "rttSent"} => token["responder"]
    /\ stage["initiator"] \in {"keyed", "rttSent"} => token["initiator"]
    /\ "LRRTT" \in Enroute("responder") => token["initiator"] /\ token["responder"]
    /\ "LINKREQUEST" \in net["responder"] => status["initiator"] # "PENDING"
    /\ token["responder"] => status["initiator"] # "PENDING"
    /\ EstablishedMeansKeyed

\* A step that sends no handshake packet and starts no handshake handler.
Quiet ==
    /\ UNCHANGED <<token, established, accepting>>
    /\ status["initiator"] # "PENDING" => status'["initiator"] # "PENDING"
    /\ "LRPROOF" \in Enroute("initiator")' => "LRPROOF" \in Enroute("initiator")
    /\ "LRRTT" \in Enroute("responder")' => "LRRTT" \in Enroute("responder")
    /\ "LINKREQUEST" \in net'["responder"] => "LINKREQUEST" \in net["responder"]
    /\ \/ stage'["initiator"] = stage["initiator"]
       \/ stage'["initiator"] \notin {"validating", "keyed", "rttSent"}

LEMMA QuietKeyed == Keyed /\ Quiet => Keyed'
BY DEF Keyed, Quiet, EstablishedMeansKeyed

\* What Dequeue leaves was there before.
LEMMA DequeueShrinks ==
    ASSUME Typed, NEW e \in Ends, rxQueue[e] # << >>, Dequeue(e), NEW f \in Ends
    PROVE  Queued(f)' \subseteq Queued(f)
<1>1. rxQueue[e] \in Seq(Contexts) /\ rxQueue \in [Ends -> Seq(Contexts)]
  BY DEF Typed, TypeOK
<1>2. CASE f # e BY <1>1, <1>2 DEF Dequeue, Queued
<1>3. CASE f = e
  <2>1. rxQueue'[e] = Tail(rxQueue[e]) BY <1>1 DEF Dequeue
  <2>2. /\ Len(Tail(rxQueue[e])) = Len(rxQueue[e]) - 1
        /\ \A i \in 1..Len(Tail(rxQueue[e])) : Tail(rxQueue[e])[i] = rxQueue[e][i + 1]
    BY <1>1
  <2>3. Len(rxQueue[e]) \in Nat BY <1>1
  <2> QED BY <1>3, <2>1, <2>2, <2>3 DEF Queued
<1> QED BY <1>2, <1>3

\* The head of a queue is on its way.
LEMMA HeadQueued ==
    ASSUME Typed, NEW e \in Ends, rxQueue[e] # << >>
    PROVE  Head(rxQueue[e]) \in Queued(e)
<1>1. rxQueue[e] \in Seq(Contexts) BY DEF Typed, TypeOK
<1>2. Head(rxQueue[e]) = rxQueue[e][1] /\ 1 \in 1..Len(rxQueue[e]) BY <1>1
<1> QED BY <1>2 DEF Queued

\* Arriving moves a packet from the network to the queue, or drops it.
LEMMA ArriveMoves ==
    ASSUME Typed, NEW e \in Ends, NEW p \in Contexts, Arrive(e, p), NEW f \in Ends
    PROVE  Enroute(f)' \subseteq Enroute(f)
<1>1. rxQueue[e] \in Seq(Contexts) /\ rxQueue \in [Ends -> Seq(Contexts)]
      /\ net \in [Ends -> SUBSET Contexts]
  BY DEF Typed, TypeOK
<1>2. CASE f # e BY <1>1, <1>2 DEF Arrive, Enroute, Queued
<1>3. CASE f = e
  <2>1. net'[e] = net[e] \ {p} /\ p \in net[e] BY <1>1 DEF Arrive
  <2>2. rxQueue'[e] = Append(rxQueue[e], p) \/ rxQueue'[e] = rxQueue[e]
    BY <1>1 DEF Arrive
  <2>3. /\ Len(Append(rxQueue[e], p)) = Len(rxQueue[e]) + 1
        /\ \A i \in 1..Len(rxQueue[e]) : Append(rxQueue[e], p)[i] = rxQueue[e][i]
        /\ Append(rxQueue[e], p)[Len(rxQueue[e]) + 1] = p
    BY <1>1
  <2>4. Len(rxQueue[e]) \in Nat BY <1>1
  <2>5. Queued(e)' \subseteq Queued(e) \cup {p} BY <2>2, <2>3, <2>4 DEF Queued
  <2> QED BY <1>3, <2>1, <2>5 DEF Enroute
<1> QED BY <1>2, <1>3

\* Handshake steps keep the invariant.
LEMMA HandshakeKeyed == Typed /\ Keyed /\ Handshake => Keyed'
<1> SUFFICES ASSUME Typed, Keyed, Handshake PROVE Keyed'
  OBVIOUS
<1> USE EndFacts DEF lifeVars, rxVars, appVars
<1>0. /\ net \in [Ends -> SUBSET Contexts] /\ token \in [Ends -> BOOLEAN]
      /\ stage \in [Ends -> Stages] /\ status \in [Ends -> Statuses]
      /\ established \in [Ends -> Nat]
  BY DEF Typed, TypeOK
<1>1. CASE Initiate
  <2>1. /\ status'["initiator"] = "HANDSHAKE" /\ UNCHANGED <<token, established,
           accepting, stage, rxQueue>>
        /\ net'["responder"] = net["responder"] \cup {"LINKREQUEST"}
        /\ net'["initiator"] = net["initiator"]
    BY <1>0, <1>1 DEF Initiate, Transmit
  <2> QED BY <2>1 DEF Keyed, EstablishedMeansKeyed, Enroute, Queued
<1>2. CASE Accept
  <2>1. /\ token'["responder"] /\ token'["initiator"] = token["initiator"]
        /\ UNCHANGED <<established, stage, rxQueue>>
        /\ status'["initiator"] = status["initiator"]
        /\ net'["responder"] = net["responder"] \ {"LINKREQUEST"}
        /\ net'["initiator"] = net["initiator"]
        /\ status["initiator"] # "PENDING"
    BY <1>0, <1>2 DEF Accept, Keyed
  <2> QED BY <2>1 DEF Keyed, EstablishedMeansKeyed, Enroute, Queued
<1>3. CASE SendLRProof
  <2>1. /\ UNCHANGED <<token, established, stage, rxQueue, status>>
        /\ token["responder"] /\ ~accepting'
        /\ net'["responder"] = net["responder"]
    BY <1>0, <1>3 DEF SendLRProof, Transmit, Keyed
  <2> QED BY <2>1 DEF Keyed, EstablishedMeansKeyed, Enroute, Queued
<1>4. CASE DeriveKeys
  <2>1. /\ UNCHANGED <<established, rxQueue, status, net, accepting>>
        /\ token'["initiator"] /\ token'["responder"] = token["responder"]
        /\ token["responder"]
    BY <1>0, <1>4 DEF DeriveKeys, Keyed
  <2> QED BY <2>1 DEF Keyed, EstablishedMeansKeyed, Enroute, Queued
<1>5. CASE SendLRRTT
  <2>1. /\ UNCHANGED <<token, established, rxQueue, status, accepting>>
        /\ token["initiator"] /\ token["responder"]
        /\ net'["initiator"] = net["initiator"]
        /\ net'["responder"] = net["responder"] \cup {"LRRTT"}
    BY <1>0, <1>5 DEF SendLRRTT, Transmit, Keyed
  <2> QED BY <2>1 DEF Keyed, EstablishedMeansKeyed, Enroute, Queued
<1>6. CASE SendLRRTTFails
  <2>1. \A f \in Ends : Queued(f)' \subseteq Queued(f)
    BY <1>6, DequeueShrinks DEF SendLRRTTFails, Typed, QueueBusy
  <2>2. UNCHANGED <<token, established, status, accepting, net>>
        /\ stage'["initiator"] = "idle"
    BY <1>0, <1>6 DEF SendLRRTTFails
  <2> QED BY <2>1, <2>2, QuietKeyed DEF Quiet, Enroute
<1>7. CASE FinishLRPROOF
  <2>1. \A f \in Ends : Queued(f)' \subseteq Queued(f)
    BY <1>7, DequeueShrinks DEF FinishLRPROOF, Typed, QueueBusy
  <2>2. /\ UNCHANGED <<token, accepting, net>> /\ stage'["initiator"] = "idle"
        /\ status'["initiator"] = "ACTIVE"
        /\ token["initiator"] /\ token["responder"]
    BY <1>0, <1>7 DEF FinishLRPROOF, BecomeActive, Keyed
  <2> QED BY <2>1, <2>2 DEF Keyed, EstablishedMeansKeyed, Enroute
<1>8. CASE HandleLRRTT
  <2>1. \A f \in Ends : Queued(f)' \subseteq Queued(f)
    BY <1>8, DequeueShrinks DEF HandleLRRTT, Typed, QueueBusy
  <2>2. /\ UNCHANGED <<token, accepting, net>>
        /\ stage'["initiator"] = stage["initiator"]
        /\ status'["initiator"] = status["initiator"]
    BY <1>0, <1>8 DEF HandleLRRTT, BecomeActive
  <2>3. "LRRTT" \in Enroute("responder")
    BY <1>8, HeadQueued DEF HandleLRRTT, Typed, QueueBusy, Enroute
  <2>4. /\ token["initiator"] /\ token["responder"]
        /\ status["initiator"] # "PENDING"
    BY <2>3 DEF Keyed
  <2> QED BY <2>1, <2>2, <2>4 DEF Keyed, EstablishedMeansKeyed, Enroute
<1> QED BY <1>1, <1>2, <1>3, <1>4, <1>5, <1>6, <1>7, <1>8 DEF Handshake

\* The status setter never takes an end back to PENDING.
LEMMA ClosedNotPending ==
    ASSUME Typed, NEW e \in Ends, BecomeClosed(e)
    PROVE  status["initiator"] # "PENDING" => status'["initiator"] # "PENDING"
BY EndFacts DEF BecomeClosed, Typed, TypeOK

\* Receiving steps keep the invariant.
LEMMA ReceiveKeyed ==
    ASSUME Typed, Keyed, NEW e \in Ends,
           \/ \E p \in Contexts : Arrive(e, p) \/ Lose(e, p)
           \/ BeginPacket(e) \/ HandleLinkClose(e)
           \/ ProveData(e) \/ DispatchData(e) \/ HandleLinkProof(e)
    PROVE  Keyed'
<1> USE EndFacts DEF lifeVars, rxVars, appVars
<1>0. /\ net \in [Ends -> SUBSET Contexts] /\ stage \in [Ends -> Stages]
      /\ status \in [Ends -> Statuses]
  BY DEF Typed, TypeOK
<1>1. ASSUME NEW p \in Contexts, Arrive(e, p) PROVE Keyed'
  <2>1. \A f \in Ends : Enroute(f)' \subseteq Enroute(f) BY <1>1, ArriveMoves
  <2>2. /\ UNCHANGED <<token, established, accepting, status, stage>>
        /\ net'["responder"] \subseteq net["responder"]
    BY <1>0, <1>1 DEF Arrive
  <2> QED BY <2>1, <2>2, QuietKeyed DEF Quiet
<1>2. ASSUME NEW p \in Contexts, Lose(e, p) PROVE Keyed'
  <2>1. /\ UNCHANGED <<token, established, accepting, status, stage, rxQueue>>
        /\ \A f \in Ends : net'[f] \subseteq net[f]
    BY <1>0, <1>2 DEF Lose
  <2> QED BY <2>1, QuietKeyed DEF Quiet, Enroute, Queued
<1>3. CASE BeginPacket(e)
  <2>0. UNCHANGED <<token, established, accepting, status>>
    BY <1>3 DEF BeginPacket
  <2>1. rxQueue[e] # << >> BY <1>3 DEF BeginPacket
  <2>2. CASE Dequeue(e) /\ UNCHANGED stage
    <3>1. \A f \in Ends : Queued(f)' \subseteq Queued(f)
      BY <2>1, <2>2, DequeueShrinks
    <3>2. \A f \in Ends : net'[f] \subseteq net[f] \cup {"PONG"}
      BY <1>0, <1>3 DEF BeginPacket, Transmit
    <3> QED BY <2>0, <2>2, <3>1, <3>2, QuietKeyed DEF Quiet, Enroute
  <2>3. CASE /\ UNCHANGED <<rxQueue, net>>
             /\ stage' = [stage EXCEPT ![e] =
                   CASE Head(rxQueue[e]) = "LRPROOF" -> "validating"
                     [] Head(rxQueue[e]) = "PROOF" -> "verifying"
                     [] OTHER -> "decrypting"]
    <3>1. CASE e = "initiator" /\ Head(rxQueue[e]) = "LRPROOF"
      <4>1. "LRPROOF" \in Enroute("initiator")
        BY <2>1, <3>1, HeadQueued DEF Enroute
      <4>2. token["responder"] /\ stage'["initiator"] = "validating"
        BY <1>0, <2>3, <3>1, <4>1 DEF Keyed
      <4> QED BY <2>0, <2>3, <4>2 DEF Keyed, EstablishedMeansKeyed, Enroute, Queued
    <3>2. CASE ~(e = "initiator" /\ Head(rxQueue[e]) = "LRPROOF")
      <4>1. \/ stage'["initiator"] = stage["initiator"]
            \/ stage'["initiator"] \notin {"validating", "keyed", "rttSent"}
        BY <1>0, <2>3, <3>2
      <4> QED BY <2>0, <2>3, <4>1, QuietKeyed DEF Quiet, Enroute, Queued
    <3> QED BY <3>1, <3>2
  <2> QED BY <1>3, <2>2, <2>3 DEF BeginPacket
<1>4. CASE HandleLinkClose(e)
  <2>1. \A f \in Ends : Queued(f)' \subseteq Queued(f)
    BY <1>4, DequeueShrinks DEF HandleLinkClose, Typed, QueueBusy
  <2>2. /\ UNCHANGED <<token, established, accepting, net>>
        /\ status["initiator"] # "PENDING" => status'["initiator"] # "PENDING"
        /\ \/ stage'["initiator"] = stage["initiator"]
           \/ stage'["initiator"] = "idle"
    BY <1>0, <1>4, ClosedNotPending DEF HandleLinkClose
  <2> QED BY <2>1, <2>2, QuietKeyed DEF Quiet, Enroute
<1>5. CASE ProveData(e)
  <2>1. /\ UNCHANGED <<token, established, accepting, status, rxQueue>>
        /\ \A f \in Ends : net'[f] \subseteq net[f] \cup {"PROOF"}
        /\ \/ stage'["initiator"] = stage["initiator"]
           \/ stage'["initiator"] = "proving"
    BY <1>0, <1>5 DEF ProveData, Transmit
  <2> QED BY <2>1, QuietKeyed DEF Quiet, Enroute, Queued
<1>6. CASE DispatchData(e) \/ HandleLinkProof(e)
  <2>1. \A f \in Ends : Queued(f)' \subseteq Queued(f)
    BY <1>6, DequeueShrinks DEF DispatchData, HandleLinkProof, Typed, QueueBusy
  <2>2. /\ UNCHANGED <<token, established, accepting, net, status>>
        /\ \/ stage'["initiator"] = stage["initiator"]
           \/ stage'["initiator"] = "idle"
    BY <1>0, <1>6 DEF DispatchData, HandleLinkProof
  <2> QED BY <2>1, <2>2, QuietKeyed DEF Quiet, Enroute
<1> QED BY <1>1, <1>2, <1>3, <1>4, <1>5, <1>6

\* The remaining steps keep the invariant.
LEMMA NextKeyed == Typed /\ Keyed /\ [Next]_vars => Keyed'
<1> SUFFICES ASSUME Typed, Keyed, [Next]_vars PROVE Keyed'
  OBVIOUS
<1> USE EndFacts DEF lifeVars, rxVars, appVars
<1>0. net \in [Ends -> SUBSET Contexts] BY DEF Typed, TypeOK
<1>1. ASSUME UNCHANGED <<token, established, accepting, stage, rxQueue>>,
             \A f \in Ends :
                net'[f] \subseteq net[f] \cup {"LINKCLOSE", "DATA", "PING"},
             status["initiator"] # "PENDING" => status'["initiator"] # "PENDING"
      PROVE  Keyed'
  <2>1. Quiet BY <1>1 DEF Quiet, Enroute, Queued
  <2> QED BY <2>1, QuietKeyed
<1>2. ASSUME NEW e \in Ends, EstablishmentTimeout(e) PROVE Keyed'
  BY <1>1, <1>2, ClosedNotPending DEF EstablishmentTimeout
<1>3. ASSUME NEW e \in Ends, SendData(e) \/ TransmitDataFails(e) \/ Teardown(e)
      PROVE  Keyed'
  BY <1>1, <1>3 DEF SendData, TransmitDataFails, Teardown
<1>4. ASSUME NEW e \in Ends, TransmitData(e) PROVE Keyed'
  <2>1. \A f \in Ends : net'[f] \subseteq net[f] \cup {"DATA"}
    BY <1>0, <1>4 DEF TransmitData, Transmit
  <2>2. UNCHANGED <<token, established, accepting, stage, rxQueue, status>>
    BY <1>4 DEF TransmitData
  <2> QED BY <1>1, <2>1, <2>2
<1>5. ASSUME NEW e \in Ends, FinishTeardown(e) \/ WatchdogStale(e) PROVE Keyed'
  <2>1. \A f \in Ends : net'[f] \subseteq net[f] \cup {"LINKCLOSE"}
    BY <1>0, <1>5 DEF FinishTeardown, WatchdogStale, SendLinkClose, Transmit
  <2>2. UNCHANGED <<token, established, accepting, stage, rxQueue>>
    BY <1>5 DEF FinishTeardown, WatchdogStale
  <2>3. BecomeClosed(e) BY <1>5 DEF FinishTeardown, WatchdogStale
  <2> QED BY <1>1, <2>1, <2>2, <2>3, ClosedNotPending
<1>6. CASE WatchdogPing
  <2>1. \A f \in Ends : net'[f] \subseteq net[f] \cup {"PING"}
    BY <1>0, <1>6 DEF WatchdogPing, Transmit
  <2>2. UNCHANGED <<token, established, accepting, stage, rxQueue, status>>
    BY <1>6 DEF WatchdogPing
  <2> QED BY <1>1, <2>1, <2>2
<1>7. CASE UNCHANGED vars BY <1>1, <1>7 DEF vars
<1> QED BY <1>2, <1>3, <1>4, <1>5, <1>6, <1>7, HandshakeKeyed, ReceiveKeyed DEF Next

\* An end that reports "established" has the session keys and so has its peer,
\* whatever is lost, delayed, closed or timed out meanwhile.
THEOREM EstablishedIsKeyed == Spec => []EstablishedMeansKeyed
<1>1. Init => Keyed
  BY EndFacts DEF Init, Keyed, EstablishedMeansKeyed, Enroute, Queued
<1>2. Keyed => EstablishedMeansKeyed BY DEF Keyed
<1> QED BY <1>1, <1>2, NextKeyed, TypedAlways, PTL DEF Spec

\* Both halves of LinkSafe, in every interleaving of handshake, traffic, teardown and timeouts.
THEOREM LinkSafety == Spec => []LinkSafe
<1>1. ClosedReleases /\ EstablishedMeansKeyed => LinkSafe BY DEF LinkSafe
<1> QED BY <1>1, ClosedHoldsNothing, EstablishedIsKeyed, PTL

-----------------------------------------------------------------------------
\* The connection of a stream interface.

\* A socket is being opened or the back-off loop runs only while there is no connection, by
\* one of connect() and the loop, and the interface is not closed then unless it was told to
\* disconnect; the closed event of an episode is counted by ifClosed.
ConnectionInv ==
    /\ conns \in Nat /\ writer \in {0, conns}
    /\ dial \in {"none", "pending", "aborted"} /\ loopPc \in {"off", "sleep", "dial"} /\ wire \in {"none", "up", "broken"}
    /\ reconnecting <=> loopPc # "off"
    /\ dial # "none" <=> ifApp = "dialing" \/ loopPc = "dial"
    /\ ifApp = "dialing" => loopPc = "off"
    /\ dial # "none" \/ loopPc # "off" => wire = "none"
    /\ ~detached /\ (dial # "none" \/ loopPc # "off" \/ wire # "none") => ~ifClosed
    /\ closedEvents = IF ifClosed THEN 1 ELSE 0
    /\ ifApp = "idle" => ~ifClosed /\ ~detached /\ loopPc = "off" /\ wire = "none"
    /\ ifKind = "ws" /\ detached => ~ifOnline /\ dial # "pending"

\* "closed" is dispatched once per connection, however many of disconnect(), the inbound loop
\* and the back-off loop report its end; no send uses the writer of an earlier connection; and
\* a WebSocket told to disconnect stays offline: for every class, number of tries and order
\* of dials, losses and disconnects.
THEOREM ConnectionSafety == ReconnectInit /\ [][ReconnectNext]_ifVars => []ConnectionSafe
<1>1. ReconnectInit => ConnectionInv
    BY DEF ReconnectInit, ConnectionInv
<1>2. ConnectionInv /\ [ReconnectNext]_ifVars => ConnectionInv'
  <2> SUFFICES ASSUME ConnectionInv, [ReconnectNext]_ifVars PROVE ConnectionInv'
    OBVIOUS
  <2> USE DEF ConnectionInv, ifConst, loopVars
  <2>1. ASSUME NEW class, Connect(class) PROVE ConnectionInv'
    BY <2>1 DEF Connect, Online, SetupStreams
  <2>2. ASSUME NEW class, NEW timer, DialConnects(class, timer) PROVE ConnectionInv'
    BY <2>2 DEF DialConnects, Online, SetupStreams, LoopReturns
  <2>3. ASSUME NEW class, DialFails(class) PROVE ConnectionInv'
    BY <2>3 DEF DialFails, RunReconnectLoop, LoopHead
  <2>4. ASSUME NEW class, NEW seesDial \in BOOLEAN, Disconnect(class, seesDial), class = "ws" => seesDial = TRUE PROVE ConnectionInv'
    BY <2>4 DEF Disconnect, CancelReconnect, DispatchClosed
  <2>5. ASSUME NEW class, InboundLoopEnds(class) PROVE ConnectionInv'
    BY <2>5 DEF InboundLoopEnds, HandleConnectionLost, RunReconnectLoop, LoopHead, DispatchClosed
  <2>6. CASE LoopWakes
    BY <2>6 DEF LoopWakes
  <2>7. CASE SendPacket
    BY <2>7 DEF SendPacket
  <2>8. CASE WireBreaks
    BY <2>8 DEF WireBreaks
  <2>9. CASE UNCHANGED ifVars
    BY <2>9 DEF ifVars
  <2>10. CASE TcpConnect \/ WsConnect \/ BackboneConnect \/ LocalConnect
    BY <2>1, <2>10 DEF TcpConnect, WsConnect, BackboneConnect, LocalConnect
  <2>11. CASE Establish
    BY <2>2, <2>3, <2>11 DEF Establish, TcpEstablish, WsEstablish, BackboneEstablish, LocalEstablish
  <2>12. CASE TcpDisconnect \/ WsDisconnect \/ BackboneDisconnect \/ LocalDisconnect
    BY <2>4, <2>12 DEF TcpDisconnect, WsDisconnect, BackboneDisconnect, LocalDisconnect
  <2>13. CASE InboundLoop
    BY <2>5, <2>13 DEF InboundLoop, TcpInboundLoop, WsInboundLoop, BackboneInboundLoop, LocalInboundLoop
  <2> QED
    BY <2>6, <2>7, <2>8, <2>9, <2>10, <2>11, <2>12, <2>13 DEF ReconnectNext
<1>3. ConnectionInv => ConnectionSafe
    BY DEF ConnectionInv, ConnectionSafe, ClosedOnce, WriterIsCurrent, DetachedStaysOffline
<1> QED
    BY <1>1, <1>2, <1>3, PTL

-----------------------------------------------------------------------------
\* HTTP sessions.

HttpKinds == {"none", "connect", "register", "exchange"}
HttpAnswers == {"none", "ok", "denied", "error"}
HttpRequest == [kind : HttpKinds, session : Nat, batch : Nat, answer : HttpAnswers, granted : Nat]
HttpBatch == [session : Nat, first : Nat, last : Nat, next : Nat]
HttpArrival == [batch : Nat, packet : Nat]

\* A timer that _pollTimer names is armed.
PollInv ==
    /\ posts \in [Flights -> HttpRequest]
    /\ hcSession \in Nat /\ hsIssued \in Nat /\ hcSent \in Nat
    /\ hcTimers \in Nat /\ hcHandle \in BOOLEAN /\ (hcHandle => hcTimers > 0)
    /\ PollsGoOn

\* The packets a batch stands for; batches follow one another.
WellBatched(batches, sent) ==
    /\ batches \in Seq(HttpBatch)
    /\ \A b \in DOMAIN batches : batches[b].first <= batches[b].last /\ batches[b].last <= sent
    /\ \A b, c \in DOMAIN batches : b < c => batches[b].last < batches[c].first

\* A batch is on the wire in one request until the server looks at its first packet, and what
\* has arrived of it are packets that the server has looked at.
FlowInv ==
    /\ WellBatched(hcBatches, hcSent)
    /\ \A b \in DOMAIN hcBatches : hcBatches[b].first <= hcBatches[b].next /\ hcBatches[b].next <= hcBatches[b].last + 1
    /\ \A f \in Flights : posts[f].batch # 0 => posts[f].batch \in DOMAIN hcBatches
    /\ \A f \in Flights : posts[f].batch # 0 /\ posts[f].answer = "none"
          => posts[f].batch \notin hsIngest /\ hcBatches[posts[f].batch].next = hcBatches[posts[f].batch].first
    /\ \A f, g \in Flights : f # g /\ posts[f].batch # 0 => posts[f].batch # posts[g].batch
    /\ hsIngest \subseteq DOMAIN hcBatches
    /\ \A b \in hsIngest : hcBatches[b].next <= hcBatches[b].last
    /\ hsGot \in Seq(HttpArrival)
    /\ \A i \in DOMAIN hsGot :
          /\ hsGot[i].batch \in DOMAIN hcBatches
          /\ hcBatches[hsGot[i].batch].first <= hsGot[i].packet
          /\ hsGot[i].packet < hcBatches[hsGot[i].batch].next
    /\ \A i, j \in DOMAIN hsGot : i < j /\ hsGot[i].batch = hsGot[j].batch => hsGot[i].packet < hsGot[j].packet

LEMMA PostIsRequest ==
    ASSUME NEW kind \in HttpKinds \ {"none"}, NEW session \in Nat, NEW batch \in Nat
    PROVE  Post(kind, session, batch) \in HttpRequest /\ Post(kind, session, batch) # NoPost
<1>1. PICK p : p = Post(kind, session, batch)
    OBVIOUS
<1>2. p \in HttpRequest /\ p.kind = kind
    BY <1>1 DEF Post, HttpRequest, HttpAnswers
<1>3. NoPost.kind = "none"
    BY DEF NoPost, Post
<1> QED
    BY <1>1, <1>2, <1>3

LEMMA NoPostIsRequest == NoPost \in HttpRequest
    BY DEF NoPost, Post, HttpRequest, HttpKinds, HttpAnswers

LEMMA FreeFlightIsFree == MayPost => FreeFlight \in Flights /\ posts[FreeFlight] = NoPost
    BY DEF MayPost, FreeFlight

\* A poll that starts either posts or arms a timer.
LEMMA PollStarts ==
    ASSUME NEW f \in Flights, NEW session \in Nat, NEW sent, NEW timers \in Nat, NEW handle \in BOOLEAN,
           handle => timers > 0,
           posts \in [Flights -> HttpRequest], hcBatches \in Seq(HttpBatch),
           StartPoll(f, session, sent, timers, handle)
    PROVE  /\ posts' \in [Flights -> HttpRequest]
           /\ hcTimers' \in Nat /\ hcHandle' \in BOOLEAN /\ (hcHandle' => hcTimers' > 0)
           /\ hcTimers' > 0 \/ \E g \in Flights : posts'[g] # NoPost
<1>1. CASE session = 0
  <2>1. NoPost \in HttpRequest
    BY NoPostIsRequest
  <2> QED
    BY <1>1, <2>1 DEF StartPoll
<1>2. CASE session # 0
  <2>1. PICK p \in HttpRequest : p # NoPost /\ posts' = [posts EXCEPT ![f] = p]
    <3>1. CASE sent = Taken
      <4>1. posts' = [posts EXCEPT ![f] = Post("exchange", session, 0)]
        BY <1>2, <3>1 DEF StartPoll
      <4> QED
        BY <4>1, PostIsRequest DEF HttpKinds
    <3>2. CASE sent # Taken
      <4>1. Len(hcBatches) + 1 \in Nat
        OBVIOUS
      <4>2. posts' = [posts EXCEPT ![f] = Post("exchange", session, Len(hcBatches) + 1)]
        BY <1>2, <3>2 DEF StartPoll
      <4> QED
        BY <4>1, <4>2, PostIsRequest DEF HttpKinds
    <3> QED
      BY <3>1, <3>2
  <2>2. posts'[f] # NoPost
    BY <2>1
  <2> QED
    BY <1>2, <2>1, <2>2 DEF StartPoll
<1> QED
    BY <1>1, <1>2

LEMMA PollEnds ==
    ASSUME NEW f \in Flights, PollInv, EndPoll(f), UNCHANGED hcRunning
    PROVE  /\ posts' \in [Flights -> HttpRequest]
           /\ hcTimers' \in Nat /\ hcHandle' \in BOOLEAN /\ (hcHandle' => hcTimers' > 0)
           /\ PollsGoOn'
<1>1. NoPost \in HttpRequest
    BY NoPostIsRequest
<1>2. posts' \in [Flights -> HttpRequest]
    BY <1>1 DEF EndPoll, PollInv
<1>3. CASE hcRunning
    BY <1>2, <1>3 DEF EndPoll, PollInv, PollsGoOn
<1>4. CASE ~hcRunning
    BY <1>2, <1>4 DEF EndPoll, PollInv, PollsGoOn
<1> QED
    BY <1>3, <1>4

LEMMA PollsChain == PollInv /\ FlowInv /\ [HttpNext]_httpVars => PollInv'
<1> SUFFICES ASSUME PollInv, FlowInv, [HttpNext]_httpVars PROVE PollInv'
    OBVIOUS
<1>0. /\ posts \in [Flights -> HttpRequest] /\ hcSession \in Nat /\ hsIssued \in Nat /\ hcSent \in Nat
      /\ hcTimers \in Nat /\ hcHandle \in BOOLEAN /\ (hcHandle => hcTimers > 0) /\ hcBatches \in Seq(HttpBatch)
    BY DEF PollInv, FlowInv, WellBatched
<1>a. NoPost \in HttpRequest
    BY NoPostIsRequest
\* A step that leaves the polls alone and changes one request into one.
<1>b. ASSUME NEW f \in Flights, NEW p \in HttpRequest, p # NoPost, posts' = [posts EXCEPT ![f] = p],
             UNCHANGED <<hcTimers, hcHandle>>, hcSession' \in Nat, hsIssued' \in Nat, hcSent' \in Nat
      PROVE  PollInv'
  <2>1. posts'[f] # NoPost
    BY <1>0, <1>b
  <2> QED
    BY <1>0, <1>b, <2>1 DEF PollInv, PollsGoOn
<1>1. CASE HttpConnect
  <2>1. MayPost /\ posts' = [posts EXCEPT ![FreeFlight] = Post("connect", 0, 0)]
    BY <1>1 DEF HttpConnect
  <2>2. UNCHANGED <<hcTimers, hcHandle, hcSession, hsIssued, hcSent>>
    BY <1>1 DEF HttpConnect, pollVars, hsVars
  <2>3. Post("connect", 0, 0) \in HttpRequest /\ Post("connect", 0, 0) # NoPost
    BY PostIsRequest DEF HttpKinds
  <2> QED
    BY <1>0, <1>b, <2>1, <2>2, <2>3, FreeFlightIsFree
<1>2. ASSUME NEW f \in Flights, Connected(f) PROVE PollInv'
  <2>1. posts[f].granted \in Nat /\ UNCHANGED <<hcRunning, hcSent, hsIssued>> /\ hcSession' \in Nat
    BY <1>0, <1>2 DEF Connected, HttpRequest, hsVars
  <2>2. CASE hcRunning
    <3>1. StartPoll(f, posts[f].granted, hcSent, hcTimers, hcHandle)
      BY <1>2, <2>2 DEF Connected
    <3> QED
      BY <1>0, <2>1, <2>2, <3>1, PollStarts DEF PollInv, PollsGoOn
  <2>3. CASE ~hcRunning
    BY <1>0, <1>2, <1>a, <2>1, <2>3 DEF Connected, pollVars, PollInv, PollsGoOn
  <2> QED
    BY <2>2, <2>3
<1>3. ASSUME NEW f \in Flights, ConnectFails(f) PROVE PollInv'
    BY <1>0, <1>a, <1>3 DEF ConnectFails, pollVars, hsVars, PollInv, PollsGoOn
<1>4. ASSUME NEW f \in Flights, Reregistered(f) PROVE PollInv'
  <2>1. hcSession' \in Nat /\ UNCHANGED <<hcRunning, hcSent, hsIssued>> /\ EndPoll(f)
    BY <1>0, <1>4 DEF Reregistered, HttpRequest, hsVars
  <2> QED
    BY <1>0, <2>1, PollEnds DEF PollInv
<1>5. ASSUME NEW f \in Flights, ExchangeAnswered(f) PROVE PollInv'
  <2>1. UNCHANGED <<hcRunning, hcSent, hsIssued>>
    BY <1>5 DEF ExchangeAnswered, hsVars
  <2>2. CASE posts[f].answer = "denied"
    <3>1. posts' = [posts EXCEPT ![f] = Post("register", 0, 0)] /\ hcSession' = 0 /\ UNCHANGED <<hcTimers, hcHandle>>
      BY <1>5, <2>2 DEF ExchangeAnswered
    <3>2. Post("register", 0, 0) \in HttpRequest /\ Post("register", 0, 0) # NoPost
      BY PostIsRequest DEF HttpKinds
    <3> QED
      BY <1>0, <1>b, <2>1, <3>1, <3>2
  <2>3. CASE posts[f].answer # "denied"
    <3>1. EndPoll(f) /\ UNCHANGED hcSession
      BY <1>5, <2>3 DEF ExchangeAnswered
    <3> QED
      BY <1>0, <2>1, <3>1, PollEnds DEF PollInv
  <2> QED
    BY <2>2, <2>3
<1>6. CASE PollTimer
  <2>1. hcTimers > 0 /\ UNCHANGED <<hcRunning, hcSession, hcSent, hsIssued>>
    BY <1>6 DEF PollTimer, hsVars
  <2>2. PICK named \in BOOLEAN :
          /\ IF named THEN hcHandle ELSE hcHandle => hcTimers > 1
          /\ IF hcRunning
             THEN MayPost /\ StartPoll(FreeFlight, hcSession, hcSent, hcTimers - 1, hcHandle /\ ~named)
             ELSE hcTimers' = hcTimers - 1 /\ hcHandle' = (hcHandle /\ ~named) /\ UNCHANGED <<hcBatches, hcPolling, posts>>
    BY <1>6 DEF PollTimer
  <2>3. hcTimers - 1 \in Nat /\ (hcHandle /\ ~named) \in BOOLEAN /\ ((hcHandle /\ ~named) => hcTimers - 1 > 0)
    BY <1>0, <2>1, <2>2
  <2>4. CASE hcRunning
    BY <1>0, <2>1, <2>2, <2>3, <2>4, PollStarts, FreeFlightIsFree DEF PollInv, PollsGoOn
  <2>5. CASE ~hcRunning
    BY <1>0, <2>1, <2>2, <2>3, <2>5 DEF PollInv, PollsGoOn
  <2> QED
    BY <2>4, <2>5
<1>7. CASE PushOutbound
  <2>1. hcSent' \in Nat /\ UNCHANGED <<hcRunning, hcSession, hsIssued>>
    BY <1>0, <1>7 DEF PushOutbound, hsVars
  <2>2. CASE hcRunning /\ ~hcPolling
    <3>1. PICK timers : timers = (IF hcHandle THEN hcTimers - 1 ELSE hcTimers)
      OBVIOUS
    <3>2. MayPost /\ StartPoll(FreeFlight, hcSession, hcSent + 1, timers, FALSE)
      BY <1>7, <2>2, <3>1 DEF PushOutbound
    <3>3. timers \in Nat
      BY <1>0, <3>1
    <3> QED
      BY <1>0, <2>1, <2>2, <3>2, <3>3, PollStarts, FreeFlightIsFree DEF PollInv, PollsGoOn
  <2>3. CASE ~(hcRunning /\ ~hcPolling)
    <3>1. UNCHANGED <<hcTimers, hcHandle, posts>>
      BY <1>7, <2>3 DEF PushOutbound, pollVars
    <3> QED
      BY <1>0, <2>1, <3>1 DEF PollInv, PollsGoOn
  <2> QED
    BY <2>2, <2>3
<1>8. CASE HttpDisconnect
  <2>1. /\ hcRunning' = FALSE /\ hcSession' = 0 /\ UNCHANGED <<hcSent, posts, hsIssued>>
        /\ hcTimers' = (IF hcHandle THEN hcTimers - 1 ELSE hcTimers) /\ hcHandle' = FALSE
    BY <1>8 DEF HttpDisconnect, hsVars
  <2>2. hcTimers' \in Nat
    BY <1>0, <2>1
  <2> QED
    BY <1>0, <2>1, <2>2 DEF PollInv, PollsGoOn
<1>9. ASSUME NEW f \in Flights, HandleRegister(f) PROVE PollInv'
  <2>1. UNCHANGED hcVars /\ hsIssued' = hsIssued + 1
    BY <1>9 DEF HandleRegister
  <2>a. PICK answer \in {"ok", "error"} :
          posts' = [posts EXCEPT ![f] = [posts[f] EXCEPT !.answer = answer, !.granted = hsIssued + 1]]
    BY <1>0, <1>9 DEF HandleRegister
  <2>2. PICK p : posts' = [posts EXCEPT ![f] = p] /\ p \in HttpRequest /\ p.kind = posts[f].kind
    <3>1. PICK p : p = [posts[f] EXCEPT !.answer = answer, !.granted = hsIssued + 1]
      OBVIOUS
    <3>2. posts[f] \in HttpRequest /\ hsIssued + 1 \in Nat /\ answer \in HttpAnswers
      BY <1>0, <2>a DEF HttpAnswers
    <3>3. p \in HttpRequest /\ p.kind = posts[f].kind
      BY <3>1, <3>2 DEF HttpRequest
    <3> QED
      BY <2>a, <3>1, <3>3
  <2>3. p # NoPost
    BY <1>9, <2>2 DEF HandleRegister, OnWire, NoPost, Post
  <2>4. hsIssued' \in Nat /\ UNCHANGED <<hcTimers, hcHandle, hcSession, hcSent>>
    BY <1>0, <2>1 DEF hcVars
  <2> QED
    BY <1>0, <1>b, <2>2, <2>3, <2>4
<1>10. ASSUME NEW f \in Flights, HandleExchange(f) \/ RequestFails(f) PROVE PollInv'
  <2>1. UNCHANGED <<hcVars, hsIssued>> /\ posts[f].kind # "none" /\ \E answer \in {"ok", "error", "denied"} : posts' = [posts EXCEPT ![f] = [@ EXCEPT !.answer = answer]]
    BY <1>10 DEF HandleExchange, RequestFails, OnWire, hsVars
  <2>2. PICK p : posts' = [posts EXCEPT ![f] = p] /\ p \in HttpRequest /\ p.kind = posts[f].kind
    BY <1>0, <2>1 DEF HttpRequest, HttpAnswers
  <2>3. p # NoPost
    BY <2>1, <2>2 DEF NoPost, Post
  <2> QED
    BY <1>0, <1>b, <2>1, <2>2, <2>3 DEF hcVars
<1>11. ASSUME UNCHANGED <<hcRunning, hcSession, hcSent, hcTimers, hcHandle, posts, hsIssued>> PROVE PollInv'
    BY <1>0, <1>11 DEF PollInv, PollsGoOn
<1>12. ASSUME NEW b, IngestNext(b) PROVE PollInv'
    BY <1>11, <1>12 DEF IngestNext
<1>13. ASSUME NEW s, PeerWrite(s) \/ Reap(s) PROVE PollInv'
    BY <1>11, <1>13 DEF PeerWrite, Reap, hcVars
<1>14. CASE ServerDisconnect \/ UNCHANGED httpVars
    BY <1>11, <1>14 DEF ServerDisconnect, hcVars, httpVars
<1> QED
    BY <1>1, <1>2, <1>3, <1>4, <1>5, <1>6, <1>7, <1>8, <1>9, <1>10, <1>12, <1>13, <1>14 DEF HttpNext, ClientStep, ServerStep

LEMMA BatchNats ==
    ASSUME NEW r \in HttpBatch
    PROVE  r.session \in Nat /\ r.first \in Nat /\ r.last \in Nat /\ r.next \in Nat
    BY DEF HttpBatch

LEMMA ArrivedNats ==
    ASSUME NEW got \in Seq(HttpArrival), NEW i \in DOMAIN got
    PROVE  got[i].batch \in Nat /\ got[i].packet \in Nat
<1>1. got[i] \in HttpArrival
    OBVIOUS
<1> QED
    BY <1>1 DEF HttpArrival

\* A splice leaves the batches in order, whatever was sent since the last one.
LEMMA Splices ==
    ASSUME hcSent \in Nat, WellBatched(hcBatches, hcSent), NEW session \in Nat, NEW n \in Nat, hcSent <= n, n # Taken,
           hcBatches' = Append(hcBatches, TakenBatch(session, n))
    PROVE  /\ WellBatched(hcBatches', n) /\ Len(hcBatches') = Len(hcBatches) + 1
           /\ \A b \in DOMAIN hcBatches : b \in DOMAIN hcBatches' /\ hcBatches'[b] = hcBatches[b]
           /\ \A b \in DOMAIN hcBatches' :
                 b \in DOMAIN hcBatches \/ (b = Len(hcBatches) + 1 /\ hcBatches'[b].next = hcBatches'[b].first)
<1> USE HttpAssumption
<1>0. PICK bs : bs = hcBatches'
    OBVIOUS
<1>1. PICK t : t = TakenBatch(session, n)
    OBVIOUS
<1>2. PICK k \in Nat : k = Len(hcBatches) /\ DOMAIN hcBatches = 1..k
    BY DEF WellBatched
<1>3. Taken \in Nat /\ Taken <= hcSent /\ \A b \in DOMAIN hcBatches : hcBatches[b].last <= Taken
  <2>1. CASE hcBatches = << >>
    BY <2>1 DEF Taken, WellBatched
  <2>2. CASE hcBatches # << >>
    <3>1. k \in DOMAIN hcBatches /\ Taken = hcBatches[k].last
      BY <1>2, <2>2 DEF Taken, WellBatched
    <3>2. \A b \in DOMAIN hcBatches : hcBatches[b] \in HttpBatch
      BY DEF WellBatched
    <3>3. Taken \in Nat /\ Taken <= hcSent
      BY <3>1, <3>2 DEF WellBatched, HttpBatch
    <3>4. ASSUME NEW b \in DOMAIN hcBatches PROVE hcBatches[b].last <= Taken
      <4>1. CASE b = k
        BY <3>1, <3>3, <4>1
      <4>2. CASE b # k
        <5>1. b < k
          BY <1>2, <4>2
        <5>2. hcBatches[b].last < hcBatches[k].first /\ hcBatches[k].first <= hcBatches[k].last
          BY <3>1, <5>1 DEF WellBatched
        <5> QED
          BY <3>1, <3>2, <5>2 DEF HttpBatch
      <4> QED
        BY <4>1, <4>2
    <3> QED
      BY <3>3, <3>4
  <2> QED
    BY <2>1, <2>2
<1>4. Taken < n
    BY <1>3
<1>5. t \in HttpBatch /\ t.first = Taken + 1 /\ t.next = t.first /\ t.first <= t.last /\ t.last <= n
    BY <1>1, <1>3, <1>4 DEF TakenBatch, HttpBatch
<1>6. /\ bs \in Seq(HttpBatch) /\ Len(bs) = k + 1 /\ DOMAIN bs = 1..(k + 1)
      /\ bs[k + 1] = t /\ \A b \in 1..k : bs[b] = hcBatches[b]
    BY <1>0, <1>1, <1>2, <1>5 DEF WellBatched
<1>7. ASSUME NEW b \in DOMAIN bs PROVE bs[b].first <= bs[b].last /\ bs[b].last <= n
  <2>1. CASE b \in 1..k
    <3>1. hcBatches[b] \in HttpBatch /\ hcBatches[b].first <= hcBatches[b].last /\ hcBatches[b].last <= hcSent
      BY <1>2, <2>1 DEF WellBatched
    <3> QED
      BY <1>6, <2>1, <3>1, BatchNats
  <2>2. CASE b = k + 1
    BY <1>5, <1>6, <2>2
  <2> QED
    BY <1>6, <2>1, <2>2
<1>8. ASSUME NEW b \in DOMAIN bs, NEW c \in DOMAIN bs, b < c PROVE bs[b].last < bs[c].first
  <2>1. b \in 1..k /\ bs[b] = hcBatches[b]
    BY <1>6, <1>8
  <2>2. CASE c \in 1..k
    BY <1>2, <1>6, <1>8, <2>1, <2>2 DEF WellBatched
  <2>3. CASE c = k + 1
    <3>1. hcBatches[b] \in HttpBatch /\ hcBatches[b].last <= Taken
      BY <1>2, <1>3, <2>1 DEF WellBatched
    <3> QED
      BY <1>3, <1>5, <1>6, <2>1, <2>3, <3>1, BatchNats
  <2> QED
    BY <1>6, <2>2, <2>3
<1>9. WellBatched(bs, n)
    BY <1>6, <1>7, <1>8 DEF WellBatched
<1> QED
    BY <1>0, <1>2, <1>5, <1>6, <1>9

\* A request that carries no batch of its own, or one that has been answered.
LEMMA PostFlows ==
    ASSUME FlowInv, PollInv, NEW f \in Flights, NEW p,
           p.batch = 0 \/ (p.batch = posts[f].batch /\ p.answer # "none"),
           posts' = [posts EXCEPT ![f] = p], UNCHANGED <<hcSent, hcBatches, hsIngest, hsGot>>
    PROVE  FlowInv'
<1>1. \A g \in Flights : posts'[g] = IF g = f THEN p ELSE posts[g]
    BY DEF PollInv
<1> QED
    BY <1>1 DEF FlowInv, WellBatched

\* A poll puts the head of the queue on the wire, or nothing.
LEMMA PollFlows ==
    ASSUME FlowInv, PollInv, NEW f \in Flights, NEW session \in Nat, NEW n \in Nat, NEW timers, NEW handle,
           StartPoll(f, session, n, timers, handle), hcSent' = n, hcSent <= n, UNCHANGED <<hsIngest, hsGot>>
    PROVE  FlowInv'
<1>0. WellBatched(hcBatches, n)
  <2>1. \A b \in DOMAIN hcBatches : hcBatches[b].last \in Nat
    <3>1. \A b \in DOMAIN hcBatches : hcBatches[b] \in HttpBatch
      BY DEF FlowInv, WellBatched
    <3> QED
      BY <3>1, BatchNats
  <2> QED
    BY <2>1 DEF FlowInv, WellBatched, PollInv
<1>1. ASSUME NEW p, p.batch = 0, posts' = [posts EXCEPT ![f] = p], UNCHANGED hcBatches PROVE FlowInv'
  <2>1. \A g \in Flights : posts'[g] = IF g = f THEN p ELSE posts[g]
    BY <1>1 DEF PollInv
  <2>2. WellBatched(hcBatches, hcSent)'
    BY <1>0, <1>1
  <2> QED
    BY <1>1, <2>1, <2>2 DEF FlowInv
<1>2. CASE session = 0
  <2>1. posts' = [posts EXCEPT ![f] = NoPost] /\ UNCHANGED hcBatches
    BY <1>2 DEF StartPoll
  <2> QED
    BY <1>1, <2>1 DEF NoPost, Post
<1>3. CASE session # 0 /\ n = Taken
  <2>1. posts' = [posts EXCEPT ![f] = Post("exchange", session, 0)] /\ UNCHANGED hcBatches
    BY <1>3 DEF StartPoll
  <2> QED
    BY <1>1, <2>1 DEF Post
<1>4. CASE session # 0 /\ n # Taken
  <2>1. /\ hcBatches' = Append(hcBatches, TakenBatch(session, n))
        /\ posts' = [posts EXCEPT ![f] = Post("exchange", session, Len(hcBatches) + 1)]
    BY <1>4 DEF StartPoll
  <2>2. PICK k \in Nat : k = Len(hcBatches) /\ DOMAIN hcBatches = 1..k
    BY DEF FlowInv, WellBatched
  <2>3. /\ WellBatched(hcBatches, hcSent)' /\ Len(hcBatches') = k + 1
        /\ \A b \in DOMAIN hcBatches : b \in DOMAIN hcBatches' /\ hcBatches'[b] = hcBatches[b]
        /\ \A b \in DOMAIN hcBatches' : b \in DOMAIN hcBatches \/ (b = k + 1 /\ hcBatches'[b].next = hcBatches'[b].first)
    <3>1. hcSent \in Nat /\ WellBatched(hcBatches, hcSent)
      BY DEF FlowInv, PollInv
    <3>2. /\ WellBatched(hcBatches', n) /\ Len(hcBatches') = Len(hcBatches) + 1
          /\ \A b \in DOMAIN hcBatches : b \in DOMAIN hcBatches' /\ hcBatches'[b] = hcBatches[b]
          /\ \A b \in DOMAIN hcBatches' :
                b \in DOMAIN hcBatches \/ (b = Len(hcBatches) + 1 /\ hcBatches'[b].next = hcBatches'[b].first)
      BY <1>4, <2>1, <3>1, Splices
    <3> QED
      BY <2>2, <3>2
  <2>4. \A g \in Flights : posts'[g].batch = IF g = f THEN k + 1 ELSE posts[g].batch
    BY <2>1, <2>2 DEF PollInv, Post
  <2>5. \A g \in Flights : g # f => posts'[g] = posts[g]
    BY <2>1 DEF PollInv
  <2>6. k + 1 \in DOMAIN hcBatches' /\ k + 1 \notin DOMAIN hcBatches /\ k + 1 # 0
    BY <2>2, <2>3 DEF WellBatched
  <2>7. hcBatches'[k + 1].next = hcBatches'[k + 1].first /\ hcBatches'[k + 1] \in HttpBatch
        /\ hcBatches'[k + 1].first <= hcBatches'[k + 1].last
    BY <2>3, <2>6 DEF WellBatched
  <2>8. \A b \in DOMAIN hcBatches' : hcBatches'[b].first <= hcBatches'[b].next /\ hcBatches'[b].next <= hcBatches'[b].last + 1
    BY <2>3, <2>7 DEF FlowInv, HttpBatch
  <2>9. \A g \in Flights : posts'[g].batch # 0 => posts'[g].batch \in DOMAIN hcBatches'
    BY <2>3, <2>4, <2>6 DEF FlowInv
  <2>10. ASSUME NEW g \in Flights, posts'[g].batch # 0, posts'[g].answer = "none"
         PROVE  posts'[g].batch \notin hsIngest' /\ hcBatches'[posts'[g].batch].next = hcBatches'[posts'[g].batch].first
    <3>1. CASE g = f
      BY <2>4, <2>6, <2>7, <3>1 DEF FlowInv
    <3>2. CASE g # f
      BY <2>3, <2>5, <2>10, <3>2 DEF FlowInv
    <3> QED
      BY <3>1, <3>2
  <2>11. ASSUME NEW g \in Flights, NEW h \in Flights, g # h, posts'[g].batch # 0 PROVE posts'[g].batch # posts'[h].batch
    BY <2>4, <2>6, <2>11 DEF FlowInv
  <2>12. hsIngest' \subseteq DOMAIN hcBatches' /\ \A b \in hsIngest' : hcBatches'[b].next <= hcBatches'[b].last
    BY <2>3 DEF FlowInv
  <2>13. /\ hsGot' \in Seq(HttpArrival)
         /\ \A i \in DOMAIN hsGot' :
              /\ hsGot'[i].batch \in DOMAIN hcBatches'
              /\ hcBatches'[hsGot'[i].batch].first <= hsGot'[i].packet
              /\ hsGot'[i].packet < hcBatches'[hsGot'[i].batch].next
         /\ \A i, j \in DOMAIN hsGot' : i < j /\ hsGot'[i].batch = hsGot'[j].batch => hsGot'[i].packet < hsGot'[j].packet
    BY <2>3 DEF FlowInv
  <2> QED
    BY <2>3, <2>8, <2>9, <2>10, <2>11, <2>12, <2>13 DEF FlowInv
<1> QED
    BY <1>2, <1>3, <1>4

\* The server looks at one more packet of a batch, and may receive it.
LEMMA IngestFlows == ASSUME FlowInv, PollInv, NEW b, IngestNext(b) PROVE FlowInv'
<1>1. /\ b \in hsIngest /\ b \in DOMAIN hcBatches /\ hcBatches[b].next <= hcBatches[b].last
      /\ UNCHANGED <<hcSent, posts>> /\ hcBatches \in Seq(HttpBatch)
    BY DEF IngestNext, FlowInv, WellBatched
<1>2. PICK k \in Nat : k = Len(hcBatches) /\ DOMAIN hcBatches = 1..k
    BY <1>1
<1>3. \A c \in DOMAIN hcBatches : hcBatches[c] \in HttpBatch
    BY <1>1
<1>4. PICK t : t = [hcBatches[b] EXCEPT !.next = hcBatches[b].next + 1]
    OBVIOUS
<1>5. t \in HttpBatch /\ t.next = hcBatches[b].next + 1 /\ t.first = hcBatches[b].first /\ t.last = hcBatches[b].last
  <2>1. hcBatches[b] \in HttpBatch /\ hcBatches[b].next + 1 \in Nat
    BY <1>1, <1>3, BatchNats
  <2> QED
    BY <1>4, <2>1 DEF HttpBatch
<1>6. hcBatches' = [hcBatches EXCEPT ![b] = t]
    BY <1>4 DEF IngestNext
<1>7. /\ hcBatches' \in Seq(HttpBatch) /\ DOMAIN hcBatches' = DOMAIN hcBatches
      /\ \A c \in DOMAIN hcBatches : hcBatches'[c] = IF c = b THEN t ELSE hcBatches[c]
    BY <1>1, <1>5, <1>6
<1>8. \A c \in DOMAIN hcBatches : hcBatches'[c].first = hcBatches[c].first /\ hcBatches'[c].last = hcBatches[c].last
    BY <1>5, <1>7
<1>9. WellBatched(hcBatches, hcSent)'
    BY <1>1, <1>7, <1>8 DEF FlowInv, WellBatched
<1>10. hcBatches[b].next \in Nat /\ hcBatches[b].first \in Nat /\ hcBatches[b].last \in Nat
    BY <1>1, <1>3, BatchNats
<1>11. \A c \in DOMAIN hcBatches' : hcBatches'[c].first <= hcBatches'[c].next /\ hcBatches'[c].next <= hcBatches'[c].last + 1
  <2>1. t.first <= t.next /\ t.next <= t.last + 1
    BY <1>1, <1>5, <1>10 DEF FlowInv
  <2> QED
    BY <1>7, <2>1 DEF FlowInv
<1>12. \A f \in Flights : posts'[f].batch # 0 /\ posts'[f].answer = "none"
          => posts'[f].batch \notin hsIngest' /\ hcBatches'[posts'[f].batch].next = hcBatches'[posts'[f].batch].first
  <2>1. hsIngest' \subseteq hsIngest
    BY DEF IngestNext
  <2> QED
    BY <1>1, <1>7, <2>1 DEF FlowInv
<1>13. hsIngest' \subseteq DOMAIN hcBatches' /\ \A c \in hsIngest' : hcBatches'[c].next <= hcBatches'[c].last
  <2>1. hsIngest' = IF hcBatches[b].next = hcBatches[b].last THEN hsIngest \ {b} ELSE hsIngest
    BY DEF IngestNext
  <2> QED
    BY <1>1, <1>5, <1>7, <1>10, <2>1 DEF FlowInv
<1>14. /\ \A i \in DOMAIN hsGot :
            /\ hsGot[i].batch \in DOMAIN hcBatches'
            /\ hcBatches'[hsGot[i].batch].first <= hsGot[i].packet
            /\ hsGot[i].packet < hcBatches'[hsGot[i].batch].next
  <2>1. SUFFICES ASSUME NEW i \in DOMAIN hsGot PROVE
            /\ hsGot[i].batch \in DOMAIN hcBatches'
            /\ hcBatches'[hsGot[i].batch].first <= hsGot[i].packet
            /\ hsGot[i].packet < hcBatches'[hsGot[i].batch].next
    OBVIOUS
  <2>2. /\ hsGot[i].batch \in DOMAIN hcBatches /\ hcBatches[hsGot[i].batch].first <= hsGot[i].packet
        /\ hsGot[i].packet < hcBatches[hsGot[i].batch].next
    BY DEF FlowInv
  <2>3. hsGot[i].packet \in Nat
    BY ArrivedNats DEF FlowInv
  <2> QED
    BY <1>5, <1>7, <1>8, <1>10, <2>2, <2>3
<1>15. PICK e : e = [batch |-> b, packet |-> hcBatches[b].next]
    OBVIOUS
<1>16. e \in HttpArrival /\ e.batch = b /\ e.packet = hcBatches[b].next
    BY <1>1, <1>2, <1>10, <1>15 DEF HttpArrival
<1>17. hsGot' = hsGot \/ hsGot' = Append(hsGot, e)
    BY <1>15 DEF IngestNext
<1>18. CASE hsGot' = hsGot
    BY <1>1, <1>7, <1>9, <1>11, <1>12, <1>13, <1>14, <1>18 DEF FlowInv
<1>19. CASE hsGot' = Append(hsGot, e)
  <2>1. PICK m \in Nat : m = Len(hsGot) /\ DOMAIN hsGot = 1..m /\ hsGot \in Seq(HttpArrival)
    BY DEF FlowInv
  <2>2. /\ hsGot' \in Seq(HttpArrival) /\ DOMAIN hsGot' = 1..(m + 1) /\ hsGot'[m + 1] = e
        /\ \A i \in 1..m : hsGot'[i] = hsGot[i]
    BY <1>16, <1>19, <2>1
  <2>3. /\ e.batch \in DOMAIN hcBatches' /\ hcBatches'[e.batch].first <= e.packet /\ e.packet < hcBatches'[e.batch].next
    BY <1>1, <1>5, <1>7, <1>10, <1>16 DEF FlowInv
  <2>4. \A i \in DOMAIN hsGot' :
            /\ hsGot'[i].batch \in DOMAIN hcBatches'
            /\ hcBatches'[hsGot'[i].batch].first <= hsGot'[i].packet
            /\ hsGot'[i].packet < hcBatches'[hsGot'[i].batch].next
    <3>1. SUFFICES ASSUME NEW i \in DOMAIN hsGot' PROVE
            /\ hsGot'[i].batch \in DOMAIN hcBatches'
            /\ hcBatches'[hsGot'[i].batch].first <= hsGot'[i].packet
            /\ hsGot'[i].packet < hcBatches'[hsGot'[i].batch].next
      OBVIOUS
    <3>2. CASE i \in DOMAIN hsGot
      <4>1. hsGot'[i] = hsGot[i]
        BY <2>1, <2>2, <3>2
      <4> QED
        BY <1>14, <3>2, <4>1
    <3>3. CASE i = m + 1
      BY <2>2, <2>3, <3>3
    <3> QED
      BY <2>1, <2>2, <3>1, <3>2, <3>3
  <2>5. ASSUME NEW i \in DOMAIN hsGot', NEW j \in DOMAIN hsGot', i < j, hsGot'[i].batch = hsGot'[j].batch
        PROVE  hsGot'[i].packet < hsGot'[j].packet
    <3>0. i \in 1..(m + 1) /\ j \in 1..(m + 1)
      BY <2>2
    <3>a. i \in 1..m
      BY <2>5, <3>0
    <3>1. i \in 1..m /\ hsGot'[i] = hsGot[i]
      BY <2>2, <3>a
    <3>2. CASE j \in 1..m
      BY <2>1, <2>2, <2>5, <3>1, <3>2 DEF FlowInv
    <3>3. CASE j = m + 1
      <4>1. hsGot[i].batch = b /\ hsGot[i].packet < hcBatches[hsGot[i].batch].next
        BY <1>16, <2>1, <2>2, <2>5, <3>1, <3>3 DEF FlowInv
      <4> QED
        BY <1>16, <2>2, <3>1, <3>3, <4>1
    <3> QED
      BY <2>2, <3>2, <3>3
  <2> QED
    BY <1>1, <1>7, <1>9, <1>11, <1>12, <1>13, <2>2, <2>4, <2>5 DEF FlowInv
<1> QED
    BY <1>17, <1>18, <1>19

LEMMA HttpFlows == FlowInv /\ PollInv /\ [HttpNext]_httpVars => FlowInv'
<1> SUFFICES ASSUME FlowInv, PollInv, [HttpNext]_httpVars PROVE FlowInv'
    OBVIOUS
<1>0. hcSession \in Nat /\ hcSent \in Nat /\ \A f \in Flights : posts[f].granted \in Nat
    BY DEF PollInv, HttpRequest
<1>a. NoPost.batch = 0 /\ \A kind : Post(kind, 0, 0).batch = 0
    BY DEF NoPost, Post
<1>1. ASSUME UNCHANGED <<hcSent, hcBatches, posts, hsIngest, hsGot>> PROVE FlowInv'
    BY <1>1 DEF FlowInv, WellBatched
<1>2. CASE HttpConnect
  <2>1. MayPost /\ posts' = [posts EXCEPT ![FreeFlight] = Post("connect", 0, 0)] /\ UNCHANGED <<hcSent, hcBatches, hsIngest, hsGot>>
    BY <1>2 DEF HttpConnect, pollVars, hsVars
  <2> QED
    BY <1>a, <2>1, PostFlows, FreeFlightIsFree
<1>3. ASSUME NEW f \in Flights, Connected(f) PROVE FlowInv'
  <2>1. UNCHANGED <<hcSent, hsIngest, hsGot>>
    BY <1>3 DEF Connected, hsVars
  <2>2. CASE hcRunning
    <3>1. StartPoll(f, posts[f].granted, hcSent, hcTimers, hcHandle)
      BY <1>3, <2>2 DEF Connected
    <3>2. hcSent' = hcSent /\ hcSent <= hcSent /\ posts[f].granted \in Nat
      BY <1>0, <2>1
    <3> QED
      BY <1>0, <2>1, <3>1, <3>2, PollFlows
  <2>3. CASE ~hcRunning
    <3>1. posts' = [posts EXCEPT ![f] = NoPost] /\ UNCHANGED hcBatches
      BY <1>3, <2>3 DEF Connected, pollVars
    <3> QED
      BY <1>a, <2>1, <3>1, PostFlows
  <2> QED
    BY <2>2, <2>3
<1>4. ASSUME NEW f \in Flights, ConnectFails(f) \/ Reregistered(f) PROVE FlowInv'
  <2>1. posts' = [posts EXCEPT ![f] = NoPost] /\ UNCHANGED <<hcSent, hcBatches, hsIngest, hsGot>>
    BY <1>4 DEF ConnectFails, Reregistered, EndPoll, pollVars, hsVars
  <2> QED
    BY <1>a, <2>1, PostFlows
<1>5. ASSUME NEW f \in Flights, ExchangeAnswered(f) PROVE FlowInv'
  <2>1. UNCHANGED <<hcSent, hcBatches, hsIngest, hsGot>>
    BY <1>5 DEF ExchangeAnswered, hsVars
  <2>2. posts' = [posts EXCEPT ![f] = Post("register", 0, 0)] \/ posts' = [posts EXCEPT ![f] = NoPost]
    BY <1>5 DEF ExchangeAnswered, EndPoll
  <2> QED
    BY <1>a, <2>1, <2>2, PostFlows
<1>6. CASE PollTimer
  <2>1. UNCHANGED <<hcSent, hsIngest, hsGot>>
    BY <1>6 DEF PollTimer, hsVars
  <2>2. CASE hcRunning
    <3>1. PICK named \in BOOLEAN : MayPost /\ StartPoll(FreeFlight, hcSession, hcSent, hcTimers - 1, hcHandle /\ ~named)
      BY <1>6, <2>2 DEF PollTimer
    <3>2. hcSent' = hcSent /\ hcSent <= hcSent /\ FreeFlight \in Flights
      BY <1>0, <2>1, <3>1, FreeFlightIsFree
    <3> QED
      BY <1>0, <2>1, <3>1, <3>2, PollFlows
  <2>3. CASE ~hcRunning
    BY <1>1, <1>6, <2>1, <2>3 DEF PollTimer
  <2> QED
    BY <2>2, <2>3
<1>7. CASE PushOutbound
  <2>1. hcSent' = hcSent + 1 /\ UNCHANGED <<hsIngest, hsGot>>
    BY <1>7 DEF PushOutbound, hsVars
  <2>2. CASE hcRunning /\ ~hcPolling
    <3>1. PICK timers : MayPost /\ StartPoll(FreeFlight, hcSession, hcSent + 1, timers, FALSE)
      BY <1>7, <2>2 DEF PushOutbound
    <3>2. PICK n \in Nat : n = hcSent + 1 /\ hcSent <= n /\ hcSent' = n /\ FreeFlight \in Flights
      BY <1>0, <2>1, <3>1, FreeFlightIsFree
    <3>3. StartPoll(FreeFlight, hcSession, n, timers, FALSE)
      BY <3>1, <3>2
    <3> QED
      BY <1>0, <2>1, <3>2, <3>3, PollFlows
  <2>3. CASE ~(hcRunning /\ ~hcPolling)
    <3>1. UNCHANGED <<hcBatches, posts>>
      BY <1>7, <2>3 DEF PushOutbound, pollVars
    <3>2. \A c \in DOMAIN hcBatches : hcBatches[c].last \in Nat
      <4>1. \A c \in DOMAIN hcBatches : hcBatches[c] \in HttpBatch
        BY DEF FlowInv, WellBatched
      <4> QED
        BY <4>1, BatchNats
    <3>3. WellBatched(hcBatches, hcSent)'
      BY <1>0, <2>1, <3>1, <3>2 DEF FlowInv, WellBatched
    <3> QED
      BY <2>1, <3>1, <3>3 DEF FlowInv
  <2> QED
    BY <2>2, <2>3
<1>8. ASSUME NEW f \in Flights, HandleRegister(f) \/ RequestFails(f) PROVE FlowInv'
  <2>1. UNCHANGED <<hcSent, hcBatches, hsIngest, hsGot>>
    BY <1>8 DEF HandleRegister, RequestFails, hcVars, hsVars
  <2>2. PICK p : posts' = [posts EXCEPT ![f] = p] /\ p.batch = posts[f].batch /\ p.answer # "none"
    <3>1. posts[f] \in HttpRequest
      BY DEF PollInv
    <3>2. CASE HandleRegister(f)
      <4>1. PICK answer \in {"ok", "error"} :
              posts' = [posts EXCEPT ![f] = [posts[f] EXCEPT !.answer = answer, !.granted = hsIssued + 1]]
        BY <3>2 DEF HandleRegister
      <4>2. PICK p : p = [posts[f] EXCEPT !.answer = answer, !.granted = hsIssued + 1]
        OBVIOUS
      <4>3. p.batch = posts[f].batch /\ p.answer # "none"
        BY <3>1, <4>1, <4>2 DEF HttpRequest
      <4> QED
        BY <4>1, <4>2, <4>3
    <3>3. CASE RequestFails(f)
      <4>1. posts' = [posts EXCEPT ![f] = [posts[f] EXCEPT !.answer = "error"]]
        BY <3>3 DEF RequestFails
      <4>2. PICK p : p = [posts[f] EXCEPT !.answer = "error"]
        OBVIOUS
      <4>3. p.batch = posts[f].batch /\ p.answer # "none"
        BY <3>1, <4>2 DEF HttpRequest
      <4> QED
        BY <4>1, <4>2, <4>3
    <3> QED
      BY <1>8, <3>2, <3>3
  <2> QED
    BY <2>1, <2>2, PostFlows
<1>9. ASSUME NEW f \in Flights, HandleExchange(f) PROVE FlowInv'
  <2>1. UNCHANGED <<hcSent, hcBatches, hsGot>> /\ posts[f].answer = "none"
    BY <1>9 DEF HandleExchange, OnWire, hcVars
  <2>2. PICK p : posts' = [posts EXCEPT ![f] = p] /\ p.batch = posts[f].batch /\ p.answer # "none"
    <3>1. posts[f] \in HttpRequest
      BY DEF PollInv
    <3>2. PICK answer \in {"ok", "error", "denied"} : posts' = [posts EXCEPT ![f] = [posts[f] EXCEPT !.answer = answer]]
      BY <1>9 DEF HandleExchange
    <3>3. PICK p : p = [posts[f] EXCEPT !.answer = answer]
      OBVIOUS
    <3>4. p.batch = posts[f].batch /\ p.answer # "none"
      BY <3>1, <3>2, <3>3 DEF HttpRequest
    <3> QED
      BY <3>2, <3>3, <3>4
  <2>3. CASE hsIngest' = hsIngest
    BY <2>1, <2>2, <2>3, PostFlows
  <2>4. CASE posts[f].batch # 0 /\ hsIngest' = hsIngest \cup {posts[f].batch}
    <3>1. PICK b : b = posts[f].batch /\ b # 0 /\ b \in DOMAIN hcBatches /\ hcBatches[b].next = hcBatches[b].first
      BY <2>1, <2>4 DEF FlowInv
    <3>2. hcBatches[b].next <= hcBatches[b].last
      BY <3>1 DEF FlowInv, WellBatched
    <3>3. \A g \in Flights : posts'[g] = IF g = f THEN p ELSE posts[g]
      BY <2>2 DEF PollInv
    <3>4. \A g \in Flights : posts'[g].batch # 0 /\ posts'[g].answer = "none"
          => posts'[g].batch \notin hsIngest' /\ hcBatches'[posts'[g].batch].next = hcBatches'[posts'[g].batch].first
      BY <2>1, <2>2, <2>4, <3>1, <3>3 DEF FlowInv
    <3>5. hsIngest' \subseteq DOMAIN hcBatches' /\ \A c \in hsIngest' : hcBatches'[c].next <= hcBatches'[c].last
      BY <2>1, <2>4, <3>1, <3>2 DEF FlowInv
    <3>6. WellBatched(hcBatches, hcSent)'
      BY <2>1 DEF FlowInv, WellBatched
    <3>7. \A g \in Flights : posts'[g].batch = posts[g].batch
      BY <2>2, <3>3
    <3> QED
      BY <2>1, <3>4, <3>5, <3>6, <3>7 DEF FlowInv
  <2> QED
    BY <1>9, <2>3, <2>4 DEF HandleExchange
<1>10. CASE HttpDisconnect
    BY <1>1, <1>10 DEF HttpDisconnect, hsVars
<1>11. CASE ServerDisconnect \/ (\E s \in 1..MaxSessions : PeerWrite(s) \/ Reap(s)) \/ UNCHANGED httpVars
    BY <1>1, <1>11 DEF ServerDisconnect, PeerWrite, Reap, hcVars, httpVars
<1> QED
    BY <1>2, <1>3, <1>4, <1>5, <1>6, <1>7, <1>8, <1>9, <1>10, <1>11, IngestFlows DEF HttpNext, ClientStep, ServerStep

\* A running HTTP client never falls silent, and its packets arrive at most once, those of an
\* exchange in the order they were sent, for any batch size and any number of packets,
\* overlapping polls, sessions, lost requests and answers, reaped sessions, disconnects and
\* reconnects.
THEOREM HttpSafety == HttpInit /\ [][HttpNext]_httpVars => []PollsSafe
<1>1. HttpInit => PollInv /\ FlowInv
  <2> SUFFICES ASSUME HttpInit PROVE PollInv /\ FlowInv
    OBVIOUS
  <2>1. posts \in [Flights -> HttpRequest]
    BY NoPostIsRequest DEF HttpInit
  <2>2. PollInv
    BY <2>1 DEF HttpInit, PollInv, PollsGoOn
  <2>3. \A f \in Flights : posts[f].batch = 0
    BY DEF HttpInit, NoPost, Post
  <2> QED
    BY <2>2, <2>3 DEF HttpInit, FlowInv, WellBatched
<1>2. PollInv /\ FlowInv => PollsSafe
  <2> SUFFICES ASSUME PollInv, FlowInv PROVE PollsSafe
    OBVIOUS
  <2>0. PollsGoOn
    BY DEF PollInv
  <2>1. SUFFICES ASSUME NEW i \in DOMAIN hsGot, NEW j \in DOMAIN hsGot, i < j
                 PROVE  /\ hsGot[i].packet # hsGot[j].packet
                        /\ hsGot[i].batch = hsGot[j].batch => hsGot[i].packet < hsGot[j].packet
    BY <2>0 DEF PollsSafe, ArrivesOnce
  <2>a. hsGot[i].packet \in Nat /\ hsGot[j].packet \in Nat
    BY ArrivedNats DEF FlowInv
  <2>2. CASE hsGot[i].batch = hsGot[j].batch
    BY <2>1, <2>2, <2>a DEF FlowInv
  <2>3. CASE hsGot[i].batch # hsGot[j].batch
    <3>1. PICK b : b = hsGot[i].batch /\ b \in DOMAIN hcBatches /\ hcBatches[b].first <= hsGot[i].packet /\ hsGot[i].packet < hcBatches[b].next
      BY DEF FlowInv
    <3>2. PICK c : c = hsGot[j].batch /\ c \in DOMAIN hcBatches /\ hcBatches[c].first <= hsGot[j].packet /\ hsGot[j].packet < hcBatches[c].next
      BY DEF FlowInv
    <3>3. hcBatches[b] \in HttpBatch /\ hcBatches[c] \in HttpBatch /\ b \in Nat /\ c \in Nat
      BY <3>1, <3>2 DEF FlowInv, WellBatched
    <3>4. hsGot[i].packet \in Nat /\ hsGot[j].packet \in Nat
      BY ArrivedNats DEF FlowInv
    <3>5. hcBatches[b].next <= hcBatches[b].last + 1 /\ hcBatches[c].next <= hcBatches[c].last + 1
      BY <3>1, <3>2 DEF FlowInv
    <3>6. hcBatches[b].last < hcBatches[c].first \/ hcBatches[c].last < hcBatches[b].first
      <4>1. b < c \/ c < b
        BY <2>3, <3>1, <3>2, <3>3
      <4> QED
        BY <3>1, <3>2, <4>1 DEF FlowInv, WellBatched
    <3>7. hsGot[i].packet # hsGot[j].packet
      BY <3>1, <3>2, <3>3, <3>4, <3>5, <3>6, BatchNats
    <3> QED
      BY <2>3, <3>7
  <2> QED
    BY <2>2, <2>3
<1> QED
    BY <1>1, <1>2, PollsChain, HttpFlows, PTL

-----------------------------------------------------------------------------
\* Ingress control of announces.

AnnounceInv ==
    /\ acHeld \in [Dests -> Nat] /\ acInjected \subseteq [dest : Dests, hops : Nat]
    /\ \A a, b \in acInjected : a = b
    /\ acSweep \in BOOLEAN
    /\ (HeldNow = {} /\ acInjected = {}) \/ acSweep
    /\ Cardinality(HeldNow) <= MaxHeld

\* An announce that is limited is held or dropped on record, within the limit.
LEMMA HoldKeeps ==
    ASSUME NEW d \in Dests, NEW h \in Nat, AnnounceInv, HoldAnnounce(d, h)
    PROVE  /\ acHeld' \in [Dests -> Nat] /\ Cardinality(HeldNow') <= MaxHeld
           /\ acDropped \cup HeldNow \cup {d} \subseteq acDropped' \cup HeldNow'
<1> USE AnnounceAssumption DEF NotHeld
<1>1. CASE UNCHANGED acHeld
    BY <1>1 DEF HoldAnnounce, AnnounceInv, HeldNow
<1>2. CASE ~UNCHANGED acHeld
  <2>1. /\ acHeld' = [acHeld EXCEPT ![d] = h] /\ UNCHANGED acDropped /\ ~(h >= MaxHops)
        /\ ~(acHeld[d] = NotHeld /\ Cardinality(HeldNow) >= MaxHeld)
    BY <1>2 DEF HoldAnnounce, HeldNow
  <2>2. h # NotHeld
    BY <2>1
  <2>3. HeldNow' = HeldNow \cup {d}
    BY <2>1, <2>2 DEF HeldNow, AnnounceInv
  <2>4. IsFiniteSet(HeldNow)
    <3>1. HeldNow \subseteq Dests
      BY DEF HeldNow
    <3> QED
      BY <3>1, FS_Subset
  <2>5. Cardinality(HeldNow \cup {d}) <= MaxHeld
    <3>1. Cardinality(HeldNow) \in Nat
      BY <2>4, FS_CardinalityType
    <3>2. CASE d \in HeldNow
      <4>1. HeldNow \cup {d} = HeldNow
        BY <3>2
      <4> QED
        BY <4>1 DEF AnnounceInv
    <3>3. CASE d \notin HeldNow
      <4>1. Cardinality(HeldNow \cup {d}) = Cardinality(HeldNow) + 1
        BY <2>4, <3>3, FS_AddElement
      <4>2. ~(Cardinality(HeldNow) >= MaxHeld)
        BY <2>1, <3>3 DEF HeldNow
      <4> QED
        BY <3>1, <4>1, <4>2
    <3> QED
      BY <3>2, <3>3
  <2> QED
    BY <2>1, <2>3, <2>5 DEF AnnounceInv
<1> QED
    BY <1>1, <1>2

\* The whole pipeline: what was remembered still is, and the destination of the announce too.
LEMMA HandleKeeps ==
    ASSUME NEW d \in Dests, NEW h \in Nat, AnnounceInv, HandleAnnounce(d, h)
    PROVE  /\ acHeld' \in [Dests -> Nat] /\ Cardinality(HeldNow') <= MaxHeld
           /\ acKnown \cup acDropped \cup HeldNow \cup {d} \subseteq acKnown' \cup acDropped' \cup HeldNow'
           /\ acSweep' = acSweep \/ acSweep' = TRUE
           /\ HeldNow' = HeldNow \/ acSweep'
           /\ d \in acWanted => d \in acKnown'
<1>1. CASE d \in acKnown \cup acWanted
    BY <1>1 DEF HandleAnnounce, AnnounceInv, HeldNow
<1>2. CASE d \notin acKnown \cup acWanted /\ UNCHANGED <<acHeld, acDropped, acSweep>> /\ acKnown' = acKnown \cup {d}
    BY <1>2 DEF AnnounceInv, HeldNow
<1>3. CASE d \notin acKnown \cup acWanted /\ HoldAnnounce(d, h) /\ acSweep' = TRUE /\ UNCHANGED acKnown
  <2>1. /\ acHeld' \in [Dests -> Nat] /\ Cardinality(HeldNow') <= MaxHeld
        /\ acDropped \cup HeldNow \cup {d} \subseteq acDropped' \cup HeldNow'
    BY <1>3, HoldKeeps
  <2> QED
    BY <1>3, <2>1
<1> QED
    BY <1>1, <1>2, <1>3 DEF HandleAnnounce

LEMMA AnnounceSteps ==
    ASSUME AnnounceInv, [AnnounceNext]_announceVars
    PROVE  AnnounceInv' /\ Remembered \subseteq Remembered'
<1> USE AnnounceAssumption
<1>1. ASSUME NEW d \in Dests, NEW h \in Hops, AnnounceArrives(d, h) PROVE AnnounceInv' /\ Remembered \subseteq Remembered'
  <2>1. HandleAnnounce(d, h + 1) /\ UNCHANGED acInjected /\ h + 1 \in Nat
    BY <1>1 DEF AnnounceArrives
  <2>2. PICK k \in Nat : k = h + 1
    BY <2>1
  <2>3. HandleAnnounce(d, k)
    BY <2>1, <2>2
  <2> QED
    BY <2>1, <2>3, HandleKeeps DEF AnnounceInv, Remembered
<1>2. ASSUME NEW d \in Dests, RequestPath(d) PROVE AnnounceInv' /\ Remembered \subseteq Remembered'
    BY <1>2 DEF RequestPath, AnnounceInv, Remembered, HeldNow
<1>3. CASE SweepReleases
  <2>1. PICK d \in Nearest :
        /\ acSweep /\ acInjected = {} /\ acHeld' = [acHeld EXCEPT ![d] = NotHeld] /\ acInjected' = {[dest |-> d, hops |-> acHeld[d]]}
        /\ UNCHANGED <<acKnown, acSweep, acDropped>>
    BY <1>3 DEF SweepReleases
  <2>2. d \in Dests /\ NotHeld \in Nat
    BY <2>1 DEF Nearest, NotHeld
  <2>3. HeldNow' = HeldNow \ {d}
    BY <2>1, <2>2 DEF HeldNow, AnnounceInv
  <2>4. Cardinality(HeldNow') <= MaxHeld
    <3>1. IsFiniteSet(HeldNow)
      <4>1. HeldNow \subseteq Dests
        BY DEF HeldNow
      <4> QED
        BY <4>1, FS_Subset
    <3>2. Cardinality(HeldNow') <= Cardinality(HeldNow) /\ Cardinality(HeldNow) \in Nat /\ Cardinality(HeldNow') \in Nat
      <4>1. HeldNow' \subseteq HeldNow
        BY <2>3
      <4> QED
        BY <3>1, <4>1, FS_Subset, FS_CardinalityType
    <3> QED
      BY <3>2 DEF AnnounceInv
  <2>5. {a.dest : a \in acInjected'} = {d}
    BY <2>1
  <2> QED
    BY <2>1, <2>2, <2>3, <2>4, <2>5 DEF AnnounceInv, Remembered
<1>4. CASE Reinject
  <2>1. PICK a \in acInjected : acInjected' = {} /\ HandleAnnounce(a.dest, a.hops + 1)
    BY <1>4 DEF Reinject
  <2>2. PICK d \in Dests, k \in Nat : d = a.dest /\ k = a.hops + 1
    BY <2>1 DEF AnnounceInv
  <2>3. HandleAnnounce(d, k)
    BY <2>1, <2>2
  <2>4. acSweep /\ acInjected = {a} /\ {b.dest : b \in acInjected'} = {}
    BY <2>1 DEF AnnounceInv
  <2>5. {b.dest : b \in acInjected} = {d}
    BY <2>2, <2>4
  <2>6. Remembered \subseteq Remembered'
    BY <2>3, <2>4, <2>5, HandleKeeps DEF Remembered
  <2> QED
    BY <2>1, <2>3, <2>4, <2>6, HandleKeeps DEF AnnounceInv
<1>5. CASE SweepEnds
  <2>1. /\ acInjected = {} /\ UNCHANGED <<acHeld, acInjected, acKnown, acDropped>>
        /\ acSweep' = (acWanted' # {} \/ \E d \in Dests : acHeld[d] # NotHeld)
    BY <1>5 DEF SweepEnds
  <2>2. HeldNow' = HeldNow /\ acSweep' \in BOOLEAN /\ (HeldNow # {} => acSweep')
    BY <2>1 DEF HeldNow
  <2> QED
    BY <2>1, <2>2 DEF AnnounceInv, Remembered
<1>6. CASE Tick
    BY <1>6 DEF Tick, AnnounceInv, Remembered, HeldNow
<1>7. CASE UNCHANGED announceVars
    BY <1>7 DEF announceVars, AnnounceInv, Remembered, HeldNow
<1> QED
    BY <1>1, <1>2, <1>3, <1>4, <1>5, <1>6, <1>7 DEF AnnounceNext

\* A destination whose announce was heard is never forgotten, the sweep runs while an announce
\* is held or comes back, and the limit on held announces holds: for any destinations, hop
\* counts, rates, thresholds and path requests.
THEOREM AnnounceSafety == AnnounceInit /\ [][AnnounceNext]_announceVars => HeldIsKept
<1>1. AnnounceInit => AnnounceInv
  <2> SUFFICES ASSUME AnnounceInit PROVE AnnounceInv
    OBVIOUS
  <2>1. HeldNow = {} /\ NotHeld \in Nat
    BY AnnounceAssumption DEF AnnounceInit, HeldNow, NotHeld
  <2>2. Cardinality(HeldNow) <= MaxHeld
    BY <2>1, AnnounceAssumption, FS_EmptySet
  <2> QED
    BY <2>1, <2>2 DEF AnnounceInit, AnnounceInv
<1>2. AnnounceInv /\ [AnnounceNext]_announceVars => AnnounceInv'
    BY AnnounceSteps
<1>3. AnnounceInv => (acSweep \/ (HeldNow = {} /\ acInjected = {}))
    BY DEF AnnounceInv
<1>4. AnnounceInv => Cardinality(HeldNow) <= MaxHeld
    BY DEF AnnounceInv
<1>5. AnnounceInv /\ [AnnounceNext]_announceVars => [Remembered \subseteq Remembered']_announceVars
    BY AnnounceSteps
<1> QED
    BY <1>1, <1>2, <1>3, <1>4, <1>5, PTL DEF HeldIsKept
=============================================================================
