--------------------------- MODULE ResourceProofs ---------------------------
(***************************************************************************)
(* The sender of a Resource never runs ahead of what the receiver verified, *)
(* for every number of segments and parts and every retry budget; no        *)
(* transfer is left ASSEMBLING with nothing assembling it; and the request  *)
(* window stays between its bounds whatever the rates measured.             *)
(***************************************************************************)
EXTENDS Resource, ResourceWindow, TLAPS

\* Every proof packet in transit is for a segment the receiver has verified.
EarnedProofs == \A m \in net : m.type = "PRF" => m.seg \in received

\* The type of the sender's progress.
SenderTyped ==
    /\ segment \in Segs
    /\ sEvents \in [complete : 0..1, failed : 0..2, threw : 0..1]

\* ProvenIsReceived, with the proofs in transit.
ProofInv == SenderTyped /\ EarnedProofs /\ ProvenIsReceived

-----------------------------------------------------------------------------

\* requestNext sends nothing but part requests.
LEMMA RequestsOnly ==
    ASSUME NEW s, NEW o, NEW w
    PROVE  \A q \in RequestNext(s, o, w).requests : q.type = "REQ"
BY DEF RequestNext

\* A step that leaves the sender's position and the verified segments alone and
\* sends no proof preserves the invariant.
LEMMA QuietStep ==
    ASSUME ProofInv,
           UNCHANGED <<segment, received>>,
           sEvents' \in [complete : 0..1, failed : 0..2, threw : 0..1],
           sEvents'.complete = sEvents.complete,
           \A m \in net' : m \in net \/ m.type # "PRF"
    PROVE  ProofInv'
BY DEF ProofInv, SenderTyped, EarnedProofs, ProvenIsReceived

\* The events record after one more failure, up to the cap.
LEMMA FailEvent ==
    ASSUME sEvents \in [complete : 0..1, failed : 0..2, threw : 0..1],
           sEvents' = [sEvents EXCEPT !.failed = Bump(@)]
    PROVE  /\ sEvents' \in [complete : 0..1, failed : 0..2, threw : 0..1]
           /\ sEvents'.complete = sEvents.complete
BY DEF Bump

\* Cancelling sends no proof.
LEMMA CancelPackets ==
    ASSUME NEW packets, BeginCancel(packets)
    PROVE  \A m \in net' : m \in packets \/ m.type # "PRF"
BY DEF BeginCancel, ICL

\* The sender's steps send no proof.
LEMMA SenderStepsQuiet ==
    ASSUME ProofInv, SenderSteps
    PROVE  ProofInv'
<1> USE DEF ProofInv, SenderTyped
<1>1. CASE Advertise
  BY <1>1, QuietStep DEF Advertise, rVars, ADV
<1>2. CASE SegmentPrepared
  BY <1>2, QuietStep DEF SegmentPrepared, rVars, ADV
<1>3. CASE CancelResumes
  BY <1>3, QuietStep, FailEvent DEF CancelResumes, SenderFails, rVars
<1>4. CASE SenderCancels
  BY <1>4, QuietStep, CancelPackets DEF SenderCancels, rVars
<1>5. CASE SenderTick
  BY <1>5, QuietStep, CancelPackets DEF SenderTick, rVars, ADV
<1>6. CASE SenderLinkCloses
  BY <1>6, QuietStep, FailEvent DEF SenderLinkCloses, SenderFails, rVars
<1>7. ASSUME NEW t \in Tasks, AdvertiseSent(t)
      PROVE  ProofInv'
  BY <1>7, QuietStep DEF AdvertiseSent, rVars
<1>8. ASSUME NEW t \in Tasks, AdvertiseFails(t)
      PROVE  ProofInv'
  BY <1>8, QuietStep, CancelPackets DEF AdvertiseFails, rVars
<1> QED
  BY <1>1, <1>2, <1>3, <1>4, <1>5, <1>6, <1>7, <1>8 DEF SenderSteps

\* validateProof is where the sender's position moves: the proof it validates
\* is for the segment it is at, and was earned.
LEMMA SenderReceivesSafe ==
    ASSUME ProofInv, NEW m \in net, SenderReceives(m)
    PROVE  ProofInv'
<1>1. CASE SenderDrops(m)
  BY <1>1, QuietStep DEF SenderDrops, sVars, rVars, ProofInv, SenderTyped
<1>2. CASE HandleRequest(m)
  <2>1. \A q \in net' : q \in net \/ q.type # "PRF"
    BY <1>2, CancelPackets DEF HandleRequest, PART, HMU
  <2> QED
    BY <1>2, <2>1, QuietStep DEF HandleRequest, rVars, ProofInv, SenderTyped
<1>3. CASE ValidateProof(m)
  <2>1. m.seg \in received /\ m.seg = segment
    BY <1>3 DEF ValidateProof, Addressed, SenderRx, ProofInv, EarnedProofs
  <2>2. received' = received /\ EarnedProofs'
    BY <1>3 DEF ValidateProof, rVars, ProofInv, EarnedProofs
  <2>3. CASE UNCHANGED <<segment, sEvents>>
    BY <2>2, <2>3 DEF ProofInv, SenderTyped, ProvenIsReceived
  <2>4. CASE segment < Segments /\ segment' = segment + 1 /\ UNCHANGED sEvents
    BY <2>1, <2>2, <2>4, SizesAssumption
       DEF ProofInv, SenderTyped, ProvenIsReceived, Segs
  <2>5. CASE /\ segment = Segments /\ UNCHANGED segment
             /\ sEvents' = [sEvents EXCEPT !.complete = 1]
    BY <2>1, <2>2, <2>5, SizesAssumption
       DEF ProofInv, SenderTyped, ProvenIsReceived, Segs
  <2> QED
    BY <1>3, <2>3, <2>4, <2>5 DEF ValidateProof
<1>4. CASE HandleRejection(m)
  BY <1>4, QuietStep, FailEvent
     DEF HandleRejection, SenderFails, rVars, ProofInv, SenderTyped
<1> QED
  BY <1>1, <1>2, <1>3, <1>4 DEF SenderReceives

\* A segment is proved in the step that verifies it.
LEMMA ReceiverStepsSafe ==
    ASSUME ProofInv, ReceiverSteps
    PROVE  ProofInv'
<1> USE DEF ProofInv, SenderTyped
<1>1. CASE ReceiverLinkCloses
  BY <1>1, QuietStep DEF ReceiverLinkCloses, sVars
<1>2. CASE AssembleChecked
  BY <1>2 DEF AssembleChecked, sVars, PRF, EarnedProofs, ProvenIsReceived
<1>3. CASE AssembleFails
  BY <1>3, QuietStep DEF AssembleFails, sVars
<1>4. CASE AssembleCompletes
  BY <1>4, QuietStep DEF AssembleCompletes, sVars
<1>5. ASSUME NEW s \in Segs, ReceiverCancels(s)
      PROVE  ProofInv'
  BY <1>5, QuietStep DEF ReceiverCancels, sVars
<1>6. ASSUME NEW w \in Windows, AcceptQueued(w)
      PROVE  ProofInv'
  BY <1>6, QuietStep, RequestsOnly DEF AcceptQueued, Accept, sVars, RCL
<1>7. ASSUME NEW w \in Windows, NEW s \in Segs, ReceiverTick(s, w)
      PROVE  ProofInv'
  BY <1>7, QuietStep, RequestsOnly DEF ReceiverTick, sVars
<1> QED
  BY <1>1, <1>2, <1>3, <1>4, <1>5, <1>6, <1>7 DEF ReceiverSteps

\* What the receiver does on a packet earns the proofs it sends.
LEMMA ReceiverReceivesSafe ==
    ASSUME ProofInv, NEW m \in net, ReceiverReceives(m)
    PROVE  ProofInv'
<1> USE DEF ProofInv, SenderTyped
<1>1. CASE ReceiverDrops(m)
  BY <1>1, QuietStep DEF ReceiverDrops, sVars, rVars
<1>2. CASE RejectAdvertisement(m)
  BY <1>2, QuietStep DEF RejectAdvertisement, sVars, rVars, RCL
<1>3. CASE HandleIncomingCancel(m)
  BY <1>3, QuietStep DEF HandleIncomingCancel, sVars
<1>4. ASSUME NEW w \in Windows, AcceptAdvertisement(m, w)
      PROVE  ProofInv'
  BY <1>4, QuietStep, RequestsOnly DEF AcceptAdvertisement, Accept, sVars, RCL
<1>5. ASSUME NEW w \in Windows, ReceivePart(m, w)
      PROVE  ProofInv'
  BY <1>5, QuietStep, RequestsOnly DEF ReceivePart, sVars
<1>6. ASSUME NEW w \in Windows, HashmapUpdate(m, w)
      PROVE  ProofInv'
  BY <1>6, QuietStep, RequestsOnly DEF HashmapUpdate, sVars
<1> QED
  BY <1>1, <1>2, <1>3, <1>4, <1>5, <1>6 DEF ReceiverReceives

\* The sender reports "complete", and moves past a segment, only for what the
\* receiver has assembled and verified, for every number of segments and parts
\* and every retry budget (validateProof, assemble).
THEOREM CompletionIsEarned == Spec => []ProvenIsReceived
<1>1. Init => ProofInv
  BY SizesAssumption
     DEF Init, ProofInv, SenderTyped, EarnedProofs, ProvenIsReceived, Segs
<1>2. ProofInv /\ [Next]_vars => ProofInv'
  <2> SUFFICES ASSUME ProofInv, [Next]_vars
               PROVE  ProofInv'
    OBVIOUS
  <2>1. ASSUME NEW m \in net, Lose(m)
        PROVE  ProofInv'
    BY <2>1, QuietStep DEF Lose, sVars, rVars, ProofInv, SenderTyped
  <2>2. CASE UNCHANGED vars
    BY <2>2, QuietStep DEF vars, sVars, rVars, ProofInv, SenderTyped
  <2> QED
    BY <2>1, <2>2, SenderStepsQuiet, SenderReceivesSafe, ReceiverStepsSafe,
       ReceiverReceivesSafe DEF Next
<1>3. ProofInv => ProvenIsReceived
  BY DEF ProofInv
<1> QED
  BY <1>1, <1>2, <1>3, PTL DEF Spec

-----------------------------------------------------------------------------
(* The watchdog skips a transfer that is ASSEMBLING, so such a transfer must *)
(* have its assemble() under way: no transfer is wedged in the map.          *)

\* What the receiver's steps update has the fields they look at.
ReceiverShaped ==
    /\ incoming = [s \in Segs |-> incoming[s]]
    /\ \A s \in Segs : "status" \in DOMAIN incoming[s]
    /\ "seg" \in DOMAIN asm

\* The invariant of the assembly.
AssemblyInv == ReceiverShaped /\ AssemblingIsRunning

\* requestNext leaves the status of the transfer it serves alone.
LEMMA RequestKeepsStatus ==
    ASSUME NEW s, NEW o, NEW w, "status" \in DOMAIN o
    PROVE  /\ "status" \in DOMAIN RequestNext(s, o, w).transfer
           /\ RequestNext(s, o, w).transfer.status = o.status
BY DEF RequestNext

\* With no assemble() under way no transfer is ASSEMBLING.
LEMMA IdleMeansTransferring ==
    ASSUME AssemblyInv, asm = NoAssembly, NEW s \in Segs
    PROVE  incoming[s].status # "ASSEMBLING"
BY SizesAssumption DEF AssemblyInv, AssemblingIsRunning, Registered, NoAssembly, None, Segs

\* A step that gives one transfer another value, of a status that is not
\* ASSEMBLING as the old one's was not, while that transfer is not being assembled.
LEMMA OneTransferMoves ==
    ASSUME AssemblyInv, NEW s, NEW o,
           s \in Segs => "status" \in DOMAIN o /\ o.status # "ASSEMBLING" /\ asm.seg # s,
           incoming' = [incoming EXCEPT ![s] = o], UNCHANGED asm
    PROVE  AssemblyInv'
BY DEF AssemblyInv, AssemblingIsRunning, ReceiverShaped, Registered

\* Unregistering transfers leaves the others as they are.
LEMMA SomeFail ==
    ASSUME AssemblyInv, NEW ss, ReceiverFails(ss), "seg" \in DOMAIN asm', asm'.seg = asm.seg
    PROVE  AssemblyInv'
BY DEF AssemblyInv, AssemblingIsRunning, ReceiverShaped, Registered, ReceiverFails, None

\* assemble() keeps its segment when its waiters are told of a failure.
LEMMA UnwaitedSegment ==
    ASSUME AssemblyInv, NEW ss
    PROVE  "seg" \in DOMAIN Unwaited(ss) /\ Unwaited(ss).seg = asm.seg
BY DEF AssemblyInv, ReceiverShaped, Unwaited

\* A step that touches neither the map nor the assembly.
LEMMA AssemblyFrame ==
    ASSUME AssemblyInv, UNCHANGED <<incoming, asm>>
    PROVE  AssemblyInv'
BY DEF AssemblyInv, AssemblingIsRunning, ReceiverShaped, Registered

\* accept runs only between assemblies, and what it registers is TRANSFERRING.
LEMMA AcceptRegisters ==
    ASSUME AssemblyInv, NEW s, NEW w, NEW packets, Accept(s, w, packets), asm = NoAssembly
    PROVE  AssemblyInv'
<1> DEFINE id == IF Segments > 1 /\ failedSplit THEN 0
                 ELSE IF ~(Segments > 1 /\ failedSplit) /\ (~(Segments > 1) \/ current = 0)
                 THEN Len(assemblers) + 1 ELSE current
           o == RequestNext(s, NewTransfer(id), w).transfer
<1>1. "status" \in DOMAIN NewTransfer(id) /\ NewTransfer(id).status = "TRANSFERRING"
    BY DEF NewTransfer
<1>2. "status" \in DOMAIN o /\ o.status # "ASSEMBLING"
    BY <1>1, RequestKeepsStatus
<1>3. incoming' = [incoming EXCEPT ![s] = o] /\ asm' = asm
    BY DEF Accept
<1>4. s \in Segs => asm.seg # s
    BY SizesAssumption DEF NoAssembly, Segs
<1> HIDE DEF o
<1> QED
    BY <1>2, <1>3, <1>4, OneTransferMoves

\* The last part of a segment makes it ASSEMBLING in the step that starts
\* assemble(); any other part leaves it TRANSFERRING.
LEMMA PartReceived ==
    ASSUME AssemblyInv, NEW m, NEW w, ReceivePart(m, w)
    PROVE  AssemblyInv'
<1> DEFINE o == incoming[m.seg]
           k == CHOOSE i \in PlaceFor(o, m.part) : \A j \in PlaceFor(o, m.part) : i <= j
           placed == [o EXCEPT !.parts[k] = m.part,
                               !.outstanding = IF @ > 0 THEN @ - 1 ELSE 0]
           next == RequestNext(m.seg, placed, w).transfer
           done == [placed EXCEPT !.status = "ASSEMBLING"]
<1>1. asm = NoAssembly /\ (m.seg \in Segs => "status" \in DOMAIN o /\ o.status # "ASSEMBLING")
    BY IdleMeansTransferring DEF ReceivePart, ReceiverRx, AssemblyInv, ReceiverShaped
<1>2. m.seg \in Segs => "status" \in DOMAIN placed /\ placed.status = o.status
    BY <1>1
<1>4. m.seg \in Segs => "status" \in DOMAIN done /\ done.status = "ASSEMBLING"
    BY <1>2
<1>5. m.seg \in Segs => asm.seg # m.seg
    BY <1>1, SizesAssumption DEF NoAssembly, Segs
<1>6. \/ /\ incoming' = [incoming EXCEPT ![m.seg] = done]
         /\ asm' = [seg |-> m.seg, stage |-> "decrypting",
                    right |-> AssemblesRight(placed.parts), tracked |-> o.tracked]
      \/ incoming' = [incoming EXCEPT ![m.seg] = next] /\ asm' = asm
      \/ incoming' = [incoming EXCEPT ![m.seg] = placed] /\ asm' = asm
    BY DEF ReceivePart
<1>7. \A s \in Segs : incoming[s].status # "ASSEMBLING"
    BY <1>1, IdleMeansTransferring
<1> HIDE DEF done, placed
<1>3. m.seg \in Segs => "status" \in DOMAIN next /\ next.status = o.status
    BY <1>2, RequestKeepsStatus
<1> HIDE DEF next
<1>8. CASE /\ incoming' = [incoming EXCEPT ![m.seg] = done]
           /\ asm' = [seg |-> m.seg, stage |-> "decrypting",
                      right |-> AssemblesRight(placed.parts), tracked |-> o.tracked]
    BY <1>4, <1>7, <1>8 DEF AssemblyInv, AssemblingIsRunning, ReceiverShaped, Registered
<1> QED
    BY <1>1, <1>2, <1>3, <1>5, <1>6, <1>8, OneTransferMoves

\* A continuation of the hashmap leaves the transfer TRANSFERRING.
LEMMA HashmapReceived ==
    ASSUME AssemblyInv, NEW m, NEW w, HashmapUpdate(m, w)
    PROVE  AssemblyInv'
<1> DEFINE o == [incoming[m.seg] EXCEPT !.hashmap = @ \o Fragment(m.after % Parts)]
           next == RequestNext(m.seg, o, w).transfer
<1>1. /\ asm = NoAssembly
      /\ m.seg \in Segs => "status" \in DOMAIN incoming[m.seg] /\ incoming[m.seg].status # "ASSEMBLING"
    BY IdleMeansTransferring DEF HashmapUpdate, ReceiverRx, AssemblyInv, ReceiverShaped
<1>2. m.seg \in Segs => "status" \in DOMAIN o /\ o.status # "ASSEMBLING"
    BY <1>1
<1>4. m.seg \in Segs => asm.seg # m.seg
    BY <1>1, SizesAssumption DEF NoAssembly, Segs
<1>5. asm' = asm /\ (incoming' = [incoming EXCEPT ![m.seg] = next] \/ incoming' = [incoming EXCEPT ![m.seg] = o])
    BY DEF HashmapUpdate
<1> HIDE DEF o
<1>3. m.seg \in Segs => "status" \in DOMAIN next /\ next.status # "ASSEMBLING"
    BY <1>2, RequestKeepsStatus
<1> HIDE DEF next
<1> QED
    BY <1>2, <1>3, <1>4, <1>5, OneTransferMoves

\* The watchdog retries, or fails, a transfer that is TRANSFERRING: one that no
\* assemble() works on, although one may be under way for another segment.
LEMMA TickKeeps ==
    ASSUME AssemblyInv, NEW s \in Segs, NEW w, ReceiverTick(s, w)
    PROVE  AssemblyInv'
<1> DEFINE o == [incoming[s] EXCEPT !.outstanding = 0, !.retries = @ - 1]
           next == RequestNext(s, o, w).transfer
<1>1. "status" \in DOMAIN incoming[s] /\ incoming[s].status = "TRANSFERRING" /\ asm.seg # s /\ asm' = asm
    BY DEF ReceiverTick, AssemblyInv, ReceiverShaped, AssemblingIsRunning, Registered
<1>2. "status" \in DOMAIN o /\ o.status = "TRANSFERRING"
    BY <1>1
<1>4. incoming' = [incoming EXCEPT ![s] = next] \/ ReceiverFails({s})
    BY DEF ReceiverTick
<1> HIDE DEF o
<1>3. "status" \in DOMAIN next /\ next.status = "TRANSFERRING"
    BY <1>2, RequestKeepsStatus
<1> HIDE DEF next
<1>5. CASE ReceiverFails({s})
    BY <1>1, <1>5, SomeFail DEF AssemblyInv, ReceiverShaped
<1> QED
    BY <1>1, <1>3, <1>4, <1>5, OneTransferMoves

\* assemble() takes its transfer out of the map when it ends, however it ends.
LEMMA AssemblyEnds ==
    ASSUME AssemblyInv, AssembleFails \/ AssembleCompletes
    PROVE  AssemblyInv'
<1> DEFINE gone == {asm.seg} \cap Registered
<1>1. asm' = NoAssembly /\ "seg" \in DOMAIN NoAssembly /\ NoAssembly.seg \notin Segs
    BY SizesAssumption DEF AssembleFails, AssembleCompletes, NoAssembly, Segs
<1>2. incoming' = [s \in Segs |-> incoming'[s]]
      /\ \A s \in Segs : incoming'[s] = None \/ (incoming'[s] = incoming[s] /\ s \notin gone)
  <2>1. CASE AssembleFails
    BY <2>1 DEF AssembleFails, ReceiverFails, AssemblyInv, ReceiverShaped
  <2>2. CASE AssembleCompletes
    BY <2>2 DEF AssembleCompletes, AssemblyInv, ReceiverShaped
  <2> QED
    BY <2>1, <2>2
<1>3. ASSUME NEW s \in Segs, incoming'[s] # None
      PROVE  s \in Registered /\ s # asm.seg /\ incoming'[s] = incoming[s]
    BY <1>2, <1>3 DEF Registered
<1>4. ReceiverShaped'
    BY <1>1, <1>2 DEF ReceiverShaped, AssemblyInv, None
<1>5. AssemblingIsRunning'
    BY <1>1, <1>3 DEF AssemblingIsRunning, AssemblyInv, Registered
<1> QED
    BY <1>4, <1>5 DEF AssemblyInv

\* The receiver's own steps.
LEMMA ReceiverStepsAssembly ==
    ASSUME AssemblyInv, ReceiverSteps
    PROVE  AssemblyInv'
<1>1. CASE ReceiverLinkCloses
  BY <1>1, SomeFail, UnwaitedSegment DEF ReceiverLinkCloses
<1>2. CASE AssembleChecked
  BY <1>2 DEF AssembleChecked, AssemblyInv, AssemblingIsRunning, ReceiverShaped, Registered
<1>3. ASSUME NEW s \in Segs, ReceiverCancels(s)
      PROVE  AssemblyInv'
  BY <1>3, SomeFail, UnwaitedSegment DEF ReceiverCancels
<1>4. ASSUME NEW w \in Windows, AcceptQueued(w)
      PROVE  AssemblyInv'
  BY <1>4, AcceptRegisters DEF AcceptQueued
<1> QED
  BY <1>1, <1>2, <1>3, <1>4, AssemblyEnds, TickKeeps DEF ReceiverSteps

\* The packets the receiver handles, one at a time and none during an assembly.
LEMMA ReceiverReceivesAssembly ==
    ASSUME AssemblyInv, NEW m \in net, ReceiverReceives(m)
    PROVE  AssemblyInv'
<1>1. CASE ReceiverDrops(m) \/ RejectAdvertisement(m)
  BY <1>1, AssemblyFrame DEF ReceiverDrops, RejectAdvertisement, rVars
<1>2. CASE HandleIncomingCancel(m)
  BY <1>2, SomeFail DEF HandleIncomingCancel, AssemblyInv, ReceiverShaped
<1>3. ASSUME NEW w \in Windows, AcceptAdvertisement(m, w)
      PROVE  AssemblyInv'
  BY <1>3, AcceptRegisters DEF AcceptAdvertisement, ReceiverRx
<1> QED
  BY <1>1, <1>2, <1>3, PartReceived, HashmapReceived DEF ReceiverReceives

\* The sender's steps and its packets leave the receiver alone.
LEMMA SenderLeavesAssembly ==
    ASSUME AssemblyInv, SenderSteps \/ \E m \in net : SenderReceives(m) \/ Lose(m)
    PROVE  AssemblyInv'
<1>1. CASE SenderSteps
  BY <1>1, AssemblyFrame DEF SenderSteps, Advertise, SegmentPrepared, CancelResumes, SenderCancels, SenderTick,
     SenderLinkCloses, AdvertiseSent, AdvertiseFails, rVars
<1>2. ASSUME NEW m \in net, SenderReceives(m) \/ Lose(m)
      PROVE  AssemblyInv'
  BY <1>2, AssemblyFrame DEF SenderReceives, SenderDrops, HandleRequest, ValidateProof, HandleRejection, Lose, rVars
<1> QED
  BY <1>1, <1>2

\* Whatever fails, closes, is cancelled or is advertised again while assemble()
\* runs, a registered transfer is ASSEMBLING exactly while its own assemble() is
\* under way, for every number of segments and parts: since the watchdog skips such
\* a transfer, none is left in the map with nobody working on it (resource.js,
\* assemble, _setFailed, _watchdogTick).
THEOREM NoneIsWedged == Spec => []AssemblingIsRunning
<1>1. Init => AssemblyInv
  BY SizesAssumption DEF Init, AssemblyInv, ReceiverShaped, AssemblingIsRunning, Registered, None, NoAssembly, Segs
<1>2. AssemblyInv /\ [Next]_vars => AssemblyInv'
  <2>1. CASE UNCHANGED vars
    BY <2>1, AssemblyFrame DEF vars, rVars
  <2> QED
    BY <2>1, ReceiverStepsAssembly, ReceiverReceivesAssembly, SenderLeavesAssembly DEF Next
<1>3. AssemblyInv => AssemblingIsRunning
  BY DEF AssemblyInv
<1> QED
  BY <1>1, <1>2, <1>3, PTL DEF Spec

\* A transfer counts as done only what was verified and is never wedged, for every number of
\* segments and parts and every retry budget (validateProof, assemble, _watchdogTick).
THEOREM TransferSafety == Spec => []TransferSafe
<1>1. ProvenIsReceived /\ AssemblingIsRunning => TransferSafe
  BY DEF TransferSafe
<1> QED
  BY <1>1, CompletionIsEarned, NoneIsWedged, PTL

-----------------------------------------------------------------------------
\* The request window.

\* What the window's bounds rest on: integers, a ceiling that never exceeds the
\* fast one, and a remembered window that was itself in bounds.
WindowInv ==
    /\ {window, windowMin, windowMax, fastRateRounds, verySlowRateRounds,
        lastResourceWindow} \subseteq Int
    /\ WindowBounds
    /\ windowMax <= WINDOW_MAX_FAST
    /\ \/ lastResourceWindow = 0
       \/ lastResourceWindow \in WINDOW_MIN..WINDOW_MAX_FAST

\* The window's invariant is inductive.
LEMMA WindowInductive == WindowSpec => []WindowInv
<1> USE WindowAssumption DEF WindowInv, WindowBounds
<1>1. WindowInit => WindowInv
  BY DEF WindowInit
<1>2. WindowInv /\ [WindowNext]_windowVars => WindowInv'
  <2> SUFFICES ASSUME WindowInv, [WindowNext]_windowVars
               PROVE  WindowInv'
    OBVIOUS
  <2>1. ASSUME NEW rate \in Rates, Drained(rate)
        PROVE  WindowInv'
    <3>1. /\ {window', windowMin'} \subseteq Int
          /\ WINDOW_MIN <= windowMin' /\ windowMin' <= window'
          /\ window' <= WINDOW_MAX_FAST
      BY <2>1 DEF Drained, Grow
    <3>2. /\ {windowMax', fastRateRounds', verySlowRateRounds'} \subseteq Int
          /\ windowMax' <= WINDOW_MAX_FAST
      BY <2>1 DEF Drained
    <3> QED
      BY <2>1, <3>1, <3>2 DEF Drained
  <2>2. CASE Stalled
    BY <2>2 DEF Stalled
  <2>3. CASE CompleteAndAccept
    BY <2>3 DEF CompleteAndAccept, Fresh
  <2>4. CASE FailAndAccept
    BY <2>4 DEF FailAndAccept, Fresh
  <2>5. CASE UNCHANGED windowVars
    BY <2>5 DEF windowVars
  <2> QED
    BY <2>1, <2>2, <2>3, <2>4, <2>5 DEF WindowNext
<1> QED
  BY <1>1, <1>2, PTL DEF WindowSpec

\* A request window is never empty and never above the fast ceiling, whatever
\* the rates, stalls and transfers of a link (_onWindowDrained, _watchdogTick,
\* accept).
THEOREM WindowStaysInBounds == WindowSpec => []WindowBounds
<1>1. WindowInv => WindowBounds
  BY DEF WindowInv
<1> QED
  BY <1>1, WindowInductive, PTL

\* Before a link is found very slow its floor does not pass its ceiling.
THEOREM FloorBelowCeiling == WindowSpec => []CeilingAboveFloor
<1> USE WindowAssumption DEF WindowInv, WindowBounds, CeilingAboveFloor
<1>1. WindowInit => CeilingAboveFloor
  BY DEF WindowInit
<1>2. WindowInv /\ WindowInv' /\ CeilingAboveFloor /\ [WindowNext]_windowVars => CeilingAboveFloor'
  <2> SUFFICES ASSUME WindowInv, WindowInv', CeilingAboveFloor, [WindowNext]_windowVars
               PROVE  CeilingAboveFloor'
    OBVIOUS
  <2>1. ASSUME NEW rate \in Rates, Drained(rate)
        PROVE  CeilingAboveFloor'
    <3>1. windowMin <= windowMax => windowMin' <= windowMax
      BY <2>1 DEF Drained, Grow
    <3>2. \/ windowMax' = windowMax /\ verySlowRateRounds' = verySlowRateRounds
          \/ windowMax' = WINDOW_MAX_FAST
          \/ /\ verySlowRateRounds < VERY_SLOW_RATE_THRESHOLD
             /\ windowMax' = windowMax
          \/ verySlowRateRounds' = VERY_SLOW_RATE_THRESHOLD
      BY <2>1 DEF Drained
    <3> QED
      BY <3>1, <3>2
  <2>2. CASE Stalled
    BY <2>2 DEF Stalled
  <2>3. CASE CompleteAndAccept
    BY <2>3 DEF CompleteAndAccept, Fresh
  <2>4. CASE FailAndAccept
    BY <2>4 DEF FailAndAccept, Fresh
  <2>5. CASE UNCHANGED windowVars
    BY <2>5 DEF windowVars
  <2> QED
    BY <2>1, <2>2, <2>3, <2>4, <2>5 DEF WindowNext
<1> QED
  BY <1>1, <1>2, WindowInductive, PTL DEF WindowSpec
=============================================================================
