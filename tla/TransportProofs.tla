--------------------------- MODULE TransportProofs ---------------------------
(***************************************************************************)
(* Proofs about Transport for any number of packets, interfaces and         *)
(* announces: deliveries are real, the receipt registry is exact, and the   *)
(* path table's verdicts rest on evidence. Then about two machines beside   *)
(* it, with invariants of their own: the Persistor and WebRTC signalling.   *)
(***************************************************************************)
EXTENDS Transport, Persistence, Signaling, SequenceTheorems, TLAPS

(* A proof that passes its check is one the destination made, and it       *)
(* belongs to a packet whose sending to the destination itself ended.      *)
CheckedAreGenuine ==
    \A c \in checking :
       /\ c.packet \in Packets \ LinkPackets
       /\ send[c.packet] = "sent"
       /\ c.valid => c.packet \in arrived

(* Nobody is told anything before the receipt settles.                     *)
ToldAfterwards ==
    \A p \in Packets :
       /\ send[p] # "sent" => status[p] = "none"
       /\ status[p] \in {"none", "SENDING"} => told[p] = "none"

Receipts ==
    /\ CheckedAreGenuine
    /\ ToldAfterwards
    /\ DeliveredIsReceived
    /\ RegistryIsExact

\* The inductive invariant.
IInv == TypeOK /\ Receipts /\ VerdictHasEvidence

\* A route, or none.
MaybeRoute == Route \cup {NoRoute}

-----------------------------------------------------------------------------
(* What the path table's operations do to an entry.                        *)

(* getRoute returns an entry with its state unchanged, or none.            *)
LEMMA LookupKeeps ==
    ASSUME NEW r \in MaybeRoute, NEW t, NEW up
    PROVE  /\ getRoute(r, t, up) \in MaybeRoute
           /\ getRoute(r, t, up) # NoRoute =>
                 r # NoRoute /\ getRoute(r, t, up).state = r.state
<1>1. CASE getRoute(r, t, up) = NoRoute
  BY <1>1 DEF MaybeRoute
<1>2. CASE getRoute(r, t, up) # NoRoute
  <2>1. r # NoRoute /\ r \in Route
    BY <1>2 DEF getRoute, MaybeRoute
  <2>2. getRoute(r, t, up) \in {r, [r EXCEPT !.interface = r.interfaceName]}
    BY <1>2, <2>1 DEF getRoute
  <2>3. [r EXCEPT !.interface = r.interfaceName] \in Route
    BY <2>1 DEF Route
  <2>4. [r EXCEPT !.interface = r.interfaceName].state = r.state
    BY <2>1 DEF Route
  <2> QED BY <2>1, <2>2, <2>3, <2>4 DEF MaybeRoute
<1> QED BY <1>1, <1>2

(* markState leaves no entry where there was none.                         *)
LEMMA MarkSets ==
    ASSUME NEW r \in MaybeRoute, NEW s \in PathState
    PROVE  /\ markState(r, s) \in MaybeRoute
           /\ markState(r, s) # NoRoute => markState(r, s).state = s
BY DEF markState, MaybeRoute, Route

(* The replay memory stays a sequence of blobs.                            *)
LEMMA RecordType ==
    ASSUME NEW q \in Seq(Blobs), NEW b \in Blobs
    PROVE  recordBlob(q, b) \in Seq(Blobs)
<1>1. Append(q, b) \in Seq(Blobs) /\ Append(q, b) # << >>
  BY AppendProperties
<1>2. Tail(Append(q, b)) \in Seq(Blobs)
  BY <1>1, HeadTailProperties
<1> QED BY <1>1, <1>2 DEF recordBlob

(* An entry built from an announce inherits the state of the entry it      *)
(* replaces or starts as UNKNOWN.                                          *)
LEMMA IngestKeeps ==
    ASSUME NEW r \in MaybeRoute, NEW e \in Entry
    PROVE  /\ addOrUpdateRoute(r, e, Now) \in MaybeRoute
           /\ addOrUpdateRoute(r, e, Now) # NoRoute =>
                 \/ addOrUpdateRoute(r, e, Now).state = "UNKNOWN"
                 \/ /\ r # NoRoute
                    /\ addOrUpdateRoute(r, e, Now).state = r.state
<1> DEFINE old == IF r = NoRoute THEN << >> ELSE r.randomBlobs
<1> DEFINE st == newRoute(r, e, Now).state
<1>1. old \in Seq(Blobs)
  BY DEF MaybeRoute, Route
<1>2. recordBlob(old, e.randomBlob) \in Seq(Blobs)
  BY <1>1, RecordType DEF Entry
<1>3. st = "UNKNOWN" \/ (r # NoRoute /\ st = r.state)
  <2> DEFINE keeps == r # NoRoute /\ (Heavier(r, e) \/ Alternative(r, e, Now))
  <2>1. st = IF keeps THEN r.state ELSE "UNKNOWN"
    BY Zenon DEF newRoute
  <2>2. CASE keeps
    BY <2>1, <2>2, Zenon
  <2>3. CASE ~keeps
    BY <2>1, <2>3, Zenon
  <2> QED BY <2>2, <2>3, Zenon
<1>4. st \in PathState
  BY <1>3 DEF MaybeRoute, Route, PathState
<1>5. Now \in Nat /\ Now + PATH_EXPIRY \in Nat
  BY PathTableAssumption DEF Now
<1>6. newRoute(r, e, Now) \in Route
  BY <1>2, <1>4, <1>5 DEF newRoute, Route, Entry
<1> QED BY <1>3, <1>6 DEF addOrUpdateRoute, MaybeRoute

-----------------------------------------------------------------------------
(* The proof that each step preserves the invariant.                       *)

(* The initial states satisfy the invariant.                               *)
LEMMA InitHolds == Init => IInv
<1> SUFFICES ASSUME Init PROVE IInv
  OBVIOUS
<1>1. \A i \in Interfaces, b \in Blobs : Hydrated(i, b) \in Route
  BY PathTableAssumption, EmptySeq DEF Hydrated, Route, PathState, Hops, Now
<1>2. \A i \in Interfaces, b \in Blobs : Hydrated(i, b).state = "UNKNOWN"
  BY DEF Hydrated
<1>3. TypeOK
  <2>1. route \in Route \cup {NoRoute}
    BY <1>1 DEF Init
  <2> QED BY <2>1 DEF Init, TypeOK, Settlement
<1>4. Receipts
  BY DEF Init, Receipts, CheckedAreGenuine, ToldAfterwards,
         DeliveredIsReceived, RegistryIsExact
<1>5. VerdictHasEvidence
  BY <1>2 DEF Init, VerdictHasEvidence
<1> QED BY <1>3, <1>4, <1>5 DEF IInv

(* A step that leaves receipts, sends and proofs alone keeps what is known *)
(* of them.                                                                *)
LEMMA ReceiptsUntouched ==
    ASSUME Receipts, UNCHANGED <<receiptVars, sendVars, proofVars>>
    PROVE  Receipts'
BY DEF Receipts, CheckedAreGenuine, ToldAfterwards, DeliveredIsReceived,
       RegistryIsExact, receiptVars, sendVars, proofVars

(* Evidence is never lost, so a verdict that is inherited, or none at all, *)
(* needs no new evidence.                                                  *)
LEMMA VerdictInherited ==
    ASSUME VerdictHasEvidence,
           arrived \subseteq arrived',
           \A p \in Packets : told[p] = "FAILED" => told'[p] = "FAILED",
           route' # NoRoute =>
              \/ route'.state = "UNKNOWN"
              \/ route # NoRoute /\ route'.state = route.state
    PROVE  VerdictHasEvidence'
BY DEF VerdictHasEvidence

(* Attaching, losing, reconnecting or removing an interface (addInterface,  *)
(* removeInterface and the connection events) preserves the invariant.      *)
LEMMA IfaceStep ==
    ASSUME IInv, NEW i \in Interfaces,
           \/ \E d \in BOOLEAN : AddInterface(i, d)
           \/ Connected(i)
           \/ ConnectionLost(i)
           \/ RemoveInterface(i)
    PROVE  IInv'
<1> USE DEF IInv
<1>1. UNCHANGED <<receiptVars, sendVars, proofVars, validating, tried>>
  BY DEF AddInterface, Connected, ConnectionLost, RemoveInterface, pathVars
<1>2. route' \in {route, NoRoute}
  BY DEF AddInterface, Connected, ConnectionLost, RemoveInterface, pathVars,
         dropInterface
<1>3. TypeOK'
  <2>1. /\ attached' \subseteq Interfaces
        /\ defaultInterface' \in Interfaces \cup {NoInterface}
        /\ writer' \in [Interfaces -> {"none", "live", "dead"}]
    BY DEF TypeOK, AddInterface, Connected, ConnectionLost, RemoveInterface
  <2> QED BY <1>1, <1>2, <2>1 DEF TypeOK, receiptVars, sendVars, proofVars
<1>4. Receipts'
  BY <1>1, ReceiptsUntouched
<1>5. VerdictHasEvidence'
  BY <1>1, <1>2, VerdictInherited DEF receiptVars, proofVars
<1> QED BY <1>3, <1>4, <1>5

(* Either half of _handleAnnounce preserves the invariant.                  *)
LEMMA AnnounceStep ==
    ASSUME IInv, NEW e \in Entry, AnnounceArrives(e) \/ AnnounceIngested(e)
    PROVE  IInv'
<1> USE DEF IInv
<1> DEFINE found == getRoute(route, Now, attached)
<1>1. UNCHANGED <<receiptVars, sendVars, proofVars, ifaceVars>>
  BY DEF AnnounceArrives, AnnounceIngested
<1>2. /\ route' \in MaybeRoute
      /\ route' # NoRoute =>
           \/ route'.state = "UNKNOWN"
           \/ route # NoRoute /\ route'.state = route.state
  <2>1. CASE AnnounceArrives(e)
    BY <2>1 DEF AnnounceArrives, pathVars, TypeOK, MaybeRoute
  <2>2. CASE AnnounceIngested(e)
    <3>1. route \in MaybeRoute
      BY DEF TypeOK, MaybeRoute
    <3>2. /\ found \in MaybeRoute
          /\ found # NoRoute => (route # NoRoute /\ found.state = route.state)
      BY <3>1, LookupKeeps
    <3>3. route' = addOrUpdateRoute(found, e, Now)
      BY <2>2 DEF AnnounceIngested
    <3> HIDE DEF found
    <3> QED BY <3>2, <3>3, IngestKeeps
  <2> QED BY <2>1, <2>2
<1>3. validating' \subseteq Entry /\ tried' \in BOOLEAN
  BY DEF AnnounceArrives, AnnounceIngested, TypeOK, pathVars
<1>4. TypeOK'
  BY <1>1, <1>2, <1>3 DEF TypeOK, MaybeRoute, receiptVars, sendVars, proofVars, ifaceVars
<1>5. Receipts'
  BY <1>1, ReceiptsUntouched
<1>6. VerdictHasEvidence'
  BY <1>1, <1>2, VerdictInherited DEF receiptVars, proofVars
<1> QED BY <1>4, <1>5, <1>6

(* sendPacket up to its write, for the destination or for a link, and a    *)
(* write that fails, preserve the invariant.                               *)
LEMMA SendStep ==
    ASSUME IInv, NEW p \in Packets,
           SendPacket(p) \/ SendOnLink(p) \/ WriteRejects(p)
    PROVE  IInv'
<1> USE DEF IInv
<1>1. UNCHANGED <<receiptVars, proofVars, ifaceVars, validating>>
  BY DEF SendPacket, SendOnLink, WriteRejects
<1>2. /\ send[p] # "sent"
      /\ \E x \in {"writing", "doomed", "threw"} : send' = [send EXCEPT ![p] = x]
      /\ \E k \in {"path", "link", "default"} : via' \in {via, [via EXCEPT ![p] = k]}
  <2>1. \/ Throw(p)
        \/ \E k \in {"path", "link", "default"} : \E i : Write(p, k, i)
    <3>1. CASE SendPacket(p)
      <4> DEFINE best == Usable(Trusted(getRoute(route, Now, attached)))
      <4>1. \/ Throw(p)
            \/ Write(p, "path", EgressOf(best))
            \/ Write(p, "default", defaultInterface)
        BY <3>1, Zenon DEF SendPacket
      <4> QED BY <4>1, Zenon
    <3>2. CASE SendOnLink(p)
      BY <3>2, Zenon DEF SendOnLink
    <3>3. CASE WriteRejects(p)
      BY <3>3, Zenon DEF WriteRejects
    <3> QED BY <3>1, <3>2, <3>3
  <2>2. send[p] # "sent"
    BY DEF SendPacket, SendOnLink, WriteRejects
  <2> QED BY <2>1, <2>2, Zenon DEF Write, Throw
<1>3. /\ route' \in MaybeRoute
      /\ tried' \in BOOLEAN
      /\ route' # NoRoute => (route # NoRoute /\ route'.state = route.state)
  <2>1. CASE SendPacket(p)
    <3> DEFINE found == getRoute(route, Now, attached)
    <3>1. route \in MaybeRoute
      BY DEF TypeOK, MaybeRoute
    <3>2. /\ found \in MaybeRoute
          /\ found # NoRoute => (route # NoRoute /\ found.state = route.state)
      BY <3>1, LookupKeeps
    <3>3. route' \in {found, NoRoute}
      BY <2>1 DEF SendPacket, Usable, Trusted
    <3>4. tried' \in BOOLEAN
      BY <2>1 DEF SendPacket
    <3> HIDE DEF found
    <3> QED BY <3>2, <3>3, <3>4 DEF MaybeRoute
  <2>2. CASE SendOnLink(p) \/ WriteRejects(p)
    BY <2>2 DEF SendOnLink, WriteRejects, pathVars, TypeOK, MaybeRoute
  <2> QED BY <2>1, <2>2
<1>4. TypeOK'
  BY <1>1, <1>2, <1>3 DEF TypeOK, MaybeRoute, receiptVars, proofVars, ifaceVars
<1>5. Receipts'
  <2>1. ToldAfterwards'
    BY <1>1, <1>2 DEF Receipts, ToldAfterwards, receiptVars, TypeOK
  <2>2. CheckedAreGenuine' /\ DeliveredIsReceived' /\ RegistryIsExact'
    BY <1>1, <1>2 DEF Receipts, CheckedAreGenuine, DeliveredIsReceived,
                      RegistryIsExact, receiptVars, proofVars, TypeOK
  <2> QED BY <2>1, <2>2 DEF Receipts
<1>6. VerdictHasEvidence'
  BY <1>1, <1>3, VerdictInherited DEF receiptVars, proofVars
<1> QED BY <1>4, <1>5, <1>6

(* The end of sendPacket, where the receipt is registered, preserves the   *)
(* invariant.                                                              *)
LEMMA RegisterStep ==
    ASSUME IInv, NEW p \in Packets, WriteResolves(p)
    PROVE  IInv'
<1> USE DEF IInv
<1>1. UNCHANGED <<tried, told, via, ifaceVars, validating, proofVars>>
  BY DEF WriteResolves
<1>2. /\ send[p] = "writing"
      /\ send' = [send EXCEPT ![p] = "sent"]
      /\ status' = [status EXCEPT ![p] = "SENDING"]
      /\ timer' = timer \cup {p}
      /\ registered' = registered \cup {p}
  BY DEF WriteResolves
<1>3. /\ route' \in MaybeRoute
      /\ route' # NoRoute => (route # NoRoute /\ route'.state = route.state)
  <2> DEFINE found == getRoute(route, Now, attached)
  <2>1. route \in MaybeRoute
    BY DEF TypeOK, MaybeRoute
  <2>2. /\ found \in MaybeRoute
        /\ found # NoRoute => (route # NoRoute /\ found.state = route.state)
    BY <2>1, LookupKeeps
  <2>3. route' \in {route, found}
    BY DEF WriteResolves
  <2> HIDE DEF found
  <2> QED BY <2>1, <2>2, <2>3
<1>4. TypeOK'
  BY <1>1, <1>2, <1>3 DEF TypeOK, MaybeRoute, proofVars, ifaceVars
<1>5. Receipts'
  <2>1. told[p] = "none"
    BY <1>2 DEF Receipts, ToldAfterwards
  <2>2. CheckedAreGenuine' /\ ToldAfterwards' /\ DeliveredIsReceived'
    BY <1>1, <1>2, <2>1 DEF Receipts, CheckedAreGenuine, ToldAfterwards,
       DeliveredIsReceived, proofVars, TypeOK
  <2>3. RegistryIsExact'
    BY <1>2 DEF Receipts, RegistryIsExact, TypeOK
  <2> QED BY <2>2, <2>3 DEF Receipts
<1>6. VerdictHasEvidence'
  BY <1>1, <1>3, VerdictInherited DEF proofVars
<1> QED BY <1>4, <1>5, <1>6

(* A packet reaching the destination, and the first half of _handleProof   *)
(* for a genuine or another proof, preserve the invariant.                 *)
LEMMA ProofStep ==
    ASSUME IInv, NEW p \in Packets,
           Arrive(p) \/ ProofArrives(p) \/ BadProofArrives(p)
    PROVE  IInv'
<1> USE DEF IInv
<1>1. UNCHANGED <<pathVars, ifaceVars, validating, receiptVars, sendVars>>
  BY DEF Arrive, ProofArrives, BadProofArrives
<1>2. /\ arrived \subseteq arrived'
      /\ arrived' \subseteq Packets
      /\ proofHeard' \subseteq Packets
  BY DEF Arrive, ProofArrives, BadProofArrives, TypeOK
<1> DEFINE good == [packet |-> p, valid |-> TRUE]
           bad == [packet |-> p, valid |-> FALSE]
<1>3. /\ \A c \in checking' :
           \/ c \in checking
           \/ c = good /\ p \in arrived
           \/ c = bad
      /\ checking' # checking => (p \notin LinkPackets /\ Outstanding(p))
  <2>1. CASE Arrive(p)
    BY <2>1 DEF Arrive
  <2>2. CASE ProofArrives(p)
    BY <2>2 DEF ProofArrives
  <2>3. CASE BadProofArrives(p)
    BY <2>3 DEF BadProofArrives
  <2> QED BY <2>1, <2>2, <2>3
<1>4. ASSUME NEW c \in checking'
      PROVE  /\ c \in [packet : Packets, valid : BOOLEAN]
             /\ c.packet \in Packets \ LinkPackets
             /\ send'[c.packet] = "sent"
             /\ c.valid => c.packet \in arrived'
  <2>1. CASE c \in checking
    BY <1>1, <1>2, <2>1 DEF TypeOK, Receipts, CheckedAreGenuine, sendVars
  <2>2. CASE c \notin checking
    <3>1. p \in Packets \ LinkPackets /\ send'[p] = "sent"
      BY <1>1, <1>3, <2>2 DEF Outstanding, Receipts, ToldAfterwards, sendVars
    <3>2. CASE c = good /\ p \in arrived
      BY <1>2, <3>1, <3>2
    <3>3. CASE c = bad
      BY <3>1, <3>3
    <3> QED BY <1>3, <2>2, <3>2, <3>3
  <2> QED BY <2>1, <2>2
<1>5. TypeOK'
  <2>1. checking' \subseteq [packet : Packets, valid : BOOLEAN]
    BY <1>4
  <2> QED BY <1>1, <1>2, <2>1
          DEF TypeOK, pathVars, receiptVars, sendVars, ifaceVars
<1>6. Receipts'
  <2>1. CheckedAreGenuine'
    BY <1>4 DEF CheckedAreGenuine
  <2>2. ToldAfterwards' /\ DeliveredIsReceived' /\ RegistryIsExact'
    BY <1>1, <1>2 DEF Receipts, ToldAfterwards, DeliveredIsReceived,
       RegistryIsExact, receiptVars, sendVars
  <2> QED BY <2>1, <2>2 DEF Receipts
<1>7. VerdictHasEvidence'
  BY <1>1, <1>2, VerdictInherited DEF receiptVars, pathVars
<1> QED BY <1>5, <1>6, <1>7

(* The second half of _handleProof preserves the invariant: the receipt    *)
(* that is settled belongs to a packet the destination received.           *)
LEMMA ValidateStep ==
    ASSUME IInv, NEW c \in checking, ValidateProof(c)
    PROVE  IInv'
<1> USE DEF IInv
<1> DEFINE p == c.packet
<1>1. /\ UNCHANGED <<tried, ifaceVars, validating, sendVars, arrived, proofHeard>>
      /\ checking' = checking \ {c}
  BY DEF ValidateProof
<1>2. p \in Packets \ LinkPackets
  BY DEF Receipts, CheckedAreGenuine
<1>3. CheckedAreGenuine'
  BY <1>1 DEF Receipts, CheckedAreGenuine, sendVars
<1>4. CASE c.valid
  <2>1. p \in arrived
    BY <1>4 DEF Receipts, CheckedAreGenuine
  <2>2. /\ status' = [status EXCEPT ![p] = "DELIVERED"]
        /\ timer' = timer \ {p}
        /\ registered' = registered \ {p}
        /\ told' = [told EXCEPT ![p] = IF @ = "none" THEN "DELIVERED" ELSE @]
        /\ route' = markState(route, "RESPONSIVE")
    BY <1>4 DEF ValidateProof, setDelivered, Tell
  <2>3. /\ route' \in MaybeRoute
        /\ route' # NoRoute => route'.state = "RESPONSIVE"
    BY <2>2, MarkSets DEF TypeOK, MaybeRoute, PathState
  <2>4. send[p] = "sent"
    BY DEF Receipts, CheckedAreGenuine
  <2>5. TypeOK'
    BY <1>1, <1>2, <2>2, <2>3 DEF TypeOK, MaybeRoute, Settlement, sendVars, ifaceVars
  <2>6. ToldAfterwards' /\ DeliveredIsReceived'
    BY <1>1, <1>2, <2>1, <2>2, <2>4
       DEF Receipts, ToldAfterwards, DeliveredIsReceived, TypeOK, sendVars
  <2>7. RegistryIsExact'
    BY <1>2, <2>2 DEF Receipts, RegistryIsExact, TypeOK
  <2>8. VerdictHasEvidence'
    BY <1>1, <1>2, <2>1, <2>3 DEF VerdictHasEvidence
  <2> QED BY <1>3, <2>5, <2>6, <2>7, <2>8 DEF Receipts
<1>5. CASE ~c.valid
  <2>1. UNCHANGED <<receiptVars, route>>
    BY <1>5 DEF ValidateProof
  <2>2. TypeOK'
    BY <1>1, <2>1 DEF TypeOK, receiptVars, sendVars, ifaceVars
  <2>3. Receipts'
    BY <1>1, <1>3, <2>1 DEF Receipts, ToldAfterwards, DeliveredIsReceived,
       RegistryIsExact, receiptVars, sendVars
  <2>4. VerdictHasEvidence'
    BY <1>1, <2>1, VerdictInherited DEF receiptVars
  <2> QED BY <2>2, <2>3, <2>4
<1> QED BY <1>4, <1>5

(* The timeout of a receipt preserves the invariant: its waiter is told     *)
(* that the packet failed in the step that condemns the path.              *)
LEMMA TimeoutStep ==
    ASSUME IInv, NEW p \in Packets, ReceiptTimeout(p)
    PROVE  IInv'
<1> USE DEF IInv
<1>1. UNCHANGED <<tried, ifaceVars, validating, sendVars, proofVars>>
  BY DEF ReceiptTimeout
<1>2. status[p] = "SENDING" /\ told[p] = "none" /\ send[p] = "sent"
  BY DEF ReceiptTimeout, Receipts, RegistryIsExact, ToldAfterwards
<1>3. /\ status' = [status EXCEPT ![p] = "FAILED"]
      /\ timer' = timer \ {p}
      /\ registered' = registered \ {p}
      /\ told' = [told EXCEPT ![p] = "FAILED"]
  BY <1>2 DEF ReceiptTimeout, setFailed, Tell, TypeOK
<1>4. \/ p \in LinkPackets /\ route' = route
      \/ p \notin LinkPackets /\ route' = markState(route, "UNRESPONSIVE")
  BY DEF ReceiptTimeout, setFailed
<1>5. /\ route' \in MaybeRoute
      /\ route' # NoRoute =>
           \/ route # NoRoute /\ route'.state = route.state
           \/ p \notin LinkPackets /\ route'.state = "UNRESPONSIVE"
  BY <1>4, MarkSets DEF TypeOK, MaybeRoute, PathState
<1>6. TypeOK'
  BY <1>1, <1>3, <1>5 DEF TypeOK, MaybeRoute, Settlement, sendVars, ifaceVars, proofVars
<1>7. Receipts'
  <2>1. CheckedAreGenuine' /\ ToldAfterwards' /\ DeliveredIsReceived'
    BY <1>1, <1>2, <1>3 DEF Receipts, CheckedAreGenuine, ToldAfterwards,
       DeliveredIsReceived, TypeOK, sendVars, proofVars
  <2>2. RegistryIsExact'
    BY <1>3 DEF Receipts, RegistryIsExact, TypeOK
  <2> QED BY <2>1, <2>2 DEF Receipts
<1>8. VerdictHasEvidence'
  <2>1. told'[p] = "FAILED" /\ \A q \in Packets : told[q] = "FAILED" => told'[q] = "FAILED"
    BY <1>3 DEF TypeOK
  <2> QED BY <1>1, <1>5, <2>1 DEF VerdictHasEvidence, proofVars
<1> QED BY <1>6, <1>7, <1>8

(* A failed link attempt (expirePath) preserves the invariant.             *)
LEMMA ExpireStep ==
    ASSUME IInv, LinkFails
    PROVE  IInv'
<1> USE DEF IInv
<1>1. /\ route' = NoRoute
      /\ UNCHANGED <<tried, ifaceVars, validating, receiptVars, sendVars, proofVars>>
  BY DEF LinkFails, expireRoute
<1>2. TypeOK'
  BY <1>1 DEF TypeOK, receiptVars, sendVars, proofVars, ifaceVars
<1>3. Receipts'
  BY <1>1, ReceiptsUntouched
<1>4. VerdictHasEvidence'
  BY <1>1 DEF VerdictHasEvidence
<1> QED BY <1>2, <1>3, <1>4

(* Every step of the transport preserves the invariant.                    *)
LEMMA NextKeeps == IInv /\ [Next]_vars => IInv'
<1> SUFFICES ASSUME IInv, [Next]_vars PROVE IInv'
  OBVIOUS
<1>1. ASSUME NEW i \in Interfaces,
             \/ \E d \in BOOLEAN : AddInterface(i, d)
             \/ Connected(i)
             \/ ConnectionLost(i)
             \/ RemoveInterface(i)
      PROVE  IInv'
  BY <1>1, IfaceStep
<1>2. ASSUME NEW e \in Entry, AnnounceArrives(e) \/ AnnounceIngested(e)
      PROVE  IInv'
  BY <1>2, AnnounceStep
<1>3. CASE LinkFails
  BY <1>3, ExpireStep
<1>4. ASSUME NEW p \in Packets,
             SendPacket(p) \/ SendOnLink(p) \/ WriteRejects(p)
      PROVE  IInv'
  BY <1>4, SendStep
<1>5. ASSUME NEW p \in Packets, WriteResolves(p)
      PROVE  IInv'
  BY <1>5, RegisterStep
<1>6. ASSUME NEW p \in Packets,
             Arrive(p) \/ ProofArrives(p) \/ BadProofArrives(p)
      PROVE  IInv'
  BY <1>6, ProofStep
<1>7. ASSUME NEW p \in Packets, ReceiptTimeout(p)
      PROVE  IInv'
  BY <1>7, TimeoutStep
<1>8. ASSUME NEW c \in checking, ValidateProof(c)
      PROVE  IInv'
  BY <1>8, ValidateStep
<1>9. CASE UNCHANGED vars
  <2>1. UNCHANGED <<pathVars, ifaceVars, validating, receiptVars, sendVars, proofVars>>
    BY <1>9 DEF vars
  <2>2. TypeOK'
    BY <2>1 DEF IInv, TypeOK, pathVars, ifaceVars, receiptVars, sendVars, proofVars
  <2>3. Receipts'
    BY <2>1, ReceiptsUntouched DEF IInv
  <2>4. VerdictHasEvidence'
    BY <2>1, VerdictInherited DEF IInv, pathVars, receiptVars, proofVars
  <2> QED BY <2>2, <2>3, <2>4 DEF IInv
<1> QED BY <1>1, <1>2, <1>3, <1>4, <1>5, <1>6, <1>7, <1>8, <1>9 DEF Next

(* The invariant holds of every behaviour of the transport.                *)
LEMMA Inductive == Spec => []IInv
BY InitHolds, NextKeeps, PTL DEF Spec

-----------------------------------------------------------------------------
(* The theorems.                                                           *)

(* For any packets, interfaces and announces the transport's state has the *)
(* shape TypeOK describes.                                                 *)
THEOREM TypeCorrect == Spec => []TypeOK
<1>1. IInv => TypeOK
  BY DEF IInv
<1> QED BY <1>1, Inductive, PTL

(* sendPacket and _handleProof: a receipt reads DELIVERED, and its waiter  *)
(* is told so, only when the destination received the packet, for any      *)
(* number of packets in flight and whatever proofs arrive.                 *)
THEOREM DeliveriesAreReal == Spec => []DeliveredIsReceived
<1>1. IInv => DeliveredIsReceived
  BY DEF IInv, Receipts
<1> QED BY <1>1, Inductive, PTL

(* trackReceipt and _unregister: caches.receipts holds exactly the         *)
(* receipts still waiting, each with its timer armed.                      *)
THEOREM RegistryExact == Spec => []RegistryIsExact
<1>1. IInv => RegistryIsExact
  BY DEF IInv, Receipts
<1> QED BY <1>1, Inductive, PTL

(* markPathResponsive and markPathUnresponsive: a verdict on the path is   *)
(* never without a packet that was received, or one whose wait ran out.    *)
THEOREM VerdictsAreFounded == Spec => []VerdictHasEvidence
<1>1. IInv => VerdictHasEvidence
  BY DEF IInv
<1> QED BY <1>1, Inductive, PTL

(* Deliveries are real, the registry is exact and verdicts have evidence,  *)
(* for any packets, interfaces and announces (trackReceipt, _handleProof,  *)
(* _unregister, markPathResponsive, markPathUnresponsive).                 *)
THEOREM ReceiptSafety == Spec => []ReceiptsSafe
<1>1. DeliveredIsReceived /\ RegistryIsExact /\ VerdictHasEvidence => ReceiptsSafe
  BY DEF ReceiptsSafe
<1> QED BY <1>1, DeliveriesAreReal, RegistryExact, VerdictsAreFounded, PTL

-----------------------------------------------------------------------------
\* Persistence.

\* A flush that has still to write the identity, with a version that settles what is owed.
WritesOwed(flushes, owed) == \E i \in DOMAIN flushes : flushes[i].at = 1 /\ (flushes[i].val = 0 \/ flushes[i].val >= owed)

PersistTyped ==
    /\ psMem \in [Spaces -> Nat] /\ psDisk \in [Spaces -> Nat] /\ psNews \in 0..MaxAnnounces
    /\ psLoad \in 1..5 /\ psLoadVal \in Nat /\ psOwed \in Nat
    /\ psFlush \in Seq([at : 1..4, val : 0..MaxAnnounces])

Known == psMem["identities"]
Stored == psDisk["identities"]

\* While the identity has not been loaded what is in memory was heard after what is in the
\* store, in the hands of the load and in a write was; so the load cannot bring a version
\* that a write under way does not settle.
BeforeLoad ==
    /\ Known = 0 \/ Stored = Torn \/ Stored <= Known
    /\ Known = 0 \/ psLoadVal = Torn \/ psLoadVal <= Known
    /\ psOwed # 0 => (Stored = Torn \/ Stored <= psOwed) /\ (psLoadVal = Torn \/ psLoadVal <= psOwed)
    /\ \A i \in DOMAIN psFlush : psFlush[i].at = 1 => psFlush[i].val <= Known

\* Nothing is newer than the news: what is in memory, in the store, in the hands of the load
\* and in a write was heard.
WasHeard ==
    /\ \A n \in Spaces : psMem[n] <= psNews
    /\ \A n \in Spaces : psDisk[n] = Torn \/ psDisk[n] <= psNews
    /\ psLoadVal = Torn \/ psLoadVal <= psNews
    /\ \A i \in DOMAIN psFlush : psFlush[i].val <= psNews /\ (psFlush[i].val # 0 => psFlush[i].at <= 3)

\* The property, of the write and of the record of contacts.
Pending == psOwed # 0 => psContacted /\ (psTimer \/ psRefused \/ WritesOwed(psFlush, psOwed))

PersistInv ==
    /\ PersistTyped /\ WasHeard /\ psOwed <= Known
    /\ psLoad = 1 => BeforeLoad
    /\ Pending

LEMMA NamespaceNames ==
    /\ Namespaces[1] = "identities" /\ "identities" \in Spaces /\ Torn \in Nat /\ Torn > MaxAnnounces
    /\ \A k \in 1..3 : Namespaces[k] \in Spaces /\ (Namespaces[k] = "identities" <=> k = 1)
    BY PersistAssumption DEF Namespaces, Spaces, Torn

\* A flush that ends is taken out, the others stay.
LEMMA FlushRemoved ==
    ASSUME NEW R, NEW s \in Seq(R), NEW i \in DOMAIN s
    PROVE  /\ RemoveAt(s, i) \in Seq(R)
           /\ \A j \in DOMAIN RemoveAt(s, i) : \E k \in DOMAIN s : RemoveAt(s, i)[j] = s[k]
           /\ \A k \in DOMAIN s : k # i => \E j \in DOMAIN RemoveAt(s, i) : RemoveAt(s, i)[j] = s[k]
<1>1. PICK t, a, b : t = RemoveAt(s, i) /\ a = SubSeq(s, 1, i - 1) /\ b = SubSeq(s, i + 1, Len(s))
    OBVIOUS
<1>2. i \in 1..Len(s) /\ Len(s) \in Nat /\ i \in Nat
    OBVIOUS
<1>3. a \in Seq(R) /\ Len(a) = i - 1 /\ \A j \in 1..i - 1 : a[j] = s[j]
    BY <1>1, <1>2
<1>4. b \in Seq(R) /\ Len(b) = Len(s) - i /\ \A j \in 1..Len(s) - i : b[j] = s[i + j]
    BY <1>1, <1>2
<1>5. t = a \o b
    BY <1>1, Zenon DEF RemoveAt
<1>6. /\ t \in Seq(R) /\ Len(t) = Len(a) + Len(b)
      /\ \A j \in 1..Len(a) + Len(b) : t[j] = IF j <= Len(a) THEN a[j] ELSE b[j - Len(a)]
    BY <1>3, <1>4, <1>5, ConcatProperties
<1>7. DOMAIN t = 1..Len(s) - 1
    BY <1>2, <1>3, <1>4, <1>6
<1>8. ASSUME NEW j \in 1..Len(s) - 1 PROVE t[j] = IF j < i THEN s[j] ELSE s[j + 1]
  <2>1. j \in 1..Len(a) + Len(b)
    BY <1>2, <1>3, <1>4
  <2>2. t[j] = IF j <= Len(a) THEN a[j] ELSE b[j - Len(a)]
    BY ONLY <1>6, <2>1
  <2>3. CASE j < i
    BY <1>2, <1>3, <2>2, <2>3
  <2>4. CASE ~(j < i)
    <3>1. j - Len(a) \in 1..Len(s) - i /\ i + (j - Len(a)) = j + 1
      BY <1>2, <1>3, <2>4
    <3>2. b[j - Len(a)] = s[j + 1]
      BY <1>4, <3>1
    <3>3. ~(j <= Len(a))
      BY <1>2, <1>3, <2>4
    <3> QED
      BY ONLY <2>2, <2>4, <3>2, <3>3
  <2> QED
    BY <2>3, <2>4
<1>9. ASSUME NEW j \in DOMAIN t PROVE \E k \in DOMAIN s : t[j] = s[k]
    BY <1>2, <1>7, <1>8
<1>10. ASSUME NEW k \in DOMAIN s, k # i PROVE \E j \in DOMAIN t : t[j] = s[k]
  <2>1. CASE k < i
    BY <1>2, <1>7, <1>8, <2>1
  <2>2. CASE k > i
    <3>1. k - 1 \in DOMAIN t /\ ~(k - 1 < i) /\ k - 1 + 1 = k
      BY <1>2, <1>7, <2>2
    <3> QED
      BY <1>7, <1>8, <3>1
  <2> QED
    BY <1>2, <1>10, <2>1, <2>2
<1> QED
    BY <1>1, <1>6, <1>9, <1>10

\* What the types say of the parts.
LEMMA PersistParts ==
    ASSUME PersistTyped
    PROVE  /\ psNews \in Nat /\ psLoadVal \in Nat /\ psOwed \in Nat /\ Known \in Nat /\ Stored \in Nat
           /\ \A n \in Spaces : psMem[n] \in Nat /\ psDisk[n] \in Nat
           /\ \A i \in DOMAIN psFlush : psFlush[i] \in [at : 1..4, val : 0..MaxAnnounces] /\ psFlush[i].at \in 1..4 /\ psFlush[i].val \in Nat
<1> USE NamespaceNames, PersistAssumption
<1>1. ASSUME NEW R, NEW s \in Seq(R), NEW i \in DOMAIN s PROVE s[i] \in R
    OBVIOUS
<1>2. \A i \in DOMAIN psFlush : psFlush[i] \in [at : 1..4, val : 0..MaxAnnounces]
    BY <1>1, Zenon DEF PersistTyped
<1>3. ASSUME NEW f \in [at : 1..4, val : 0..MaxAnnounces] PROVE f.at \in 1..4 /\ f.val \in Nat
    OBVIOUS
<1> QED
    BY <1>2, <1>3 DEF PersistTyped, Known, Stored

LEMMA PersistInitially == PersistInit => PersistInv
<1> SUFFICES ASSUME PersistInit PROVE PersistInv
    OBVIOUS
<1> USE NamespaceNames, PersistAssumption
<1>1. psMem = Empty /\ psDisk = Empty /\ psNews = 0 /\ psFlush = << >> /\ psLoad = 1 /\ psLoadVal = Torn /\ psOwed = 0
    BY DEF PersistInit
<1>2. Empty \in [Spaces -> Nat] /\ \A n \in Spaces : Empty[n] = 0
    BY DEF Empty
<1>3. PersistTyped
    BY <1>1, <1>2 DEF PersistTyped
<1>4. WasHeard
    BY <1>1, <1>2 DEF WasHeard
<1>5. psOwed <= Known /\ BeforeLoad
    BY <1>1, <1>2 DEF Known, Stored, BeforeLoad
<1> QED
    BY <1>1, <1>3, <1>4, <1>5 DEF PersistInv, Pending

\* Hearing an announce, sending to the destination, and dying.
LEMMA NewsSteps ==
    ASSUME PersistInv, RememberInto \/ MarkContacted \/ Crash
    PROVE  PersistInv'
<1> USE NamespaceNames, PersistAssumption
<1>0. PersistTyped /\ WasHeard /\ psOwed <= Known /\ (psLoad = 1 => BeforeLoad) /\ Pending
    BY DEF PersistInv
<1>1. CASE RememberInto
  <2>1. psNews' = psNews + 1 /\ psNews' \in 0..MaxAnnounces /\ psMem' = [n \in Spaces |-> psNews']
    BY <1>0, <1>1 DEF RememberInto, PersistTyped
  <2>2. UNCHANGED <<psDisk, psContacted, psTimer, psFlush, psLoad, psLoadVal, psOwed, psRefused>>
    BY <1>1 DEF RememberInto
  <2>3. PersistTyped'
    BY <1>0, <2>1, <2>2 DEF PersistTyped
  <2>4. WasHeard'
    <3>1. \A n \in Spaces : psMem'[n] = psNews'
      BY <2>1
    <3> QED
      BY <1>0, <2>1, <2>2, <3>1, PersistParts DEF WasHeard
  <2>5. (psOwed <= Known)'
    BY <1>0, <2>1, <2>2 DEF Known, WasHeard, PersistTyped
  <2>6. (psLoad = 1 => BeforeLoad)'
    <3>1. Known' = psNews + 1 /\ Stored' = Stored
      BY <2>1, <2>2 DEF Known, Stored
    <3>2. (Stored = Torn \/ Stored <= psNews) /\ (psLoadVal = Torn \/ psLoadVal <= psNews)
      BY <1>0 DEF WasHeard, Stored
    <3>3. \A i \in DOMAIN psFlush : psFlush[i].val <= psNews /\ psFlush[i].val \in Nat
      BY <1>0, PersistParts DEF WasHeard
    <3> QED
      BY <1>0, <2>2, <3>1, <3>2, <3>3, PersistParts DEF BeforeLoad
  <2>7. Pending'
    BY <1>0, <2>2 DEF WritesOwed, Pending
  <2> QED
    BY <2>3, <2>4, <2>5, <2>6, <2>7 DEF PersistInv
<1>2. CASE MarkContacted
  <2>1. psTimer' = TRUE /\ psContacted' = TRUE /\ psOwed' = Known /\ UNCHANGED <<psMem, psDisk, psNews, psFlush, psLoad, psLoadVal>> /\ Known # 0
    BY <1>2 DEF MarkContacted, Known
  <2>2. Known \in Nat
    BY <1>0 DEF PersistTyped, Known
  <2>3. PersistTyped'
    BY <1>0, <2>1, <2>2 DEF PersistTyped
  <2>4. WasHeard'
    BY <1>0, <2>1 DEF WasHeard
  <2>5. (psOwed <= Known)' /\ (psLoad = 1 => BeforeLoad)'
    BY <1>0, <2>1, <2>2 DEF Known, Stored, BeforeLoad
  <2> QED
    BY <2>1, <2>3, <2>4, <2>5 DEF PersistInv, Pending
<1>3. CASE Crash
  <2>1. PICK cut : psDisk' = [n \in Spaces |-> IF n \in cut THEN Torn ELSE psDisk[n]]
    BY <1>3 DEF Crash
  <2>2. psMem' = Empty /\ psFlush' = << >> /\ psLoad' = 1 /\ psLoadVal' = Torn /\ psOwed' = 0 /\ psNews' = psNews
    BY <1>3 DEF Crash
  <2>3. Empty \in [Spaces -> Nat] /\ \A n \in Spaces : Empty[n] = 0
    BY DEF Empty
  <2>4. PersistTyped'
    BY <1>0, <2>1, <2>2, <2>3 DEF PersistTyped
  <2>5. WasHeard'
    BY <1>0, <2>1, <2>2, <2>3 DEF WasHeard, PersistTyped
  <2>6. (psOwed <= Known)' /\ BeforeLoad'
    BY <2>2, <2>3 DEF Known, BeforeLoad
  <2> QED
    BY <2>2, <2>4, <2>5, <2>6 DEF PersistInv, Pending
<1> QED
    BY <1>1, <1>2, <1>3

\* A flush that starts has everything still to write.
LEMMA FlushStarts ==
    ASSUME PersistInv, TimerFires \/ StoreNow
    PROVE  PersistInv'
<1> USE NamespaceNames, PersistAssumption
<1>0. PersistTyped /\ WasHeard /\ psOwed <= Known /\ (psLoad = 1 => BeforeLoad) /\ Pending
    BY DEF PersistInv
<1>1. psFlush' = Append(psFlush, [at |-> 1, val |-> 0]) /\ UNCHANGED <<psMem, psDisk, psNews, psLoad, psLoadVal, psOwed>>
    BY DEF TimerFires, StoreNow, Flushing
<1>2. [at |-> 1, val |-> 0] \in [at : 1..4, val : 0..MaxAnnounces]
    OBVIOUS
<1>3. psFlush \in Seq([at : 1..4, val : 0..MaxAnnounces])
    BY <1>0 DEF PersistTyped
<1>4. psFlush' \in Seq([at : 1..4, val : 0..MaxAnnounces]) /\ Len(psFlush') = Len(psFlush) + 1 /\ psFlush'[Len(psFlush) + 1] = [at |-> 1, val |-> 0]
    BY <1>1, <1>2, <1>3
<1>5. \A i \in DOMAIN psFlush' : psFlush'[i] = [at |-> 1, val |-> 0] \/ (i \in DOMAIN psFlush /\ psFlush'[i] = psFlush[i])
    BY <1>1, <1>3
<1>6. PersistTyped'
    BY <1>0, <1>1, <1>4 DEF PersistTyped
<1>7. WasHeard'
    BY <1>0, <1>1, <1>5, PersistParts DEF WasHeard
<1>8. (psOwed <= Known)' /\ (psLoad = 1 => BeforeLoad)'
    BY <1>0, <1>1, <1>5 DEF Known, Stored, BeforeLoad, PersistTyped
<1>9. WritesOwed(psFlush', psOwed')
  <2>1. Len(psFlush) + 1 \in DOMAIN psFlush'
    BY <1>3, <1>4
  <2> QED
    BY <1>4, <2>1 DEF WritesOwed
<1>10. psOwed' # 0 => psContacted'
    BY <1>0, <1>1 DEF TimerFires, StoreNow, Pending
<1> QED
    BY <1>6, <1>7, <1>8, <1>9, <1>10 DEF PersistInv, Pending

\* Within a flush: a write starts, a write ends, the flush is over.
LEMMA FlushSteps ==
    ASSUME PersistInv, NEW i \in DOMAIN psFlush, FlushStep(i)
    PROVE  PersistInv'
<1> USE NamespaceNames, PersistAssumption
<1> DEFINE R == [at : 1..4, val : 0..MaxAnnounces]
<1>0. PersistTyped /\ WasHeard /\ psOwed <= Known /\ (psLoad = 1 => BeforeLoad) /\ Pending
    BY DEF PersistInv
<1>1. psFlush \in Seq(R) /\ psFlush[i] \in R /\ psFlush[i].at \in 1..4 /\ psFlush[i].val \in Nat
    BY <1>0, PersistParts DEF PersistTyped
<1>2. CASE FlushWrites(i)
  <2>1. PICK v : v = psMem[Namespaces[psFlush[i].at]]
    OBVIOUS
  <2>2. /\ psFlush[i].val = 0 /\ psFlush[i].at \in 1..3
        /\ psFlush' = [psFlush EXCEPT ![i] = IF v = 0 THEN [at |-> psFlush[i].at + 1, val |-> 0] ELSE [at |-> psFlush[i].at, val |-> v]]
        /\ UNCHANGED <<psMem, psDisk, psNews, psContacted, psTimer, psLoad, psLoadVal, psOwed, psRefused>>
    BY <1>1, <1>2, <2>1 DEF FlushWrites
  <2>3. v \in Nat /\ v <= psNews /\ (psFlush[i].at = 1 => v = Known)
    BY <1>0, <2>1, <2>2, PersistParts DEF WasHeard, Known
  <2>4. PICK r : r = IF v = 0 THEN [at |-> psFlush[i].at + 1, val |-> 0] ELSE [at |-> psFlush[i].at, val |-> v]
    OBVIOUS
  <2>5. r \in R /\ r.val = v /\ r.at \in Nat /\ (v # 0 => r.at = psFlush[i].at) /\ (r.at = 1 => psFlush[i].at = 1)
    <3>1. v \in 0..MaxAnnounces
      BY <1>0, <2>3 DEF PersistTyped
    <3>2. CASE v = 0
      BY <2>2, <2>4, <3>1, <3>2
    <3>3. CASE v # 0
      BY <2>2, <2>4, <3>1, <3>3
    <3> QED
      BY <3>2, <3>3
  <2>6. /\ psFlush' \in Seq(R) /\ DOMAIN psFlush' = DOMAIN psFlush
        /\ psFlush'[i] = r /\ \A j \in DOMAIN psFlush : j # i => psFlush'[j] = psFlush[j]
    BY <1>1, <2>2, <2>4, <2>5
  <2>7. PersistTyped'
    BY <1>0, <2>2, <2>6 DEF PersistTyped
  <2>8. WasHeard'
    BY <1>0, <2>2, <2>3, <2>5, <2>6 DEF WasHeard
  <2>9. (psOwed <= Known)' /\ (psLoad = 1 => BeforeLoad)'
    <3>1. (psOwed <= Known)' /\ Known' = Known /\ Stored' = Stored
      BY <1>0, <2>2 DEF Known, Stored
    <3>2. (psLoad = 1 => BeforeLoad)'
      BY <1>0, <2>2, <2>3, <2>5, <2>6, <3>1, PersistParts DEF BeforeLoad
    <3> QED
      BY <3>1, <3>2
  <2>10. Pending'
    <3>1. SUFFICES ASSUME psOwed # 0, WritesOwed(psFlush, psOwed) PROVE WritesOwed(psFlush', psOwed)
      BY <1>0, <2>2 DEF Pending
    <3>2. PICK j \in DOMAIN psFlush : psFlush[j].at = 1 /\ (psFlush[j].val = 0 \/ psFlush[j].val >= psOwed)
      BY <3>1 DEF WritesOwed
    <3>3. CASE j = i
      <4>1. v = Known /\ v >= psOwed /\ v # 0
        BY <1>0, <2>3, <3>1, <3>2, <3>3, PersistParts
      <4>2. psFlush'[i].at = 1 /\ psFlush'[i].val >= psOwed
        BY <2>5, <2>6, <3>2, <3>3, <4>1
      <4> QED
        BY <2>6, <4>2 DEF WritesOwed
    <3>4. CASE j # i
      BY <2>6, <3>2, <3>4 DEF WritesOwed
    <3> QED
      BY <3>3, <3>4
  <2> QED
    BY <2>7, <2>8, <2>9, <2>10 DEF PersistInv
<1>3. CASE WriteEnds(i)
  <2>1. PICK n, w : n = Namespaces[psFlush[i].at] /\ w = psFlush[i].val
    OBVIOUS
  <2>2. /\ w # 0 /\ psDisk' = [psDisk EXCEPT ![n] = w]
        /\ psFlush' = [psFlush EXCEPT ![i] = [at |-> psFlush[i].at + 1, val |-> 0]]
        /\ psOwed' = IF n = "identities" /\ w >= psOwed THEN 0 ELSE psOwed
        /\ UNCHANGED <<psMem, psNews, psContacted, psTimer, psLoad, psLoadVal, psRefused>>
    BY <1>1, <1>3, <2>1 DEF WriteEnds
  <2>3. psFlush[i].at \in 1..3 /\ n \in Spaces /\ (n = "identities" <=> psFlush[i].at = 1) /\ w \in Nat /\ w <= psNews
    BY <1>0, <1>1, <2>1, <2>2 DEF WasHeard
  <2>4. PICK r : r = [at |-> psFlush[i].at + 1, val |-> 0]
    OBVIOUS
  <2>5. r \in R /\ r.val = 0 /\ r.at # 1
    BY <2>3, <2>4
  <2>6. /\ psFlush' \in Seq(R) /\ DOMAIN psFlush' = DOMAIN psFlush
        /\ psFlush'[i] = r /\ \A j \in DOMAIN psFlush : j # i => psFlush'[j] = psFlush[j]
    BY <1>1, <2>2, <2>4, <2>5
  <2>7. psDisk' \in [Spaces -> Nat] /\ psDisk'[n] = w /\ \A m \in Spaces : m # n => psDisk'[m] = psDisk[m]
    BY <1>0, <2>2, <2>3 DEF PersistTyped
  <2>8. psOwed' \in Nat /\ psOwed' <= psOwed /\ (psOwed' # 0 => psOwed' = psOwed /\ (n = "identities" => w < psOwed))
    BY <1>0, <2>2, <2>3, PersistParts
  <2>9. PersistTyped'
    BY <1>0, <2>2, <2>6, <2>7, <2>8 DEF PersistTyped
  <2>10. WasHeard'
    BY <1>0, <2>2, <2>3, <2>5, <2>6, <2>7, PersistParts DEF WasHeard
  <2>11. (psOwed <= Known)' /\ Known' = Known
    BY <1>0, <2>2, <2>8, PersistParts DEF Known
  <2>12. (psLoad = 1 => BeforeLoad)'
    <3> SUFFICES ASSUME psLoad = 1, BeforeLoad PROVE BeforeLoad'
      BY <1>0, <2>2
    <3>1. n = "identities" => w <= Known
      BY <2>1, <2>3 DEF BeforeLoad
    <3>2. (n = "identities" /\ Stored' = w) \/ (n # "identities" /\ Stored' = Stored)
      BY <2>7 DEF Stored
    <3>3. (Known = 0 \/ Stored = Torn \/ Stored <= Known)'
      BY <2>11, <3>1, <3>2 DEF BeforeLoad
    <3>4. (Known = 0 \/ psLoadVal = Torn \/ psLoadVal <= Known)'
      BY <2>2, <2>11 DEF BeforeLoad
    <3>5. (psOwed # 0 => (Stored = Torn \/ Stored <= psOwed) /\ (psLoadVal = Torn \/ psLoadVal <= psOwed))'
      BY <1>0, <2>2, <2>3, <2>8, <3>2, PersistParts DEF BeforeLoad
    <3>6. (\A j \in DOMAIN psFlush : psFlush[j].at = 1 => psFlush[j].val <= Known)'
      BY <2>5, <2>6, <2>11 DEF BeforeLoad
    <3> QED
      BY <3>3, <3>4, <3>5, <3>6 DEF BeforeLoad
  <2>13. Pending'
    <3>1. SUFFICES ASSUME psOwed' # 0, WritesOwed(psFlush, psOwed) PROVE WritesOwed(psFlush', psOwed)
      BY <1>0, <2>2, <2>8, PersistParts DEF Pending
    <3>2. PICK j \in DOMAIN psFlush : psFlush[j].at = 1 /\ (psFlush[j].val = 0 \/ psFlush[j].val >= psOwed)
      BY <3>1 DEF WritesOwed
    <3>3. j # i
      BY <1>0, <2>1, <2>2, <2>3, <2>8, <3>1, <3>2, PersistParts
    <3> QED
      BY <2>6, <3>2, <3>3 DEF WritesOwed
  <2> QED
    BY <2>9, <2>10, <2>11, <2>12, <2>13 DEF PersistInv
<1>4. CASE FlushEnds(i) \/ WriteFails(i)
  <2>1. psFlush' = RemoveAt(psFlush, i) /\ UNCHANGED <<psMem, psNews, psContacted, psTimer, psLoad, psLoadVal, psOwed>>
    BY <1>4 DEF FlushEnds, WriteFails, FlushDone
  <2>s. (psFlush[i].at = 1 => psRefused') /\ (psRefused => psRefused')
    <3>1. CASE FlushEnds(i)
      BY <1>1, <3>1 DEF FlushEnds
    <3>2. CASE WriteFails(i)
      <4>1. psRefused' = (psRefused \/ psFlush[i].at = 1)
        BY <3>2, Zenon DEF WriteFails
      <4> QED
        BY <4>1, Zenon
    <3> QED
      BY <1>4, <3>1, <3>2
  <2>a. psDisk' \in [Spaces -> Nat] /\ \A n \in Spaces : psDisk'[n] = psDisk[n] \/ psDisk'[n] = Torn
    <3>1. psDisk \in [Spaces -> Nat]
      BY <1>0 DEF PersistTyped
    <3>2. psDisk' = psDisk \/ \E cut : psDisk' = [n \in Spaces |-> IF n = cut THEN Torn ELSE psDisk[n]]
      <4>1. CASE FlushEnds(i)
        BY <4>1, Zenon DEF FlushEnds
      <4>2. CASE WriteFails(i)
        <5>1. \E cut \in {n \in Spaces : psFlush[i].val # 0 /\ n = Namespaces[psFlush[i].at]} \cup {"none"} :
                psDisk' = [n \in Spaces |-> IF n = cut THEN Torn ELSE psDisk[n]]
          BY <4>2, Zenon DEF WriteFails
        <5>2. PICK cut : psDisk' = [n \in Spaces |-> IF n = cut THEN Torn ELSE psDisk[n]]
          BY ONLY <5>1, Zenon
        <5> QED
          BY ONLY <5>2, Zenon
      <4> QED
        BY <1>4, <4>1, <4>2
    <3> QED
      BY <3>1, <3>2
  <2>b. Stored' = Stored \/ Stored' = Torn
    BY <2>a DEF Stored
  <2>2. PICK t : t = RemoveAt(psFlush, i)
    OBVIOUS
  <2>3. /\ t \in Seq(R) /\ \A j \in DOMAIN t : \E k \in DOMAIN psFlush : t[j] = psFlush[k]
        /\ \A k \in DOMAIN psFlush : k # i => \E j \in DOMAIN t : t[j] = psFlush[k]
    BY <1>1, <2>2, FlushRemoved
  <2>4. PersistTyped'
    BY <1>0, <2>1, <2>2, <2>3, <2>a DEF PersistTyped
  <2>5. WasHeard'
    BY <1>0, <2>1, <2>2, <2>3, <2>a DEF WasHeard
  <2>c. Known' = Known
    BY <2>1 DEF Known
  <2>6. (psOwed <= Known)' /\ (psLoad = 1 => BeforeLoad)'
    BY <1>0, <2>1, <2>2, <2>3, <2>b, <2>c DEF BeforeLoad
  <2>7. Pending'
    <3>1. SUFFICES ASSUME WritesOwed(psFlush, psOwed), ~psRefused' PROVE WritesOwed(t, psOwed)
      BY <1>0, <2>1, <2>s, <2>2 DEF Pending
    <3>2. PICK k \in DOMAIN psFlush : psFlush[k].at = 1 /\ (psFlush[k].val = 0 \/ psFlush[k].val >= psOwed)
      BY <3>1 DEF WritesOwed
    <3>3. k # i
      BY <2>s, <3>1, <3>2
    <3>4. PICK j \in DOMAIN t : t[j] = psFlush[k]
      BY <2>3, <3>3
    <3> QED
      BY <3>2, <3>4 DEF WritesOwed
  <2> QED
    BY <2>4, <2>5, <2>6, <2>7 DEF PersistInv
<1> QED
    BY <1>2, <1>3, <1>4 DEF FlushStep

\* The load: a namespace is read, applied, and the ratchets of nobody are dropped.
LEMMA LoadSteps ==
    ASSUME PersistInv, LoadReads \/ LoadApplies \/ CleanKnownRatchets
    PROVE  PersistInv'
<1> USE NamespaceNames, PersistAssumption
<1>0. PersistTyped /\ WasHeard /\ psOwed <= Known /\ (psLoad = 1 => BeforeLoad) /\ Pending
    BY DEF PersistInv
<1>1. CASE LoadReads
  <2>1. PICK v : v = psDisk[Namespaces[psLoad]]
    OBVIOUS
  <2>2. /\ psLoad \in 1..3 /\ psLoadVal = Torn
        /\ (psLoad' = psLoad + 1 /\ psLoadVal' = psLoadVal) \/ (psLoadVal' = v /\ psLoad' = psLoad)
        /\ UNCHANGED <<psMem, psDisk, psNews, psContacted, psTimer, psFlush, psOwed, psRefused>>
    BY <1>1, <2>1 DEF LoadReads
  <2>3. v \in Nat /\ (v = Torn \/ v <= psNews) /\ (psLoad = 1 => v = Stored)
    BY <1>0, <2>1, <2>2, PersistParts DEF WasHeard, Stored
  <2>4. PersistTyped'
    BY <1>0, <2>2, <2>3 DEF PersistTyped
  <2>5. WasHeard'
    BY <1>0, <2>2, <2>3 DEF WasHeard
  <2>6. (psOwed <= Known)' /\ Known' = Known /\ Stored' = Stored
    BY <1>0, <2>2 DEF Known, Stored
  <2>7. (psLoad = 1 => BeforeLoad)'
    BY <1>0, <2>2, <2>3, <2>6 DEF BeforeLoad
  <2>8. Pending'
    BY <1>0, <2>2 DEF WritesOwed, Pending
  <2> QED
    BY <2>4, <2>5, <2>6, <2>7, <2>8 DEF PersistInv
<1>2. CASE LoadApplies
  <2>1. /\ psLoad \in 1..3 /\ psLoadVal # Torn /\ psMem' = [psMem EXCEPT ![Namespaces[psLoad]] = psLoadVal]
        /\ psLoad' = psLoad + 1 /\ psLoadVal' = Torn /\ psOwed' = (IF psOwed # 0 /\ psLoad = 1 THEN psLoadVal ELSE psOwed)
        /\ psContacted' = TRUE /\ UNCHANGED <<psDisk, psNews, psTimer, psFlush, psRefused>>
    BY <1>2 DEF LoadApplies
  <2>2. PICK n : n = Namespaces[psLoad]
    OBVIOUS
  <2>3. n \in Spaces /\ (n = "identities" <=> psLoad = 1) /\ psLoadVal <= psNews
    BY <1>0, <2>1, <2>2 DEF WasHeard
  <2>4. psMem' \in [Spaces -> Nat] /\ psMem'[n] = psLoadVal /\ \A m \in Spaces : m # n => psMem'[m] = psMem[m]
    BY <1>0, <2>1, <2>2, <2>3 DEF PersistTyped
  <2>5. PersistTyped'
    BY <1>0, <2>1, <2>4 DEF PersistTyped
  <2>6. WasHeard'
    BY <1>0, <2>1, <2>3, <2>4 DEF WasHeard
  <2>7. psLoad' # 1
    BY <2>1
  <2>8. (psOwed <= Known)' /\ Pending'
    <3>1. CASE psLoad = 1 /\ psOwed # 0
      <4>1. psOwed' = psLoadVal /\ Known' = psLoadVal /\ psLoadVal <= psOwed
        BY <1>0, <2>1, <2>3, <2>4, <3>1 DEF Known, BeforeLoad
      <4>2. psTimer' = psTimer /\ psFlush' = psFlush /\ psRefused' = psRefused /\ psContacted'
        BY <2>1
      <4>3. WritesOwed(psFlush, psOwed) => WritesOwed(psFlush, psLoadVal)
        BY <1>0, <4>1, PersistParts DEF WritesOwed
      <4> QED
        BY <1>0, <3>1, <4>1, <4>2, <4>3, PersistParts DEF Pending
    <3>2. CASE psLoad = 1 /\ psOwed = 0
      <4>1. psOwed' = 0 /\ Known' \in Nat
        BY <1>0, <2>1, <2>3, <2>4, <3>2 DEF Known
      <4> QED
        BY <4>1 DEF Pending
    <3>3. CASE psLoad # 1
      <4>1. psOwed' = psOwed /\ Known' = Known /\ psTimer' = psTimer /\ psFlush' = psFlush /\ psRefused' = psRefused /\ psContacted'
        BY <2>1, <2>3, <2>4, <3>3 DEF Known
      <4> QED
        BY <1>0, <4>1 DEF Pending
    <3> QED
      BY <3>1, <3>2, <3>3
  <2> QED
    BY <2>5, <2>6, <2>7, <2>8 DEF PersistInv
<1>3. CASE CleanKnownRatchets
  <2>1. /\ psLoad' = 5 /\ psMem' \in {psMem, [psMem EXCEPT !["ratchets"] = 0]}
        /\ UNCHANGED <<psDisk, psNews, psContacted, psTimer, psFlush, psLoadVal, psOwed, psRefused>>
    BY <1>3 DEF CleanKnownRatchets
  <2>2. psMem' \in [Spaces -> Nat] /\ Known' = Known /\ \A n \in Spaces : psMem'[n] = psMem[n] \/ psMem'[n] = 0
    BY <1>0, <2>1 DEF PersistTyped, Known, Spaces
  <2>3. PersistTyped'
    BY <1>0, <2>1, <2>2 DEF PersistTyped
  <2>4. WasHeard'
    BY <1>0, <2>1, <2>2, PersistParts DEF WasHeard
  <2>5. Pending'
    BY <1>0, <2>1 DEF WritesOwed, Pending
  <2> QED
    BY <1>0, <2>1, <2>2, <2>3, <2>4, <2>5 DEF PersistInv
<1> QED
    BY <1>1, <1>2, <1>3

\* What a contact owes the store is never forgotten: every flush writes the destination, and
\* the flush timer is set, or a flush under way has still to write the identity in that
\* version or a newer one, or the store has refused the last one, whatever flushes, loads,
\* announces, contacts and refused writes overlap (markContacted, _scheduleFlush, flush, load).
THEOREM PersistSafety == PersistInit /\ [][PersistNext]_persistVars => []ContactIsPending
<1>1. PersistInv /\ [PersistNext]_persistVars => PersistInv'
  <2> SUFFICES ASSUME PersistInv, [PersistNext]_persistVars PROVE PersistInv'
    OBVIOUS
  <2>1. CASE PersistNext
    <3>1. ASSUME NEW i \in DOMAIN psFlush, FlushStep(i) PROVE PersistInv'
      BY <3>1, FlushSteps
    <3> QED
      BY <2>1, <3>1, FlushStarts, LoadSteps, NewsSteps DEF PersistNext, PersistStep
  <2>2. CASE UNCHANGED persistVars
    BY <2>2 DEF persistVars, PersistInv, PersistTyped, WasHeard, BeforeLoad, Known, Stored, WritesOwed, Pending
  <2> QED
    BY <2>1, <2>2
<1>2. PersistInv => ContactIsPending
    BY DEF PersistInv, Pending, ContactIsPending, WritesOwed
<1> QED
    BY <1>1, <1>2, PersistInitially, PTL

-----------------------------------------------------------------------------
\* Signalling.

\* Until the offer starts on its way there is no waiter; it is resolved only by an answer.
SignalInv ==
    /\ sgDial \in [Nodes -> {"idle", "linking", "gathering", "offering", "awaiting", "opening", "done", "failed"}]
    /\ sgWaiter \in [Nodes -> {"none", "armed", "resolved", "rejected", "cancelled"}]
    /\ sgPeer \in [Nodes -> {"idle", "answering", "answered", "adopted", "failed"}]
    /\ WaiterFollowsDial
    /\ \A n \in Nodes :
        /\ sgDial[n] \in {"linking", "gathering"} => sgWaiter[n] = "none" /\ sgPeer[n] = "idle"
        /\ sgDial[n] = "offering" => sgWaiter[n] \in {"armed", "resolved", "rejected"}
        /\ sgWaiter[n] = "resolved" => sgPeer[n] \in {"answered", "adopted"}

\* The answer waiter of a dial is armed only while the dial needs it, and a dial goes on to
\* its channel only when the peer has answered, for any nodes that dial each other, whatever
\* is lost, times out or is stopped.
THEOREM SignalSafety == SignalInit /\ [][SignalNext]_signalVars => []WaiterFollowsDial
<1>1. SignalInit => SignalInv
    BY DEF SignalInit, SignalInv, WaiterFollowsDial
<1>2. SignalInv /\ [SignalNext]_signalVars => SignalInv'
  <2> SUFFICES ASSUME SignalInv, [SignalNext]_signalVars PROVE SignalInv'
    OBVIOUS
  <2>1. ASSUME UNCHANGED <<sgDial, sgWaiter, sgPeer>> PROVE SignalInv'
    BY <2>1 DEF SignalInv, WaiterFollowsDial
  <2>2. ASSUME NEW n \in Nodes, StartOrStop(n) \/ ChannelOpens(n) \/ ChannelCloses(n) PROVE SignalInv'
    BY <2>1, <2>2 DEF StartOrStop, ChannelOpens, ChannelCloses, dialVars
  <2>3. ASSUME NEW n \in Nodes, Connect(n) PROVE SignalInv'
    BY <2>3 DEF Connect, SignalInv, WaiterFollowsDial
  <2>4. ASSUME NEW n \in Nodes, LinkEstablished(n) PROVE SignalInv'
    BY <2>4 DEF LinkEstablished, Fails, SignalInv, WaiterFollowsDial
  <2>5. ASSUME NEW n \in Nodes, SendOffer(n) PROVE SignalInv'
    BY <2>5 DEF SendOffer, Fails, SignalInv, WaiterFollowsDial
  <2>6. ASSUME NEW n \in Nodes, OfferArrives(n) PROVE SignalInv'
    BY <2>6 DEF OfferArrives, dialVars, SignalInv, WaiterFollowsDial
  <2>7. ASSUME NEW n \in Nodes, OfferSent(n) PROVE SignalInv'
    BY <2>7 DEF OfferSent, SignalInv, WaiterFollowsDial
  <2>8. ASSUME NEW n \in Nodes, OfferFails(n) PROVE SignalInv'
    BY <2>8 DEF OfferFails, Fails, SignalInv, WaiterFollowsDial
  <2>9. ASSUME NEW n \in Nodes, AnswerArrives(n) PROVE SignalInv'
    BY <2>9 DEF AnswerArrives, Settles, dialVars, SignalInv, WaiterFollowsDial
  <2>10. ASSUME NEW n \in Nodes, AnswerFails(n) PROVE SignalInv'
    BY <2>10 DEF AnswerFails, dialVars, SignalInv, WaiterFollowsDial
  <2>11. ASSUME NEW n \in Nodes, AnswerTimeout(n) PROVE SignalInv'
    BY <2>11 DEF AnswerTimeout, Settles, SignalInv, WaiterFollowsDial
  <2>12. ASSUME NEW n \in Nodes, AnswerAwaited(n) PROVE SignalInv'
    BY <2>12 DEF AnswerAwaited, Fails, SignalInv, WaiterFollowsDial
  <2>13. ASSUME NEW n \in Nodes, Adopt(n) PROVE SignalInv'
    BY <2>13 DEF Adopt, Fails, SignalInv, WaiterFollowsDial
  <2>14. ASSUME NEW n \in Nodes, PeerAdopts(n) PROVE SignalInv'
    BY <2>14 DEF PeerAdopts, dialVars, SignalInv, WaiterFollowsDial
  <2>15. CASE UNCHANGED signalVars
    BY <2>1, <2>15 DEF signalVars
  <2> QED
    BY <2>2, <2>3, <2>4, <2>5, <2>6, <2>7, <2>8, <2>9, <2>10, <2>11, <2>12, <2>13, <2>14, <2>15 DEF SignalNext
<1>3. SignalInv => WaiterFollowsDial
    BY DEF SignalInv
<1> QED
    BY <1>1, <1>2, <1>3, PTL
=============================================================================
