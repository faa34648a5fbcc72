------------------------------ MODULE Transport ------------------------------
(***************************************************************************)
(* How TransportCore sends a packet and learns what became of it            *)
(* (packages/core/src/transport/transport.js, core/packet_receipt.js):      *)
(* sendPacket picks an egress from the path table, awaits the write and     *)
(* then registers a PacketReceipt; the receipt is settled by an inbound     *)
(* PROOF, whose signature check is awaited, or by its timeout; either       *)
(* outcome marks the path.  Meanwhile announces, whose validation is        *)
(* awaited too, replace the path, and interfaces are attached, lose their   *)
(* connection, reconnect and are removed.                                   *)
(*                                                                          *)
(* Packets are addressed to one destination; LinkPackets are DATA packets   *)
(* on an active link, sent through the same function.  A packet exchange    *)
(* lasts seconds and a path entry a week, so the clock of PathTable stands  *)
(* still at Now.                                                            *)
(***************************************************************************)
EXTENDS PathTable

CONSTANTS
    Packets,           \* DATA packets with context NONE, each sent once
    LinkPackets,       \* those addressed to a link
    LinkInterface,     \* the link's attachedInterface
    MaxValidating      \* bound: announces being validated at once

ASSUME TransportAssumption ==
    /\ LinkPackets \subseteq Packets
    /\ LinkInterface \in Interfaces
    /\ MaxValidating \in Nat

VARIABLES
    route,             \* the path table's entry for the destination
    attached,          \* interfaces
    defaultInterface,
    writer,            \* each interface's _packetWriter
    validating,        \* announces awaiting validateAnnounce, getHash, ...
    send,              \* where each sendPacket call is
    via,               \* the kind of egress it chose
    arrived,           \* packets the destination received (and proved)
    proofHeard,        \* proofs that reached this node
    checking,          \* _handleProof calls awaiting validateProof
    status,            \* each PacketReceipt's status
    timer,             \* receipts whose _timeoutTimer is armed
    registered,        \* caches.receipts
    told,              \* what whenSettled resolved to
    tried              \* history: a packet was written to the present path

pathVars    == <<route, tried>>
ifaceVars   == <<attached, defaultInterface, writer>>
receiptVars == <<status, timer, registered, told>>
sendVars    == <<send, via>>
proofVars   == <<arrived, proofHeard, checking>>
vars == <<pathVars, ifaceVars, validating, receiptVars, sendVars, proofVars>>

Now == 0

Entry == [randomBlob : Blobs, hops : Hops, viaInterface : Interfaces]

Settlement == {"none", "DELIVERED", "FAILED"}

TypeOK ==
    /\ route \in Route \cup {NoRoute}
    /\ tried \in BOOLEAN
    /\ attached \subseteq Interfaces
    /\ defaultInterface \in Interfaces \cup {NoInterface}
    /\ writer \in [Interfaces -> {"none", "live", "dead"}]
    /\ validating \subseteq Entry
    /\ send \in [Packets -> {"idle", "writing", "doomed", "sent", "threw"}]
    /\ via \in [Packets -> {"none", "path", "link", "default"}]
    /\ arrived \subseteq Packets
    /\ proofHeard \subseteq Packets
    /\ checking \subseteq [packet : Packets, valid : BOOLEAN]
    /\ status \in [Packets -> Settlement \cup {"SENDING"}]
    /\ timer \subseteq Packets
    /\ registered \subseteq Packets
    /\ told \in [Packets -> Settlement]

(* The table may hold an entry read back from storage, whose interface was *)
(* not attached yet when it was loaded.                                    *)
Hydrated(i, b) ==
    [interface |-> NoInterface, interfaceName |-> i, hops |-> 1,
     timestamp |-> Now, expires |-> Now + PATH_EXPIRY, randomBlobs |-> <<b>>,
     state |-> "UNKNOWN"]

Init ==
    /\ route \in {NoRoute} \cup {Hydrated(i, b) : i \in Interfaces, b \in Blobs}
    /\ tried = FALSE
    /\ attached = {}
    /\ defaultInterface = NoInterface
    /\ writer = [i \in Interfaces |-> "none"]
    /\ validating = {}
    /\ send = [p \in Packets |-> "idle"]
    /\ via = [p \in Packets |-> "none"]
    /\ arrived = {}
    /\ proofHeard = {}
    /\ checking = {}
    /\ status = [p \in Packets |-> "none"]
    /\ timer = {}
    /\ registered = {}
    /\ told = [p \in Packets |-> "none"]

-----------------------------------------------------------------------------
(* Interfaces.                                                             *)

(* addInterface: a writer is acquired if the interface already has its     *)
(* streams and no writer object is left over from an earlier attachment    *)
AddInterface(i, isDefault) ==
    /\ i \notin attached
    /\ attached' = attached \cup {i}
    /\ defaultInterface' = IF isDefault THEN i ELSE defaultInterface
    /\ \/ writer' = writer
       \/ writer[i] = "none" /\ writer' = [writer EXCEPT ![i] = "live"]
    /\ UNCHANGED <<pathVars, validating, receiptVars, sendVars, proofVars>>

(* the `connected` event: the interface replaced its streams and dropped   *)
(* the old writer, and the transport's listener acquires a new one         *)
Connected(i) ==
    /\ i \in attached
    /\ writer[i] # "live"
    /\ writer' = [writer EXCEPT ![i] = "live"]
    /\ UNCHANGED <<pathVars, attached, defaultInterface, validating,
                   receiptVars, sendVars, proofVars>>

(* _handleConnectionLost of a reconnecting interface: the streams are gone, *)
(* _packetWriter still refers to the old one until the next connection      *)
ConnectionLost(i) ==
    /\ writer[i] = "live"
    /\ writer' = [writer EXCEPT ![i] = "dead"]
    /\ UNCHANGED <<pathVars, attached, defaultInterface, validating,
                   receiptVars, sendVars, proofVars>>

(* removeInterface, on the `closed` event or by the application: the lock   *)
(* is released, the writer object stays                                     *)
RemoveInterface(i) ==
    /\ i \in attached
    /\ attached' = attached \ {i}
    /\ writer' = IF writer[i] = "none" THEN writer
                 ELSE [writer EXCEPT ![i] = "dead"]
    /\ route' = dropInterface(route, i)
    /\ defaultInterface' = IF defaultInterface = i THEN NoInterface
                           ELSE defaultInterface
    /\ UNCHANGED <<tried, validating, receiptVars, sendVars, proofVars>>

-----------------------------------------------------------------------------
(* Announces and links.                                                    *)

(* _handleAnnounce up to its first await *)
AnnounceArrives(e) ==
    /\ e.viaInterface \in attached
    /\ Cardinality(validating) < MaxValidating
    /\ e \notin validating
    /\ validating' = validating \cup {e}
    /\ UNCHANGED <<pathVars, ifaceVars, receiptVars, sendVars, proofVars>>

(* ... and after the last: the entry is stored with the receiving interface *)
AnnounceIngested(e) ==
    LET found == getRoute(route, Now, attached)
    IN  /\ e \in validating
        /\ validating' = validating \ {e}
        /\ route' = addOrUpdateRoute(found, e, Now)
        /\ tried' = (tried /\ ~shouldAdd(found, e, Now))
        /\ UNCHANGED <<ifaceVars, receiptVars, sendVars, proofVars>>

(* a link attempt over the path failed: expirePath *)
LinkFails ==
    /\ route # NoRoute
    /\ route' = expireRoute(route)
    /\ UNCHANGED <<tried, ifaceVars, validating, receiptVars, sendVars, proofVars>>

-----------------------------------------------------------------------------
(* sendPacket.                                                             *)

HasWriter(i) == i # NoInterface /\ writer[i] # "none"

(* a path confirmed dead is not used again *)
Trusted(r) == IF r # NoRoute /\ r.state = "UNRESPONSIVE" THEN NoRoute ELSE r

EgressOf(r) == IF r # NoRoute /\ r.interface # NoInterface THEN r.interface
               ELSE defaultInterface

(* ... nor one whose egress has no writer: both are expired *)
Usable(r) == IF r # NoRoute /\ HasWriter(EgressOf(r)) THEN r ELSE NoRoute

(* a write to a closed or released stream can only reject *)
Write(p, kind, i) ==
    /\ send' = [send EXCEPT ![p] = IF writer[i] = "live" THEN "writing"
                                   ELSE "doomed"]
    /\ via' = [via EXCEPT ![p] = kind]

Throw(p) == send' = [send EXCEPT ![p] = "threw"] /\ via' = via

(* sendPacket to the destination, from getHash to the awaited write *)
SendPacket(p) ==
    LET best == Usable(Trusted(getRoute(route, Now, attached)))
    IN  /\ p \notin LinkPackets
        /\ send[p] = "idle"
        /\ route' = best
        /\ IF best # NoRoute
           THEN Write(p, "path", EgressOf(best)) /\ tried' = TRUE
           ELSE /\ tried' = FALSE
                /\ IF HasWriter(defaultInterface)
                   THEN Write(p, "default", defaultInterface) ELSE Throw(p)
        /\ UNCHANGED <<ifaceVars, validating, receiptVars, proofVars>>

(* the same function with a link's packet: there is no path to a link id *)
SendOnLink(p) ==
    /\ p \in LinkPackets
    /\ send[p] = "idle"
    /\ IF HasWriter(LinkInterface) THEN Write(p, "link", LinkInterface)
       ELSE Throw(p)
    /\ UNCHANGED <<pathVars, ifaceVars, validating, receiptVars, proofVars>>

(* mutant: startTimeout is forgotten *)
WriteResolvesUntimed(p) ==
    /\ send[p] = "writing"
    /\ send' = [send EXCEPT ![p] = "sent"]
    /\ route' = IF p \in LinkPackets THEN route
                ELSE getRoute(route, Now, attached)
    /\ status' = [status EXCEPT ![p] = "SENDING"]
    /\ registered' = registered \cup {p}
    /\ UNCHANGED <<timer, tried, told, via, ifaceVars, validating, proofVars>>

(* the write resolves: the receipt is created, its timeout started (which  *)
(* looks the path up for its bitrate), and only now is it registered       *)
WriteResolves(p) ==
    /\ send[p] = "writing"
    /\ send' = [send EXCEPT ![p] = "sent"]
    /\ route' = IF p \in LinkPackets THEN route
                ELSE getRoute(route, Now, attached)
    /\ status' = [status EXCEPT ![p] = "SENDING"]
    /\ timer' = timer \cup {p}
    /\ registered' = registered \cup {p}
    /\ UNCHANGED <<tried, told, via, ifaceVars, validating, proofVars>>

(* mutant: a local write error is taken for a dead path *)
WriteRejectsMarking(p) ==
    /\ send[p] \in {"writing", "doomed"}
    /\ Throw(p)
    /\ route' = markState(route, "UNRESPONSIVE")
    /\ UNCHANGED <<tried, ifaceVars, validating, receiptVars, proofVars>>

(* the write rejects: sendPacket throws, nothing is registered *)
WriteRejects(p) ==
    /\ send[p] \in {"writing", "doomed"}
    /\ Throw(p)
    /\ UNCHANGED <<pathVars, ifaceVars, validating, receiptVars, proofVars>>

-----------------------------------------------------------------------------
(* The network and the proofs.                                             *)

(* The destination receives the packet and proves it; the proof may be     *)
(* lost or take any time.                                                  *)
Arrive(p) ==
    /\ send[p] \in {"writing", "sent"}
    /\ arrived' = arrived \cup {p}
    /\ UNCHANGED <<pathVars, ifaceVars, validating, receiptVars, sendVars,
                   proofHeard, checking>>

(* findReceipt and the status check *)
Outstanding(p) == p \in registered /\ status[p] = "SENDING"

(* _handleProof up to its await.  A repetition of the proof is dropped by  *)
(* the duplicate filter, a link's proof is handled by the link.            *)
ProofArrives(p) ==
    /\ p \in arrived \ (proofHeard \cup LinkPackets)
    /\ proofHeard' = proofHeard \cup {p}
    /\ checking' = IF Outstanding(p)
                   THEN checking \cup {[packet |-> p, valid |-> TRUE]}
                   ELSE checking
    /\ UNCHANGED <<pathVars, ifaceVars, validating, receiptVars, sendVars, arrived>>

(* a proof that does not verify: another length, hash or signature *)
BadProofArrives(p) ==
    /\ Outstanding(p)
    /\ p \notin LinkPackets
    /\ checking' = checking \cup {[packet |-> p, valid |-> FALSE]}
    /\ UNCHANGED <<pathVars, ifaceVars, validating, receiptVars, sendVars,
                   arrived, proofHeard>>

(* mutant: resolves with the status before the change *)
TellEarly(p, s) ==
    told' = [told EXCEPT ![p] = IF @ = "none" THEN status[p] ELSE @]

(* the promise of whenSettled resolves once *)
Tell(p, s) == told' = [told EXCEPT ![p] = IF @ = "none" THEN s ELSE @]

(* mutant: clearTimeout is forgotten *)
setDeliveredTimed(p) ==
    /\ status' = [status EXCEPT ![p] = "DELIVERED"]
    /\ timer' = timer
    /\ registered' = registered \ {p}
    /\ Tell(p, "DELIVERED")

setDelivered(p) ==
    /\ status' = [status EXCEPT ![p] = "DELIVERED"]
    /\ timer' = timer \ {p}
    /\ registered' = registered \ {p}
    /\ Tell(p, "DELIVERED")

(* the transport's `failed` callback marks the path *)
setFailed(p) ==
    /\ status' = [status EXCEPT ![p] = "FAILED"]
    /\ timer' = timer \ {p}
    /\ registered' = registered \ {p}
    /\ Tell(p, "FAILED")
    /\ route' = IF p \in LinkPackets THEN route
                ELSE markState(route, "UNRESPONSIVE")

(* mutant: the result of the signature check is not looked at *)
ValidateProofBlindly(c) ==
    /\ c \in checking
    /\ checking' = checking \ {c}
    /\ setDelivered(c.packet)
    /\ route' = markState(route, "RESPONSIVE")
    /\ UNCHANGED <<tried, ifaceVars, validating, sendVars, arrived, proofHeard>>

(* validateProof resolved: settle the receipt and mark the path *)
ValidateProof(c) ==
    /\ c \in checking
    /\ checking' = checking \ {c}
    /\ \/ /\ c.valid
          /\ setDelivered(c.packet)
          /\ route' = markState(route, "RESPONSIVE")
       \/ ~c.valid /\ UNCHANGED <<receiptVars, route>>
    /\ UNCHANGED <<tried, ifaceVars, validating, sendVars, arrived, proofHeard>>

(* the timer of startTimeout *)
ReceiptTimeout(p) ==
    /\ p \in timer
    /\ setFailed(p)
    /\ UNCHANGED <<tried, ifaceVars, validating, sendVars, proofVars>>

-----------------------------------------------------------------------------
Next ==
    \/ \E i \in Interfaces :
         \/ \E d \in BOOLEAN : AddInterface(i, d)
         \/ Connected(i)
         \/ ConnectionLost(i)
         \/ RemoveInterface(i)
    \/ \E e \in Entry : AnnounceArrives(e) \/ AnnounceIngested(e)
    \/ LinkFails
    \/ \E p \in Packets :
         \/ SendPacket(p)
         \/ SendOnLink(p)
         \/ WriteResolves(p)
         \/ WriteRejects(p)
         \/ Arrive(p)
         \/ ProofArrives(p)
         \/ BadProofArrives(p)
         \/ ReceiptTimeout(p)
    \/ \E c \in checking : ValidateProof(c)

Spec == Init /\ [][Next]_vars

(* An awaited write settles, a promise continuation and an armed timer run. *)
Fairness ==
    /\ \A p \in Packets :
         /\ WF_vars(WriteResolves(p) \/ WriteRejects(p))
         /\ WF_vars(ReceiptTimeout(p))
    /\ WF_vars(\E c \in checking : ValidateProof(c))

FairSpec == Spec /\ Fairness

-----------------------------------------------------------------------------
(* Properties.                                                             *)

(* _handleProof: a receipt is DELIVERED, and its waiter told so, only if    *)
(* the destination really received the packet, whatever proofs arrive,     *)
(* repeated, forged, early or late.                                        *)
DeliveredIsReceived ==
    \A p \in Packets :
       status[p] = "DELIVERED" \/ told[p] = "DELIVERED" => p \in arrived

(* trackReceipt, _unregister and the timeout: the registry holds exactly   *)
(* the receipts that still wait for their proof, each with its timer armed, *)
(* so nothing leaks and no registered receipt can wait for ever.           *)
RegistryIsExact ==
    \A p \in Packets :
       /\ p \in registered <=> status[p] = "SENDING"
       /\ p \in timer <=> status[p] = "SENDING"

(* markPathResponsive and markPathUnresponsive: the table's verdict on a   *)
(* path rests on a packet to the destination that was proved, or on one    *)
(* whose wait ran out.                                                     *)
VerdictHasEvidence ==
    route # NoRoute =>
       /\ route.state = "RESPONSIVE" =>
             \E p \in Packets \ LinkPackets : p \in arrived
       /\ route.state = "UNRESPONSIVE" =>
             \E p \in Packets \ LinkPackets : told[p] = "FAILED"

(* Receipts are honest, the registry of those still waiting is exact, and  *)
(* no path is judged without evidence (_handleProof, trackReceipt,         *)
(* markPathResponsive, markPathUnresponsive).                              *)
ReceiptsSafe == DeliveredIsReceived /\ RegistryIsExact /\ VerdictHasEvidence

(* startTimeout "guarantees settlement even when no PROOF ever arrives":   *)
(* every send that is under way returns, and every receipt it returned     *)
(* settles.                                                                *)
SendsSettle ==
    \A p \in Packets :
       send[p] \in {"writing", "doomed", "sent"} ~>
          send[p] = "threw" \/ told[p] # "none"

(* whenSettled yields "the final" status of a receipt that reached "a      *)
(* terminal state".                                                        *)
SettledIsFinal ==
    \A p \in Packets : told[p] # "none" => status[p] = told[p]

(* sendPacket: the receipt is tracked "so the receiver's PROOF can resolve *)
(* it"; a receipt does not fail when its proof had arrived and is not      *)
(* being checked any more.                                                 *)
HeardProofsCount ==
    [][\A p \in Packets :
          told[p] = "none" /\ told'[p] = "FAILED" =>
             p \notin proofHeard \/ \E c \in checking : c.packet = p]_vars

(* sendPacket: "a route marked UNRESPONSIVE by a failed proof/link attempt *)
(* is a confirmed-dead path": some packet was sent over that very path.    *)
CondemnedWasTried ==
    route # NoRoute /\ route.state = "UNRESPONSIVE" => tried

(* addOrUpdateRoute accepts an alternative to an unresponsive path "so we  *)
(* try an alternative instead of trusting a known-dead path": the entry    *)
(* that replaced a path is one the next send does not throw away.          *)
AlternativesAreTried ==
    [][\A e \in validating :
          AnnounceIngested(e) /\ route # NoRoute /\ route' # route
             => route'.state # "UNRESPONSIVE"]_vars

(* sendPacket: "a route whose learning interface has no live packet writer *)
(* cannot carry traffic", the send degrades instead of failing with an     *)
(* opaque error: no send rides a path into a stream that is gone.          *)
PathsAreLive ==
    \A p \in Packets : via[p] = "path" => send[p] # "doomed"

(* dropInterface "drops every route learned through it so subsequent sends *)
(* seek an alternative path (failover)": no route points to an interface   *)
(* that is not attached.                                                   *)
RoutesAreAttached ==
    route # NoRoute => route.interface \in attached \cup {NoInterface}

(* sendPacket: "Link DATA proofs are always explicit and resolved on the   *)
(* link itself, so they are excluded here": no receipt for a link packet.  *)
LinkDataIsExcluded == \A p \in LinkPackets : status[p] = "none"
=============================================================================
