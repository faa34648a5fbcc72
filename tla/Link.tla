-------------------------------- MODULE Link --------------------------------
(***************************************************************************)
(* The life of one Link, both ends (packages/core/src/transport/link.js):  *)
(* LINKREQUEST / LRPROOF / LRRTT handshake, establishment timeout, data and *)
(* its proofs, LINKCLOSE, watchdog, and the status setter with everything   *)
(* it releases.  Each await of the code is a point where other steps run.   *)
(*                                                                          *)
(* A packet is its context; keys, signatures and bodies are abstracted to   *)
(* "the end has the session token".  Timeouts may fire whenever they are    *)
(* armed.  Bad signatures and malformed bodies throw before any state       *)
(* changes and are not modelled.                                            *)
(***************************************************************************)
EXTENDS Integers, Sequences

CONSTANTS
    MaxTeardowns, \* bound: teardown() calls per end
    MaxData,      \* bound: DATA packets of both ends together
    QueueBound    \* bound: packets waiting in an end's _rxQueue

ASSUME BoundsAssumption ==
    MaxTeardowns \in Nat /\ MaxData \in Nat /\ QueueBound \in Nat

Ends == {"initiator", "responder"}
Peer(e) == IF e = "initiator" THEN "responder" ELSE "initiator"

Statuses == {"PENDING", "HANDSHAKE", "ACTIVE", "CLOSED"}
Contexts == {"LINKREQUEST", "LRPROOF", "LRRTT", "LINKCLOSE", "DATA", "PROOF",
             "PING", "PONG"}
Reasons == {"none", "TIMEOUT", "INITIATOR_CLOSED", "DESTINATION_CLOSED"}

\* Where the packet at the head of the receive queue is suspended.
Stages == {"idle", "validating", "keyed", "rttSent", "decrypting", "proving",
           "verifying"}

VARIABLES
    status,         \* _status of each end
    token,          \* whether the end has derived the session token
    registered,     \* whether the end is in its transport's activeLinks
    estTimer,       \* whether the establishment timer is armed
    watchdog,       \* whether the watchdog interval runs
    rxQueue,        \* _rxQueue of each end
    stage,          \* progress of the packet being processed
    accepting,      \* responder: accept() awaits _sendLRProof
    closing,        \* teardown() calls awaiting _sendLinkClose
    teardowns,      \* bound: teardown() calls made
    sendingData,    \* send(DATA) calls awaiting the encryption
    dataSent,       \* bound: DATA packets sent
    pendingProofs,  \* size of _pendingLinkProofs
    teardownReason, \* teardownReason
    established,    \* "established" events dispatched
    pathExpired,    \* whether the transport's path was expired on close
    net             \* packets in transit to each end

vars == <<status, token, registered, estTimer, watchdog, rxQueue, stage,
          accepting, closing, teardowns, sendingData, dataSent, pendingProofs,
          teardownReason, established, pathExpired, net>>

lifeVars == <<status, registered, estTimer, watchdog, pendingProofs, pathExpired>>
rxVars == <<rxQueue, stage>>
appVars == <<accepting, closing, teardowns, sendingData, dataSent>>

Init ==
    /\ status = [e \in Ends |-> "PENDING"]
    /\ token = [e \in Ends |-> FALSE]
    /\ registered = [e \in Ends |-> FALSE]
    /\ estTimer = [e \in Ends |-> FALSE]
    /\ watchdog = [e \in Ends |-> FALSE]
    /\ rxQueue = [e \in Ends |-> << >>]
    /\ stage = [e \in Ends |-> "idle"]
    /\ accepting = FALSE
    /\ closing = [e \in Ends |-> 0]
    /\ teardowns = [e \in Ends |-> 0]
    /\ sendingData = [e \in Ends |-> 0]
    /\ dataSent = [e \in Ends |-> 0]
    /\ pendingProofs = [e \in Ends |-> 0]
    /\ teardownReason = [e \in Ends |-> "none"]
    /\ established = [e \in Ends |-> 0]
    /\ pathExpired = [e \in Ends |-> FALSE]
    /\ net = [e \in Ends |-> {}]

Transmit(e, p) == net' = [net EXCEPT ![e] = @ \cup {p}]

-----------------------------------------------------------------------------
(* The status setter.                                                       *)

\* Mutant: the watchdog is not started.
BecomeActiveUnwatched(e) ==
    /\ status' = [status EXCEPT ![e] = "ACTIVE"]
    /\ estTimer' = [estTimer EXCEPT ![e] = FALSE]
    /\ UNCHANGED <<watchdog, registered, pendingProofs, pathExpired>>

\* Reaching ACTIVE stops the establishment timer and starts the watchdog.
BecomeActive(e) ==
    /\ status' = [status EXCEPT ![e] = "ACTIVE"]
    /\ estTimer' = [estTimer EXCEPT ![e] = IF status[e] = "ACTIVE" THEN @ ELSE FALSE]
    /\ watchdog' = [watchdog EXCEPT ![e] = IF status[e] = "ACTIVE" THEN @ ELSE TRUE]
    /\ UNCHANGED <<registered, pendingProofs, pathExpired>>

\* Reaching CLOSED stops both timers, leaves the transport, drops the pending
\* proofs and, for a link that never was ACTIVE, expires the path.
BecomeClosed(e) ==
    /\ status' = [status EXCEPT ![e] = "CLOSED"]
    /\ IF status[e] = "CLOSED"
       THEN UNCHANGED <<estTimer, watchdog, registered, pendingProofs, pathExpired>>
       ELSE /\ estTimer' = [estTimer EXCEPT ![e] = FALSE]
            /\ watchdog' = [watchdog EXCEPT ![e] = FALSE]
            /\ registered' = [registered EXCEPT ![e] = FALSE]
            /\ pendingProofs' = [pendingProofs EXCEPT ![e] = 0]
            /\ pathExpired' = [pathExpired EXCEPT ![e] =
                                IF status[e] = "ACTIVE" THEN @ ELSE TRUE]

-----------------------------------------------------------------------------
(* Handshake.                                                               *)

\* _armEstablishmentTimeout.
ArmEstablishmentTimeout(e) == estTimer' = [estTimer EXCEPT ![e] = TRUE]

\* initiate: register, enter HANDSHAKE, arm the timer, send the LINKREQUEST.
Initiate ==
    /\ status["initiator"] = "PENDING"
    /\ status' = [status EXCEPT !["initiator"] = "HANDSHAKE"]
    /\ registered' = [registered EXCEPT !["initiator"] = TRUE]
    /\ ArmEstablishmentTimeout("initiator")
    /\ Transmit("responder", "LINKREQUEST")
    /\ UNCHANGED <<token, watchdog, rxVars, appVars, pendingProofs,
                   teardownReason, established, pathExpired>>

\* Mutant: accept does not wait for the key derivation.
AcceptUnkeyed ==
    /\ "LINKREQUEST" \in net["responder"]
    /\ status["responder"] = "PENDING"
    /\ net' = [net EXCEPT !["responder"] = @ \ {"LINKREQUEST"}]
    /\ status' = [status EXCEPT !["responder"] = "HANDSHAKE"]
    /\ registered' = [registered EXCEPT !["responder"] = TRUE]
    /\ ArmEstablishmentTimeout("responder")
    /\ accepting' = TRUE
    /\ UNCHANGED <<watchdog, token, rxVars, closing, teardowns, sendingData,
                   dataSent, pendingProofs, teardownReason, established, pathExpired>>

\* accept: derive the keys, enter HANDSHAKE, register, arm the timer; the
\* LRPROOF follows once it is signed.
Accept ==
    /\ "LINKREQUEST" \in net["responder"]
    /\ status["responder"] = "PENDING"
    /\ net' = [net EXCEPT !["responder"] = @ \ {"LINKREQUEST"}]
    /\ token' = [token EXCEPT !["responder"] = TRUE]
    /\ status' = [status EXCEPT !["responder"] = "HANDSHAKE"]
    /\ registered' = [registered EXCEPT !["responder"] = TRUE]
    /\ ArmEstablishmentTimeout("responder")
    /\ accepting' = TRUE
    /\ UNCHANGED <<watchdog, rxVars, closing, teardowns, sendingData, dataSent,
                   pendingProofs, teardownReason, established, pathExpired>>

\* _sendLRProof: the proof is signed and sent, whatever happened meanwhile.
SendLRProof ==
    /\ accepting
    /\ accepting' = FALSE
    /\ Transmit("initiator", "LRPROOF")
    /\ UNCHANGED <<lifeVars, token, rxVars, closing, teardowns, sendingData,
                   dataSent, teardownReason, established>>

\* _armEstablishmentTimeout's callback.
EstablishmentTimeout(e) ==
    /\ estTimer[e]
    /\ IF status[e] = "HANDSHAKE"
       THEN /\ teardownReason' = [teardownReason EXCEPT ![e] = "TIMEOUT"]
            /\ BecomeClosed(e)
       ELSE /\ estTimer' = [estTimer EXCEPT ![e] = FALSE]
            /\ UNCHANGED <<status, watchdog, registered, pendingProofs,
                           pathExpired, teardownReason>>
    /\ UNCHANGED <<token, rxVars, appVars, established, net>>

-----------------------------------------------------------------------------
(* Receiving: transport hands packets to the link, which processes them one *)
(* at a time (receive, _rxQueue).                                           *)

\* Only a registered link is given packets; others are dropped.
Arrive(e, p) ==
    /\ p \in net[e] /\ p # "LINKREQUEST"
    /\ net' = [net EXCEPT ![e] = @ \ {p}]
    /\ registered[e] => Len(rxQueue[e]) < QueueBound
    /\ rxQueue' = [rxQueue EXCEPT ![e] = IF registered[e] THEN Append(@, p) ELSE @]
    /\ UNCHANGED <<lifeVars, token, stage, appVars, teardownReason, established>>

Encrypted == {"LRRTT", "LINKCLOSE", "DATA"}

\* The packet at the head is done with: processed, ignored or thrown away.
Dequeue(e) == rxQueue' = [rxQueue EXCEPT ![e] = Tail(@)]

\* _processPacket up to its first await.  An encrypted packet before the keys
\* exist throws; a packet for the other role is ignored.
BeginPacket(e) ==
    /\ stage[e] = "idle"
    /\ rxQueue[e] # << >>
    /\ LET p == Head(rxQueue[e]) IN
       IF \/ p \in Encrypted /\ ~token[e]
          \/ p = "LRPROOF" /\ e = "responder"
          \/ p = "PONG"
       THEN Dequeue(e) /\ UNCHANGED <<stage, net>>
       ELSE IF p = "PING"
       THEN /\ Dequeue(e)
            /\ IF e = "responder" THEN Transmit("initiator", "PONG")
               ELSE UNCHANGED net
            /\ UNCHANGED stage
       ELSE /\ stage' = [stage EXCEPT ![e] = CASE p = "LRPROOF" -> "validating"
                                               [] p = "PROOF" -> "verifying"
                                               [] OTHER -> "decrypting"]
            /\ UNCHANGED <<rxQueue, net>>
    /\ UNCHANGED <<lifeVars, token, appVars, teardownReason, established>>

\* _handleLRPROOF after the signature check: derive the session keys.
DeriveKeys ==
    /\ stage["initiator"] = "validating"
    /\ token' = [token EXCEPT !["initiator"] = TRUE]
    /\ stage' = [stage EXCEPT !["initiator"] = "keyed"]
    /\ UNCHANGED <<lifeVars, rxQueue, appVars, teardownReason, established, net>>

\* _sendLRRTT.
SendLRRTT ==
    /\ stage["initiator"] = "keyed"
    /\ stage' = [stage EXCEPT !["initiator"] = "rttSent"]
    /\ Transmit("responder", "LRRTT")
    /\ UNCHANGED <<lifeVars, token, rxQueue, appVars, teardownReason, established>>

\* _sendLRRTT throws: the handler ends and the link stays as it is.
SendLRRTTFails ==
    /\ stage["initiator"] = "keyed"
    /\ stage' = [stage EXCEPT !["initiator"] = "idle"]
    /\ Dequeue("initiator")
    /\ UNCHANGED <<lifeVars, token, appVars, teardownReason, established, net>>

\* _handleLRPROOF's last lines, run whatever the status has become meanwhile.
FinishLRPROOF ==
    /\ stage["initiator"] = "rttSent"
    /\ BecomeActive("initiator")
    /\ established' = [established EXCEPT !["initiator"] = @ + 1]
    /\ stage' = [stage EXCEPT !["initiator"] = "idle"]
    /\ Dequeue("initiator")
    /\ UNCHANGED <<token, appVars, teardownReason, net>>

\* _handleLRRTT, after the decryption.
HandleLRRTT ==
    /\ stage["responder"] = "decrypting"
    /\ Head(rxQueue["responder"]) = "LRRTT"
    /\ BecomeActive("responder")
    /\ established' = [established EXCEPT !["responder"] = @ + 1]
    /\ stage' = [stage EXCEPT !["responder"] = "idle"]
    /\ Dequeue("responder")
    /\ UNCHANGED <<token, appVars, teardownReason, net>>

\* _handleLinkClose, after the decryption.
HandleLinkClose(e) ==
    /\ stage[e] = "decrypting"
    /\ Head(rxQueue[e]) = "LINKCLOSE"
    /\ BecomeClosed(e)
    /\ teardownReason' = [teardownReason EXCEPT ![e] =
                            IF e = "initiator" THEN "DESTINATION_CLOSED"
                            ELSE "INITIATOR_CLOSED"]
    /\ stage' = [stage EXCEPT ![e] = "idle"]
    /\ Dequeue(e)
    /\ UNCHANGED <<token, appVars, established, net>>

\* DATA with context NONE: decrypted, then proved, then handed to "data"
\* listeners.
ProveData(e) ==
    /\ stage[e] = "decrypting"
    /\ Head(rxQueue[e]) = "DATA"
    /\ Transmit(Peer(e), "PROOF")
    /\ stage' = [stage EXCEPT ![e] = "proving"]
    /\ UNCHANGED <<lifeVars, token, rxQueue, appVars, teardownReason, established>>

DispatchData(e) ==
    /\ stage[e] = "proving"
    /\ stage' = [stage EXCEPT ![e] = "idle"]
    /\ Dequeue(e)
    /\ UNCHANGED <<lifeVars, token, appVars, teardownReason, established, net>>

\* _handleLinkProof, after the signature check: one tracked packet is proved.
HandleLinkProof(e) ==
    /\ stage[e] = "verifying"
    /\ pendingProofs' = [pendingProofs EXCEPT ![e] = IF @ > 0 THEN @ - 1 ELSE 0]
    /\ stage' = [stage EXCEPT ![e] = "idle"]
    /\ Dequeue(e)
    /\ UNCHANGED <<status, registered, estTimer, watchdog, pathExpired, token,
                   appVars, teardownReason, established, net>>

-----------------------------------------------------------------------------
(* Sending and closing.                                                     *)

\* The application sends DATA on a link it has seen ACTIVE; link.send encrypts.
SendData(e) ==
    /\ status[e] = "ACTIVE"
    /\ dataSent["initiator"] + dataSent["responder"] < MaxData
    /\ dataSent' = [dataSent EXCEPT ![e] = @ + 1]
    /\ sendingData' = [sendingData EXCEPT ![e] = @ + 1]
    /\ UNCHANGED <<lifeVars, token, rxVars, accepting, closing, teardowns,
                   teardownReason, established, net>>

\* The encryption is done: track the packet for its proof and transmit it.
TransmitData(e) ==
    /\ sendingData[e] > 0
    /\ sendingData' = [sendingData EXCEPT ![e] = @ - 1]
    /\ pendingProofs' = [pendingProofs EXCEPT ![e] = @ + 1]
    /\ Transmit(Peer(e), "DATA")
    /\ UNCHANGED <<status, registered, estTimer, watchdog, pathExpired, token,
                   rxVars, accepting, closing, teardowns, dataSent,
                   teardownReason, established>>

\* The encryption is done and the transmission throws: the entry is removed.
TransmitDataFails(e) ==
    /\ sendingData[e] > 0
    /\ sendingData' = [sendingData EXCEPT ![e] = @ - 1]
    /\ UNCHANGED <<lifeVars, token, rxVars, accepting, closing, teardowns,
                   dataSent, teardownReason, established, net>>

\* teardown() up to the await of _sendLinkClose.
Teardown(e) ==
    /\ status[e] \in {"HANDSHAKE", "ACTIVE"}
    /\ teardowns[e] < MaxTeardowns
    /\ teardowns' = [teardowns EXCEPT ![e] = @ + 1]
    /\ closing' = [closing EXCEPT ![e] = @ + 1]
    /\ UNCHANGED <<lifeVars, token, rxVars, accepting, sendingData, dataSent,
                   teardownReason, established, net>>

\* LINKCLOSE needs the token; without it the send throws and is only logged.
SendLinkClose(e) ==
    IF token[e] THEN Transmit(Peer(e), "LINKCLOSE") ELSE UNCHANGED net

\* The rest of teardown(), run whatever the status has become meanwhile.
FinishTeardown(e) ==
    /\ closing[e] > 0
    /\ closing' = [closing EXCEPT ![e] = @ - 1]
    /\ SendLinkClose(e)
    /\ teardownReason' = [teardownReason EXCEPT ![e] =
                            IF e = "initiator" THEN "INITIATOR_CLOSED"
                            ELSE "DESTINATION_CLOSED"]
    /\ BecomeClosed(e)
    /\ UNCHANGED <<token, rxVars, accepting, teardowns, sendingData, dataSent,
                   established>>

\* _watchdogJob finds the link stale.
WatchdogStale(e) ==
    /\ watchdog[e]
    /\ SendLinkClose(e)
    /\ teardownReason' = [teardownReason EXCEPT ![e] = "TIMEOUT"]
    /\ BecomeClosed(e)
    /\ UNCHANGED <<token, rxVars, appVars, established>>

\* _watchdogJob's keepalive ping.
WatchdogPing ==
    /\ watchdog["initiator"]
    /\ Transmit("responder", "PING")
    /\ UNCHANGED <<lifeVars, token, rxVars, appVars, teardownReason, established>>

\* The network (external) loses packets; the transport filters duplicates.
Lose(e, p) ==
    /\ p \in net[e]
    /\ net' = [net EXCEPT ![e] = @ \ {p}]
    /\ UNCHANGED <<lifeVars, token, rxVars, appVars, teardownReason, established>>

-----------------------------------------------------------------------------
Handshake == Initiate \/ Accept \/ SendLRProof \/ DeriveKeys \/ SendLRRTT
             \/ SendLRRTTFails \/ FinishLRPROOF \/ HandleLRRTT

Next ==
    \/ Handshake
    \/ \E e \in Ends :
          \/ EstablishmentTimeout(e)
          \/ \E p \in Contexts : Arrive(e, p) \/ Lose(e, p)
          \/ BeginPacket(e) \/ HandleLinkClose(e)
          \/ ProveData(e) \/ DispatchData(e) \/ HandleLinkProof(e)
          \/ SendData(e) \/ TransmitData(e) \/ TransmitDataFails(e)
          \/ Teardown(e) \/ FinishTeardown(e) \/ WatchdogStale(e)
    \/ WatchdogPing

Spec == Init /\ [][Next]_vars

\* The steps that a pending promise or an armed timer will take by itself.
Internal(e) ==
    \/ BeginPacket(e) \/ HandleLinkClose(e)
    \/ ProveData(e) \/ DispatchData(e) \/ HandleLinkProof(e)
    \/ TransmitData(e) \/ TransmitDataFails(e) \/ FinishTeardown(e)

\* No packet will reach this end any more (the peer is closed and nothing of
\* it is in transit, or the transport no longer routes to this end): the stale
\* clock of the watchdog runs out.
SilentPeer(e) ==
    /\ status[Peer(e)] = "CLOSED" \/ ~registered[e]
    /\ registered[e] => net[e] = {}
    /\ rxQueue[e] = << >>

Keepalives == {"PING", "PONG"}

\* Promises resolve, armed establishment timers fire, and the watchdog of an
\* end whose peer has fallen silent finds the link stale.
Fairness ==
    /\ WF_vars(SendLRProof)
    /\ WF_vars(DeriveKeys \/ SendLRRTT \/ SendLRRTTFails \/ FinishLRPROOF)
    /\ WF_vars(HandleLRRTT)
    /\ \A e \in Ends :
          /\ WF_vars(Internal(e))
          /\ WF_vars(EstablishmentTimeout(e))
          /\ WF_vars(\E p \in Keepalives : Arrive(e, p) \/ Lose(e, p))
          /\ WF_vars(\E p \in Contexts \ Keepalives : Arrive(e, p) \/ Lose(e, p))
          /\ WF_vars(SilentPeer(e) /\ WatchdogStale(e))

FairSpec == Spec /\ Fairness

-----------------------------------------------------------------------------
(* Properties.                                                              *)

\* Type invariant of both ends and the network.
TypeOK ==
    /\ status \in [Ends -> Statuses]
    /\ token \in [Ends -> BOOLEAN]
    /\ registered \in [Ends -> BOOLEAN]
    /\ estTimer \in [Ends -> BOOLEAN]
    /\ watchdog \in [Ends -> BOOLEAN]
    /\ rxQueue \in [Ends -> Seq(Contexts)]
    /\ stage \in [Ends -> Stages]
    /\ accepting \in BOOLEAN
    /\ closing \in [Ends -> Nat]
    /\ teardowns \in [Ends -> 0..MaxTeardowns]
    /\ sendingData \in [Ends -> Nat]
    /\ dataSent \in [Ends -> 0..MaxData]
    /\ pendingProofs \in [Ends -> Nat]
    /\ teardownReason \in [Ends -> Reasons]
    /\ established \in [Ends -> Nat]
    /\ pathExpired \in [Ends -> BOOLEAN]
    /\ net \in [Ends -> SUBSET Contexts]

\* In every interleaving of handshake, teardown, peer close, timeouts and
\* watchdog a CLOSED link is out of the transport and both its timers are
\* stopped; a running watchdog means ACTIVE and an armed establishment timer
\* means HANDSHAKE, so neither can fire on a link that is gone.
ClosedReleases ==
    \A e \in Ends :
        /\ registered[e] => status[e] \in {"HANDSHAKE", "ACTIVE"}
        /\ estTimer[e] => status[e] = "HANDSHAKE"
        /\ watchdog[e] <=> status[e] = "ACTIVE"

\* An end reports "established" only when both ends hold the session keys, and
\* the responder only after the initiator validated its proof.
EstablishedMeansKeyed ==
    \A e \in Ends :
        established[e] > 0 => /\ token["initiator"] /\ token["responder"]
                              /\ status["initiator"] # "PENDING"

\* A link that once was CLOSED is never ACTIVE again: everything the status
\* setter released is released for good ("... before the link object becomes
\* inert", link.js:449).
ClosedIsInert ==
    [][\A e \in Ends : status[e] = "CLOSED" => status'[e] = "CLOSED"]_vars

\* "drop the pending CTX_NONE link-proof entries - a closed link can never
\* deliver the PROOFs they wait for, so leaving them would leak map entries"
\* (link.js:455).
ClosedHasNoPendingProofs ==
    \A e \in Ends : status[e] = "CLOSED" => pendingProofs[e] = 0

\* No link stays in HANDSHAKE: it becomes ACTIVE or the establishment timer
\* closes it and takes it out of the transport ("handshake-phase links that
\* never complete stay registered ... forever" was the defect it fixes).
HandshakeEnds ==
    \A e \in Ends : (status[e] = "HANDSHAKE") ~> (status[e] # "HANDSHAKE")

\* When one end closes, the other one closes too, whether the LINKCLOSE
\* arrives, is lost, or meets an end still in its handshake.
BothEndsClose ==
    \A e \in Ends :
        (status[e] = "CLOSED") ~> (status[Peer(e)] \in {"CLOSED", "PENDING"})

\* A CLOSED link has let go of everything, and an established one is keyed at both ends.
LinkSafe == ClosedReleases /\ EstablishedMeansKeyed

\* Handshakes end, and a closed end takes its peer with it.
LinkSettles == HandshakeEnds /\ BothEndsClose
=============================================================================
