------------------------------ MODULE Download ------------------------------
(***************************************************************************)
(* A recipient that fetches its messages from a propagation node            *)
(* (packages/lxmf/src/router.js, syncFromPropagationNode, against           *)
(* handleGetRequest of propagation_node.js) while copies of the same        *)
(* messages also reach it over links, as packets and on paper (ingestUri).  *)
(*                                                                          *)
(* A copy is named by its transient id; several copies may carry the same   *)
(* message.  Nothing keeps two syncFromPropagationNode calls from running   *)
(* at the same time.                                                        *)
(***************************************************************************)
EXTENDS LXMFDispatch, FiniteSets

CONSTANTS
    Tids,          \* transient ids of copies addressed to this recipient
    MsgOf,         \* [Tids -> Msgs]
    Unreadable,    \* sets of copies that may be encrypted to a key this recipient lost
    Paper,         \* the copies that also exist as lxm:// URIs
    Sessions,      \* concurrent syncFromPropagationNode calls
    MaxMessages,   \* their maxMessages
    TransferLimit, \* deliveryPerTransferLimit, in messages
    MaxFaults      \* bound on failed sessions and expired ids

ASSUME DownloadAssumption ==
    /\ MsgOf \in [Tids -> Msgs] /\ Unreadable \subseteq SUBSET Tids /\ Paper \subseteq Tids
    /\ {MaxMessages, TransferLimit} \subseteq Nat \ {0} /\ MaxFaults \in Nat

VARIABLES
    stored,     \* the node's copies for this recipient
    deposited,  \* history: copies the node has ever stored
    purged,     \* history: copies removed on this recipient's word
    processedTransientIds,
    session,    \* the state of each call
    reading,    \* ingestUri calls between recording the id and dispatching
    direct,     \* messages of which a copy came on a link or as a packet
    lost,       \* the copies this recipient cannot decrypt, fixed
    faults

node == <<stored, deposited, purged>>
downloadVars == <<shown, node, processedTransientIds, session, reading, known, direct,
          lost, faults>>

Idle == [phase |-> "idle", list |-> {}, wants |-> {}, haves |-> {},
         cur |-> {}, received |-> {}]

DownloadInit ==
    /\ DispatchInit
    /\ stored = {} /\ deposited = {} /\ purged = {}
    /\ processedTransientIds = {} /\ reading = {}
    /\ direct = {}
    /\ session = [c \in Sessions |-> Idle]
    /\ lost \in Unreadable /\ faults = 0

-----------------------------------------------------------------------------
\* The node has stored a copy for this recipient.
Deposit(t) ==
    /\ t \notin deposited
    /\ deposited' = deposited \cup {t} /\ stored' = stored \cup {t}
    /\ UNCHANGED <<shown, purged, processedTransientIds, session, reading, known,
                   direct, lost, faults>>

\* /get removes what the recipient says it has, and only that.
Purge(ts) ==
    /\ stored' = stored \ ts
    /\ purged' = purged \cup (ts \cap stored)
    /\ UNCHANGED deposited

\* /get [null, null]: the list of what is stored for us.
List(c) ==
    /\ session[c].phase = "idle" /\ stored # {}
    /\ session' = [session EXCEPT ![c] = [Idle EXCEPT !.phase = "listed",
                                                      !.list = stored]]
    /\ UNCHANGED <<shown, node, processedTransientIds, reading, known, direct,
                   lost, faults>>

\* As many of a set as the limit allows.
UpTo(S, limit) ==
    {T \in SUBSET S : \/ Cardinality(T) = limit
                      \/ T = S /\ Cardinality(S) < limit}

\* Mutant: ids already processed are wanted again.
SplitWantsAll(c) ==
    /\ session[c].phase = "listed"
    /\ \E wants \in UpTo(session[c].list, MaxMessages) :
         session' = [session EXCEPT ![c] =
                       [Idle EXCEPT !.phase = "asking", !.wants = wants]]
    /\ UNCHANGED <<shown, node, processedTransientIds, reading, known, direct,
                   lost, faults>>

\* The list is split into what to fetch and what to have purged.
Split(c) ==
    /\ session[c].phase = "listed"
    /\ \E wants \in UpTo(session[c].list \ processedTransientIds, MaxMessages) :
         session' = [session EXCEPT ![c] = [Idle EXCEPT !.phase = "asking",
           !.wants = wants,
           !.haves = session[c].list \cap processedTransientIds]]
    /\ UNCHANGED <<shown, node, processedTransientIds, reading, known, direct,
                   lost, faults>>

\* /get [wants, haves, limit] at the node: purge, then serve what is still
\* stored, up to the limit.
Serve(c) ==
    /\ session[c].phase = "asking"
    /\ \E served \in UpTo((session[c].wants \ session[c].haves) \cap stored,
                          TransferLimit) :
         session' = [session EXCEPT ![c].phase = "served", ![c].wants = served,
                                    ![c].haves = {}]
    /\ Purge(session[c].haves)
    /\ UNCHANGED <<shown, processedTransientIds, reading, known, direct, lost, faults>>

\* Mutant: the id is recorded before the message is decrypted.
TakeRecords(c, t) ==
    /\ session[c].phase \in {"served", "ingesting"} /\ t \in session[c].wants
    /\ processedTransientIds' = processedTransientIds \cup {t}
    /\ session' = [session EXCEPT ![c].wants = @ \ {t},
         ![c].phase = IF t \in processedTransientIds THEN "ingesting"
                      ELSE "decrypting",
         ![c].cur = IF t \in processedTransientIds THEN @ ELSE {t}]
    /\ UNCHANGED <<shown, node, reading, known, direct, lost, faults>>

\* The next message of the response: skipped if another call has processed it
\* by now, otherwise decrypted.
Take(c, t) ==
    /\ session[c].phase \in {"served", "ingesting"} /\ t \in session[c].wants
    /\ session' = [session EXCEPT ![c].wants = @ \ {t},
         ![c].phase = IF t \in processedTransientIds THEN "ingesting"
                      ELSE "decrypting",
         ![c].cur = IF t \in processedTransientIds THEN @ ELSE {t}]
    /\ UNCHANGED <<shown, node, processedTransientIds, reading, known, direct,
                   lost, faults>>

\* toPropagationData: the destination hash in clear, the rest encrypted to the recipient.
ToPropagationData(m) == [destinationHash |-> Here, encrypted |-> Tail(Serialize(m, FALSE))]

\* fromPropagationData, also of paper data: the decrypted buffer in the direct layout.
FromPropagationData == [t \in Tids |->
    LET lxmfData == ToPropagationData(MsgOf[t])
    IN  Deserialize(<<lxmfData.destinationHash>> \o lxmfData.encrypted, lxmfData.destinationHash)]

\* A signature is only verified when the sender is known.
Throws(message) == message.source \in known /\ ~ VerifySignature(message)

\* An undecryptable copy is not dispatched, and no error.
Show(t) == IF t \in lost THEN UNCHANGED shown ELSE Dispatch(FromPropagationData[t])
Fails(t) == t \notin lost /\ Throws(FromPropagationData[t])

\* _ingestPropagationData answers: dispatched or a duplicate, the id is then
\* recorded; a bad signature ends the whole call.
Ingested(c) ==
    /\ session[c].phase = "decrypting"
    /\ \E t \in session[c].cur :
         IF Fails(t)
         THEN /\ session' = [session EXCEPT ![c] = Idle]
              /\ UNCHANGED <<shown, processedTransientIds>>
         ELSE /\ Show(t)
              /\ processedTransientIds' = processedTransientIds \cup {t}
              /\ session' = [session EXCEPT ![c].phase = "ingesting",
                   ![c].cur = {}, ![c].received = @ \cup {t}]
    /\ UNCHANGED <<node, reading, known, direct, lost, faults>>

\* /get [null, received] at the node, when there is anything to acknowledge.
Acknowledge(c) ==
    /\ session[c].phase \in {"served", "ingesting"} /\ session[c].wants = {}
    /\ Purge(session[c].received)
    /\ session' = [session EXCEPT ![c] = Idle]
    /\ UNCHANGED <<shown, processedTransientIds, reading, known, direct, lost, faults>>

\* A request or its response is lost: the call rejects.
SessionFails(c) ==
    /\ \/ session[c].phase \in {"listed", "asking", "served"}
       \/ session[c].phase = "ingesting" /\ session[c].wants = {}
    /\ faults < MaxFaults /\ faults' = faults + 1
    /\ session' = [session EXCEPT ![c] = Idle]
    /\ UNCHANGED <<shown, node, processedTransientIds, reading, known, direct, lost>>

-----------------------------------------------------------------------------
\* ingestUri: the id is recorded before the message is decrypted.
IngestUri(t) ==
    /\ t \in Paper \ processedTransientIds
    /\ processedTransientIds' = processedTransientIds \cup {t}
    /\ reading' = reading \cup {t}
    /\ UNCHANGED <<shown, node, session, known, direct, lost, faults>>

ReadUri(t) ==
    /\ t \in reading
    /\ reading' = reading \ {t}
    /\ IF Fails(t) THEN UNCHANGED shown ELSE Show(t)
    /\ UNCHANGED <<node, processedTransientIds, session, known, direct, lost, faults>>

\* An announce makes a sender known.
Learn(s) ==
    /\ known' = known \cup {s}
    /\ UNCHANGED <<shown, node, processedTransientIds, session, reading, direct,
                   lost, faults>>

\* A genuine message of a known sender arrives on a link or as a packet.
Direct(m) ==
    /\ m \notin direct \cup Forged /\ Sender[m] \in known
    /\ direct' = direct \cup {m}
    /\ \E opportunistic \in BOOLEAN : \E message \in Copies(m, opportunistic) : Dispatch(message)
    /\ UNCHANGED <<node, processedTransientIds, session, reading, known, lost, faults>>

\* An id is dropped when it is older than any message the node still holds.
PruneProcessed(t) ==
    /\ t \in processedTransientIds \ (stored \cup reading)
    /\ \A c \in Sessions : session[c].phase = "idle"
    /\ faults < MaxFaults /\ faults' = faults + 1
    /\ processedTransientIds' = processedTransientIds \ {t}
    /\ UNCHANGED <<shown, node, session, reading, known, direct, lost>>

-----------------------------------------------------------------------------
Sync(c) ==
    \/ Split(c) \/ Serve(c) \/ Ingested(c) \/ Acknowledge(c)
    \/ \E t \in Tids : Take(c, t)

DownloadNext ==
    \/ \E c \in Sessions : List(c) \/ Sync(c) \/ SessionFails(c)
    \/ \E t \in Tids : Deposit(t) \/ IngestUri(t) \/ ReadUri(t) \/ PruneProcessed(t)
    \/ \E s \in Senders : Learn(s)
    \/ \E m \in Msgs : Direct(m)

DownloadSpec == DownloadInit /\ [][DownloadNext]_downloadVars

\* The event loop runs what was started, and the application keeps asking.
DownloadFairSpec ==
    /\ DownloadSpec
    /\ \A c \in Sessions : WF_downloadVars(List(c)) /\ WF_downloadVars(Sync(c))
    /\ \A t \in Tids : WF_downloadVars(ReadUri(t))

-----------------------------------------------------------------------------
\* The node deletes a genuine message that can be decrypted on this recipient's
\* word only when the application has seen it (or is about to, in an ingestUri call), whatever
\* sessions overlap and fail.
PurgedIsDelivered ==
    \A t \in purged :
      MsgOf[t] \in Forged \/ t \in lost \/ t \in reading \/ Seen(MsgOf[t])

\* A stored message reaches the application as long as it keeps asking, unless
\* the node also holds a message whose signature fails (see PoisonIsSkipped).
Fetched ==
    \A t \in Tids :
      t \in stored \ lost ~> \/ Seen(MsgOf[t])
                                   \/ \E u \in stored : Fails(u)

(* What comments of the code say and the code does not guarantee.           *)

\* "ack so the node purges the messages we received": refuted, a copy that
\* could not be decrypted is acknowledged too.
AckedIsReceived == \A t \in purged : t \in reading \/ Seen(MsgOf[t])

\* "records locally_processed before attempting delivery": refuted, a message
\* that fails to verify ends every call before its id is recorded, so that it
\* is fetched again by each one and hides the messages behind it.
PoisonIsSkipped ==
    \A t \in Tids : t \in stored ~> Seen(MsgOf[t]) \/ t \in purged
=============================================================================
