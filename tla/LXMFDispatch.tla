---------------------------- MODULE LXMFDispatch ----------------------------
(***************************************************************************)
(* LXMRouter._dispatchMessage (packages/lxmf/src/router.js): the one place  *)
(* where a received message is handed to the application, whatever path it  *)
(* came on, and the bounded cache of delivered ids it deduplicates with;    *)
(* and the wire form of a message (packages/lxmf/src/message.js), from      *)
(* which its id is computed anew on every path.                             *)
(*                                                                          *)
(* A buffer is the sequence of its fields.  A packed payload is the message *)
(* and the encoding its bytes are in: packPayload always yields "signed",   *)
(* the bytes the signer hashed; another implementation may have re-encoded  *)
(* the same values.                                                         *)
(***************************************************************************)
EXTENDS Integers, Sequences

CONSTANTS
    Msgs,       \* message ids
    Sender,     \* [Msgs -> senders]
    Forged,     \* messages whose signature does not verify
    Encodings,  \* encodings payloads arrive in, "signed" among them
    CacheMax    \* DELIVERED_MESSAGE_CACHE_MAX

Senders == {Sender[m] : m \in Msgs}

ASSUME DispatchAssumption ==
    /\ Sender \in [Msgs -> Senders] /\ Forged \subseteq Msgs
    /\ "signed" \in Encodings /\ CacheMax \in Nat \ {0}

VARIABLES
    locallyDeliveredMessageIds, \* oldest first
    dispatched,  \* history: message events per message id
    forgotten,   \* history: evictions from the cache per message id
    known        \* senders recallIdentity finds

-----------------------------------------------------------------------------
Here == "here"      \* the hash of this router's lxmf.delivery destination

\* The messages are those of others.
ASSUME OthersAssumption == Msgs # {} /\ Here \notin Senders

\* packPayload on values that were decoded, or about to be sent.
PackPayload(m) == [msg |-> m, enc |-> "signed"]

\* What is hashed to the message id, and what is signed (with that hash appended).
HashedPart(dest, source, packed) == <<dest, source, packed>>

\* serialize: the signature covers the payload without its stamp.
Serialize(m, stamped) ==
    LET signer == IF m \in Forged THEN "someone else" ELSE Sender[m]
    IN  <<Here, Sender[m], [by |-> signer, over |-> HashedPart(Here, Sender[m], PackPayload(m))],
          [packed |-> PackPayload(m), stamped |-> stamped]>>

\* The buffer as it is received: on a link all of it, in an opportunistic packet without the
\* leading destination hash, which is that of the packet; re-encoded or not.
Received(m, stamped, enc, opportunistic) ==
    LET wire == [Serialize(m, stamped) EXCEPT ![4].packed.enc = enc]
    IN  IF opportunistic THEN Tail(wire) ELSE wire

\* deserialize: a buffer that starts with our own hash is in the direct layout.  The bytes
\* that are hashed are those on the wire, or a fresh packing when a stamp has to go.
Deserialize(wire, expected) ==
    LET fields == IF Head(wire) = expected THEN Tail(wire) ELSE wire
        payload == fields[3]
        packed == IF payload.stamped THEN PackPayload(payload.packed.msg) ELSE payload.packed
    IN  [source |-> fields[1], signature |-> fields[2], messageId |-> HashedPart(expected, fields[1], packed)]

\* What the copies of a message that arrive in one of the layouts are read as.
Copies(m, opportunistic) ==
    {Deserialize(Received(m, stamped, enc, opportunistic), Here) : stamped \in BOOLEAN, enc \in Encodings}

\* verifySignature: over what was hashed, or over the payload packed again.
VerifySignature(message) ==
    LET packed == message.messageId[3]
    IN  \E p \in {packed, PackPayload(packed.msg)} :
            message.signature = [by |-> message.source, over |-> HashedPart(Here, message.source, p)]

MessageIds == {HashedPart(Here, Sender[m], [msg |-> m, enc |-> enc]) : m \in Msgs, enc \in Encodings}
IdsOf(m) == {id \in MessageIds : id[3].msg = m}

\* The application has seen the message.
Seen(m) == \E id \in IdsOf(m) : dispatched[id] > 0
-----------------------------------------------------------------------------
shown == <<locallyDeliveredMessageIds, dispatched, forgotten>>

DispatchInit ==
    /\ locallyDeliveredMessageIds = << >>
    /\ dispatched = [id \in MessageIds |-> 0]
    /\ forgotten = [id \in MessageIds |-> 0]
    /\ known = {}

Elements(q) == {q[i] : i \in DOMAIN q}

\* A message event, unless the id is remembered.  The check and the recording
\* are one synchronous step; the oldest id leaves a full cache.
Dispatch(message) ==
    IF message.messageId \in Elements(locallyDeliveredMessageIds) THEN UNCHANGED shown
    ELSE LET ids == Append(locallyDeliveredMessageIds, message.messageId)
             full == Len(ids) > CacheMax
         IN /\ locallyDeliveredMessageIds' = IF full THEN Tail(ids) ELSE ids
            /\ forgotten' = IF full THEN [forgotten EXCEPT ![Head(ids)] = @ + 1]
                            ELSE forgotten
            /\ dispatched' = [dispatched EXCEPT ![message.messageId] = @ + 1]

\* The type of the cache and of its history.
DispatchTypeOK ==
    /\ locallyDeliveredMessageIds \in Seq(MessageIds)
    /\ dispatched \in [MessageIds -> Nat] /\ forgotten \in [MessageIds -> Nat]
    /\ known \subseteq Senders

\* However many copies of a message arrive, on whatever paths, with or without
\* a stamp and at whatever time, the application sees it once, and again only
\* after its id has left the bounded cache of delivered ids; a re-encoded
\* copy without a stamp counts as another message (see ReencodedIsTheSame).
DispatchedOnce == \A id \in MessageIds : dispatched[id] <= 1 + forgotten[id]

(* What a comment of the code says and the code does not guarantee.         *)

\* verifySignature accepts copies "that passed through a re-encoding relay", and every
\* delivery "carries the same id": refuted, the id is that of the bytes received.
ReencodedIsTheSame == \A m \in Msgs : \A id, other \in IdsOf(m) :
    dispatched[id] > 0 /\ dispatched[other] > 0 /\ forgotten[id] = 0 => id = other
=============================================================================
