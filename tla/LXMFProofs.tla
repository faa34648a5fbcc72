----------------------------- MODULE LXMFProofs -----------------------------
(***************************************************************************)
(* Proofs about the ways in of an LXMF router, for any messages, copies,    *)
(* links, sessions and limits, and about its sends.                         *)
(***************************************************************************)
EXTENDS MCLXMF, LXMFSend, FiniteSetTheorems, SequenceTheorems, TLAPS

-----------------------------------------------------------------------------
\* What is read from a buffer.

\* Four fields, and those behind the first.
LEMMA FourFields ==
    ASSUME NEW w, NEW a, NEW b, NEW c, NEW d, w = <<a, b, c, d>>
    PROVE  Head(w) = a /\ Tail(w) = <<b, c, d>>
OBVIOUS

\* A field put before three others.
LEMMA FieldsBehind ==
    ASSUME NEW a, NEW b, NEW c, NEW d
    PROVE  Head(<<a>> \o <<b, c, d>>) = a /\ Tail(<<a>> \o <<b, c, d>>) = <<b, c, d>>
<1> DEFINE w == <<a>> \o <<b, c, d>>
           v == Tail(w)
<1>1. Len(w) = 4 /\ w[1] = a /\ w[2] = b /\ w[3] = c /\ w[4] = d /\ DOMAIN w = 1..4
    OBVIOUS
<1>2. w \in Seq({a, b, c, d})
    OBVIOUS
<1> HIDE DEF w
<1>3. Head(w) = a
    BY <1>1
<1>6. v \in Seq({a, b, c, d}) /\ Len(v) = 3 /\ \A i \in 1..3 : v[i] = w[i + 1]
    BY <1>1, <1>2, HeadTailProperties
<1>4. v \in Seq({a, b, c, d}) /\ Len(v) = 3 /\ v[1] = w[2] /\ v[2] = w[3] /\ v[3] = w[4]
    BY <1>6
<1> HIDE DEF v
<1>5. v = <<b, c, d>>
    BY <1>1, <1>4
<1> QED
    BY <1>3, <1>5 DEF v, w

\* serialize yields four fields, of which a relay may change how the payload is packed.
LEMMA BufferFields ==
    ASSUME NEW m \in Msgs, NEW stamped \in BOOLEAN, NEW enc \in Encodings
    PROVE  \E signature :
             /\ Received(m, stamped, enc, FALSE) =
                  <<Here, Sender[m], signature, [packed |-> [msg |-> m, enc |-> enc], stamped |-> stamped]>>
             /\ Received(m, stamped, enc, TRUE) =
                  <<Sender[m], signature, [packed |-> [msg |-> m, enc |-> enc], stamped |-> stamped]>>
<1> DEFINE signature == [by   |-> IF m \in Forged THEN "someone else" ELSE Sender[m],
                         over |-> HashedPart(Here, Sender[m], PackPayload(m))]
           wire == [Serialize(m, stamped) EXCEPT ![4].packed.enc = enc]
<1>1. Serialize(m, stamped) =
        <<Here, Sender[m], signature, [packed |-> [msg |-> m, enc |-> "signed"], stamped |-> stamped]>>
    BY DEF Serialize, PackPayload
<1> HIDE DEF signature
<1>2. wire = <<Here, Sender[m], signature, [packed |-> [msg |-> m, enc |-> enc], stamped |-> stamped]>>
    BY <1>1
<1>3. Received(m, stamped, enc, FALSE) = wire /\ Received(m, stamped, enc, TRUE) = Tail(wire)
    BY DEF Received
<1> HIDE DEF wire
<1>4. Tail(wire) = <<Sender[m], signature, [packed |-> [msg |-> m, enc |-> enc], stamped |-> stamped]>>
    BY ONLY <1>2, FourFields
<1> QED
    BY <1>2, <1>3, <1>4, Zenon

\* Both layouts are read the same: the sender, its signature, and an id of the message.
LEMMA BufferRead ==
    ASSUME NEW m \in Msgs, NEW stamped \in BOOLEAN, NEW enc \in Encodings
    PROVE  \E signature : \A opportunistic \in BOOLEAN :
             Deserialize(Received(m, stamped, enc, opportunistic), Here) =
               [source |-> Sender[m], signature |-> signature,
                messageId |-> HashedPart(Here, Sender[m], [msg |-> m, enc |-> IF stamped THEN "signed" ELSE enc])]
<1>1. Sender[m] # Here
    BY OthersAssumption DEF Senders
<1> DEFINE payload == [packed |-> [msg |-> m, enc |-> enc], stamped |-> stamped]
<1>2. PICK signature :
        /\ Received(m, stamped, enc, FALSE) = <<Here, Sender[m], signature, payload>>
        /\ Received(m, stamped, enc, TRUE) = <<Sender[m], signature, payload>>
    BY BufferFields
<1> DEFINE packed == [msg |-> m, enc |-> IF stamped THEN "signed" ELSE enc]
<1>3. (IF payload.stamped THEN PackPayload(payload.packed.msg) ELSE payload.packed) = packed
    BY DEF PackPayload
<1> HIDE DEF payload, packed
<1> DEFINE fields == <<Sender[m], signature, payload>>
           read == [source |-> Sender[m], signature |-> signature, messageId |-> HashedPart(Here, Sender[m], packed)]
<1>4. fields[1] = Sender[m] /\ fields[2] = signature /\ fields[3] = payload /\ Head(fields) = Sender[m]
    OBVIOUS
<1> HIDE DEF fields
<1>5. ASSUME NEW wire, (IF Head(wire) = Here THEN Tail(wire) ELSE wire) = fields
      PROVE  Deserialize(wire, Here) = read
    BY <1>3, <1>4, <1>5, Zenon DEF Deserialize
<1>6. Deserialize(Received(m, stamped, enc, FALSE), Here) = read
  <2> DEFINE wire == Received(m, stamped, enc, FALSE)
  <2>2. wire = <<Here, Sender[m], signature, payload>>
    BY <1>2, Zenon
  <2> HIDE DEF wire
  <2>1. Head(wire) = Here /\ Tail(wire) = fields
    BY ONLY <2>2 DEF fields
  <2> QED
    BY <1>5, <2>1, Zenon DEF wire
<1>7. Deserialize(Received(m, stamped, enc, TRUE), Here) = read
  <2> DEFINE wire == Received(m, stamped, enc, TRUE)
  <2>1. wire = fields /\ Head(wire) # Here
    BY <1>1, <1>2, <1>4, Zenon DEF fields
  <2> QED
    BY <1>5, <2>1, Zenon
<1>8. ASSUME NEW opportunistic \in BOOLEAN
      PROVE  Deserialize(Received(m, stamped, enc, opportunistic), Here) = read
    BY <1>6, <1>7, Zenon
<1> QED
    BY <1>8, Zenon DEF packed

\* Every buffer of a message is read as one of its copies.
LEMMA CopyMember ==
    ASSUME NEW m, NEW opportunistic, NEW stamped \in BOOLEAN, NEW enc \in Encodings
    PROVE  Deserialize(Received(m, stamped, enc, opportunistic), Here) \in Copies(m, opportunistic)
BY DEF Copies

\* A message as it is read from a copy of it.
LEMMA CopyRead ==
    ASSUME NEW m \in Msgs, NEW opportunistic \in BOOLEAN, NEW c \in Copies(m, opportunistic)
    PROVE  c.source = Sender[m] /\ c.messageId \in IdsOf(m) /\ c \in Copies(m, FALSE)
<1>1. PICK stamped \in BOOLEAN, enc \in Encodings : c = Deserialize(Received(m, stamped, enc, opportunistic), Here)
    BY DEF Copies
<1>2. PICK signature : \A o \in BOOLEAN : Deserialize(Received(m, stamped, enc, o), Here) =
        [source |-> Sender[m], signature |-> signature,
         messageId |-> HashedPart(Here, Sender[m], [msg |-> m, enc |-> IF stamped THEN "signed" ELSE enc])]
    BY BufferRead
<1>3. c = Deserialize(Received(m, stamped, enc, FALSE), Here)
    BY <1>1, <1>2
<1>4. c \in Copies(m, FALSE)
  <2>1. \E st \in BOOLEAN, e \in Encodings : c = Deserialize(Received(m, st, e, FALSE), Here)
    BY <1>3, Zenon
  <2> QED
    BY <2>1, CopyMember, Zenon
<1>5. (IF stamped THEN "signed" ELSE enc) \in Encodings
    BY DispatchAssumption
<1>6. c.source = Sender[m] /\ c.messageId = HashedPart(Here, Sender[m], [msg |-> m, enc |-> IF stamped THEN "signed" ELSE enc])
    BY <1>1, <1>2
<1>7. c.messageId \in IdsOf(m)
    BY <1>5, <1>6 DEF IdsOf, MessageIds, HashedPart
<1> QED
    BY <1>4, <1>6, <1>7

\* What a copy from a propagation node, or on paper, is read as: its signature fails to
\* verify only when the message is forged.
LEMMA PropagationRead ==
    ASSUME NEW t \in Tids
    PROVE  /\ FromPropagationData[t].messageId \in IdsOf(MsgOf[t])
           /\ ~VerifySignature(FromPropagationData[t]) => MsgOf[t] \in Forged
<1> DEFINE m == MsgOf[t]
           f == FromPropagationData[t]
<1>1. m \in Msgs
    BY DownloadAssumption
<1> DEFINE signature == [by   |-> IF m \in Forged THEN "someone else" ELSE Sender[m],
                         over |-> HashedPart(Here, Sender[m], PackPayload(m))]
           payload == [packed |-> PackPayload(m), stamped |-> FALSE]
<1>a. Serialize(m, FALSE) = <<Here, Sender[m], signature, payload>>
    BY DEF Serialize
<1>b. payload.packed = PackPayload(m) /\ payload.stamped = FALSE
    OBVIOUS
<1> HIDE DEF signature, payload
<1>2. f = [source |-> Sender[m], signature |-> signature,
           messageId |-> HashedPart(Here, Sender[m], PackPayload(m))]
  <2> DEFINE fields == <<Sender[m], signature, payload>>
             data == ToPropagationData(m)
  <2> DEFINE wire == Serialize(m, FALSE)
  <2>4. wire = <<Here, Sender[m], signature, payload>>
    BY <1>a, Zenon
  <2> HIDE DEF wire
  <2>6. Tail(wire) = fields
    BY ONLY <2>4
  <2>1. data.destinationHash = Here /\ data.encrypted = fields
    BY <2>6 DEF ToPropagationData, wire
  <2>2. f = Deserialize(<<data.destinationHash>> \o data.encrypted, data.destinationHash)
    BY DEF FromPropagationData
  <2>3. fields[1] = Sender[m] /\ fields[2] = signature /\ fields[3] = payload
    OBVIOUS
  <2> HIDE DEF data
  <2>5. Head(<<Here>> \o fields) = Here /\ Tail(<<Here>> \o fields) = fields
    BY ONLY FieldsBehind DEF fields
  <2> HIDE DEF fields
  <2> QED
    BY <1>b, <2>1, <2>2, <2>3, <2>5, Zenon DEF Deserialize
<1>3. f.messageId \in IdsOf(m)
  <2>1. f.messageId = HashedPart(Here, Sender[m], [msg |-> m, enc |-> "signed"])
    BY <1>2 DEF PackPayload
  <2> QED
    BY <1>1, <2>1, DispatchAssumption DEF IdsOf, MessageIds, HashedPart
<1>4. m \notin Forged => VerifySignature(f)
  <2> SUFFICES ASSUME m \notin Forged PROVE VerifySignature(f)
    OBVIOUS
  <2>1. f.source = Sender[m] /\ f.messageId[3] = PackPayload(m)
    BY <1>2 DEF HashedPart
  <2>2. f.signature = [by |-> Sender[m], over |-> HashedPart(Here, Sender[m], PackPayload(m))]
    BY <1>2 DEF signature
  <2> QED
    BY <2>1, <2>2, Zenon DEF VerifySignature
<1> QED
    BY <1>3, <1>4
-----------------------------------------------------------------------------
\* The cache of delivered ids.

\* An id has been shown once more than it was forgotten while it is remembered, and no more
\* often than that otherwise.
CacheInv ==
    /\ DispatchTypeOK
    /\ \A id \in Elements(locallyDeliveredMessageIds) : dispatched[id] \in 1..(1 + forgotten[id])
    /\ \A id \in MessageIds \ Elements(locallyDeliveredMessageIds) : dispatched[id] <= forgotten[id]

\* A step shows a message.
Shows(id) == dispatched'[id] > 0 /\ \A other \in MessageIds : dispatched[other] > 0 => dispatched'[other] > 0

\* The elements of a sequence that grew by one.
LEMMA AppendElements ==
    ASSUME NEW S, NEW q \in Seq(S), NEW x \in S
    PROVE  /\ Append(q, x) \in Seq(S) /\ Len(Append(q, x)) = Len(q) + 1
           /\ Elements(Append(q, x)) = Elements(q) \cup {x}
<1> DEFINE r == Append(q, x)
<1>1. r \in Seq(S) /\ DOMAIN r = 1..(Len(q) + 1) /\ r[Len(q) + 1] = x /\ \A n \in 1..Len(q) : r[n] = q[n]
    OBVIOUS
<1>2. DOMAIN q = 1..Len(q) /\ Len(q) \in Nat
    OBVIOUS
<1>3. Len(r) = Len(q) + 1
    OBVIOUS
<1> HIDE DEF r
<1>4. ASSUME NEW y PROVE y \in Elements(r) <=> y \in Elements(q) \cup {x}
    BY <1>1, <1>2 DEF Elements
<1> QED
    BY <1>1, <1>3, <1>4 DEF r

\* The elements of a sequence and of what is left of it behind the first.
LEMMA TailElements ==
    ASSUME NEW S, NEW q \in Seq(S), Len(q) > 0
    PROVE  Tail(q) \in Seq(S) /\ Elements(q) = Elements(Tail(q)) \cup {Head(q)}
<1> DEFINE r == Tail(q)
<1>1. r \in Seq(S) /\ Len(r) = Len(q) - 1 /\ \A n \in 1..Len(r) : r[n] = q[n + 1]
    BY HeadTailProperties
<1>2. Head(q) = q[1] /\ DOMAIN q = 1..Len(q) /\ DOMAIN r = 1..Len(r) /\ Len(q) \in Nat
    BY <1>1
<1> HIDE DEF r
<1>3. ASSUME NEW n \in 1..Len(q) PROVE q[n] \in Elements(r) \cup {Head(q)}
  <2>1. CASE n = 1
    BY <1>2, <2>1
  <2>2. CASE n # 1
    <3>1. n - 1 \in DOMAIN r /\ r[n - 1] = q[n]
        BY <1>1, <1>2, <2>2
    <3> QED
        BY <3>1 DEF Elements
  <2> QED
    BY <2>1, <2>2
<1>4. Elements(q) \subseteq Elements(r) \cup {Head(q)}
    BY <1>2, <1>3 DEF Elements
<1>5. Elements(r) \cup {Head(q)} \subseteq Elements(q)
    BY <1>1, <1>2 DEF Elements
<1> QED
    BY <1>1, <1>4, <1>5 DEF r

\* _dispatchMessage keeps the cache in order, and leaves the message shown.
LEMMA DispatchKeeps ==
    ASSUME CacheInv, NEW message, message.messageId \in MessageIds, Dispatch(message), known' \subseteq Senders
    PROVE  CacheInv' /\ Shows(message.messageId)
<1> DEFINE id == message.messageId
           q == locallyDeliveredMessageIds
           ids == Append(q, id)
<1>0. /\ q \in Seq(MessageIds) /\ dispatched \in [MessageIds -> Nat] /\ forgotten \in [MessageIds -> Nat]
      /\ \A other \in Elements(q) : dispatched[other] \in 1..(1 + forgotten[other])
      /\ \A other \in MessageIds \ Elements(q) : dispatched[other] <= forgotten[other]
    BY DEF CacheInv, DispatchTypeOK
<1>1. CASE id \in Elements(q)
  <2>1. UNCHANGED <<q, dispatched, forgotten>>
    BY <1>1 DEF Dispatch, shown
  <2>2. CacheInv'
    BY <1>0, <2>1 DEF CacheInv, DispatchTypeOK, Elements
  <2>3. dispatched[id] > 0
    BY <1>0, <1>1
  <2> QED
    BY <2>1, <2>2, <2>3 DEF Shows
<1>2. CASE id \notin Elements(q)
  <2>1. /\ q' = IF Len(ids) > CacheMax THEN Tail(ids) ELSE ids
        /\ forgotten' = IF Len(ids) > CacheMax THEN [forgotten EXCEPT ![Head(ids)] = @ + 1] ELSE forgotten
        /\ dispatched' = [dispatched EXCEPT ![id] = @ + 1]
    BY <1>2 DEF Dispatch
  <2>2. ids \in Seq(MessageIds) /\ Elements(ids) = Elements(q) \cup {id} /\ Len(ids) = Len(q) + 1
    BY <1>0, AppendElements
  <2>5. dispatched' \in [MessageIds -> Nat] /\ Shows(id)
    BY <1>0, <2>1 DEF Shows
  <2>3. CASE ~(Len(ids) > CacheMax)
    <3>1. UNCHANGED forgotten /\ q' = ids
        BY <2>1, <2>3
    <3>2. Elements(q)' = Elements(q) \cup {id}
        BY <2>2, <3>1
    <3>3. /\ \A other \in Elements(q)' : dispatched'[other] \in 1..(1 + forgotten'[other])
          /\ \A other \in MessageIds \ Elements(q)' : dispatched'[other] <= forgotten'[other]
        <4> HIDE DEF q, ids
        <4> QED
        BY <1>0, <1>2, <2>1, <3>1, <3>2
    <3> QED
        BY <1>0, <2>2, <2>5, <3>1, <3>3 DEF CacheInv, DispatchTypeOK
  <2>4. CASE Len(ids) > CacheMax
    <3>1. Len(q) >= 1 /\ Head(ids) = q[1] /\ q[1] \in Elements(q) /\ q[1] \in MessageIds /\ q[1] # id
        BY <1>0, <1>2, <2>2, <2>4, DispatchAssumption DEF Elements
    <3>2. q' = Tail(ids) /\ forgotten' = [forgotten EXCEPT ![q[1]] = @ + 1]
        BY <2>1, <2>4, <3>1
    <3>3. q' \in Seq(MessageIds) /\ Elements(ids) = Elements(q)' \cup {Head(ids)}
        <4>1. Len(ids) > 0
            BY <2>2, <3>1
        <4>2. Tail(ids) \in Seq(MessageIds) /\ Elements(ids) = Elements(Tail(ids)) \cup {Head(ids)}
            BY ONLY <2>2, <4>1, TailElements
        <4> QED
            BY ONLY <3>2, <4>2
    <3>4. Elements(q)' \subseteq Elements(q) \cup {id} /\ id \in Elements(q)' /\ Elements(q) \subseteq Elements(q)' \cup {q[1]}
        BY <2>2, <3>1, <3>3
    <3>5. forgotten' \in [MessageIds -> Nat]
        BY <1>0, <3>1, <3>2
    <3>6. ASSUME NEW other \in Elements(q)' PROVE dispatched'[other] \in 1..(1 + forgotten'[other])
        <4>1. other = id \/ other \in Elements(q)
            BY <3>4, <3>6
        <4>2. Elements(q) \subseteq MessageIds
            BY <1>0 DEF Elements
        <4> HIDE DEF q, ids
        <4>5. other \in MessageIds
            BY <4>1, <4>2
        <4>6. dispatched'[other] = IF other = id THEN dispatched[other] + 1 ELSE dispatched[other]
            BY ONLY <1>0, <2>1, <4>5
        <4>7. forgotten'[other] \in {forgotten[other], forgotten[other] + 1}
            BY ONLY <1>0, <3>2, <4>5
        <4>8. dispatched[other] \in Nat /\ forgotten[other] \in Nat
            BY ONLY <1>0, <4>5
        <4>3. CASE other = id
            <5>1. dispatched[other] <= forgotten[other]
                BY ONLY <1>0, <1>2, <4>3, <4>5
            <5> QED
                BY ONLY <4>3, <4>6, <4>7, <4>8, <5>1
        <4>4. CASE other # id
            <5>1. dispatched[other] \in 1..(1 + forgotten[other])
                BY ONLY <1>0, <4>1, <4>4
            <5> QED
                BY ONLY <4>4, <4>6, <4>7, <4>8, <5>1
        <4> QED
            BY <4>3, <4>4
    <3>7. ASSUME NEW other \in MessageIds \ Elements(q)' PROVE dispatched'[other] <= forgotten'[other]
        <4>1. other # id /\ (other = q[1] \/ other \notin Elements(q))
            BY <3>4, <3>7
        <4> HIDE DEF q, ids
        <4> QED
            BY <1>0, <1>2, <2>1, <3>2, <3>1, <4>1
    <3> QED
        BY <2>5, <3>3, <3>5, <3>6, <3>7 DEF CacheInv, DispatchTypeOK
  <2> QED
    BY <2>3, <2>4
<1> QED
    BY <1>1, <1>2
\* What has been shown stays shown.
Grown == \A id \in MessageIds : dispatched[id] > 0 => dispatched'[id] > 0

\* A step that shows nothing.
LEMMA NothingShown ==
    ASSUME CacheInv, UNCHANGED shown, known' \subseteq Senders
    PROVE  CacheInv' /\ Grown
BY DEF CacheInv, DispatchTypeOK, Elements, Grown, shown
-----------------------------------------------------------------------------
\* Fetching from a propagation node.

\* A copy the node may delete: it has reached the application, or is about to, or never can.
Delivered(t) == MsgOf[t] \in Forged \/ t \in lost \/ t \in reading \/ Seen(MsgOf[t])

\* The copies the recipient has asked, or will ask, the node to delete.
Vouched == purged \cup processedTransientIds
             \cup UNION {session[c].haves \cup session[c].received : c \in Sessions}

\* The state of a syncFromPropagationNode call.
SessionRecords ==
    [phase : {"idle", "listed", "asking", "served", "ingesting", "decrypting"},
     list : SUBSET Tids, wants : SUBSET Tids, haves : SUBSET Tids, cur : SUBSET Tids, received : SUBSET Tids]

\* The type of what is fetched.
DownloadTyped ==
    /\ stored \subseteq Tids /\ purged \subseteq Tids
    /\ processedTransientIds \subseteq Tids /\ reading \subseteq Tids
    /\ session \in [Sessions -> SessionRecords]

\* PurgedIsDelivered, for all that the recipient will vouch for.
DownloadInv == DownloadTyped /\ \A t \in Vouched : Delivered(t)

\* A step vouches only for copies that were vouched for or are delivered by it, and what it
\* stops reading it has delivered.
LEMMA VouchedStep ==
    ASSUME DownloadInv, DownloadTyped', Grown, lost' = lost,
           \A t \in reading \ reading' : Delivered(t)',
           \A t \in Vouched' : t \in Vouched \/ Delivered(t)'
    PROVE  DownloadInv'
<1>1. ASSUME NEW t \in Vouched, Delivered(t) PROVE Delivered(t)'
  <2>1. CASE Seen(MsgOf[t])
    BY <2>1 DEF Seen, Delivered, Grown, IdsOf
  <2> QED
    BY <1>1, <2>1 DEF Delivered
<1> QED
    BY <1>1 DEF DownloadInv

\* A step that does not concern the download.
LEMMA DownloadFrame ==
    ASSUME DownloadInv, Grown, UNCHANGED <<stored, purged, processedTransientIds, session, reading, lost>>
    PROVE  DownloadInv'
<1>1. DownloadTyped' /\ Vouched' = Vouched
    BY DEF DownloadInv, DownloadTyped, Vouched
<1> QED
    BY <1>1, VouchedStep

\* One session moves on: what it vouches for then is the other sessions' and its own.
LEMMA SessionStep ==
    ASSUME DownloadInv, NEW c \in Sessions, NEW s \in SessionRecords, session' = [session EXCEPT ![c] = s]
    PROVE  /\ session' \in [Sessions -> SessionRecords]
           /\ \A t \in Vouched' : \/ t \in Vouched \cup s.haves \cup s.received
                                 \/ t \in purged' \cup processedTransientIds'
BY DEF DownloadInv, DownloadTyped, Vouched

\* The sets a session takes are of what it was offered.
LEMMA UpToSubset == ASSUME NEW S, NEW limit, NEW T \in UpTo(S, limit) PROVE T \subseteq S
BY DEF UpTo

\* A copy that verifies, or cannot be read, is delivered by being shown.
LEMMA ShowDelivers ==
    ASSUME CacheInv, NEW t \in Tids, Show(t), UNCHANGED <<lost, known>>
    PROVE  CacheInv' /\ Grown /\ Delivered(t)'
<1>1. CASE t \in lost
    BY <1>1, NothingShown DEF Show, Delivered, CacheInv, DispatchTypeOK
<1>2. CASE t \notin lost
  <2>1. Dispatch(FromPropagationData[t])
    BY <1>2 DEF Show
  <2>2. FromPropagationData[t].messageId \in IdsOf(MsgOf[t])
    BY PropagationRead
  <2>3. FromPropagationData[t].messageId \in MessageIds
    BY <2>2 DEF IdsOf
  <2>4. CacheInv' /\ Shows(FromPropagationData[t].messageId)
    BY <2>1, <2>3, DispatchKeeps DEF CacheInv, DispatchTypeOK
  <2> QED
    BY <2>2, <2>4 DEF Shows, Grown, Delivered, Seen
<1> QED
    BY <1>1, <1>2

\* Every step of a session.
LEMMA SessionKeeps ==
    ASSUME CacheInv, DownloadInv, NEW c \in Sessions, List(c) \/ Sync(c) \/ SessionFails(c)
    PROVE  CacheInv' /\ Grown /\ DownloadInv'
<1>0. session[c] \in SessionRecords /\ known \subseteq Senders
    BY DEF DownloadInv, DownloadTyped, CacheInv, DispatchTypeOK
<1>1. Idle \in SessionRecords /\ Idle.haves = {} /\ Idle.received = {}
    BY DEF Idle, SessionRecords
<1>2. CASE List(c)
  <2> DEFINE s == [Idle EXCEPT !.phase = "listed", !.list = stored]
  <2>1. s \in SessionRecords /\ s.haves = {} /\ s.received = {}
    BY DEF DownloadInv, DownloadTyped, Idle, SessionRecords
  <2>2. session' = [session EXCEPT ![c] = s] /\ UNCHANGED <<shown, node, processedTransientIds, reading, known, lost>>
    BY <1>2 DEF List
  <2> HIDE DEF s
  <2>3. CacheInv' /\ Grown
    BY <1>0, <2>2, NothingShown
  <2>4. DownloadTyped' /\ \A t \in Vouched' : t \in Vouched
    BY <2>1, <2>2, SessionStep DEF DownloadInv, DownloadTyped, Vouched, node
  <2> QED
    BY <2>2, <2>3, <2>4, VouchedStep
<1>3. CASE Split(c)
  <2>1. PICK wants \in UpTo(session[c].list \ processedTransientIds, MaxMessages) :
           session' = [session EXCEPT ![c] = [Idle EXCEPT !.phase = "asking", !.wants = wants,
                         !.haves = session[c].list \cap processedTransientIds]]
    BY <1>3 DEF Split
  <2> DEFINE s == [Idle EXCEPT !.phase = "asking", !.wants = wants,
                               !.haves = session[c].list \cap processedTransientIds]
  <2>2. wants \subseteq Tids /\ session[c].list \cap processedTransientIds \subseteq Tids
    BY <1>0, <2>1, UpToSubset DEF SessionRecords
  <2>3. s \in SessionRecords /\ s.haves \subseteq processedTransientIds /\ s.received = {}
    BY <2>2 DEF Idle, SessionRecords
  <2>4. session' = [session EXCEPT ![c] = s] /\ UNCHANGED <<shown, node, processedTransientIds, reading, known, lost>>
    BY <1>3, <2>1 DEF Split
  <2> HIDE DEF s
  <2>5. CacheInv' /\ Grown
    BY <1>0, <2>4, NothingShown
  <2>6. DownloadTyped' /\ \A t \in Vouched' : t \in Vouched
    BY <2>3, <2>4, SessionStep DEF DownloadInv, DownloadTyped, Vouched, node
  <2> QED
    BY <2>4, <2>5, <2>6, VouchedStep
<1>4. CASE Serve(c)
  <2>1. PICK served \in UpTo((session[c].wants \ session[c].haves) \cap stored, TransferLimit) :
           session' = [session EXCEPT ![c].phase = "served", ![c].wants = served, ![c].haves = {}]
    BY <1>4 DEF Serve
  <2> DEFINE s == [session[c] EXCEPT !.phase = "served", !.wants = served, !.haves = {}]
  <2>2. served \subseteq Tids
    BY <1>0, <2>1, UpToSubset DEF SessionRecords
  <2>3. s \in SessionRecords /\ s.haves = {} /\ s.received = session[c].received
    BY <1>0, <2>2 DEF SessionRecords
  <2>4. /\ session' = [session EXCEPT ![c] = s] /\ UNCHANGED <<shown, processedTransientIds, reading, known, lost>>
        /\ stored' = stored \ session[c].haves /\ purged' = purged \cup (session[c].haves \cap stored)
    BY <1>4, <2>1 DEF Serve, Purge
  <2> HIDE DEF s
  <2>5. CacheInv' /\ Grown
    BY <1>0, <2>4, NothingShown
  <2>6. DownloadTyped' /\ \A t \in Vouched' : t \in Vouched
    BY <2>3, <2>4, SessionStep DEF DownloadInv, DownloadTyped, Vouched
  <2> QED
    BY <2>4, <2>5, <2>6, VouchedStep
<1>5. ASSUME NEW t \in Tids, Take(c, t) PROVE CacheInv' /\ Grown /\ DownloadInv'
  <2> DEFINE ph == IF t \in processedTransientIds THEN "ingesting" ELSE "decrypting"
             cu == IF t \in processedTransientIds THEN session[c].cur ELSE {t}
             s == [session[c] EXCEPT !.wants = @ \ {t}, !.phase = ph, !.cur = cu]
  <2>1. ph \in {"ingesting", "decrypting"} /\ cu \subseteq Tids
    BY <1>0 DEF SessionRecords
  <2>2. /\ session' = [session EXCEPT ![c] = s]
        /\ UNCHANGED <<shown, node, processedTransientIds, reading, known, lost>>
    BY <1>5 DEF Take
  <2> HIDE DEF ph, cu
  <2>3. s \in SessionRecords /\ s.haves = session[c].haves /\ s.received = session[c].received
    BY <1>0, <2>1 DEF SessionRecords
  <2> HIDE DEF s
  <2>4. CacheInv' /\ Grown
    BY <1>0, <2>2, NothingShown
  <2>5. DownloadTyped' /\ \A u \in Vouched' : u \in Vouched
    BY <2>2, <2>3, SessionStep DEF DownloadInv, DownloadTyped, Vouched, node
  <2> QED
    BY <2>2, <2>4, <2>5, VouchedStep
<1>6. CASE Ingested(c)
  <2>1. PICK t \in session[c].cur :
           IF Fails(t) THEN session' = [session EXCEPT ![c] = Idle] /\ UNCHANGED <<shown, processedTransientIds>>
           ELSE /\ Show(t) /\ processedTransientIds' = processedTransientIds \cup {t}
                /\ session' = [session EXCEPT ![c].phase = "ingesting", ![c].cur = {}, ![c].received = @ \cup {t}]
    BY <1>6 DEF Ingested
  <2>2. t \in Tids /\ UNCHANGED <<node, reading, known, lost>>
    BY <1>0, <1>6, <2>1 DEF SessionRecords, Ingested
  <2>3. CASE Fails(t)
    <3>1. CacheInv' /\ Grown
        BY <1>0, <2>1, <2>2, <2>3, NothingShown
    <3>2. DownloadTyped' /\ \A u \in Vouched' : u \in Vouched
        BY <1>1, <2>1, <2>2, <2>3, SessionStep DEF DownloadInv, DownloadTyped, Vouched, node
    <3> QED
        BY <2>2, <3>1, <3>2, VouchedStep
  <2>4. CASE ~Fails(t)
    <3> DEFINE s == [session[c] EXCEPT !.phase = "ingesting", !.cur = {}, !.received = @ \cup {t}]
    <3>1. s \in SessionRecords /\ s.haves = session[c].haves /\ s.received = session[c].received \cup {t}
        BY <1>0, <2>2 DEF SessionRecords
    <3>2. session' = [session EXCEPT ![c] = s] /\ processedTransientIds' = processedTransientIds \cup {t} /\ Show(t)
        BY <2>1, <2>4
    <3> HIDE DEF s
    <3>3. CacheInv' /\ Grown /\ Delivered(t)'
        BY <2>2, <3>2, ShowDelivers
    <3>4. DownloadTyped' /\ \A u \in Vouched' : u \in Vouched \/ u = t
        BY <2>2, <3>1, <3>2, SessionStep DEF DownloadInv, DownloadTyped, Vouched, node
    <3> QED
        BY <2>2, <3>3, <3>4, VouchedStep
  <2> QED
    BY <2>3, <2>4
<1>7. CASE Acknowledge(c)
  <2>1. /\ session' = [session EXCEPT ![c] = Idle] /\ UNCHANGED <<shown, processedTransientIds, reading, known, lost>>
        /\ stored' = stored \ session[c].received /\ purged' = purged \cup (session[c].received \cap stored)
    BY <1>7 DEF Acknowledge, Purge
  <2>2. CacheInv' /\ Grown
    BY <1>0, <2>1, NothingShown
  <2>3. DownloadTyped' /\ \A t \in Vouched' : t \in Vouched
    BY <1>1, <2>1, SessionStep DEF DownloadInv, DownloadTyped, Vouched
  <2> QED
    BY <2>1, <2>2, <2>3, VouchedStep
<1>8. CASE SessionFails(c)
  <2>1. session' = [session EXCEPT ![c] = Idle] /\ UNCHANGED <<shown, node, processedTransientIds, reading, known, lost>>
    BY <1>8 DEF SessionFails
  <2>2. CacheInv' /\ Grown
    BY <1>0, <2>1, NothingShown
  <2>3. DownloadTyped' /\ \A t \in Vouched' : t \in Vouched
    BY <1>1, <2>1, SessionStep DEF DownloadInv, DownloadTyped, Vouched, node
  <2> QED
    BY <2>1, <2>2, <2>3, VouchedStep
<1> QED
    BY <1>2, <1>3, <1>4, <1>5, <1>6, <1>7, <1>8 DEF Sync
\* The other steps: copies that are stored, read from paper, or come directly.
LEMMA DownloadKeeps ==
    ASSUME CacheInv, DownloadInv, DownloadNext
    PROVE  CacheInv' /\ Grown /\ DownloadInv'
<1>0. known \subseteq Senders
    BY DEF CacheInv, DispatchTypeOK
<1>1. ASSUME NEW t \in Tids, Deposit(t) PROVE CacheInv' /\ Grown /\ DownloadInv'
  <2>1. CacheInv' /\ Grown
    BY <1>0, <1>1, NothingShown DEF Deposit
  <2>2. DownloadTyped' /\ Vouched' = Vouched
    BY <1>1 DEF Deposit, DownloadInv, DownloadTyped, Vouched
  <2> QED
    BY <1>1, <2>1, <2>2, VouchedStep DEF Deposit
<1>2. ASSUME NEW t \in Tids, IngestUri(t) PROVE CacheInv' /\ Grown /\ DownloadInv'
  <2>1. CacheInv' /\ Grown
    BY <1>0, <1>2, NothingShown DEF IngestUri
  <2>2. DownloadTyped' /\ \A u \in Vouched' : u \in Vouched \/ u = t
    BY <1>2 DEF IngestUri, DownloadInv, DownloadTyped, Vouched, node
  <2>3. Delivered(t)' /\ reading \subseteq reading' /\ lost' = lost
    BY <1>2 DEF IngestUri, Delivered
  <2> QED
    BY <2>1, <2>2, <2>3, VouchedStep
<1>3. ASSUME NEW t \in Tids, ReadUri(t) PROVE CacheInv' /\ Grown /\ DownloadInv'
  <2>1. UNCHANGED <<node, processedTransientIds, session, known, lost>> /\ reading' = reading \ {t}
    BY <1>3 DEF ReadUri
  <2>2. CacheInv' /\ Grown /\ Delivered(t)'
    <3>1. CASE Fails(t)
      <4>1. MsgOf[t] \in Forged
        BY <3>1, PropagationRead DEF Fails, Throws
      <4>2. UNCHANGED shown
        BY <1>3, <3>1 DEF ReadUri
      <4> QED
        BY <1>0, <2>1, <4>1, <4>2, NothingShown DEF Delivered
    <3>2. CASE ~Fails(t)
      <4>1. Show(t)
        BY <1>3, <3>2 DEF ReadUri
      <4> QED
        BY <2>1, <4>1, ShowDelivers
    <3> QED
        BY <3>1, <3>2
  <2>3. DownloadTyped' /\ Vouched' = Vouched
    BY <2>1 DEF DownloadInv, DownloadTyped, Vouched, node
  <2> QED
    BY <2>1, <2>2, <2>3, VouchedStep
<1>4. ASSUME NEW t \in Tids, PruneProcessed(t) PROVE CacheInv' /\ Grown /\ DownloadInv'
  <2>1. CacheInv' /\ Grown
    BY <1>0, <1>4, NothingShown DEF PruneProcessed
  <2>2. DownloadTyped' /\ \A u \in Vouched' : u \in Vouched
    BY <1>4 DEF PruneProcessed, DownloadInv, DownloadTyped, Vouched, node
  <2> QED
    BY <1>4, <2>1, <2>2, VouchedStep DEF PruneProcessed
<1>5. ASSUME NEW s \in Senders, Learn(s) PROVE CacheInv' /\ Grown /\ DownloadInv'
  <2>1. CacheInv' /\ Grown
    BY <1>0, <1>5, NothingShown DEF Learn
  <2> QED
    BY <1>5, <2>1, DownloadFrame DEF Learn, node
<1>6. ASSUME NEW m \in Msgs, Direct(m) PROVE CacheInv' /\ Grown /\ DownloadInv'
  <2>4. PICK opportunistic \in BOOLEAN : \E message \in Copies(m, opportunistic) : Dispatch(message)
    BY <1>6 DEF Direct
  <2>1. PICK message \in Copies(m, opportunistic) : Dispatch(message)
    BY <2>4
  <2>2. message.messageId \in MessageIds
    BY <2>1, CopyRead DEF IdsOf
  <2>3. CacheInv' /\ Grown
    BY <1>0, <1>6, <2>1, <2>2, DispatchKeeps DEF Direct, Shows, Grown
  <2> QED
    BY <1>6, <2>3, DownloadFrame DEF Direct, node
<1> QED
    BY <1>1, <1>2, <1>3, <1>4, <1>5, <1>6, SessionKeeps DEF DownloadNext
-----------------------------------------------------------------------------
\* Parking.

\* Every entry of a sequence is there once.
NoRepeats(q) == \A i, j \in DOMAIN q : q[i] = q[j] => i = j

\* The positions of a set that come no later than one of them.
Rank(ns, n) == Cardinality({o \in ns : o <= n})

\* The positions of a finite set are numbered from one by their rank.
LEMMA Ranked ==
    ASSUME NEW ns, ns \subseteq Nat, IsFiniteSet(ns)
    PROVE  /\ Cardinality(ns) \in Nat
           /\ \A n \in ns : Rank(ns, n) \in 1..Cardinality(ns)
           /\ \A n, o \in ns : Rank(ns, n) = Rank(ns, o) => n = o
           /\ \A k \in 1..Cardinality(ns) : \E n \in ns : Rank(ns, n) = k
<1> DEFINE upTo(n) == {o \in ns : o <= n}
           r == [n \in ns |-> Rank(ns, n)]
<1>1. Cardinality(ns) \in Nat
    BY FS_CardinalityType
<1>2. ASSUME NEW n \in ns
      PROVE  IsFiniteSet(upTo(n)) /\ Cardinality(upTo(n)) \in Nat /\ Cardinality(upTo(n)) <= Cardinality(ns) /\ n \in upTo(n)
    BY FS_Subset, FS_CardinalityType
<1>3. ASSUME NEW n \in ns PROVE Rank(ns, n) \in 1..Cardinality(ns)
  <2>1. Cardinality(upTo(n)) # 0
    BY <1>2, FS_EmptySet
  <2> QED
    BY <1>1, <1>2, <2>1 DEF Rank
<1>4. ASSUME NEW n \in ns, NEW o \in ns, n < o PROVE Rank(ns, n) # Rank(ns, o)
  <2>3. ASSUME NEW x \in ns, x <= n PROVE x <= o
    BY <1>4, <2>3
  <2>4. o <= o /\ ~(o <= n)
    BY <1>4
  <2>1. upTo(n) \in SUBSET upTo(o) /\ o \in upTo(o) /\ o \notin upTo(n)
    BY ONLY <1>4, <2>3, <2>4, Zenon
  <2>2. Cardinality(upTo(o)) = Cardinality(upTo(n)) => upTo(o) = upTo(n)
    BY <1>2, <2>1, FS_Subset
  <2> QED
    BY <2>1, <2>2 DEF Rank
<1>5. ASSUME NEW n \in ns, NEW o \in ns, Rank(ns, n) = Rank(ns, o) PROVE n = o
    BY <1>4, <1>5
<1>6. r \in Injection(ns, 1..Cardinality(ns))
    BY <1>3, <1>5 DEF Injection, IsInjective
<1>7. IsFiniteSet(1..Cardinality(ns)) /\ Cardinality(1..Cardinality(ns)) = Cardinality(ns)
    BY <1>1, FS_Interval
<1>8. r \in Surjection(ns, 1..Cardinality(ns))
    BY <1>6, <1>7, FS_Injection
<1>9. ASSUME NEW k \in 1..Cardinality(ns) PROVE \E n \in ns : Rank(ns, n) = k
    BY <1>8 DEF Surjection
<1> QED
    BY <1>1, <1>3, <1>5, <1>9

\* What is picked from a sequence without repeats has none, and is what is at those positions.
LEMMA PickedProperties ==
    ASSUME NEW S, NEW q \in Seq(S), NoRepeats(q), NEW ns, ns \subseteq DOMAIN q
    PROVE  /\ Picked(q, ns) \in Seq(S) /\ Len(Picked(q, ns)) <= Len(q)
           /\ NoRepeats(Picked(q, ns)) /\ Elements(Picked(q, ns)) = {q[n] : n \in ns}
<1> DEFINE N == Cardinality(ns)
           nth(k) == CHOOSE n \in ns : Rank(ns, n) = k
           p == Picked(q, ns)
<1>1. ns \subseteq Nat /\ IsFiniteSet(ns) /\ N <= Len(q)
  <2>1. DOMAIN q = 1..Len(q) /\ Len(q) \in Nat
    OBVIOUS
  <2>2. IsFiniteSet(1..Len(q)) /\ Cardinality(1..Len(q)) = Len(q)
    <3>1. \A l \in Nat : IsFiniteSet(1..l) /\ Cardinality(1..l) = l
        BY FS_Interval
    <3> QED
        BY <2>1, <3>1
  <2> QED
    BY <2>1, <2>2, FS_Subset
<1>2. N \in Nat
    BY <1>1, FS_CardinalityType
<1>3. p = [k \in 1..N |-> q[nth(k)]]
    BY DEF Picked, Rank
<1>4. ASSUME NEW k \in 1..N PROVE nth(k) \in ns /\ Rank(ns, nth(k)) = k
    BY <1>1, Ranked
<1>5. ASSUME NEW n \in ns PROVE Rank(ns, n) \in 1..N /\ nth(Rank(ns, n)) = n
  <2>1. Rank(ns, n) \in 1..N
    BY <1>1, Ranked
  <2>2. nth(Rank(ns, n)) \in ns /\ Rank(ns, nth(Rank(ns, n))) = Rank(ns, n)
    BY <1>4, <2>1
  <2> QED
    BY <1>1, <2>1, <2>2, Ranked
<1> HIDE DEF nth, N, p
<1>6. p \in Seq(S) /\ Len(p) = N /\ DOMAIN p = 1..N
    BY <1>2, <1>3, <1>4
<1>7. NoRepeats(p)
  <2> SUFFICES ASSUME NEW i \in 1..N, NEW j \in 1..N, p[i] = p[j] PROVE i = j
    BY <1>6 DEF NoRepeats
  <2>1. nth(i) = nth(j)
    BY <1>3, <1>4 DEF NoRepeats
  <2>2. Rank(ns, nth(i)) = i /\ Rank(ns, nth(j)) = j
    BY <1>4
  <2> QED
    BY <2>1, <2>2
<1>8. Elements(p) = {q[n] : n \in ns}
  <2>1. ASSUME NEW x \in Elements(p) PROVE x \in {q[n] : n \in ns}
    BY <1>3, <1>4, <1>6 DEF Elements
  <2>2. ASSUME NEW n \in ns PROVE q[n] \in Elements(p)
    BY <1>3, <1>5, <1>6 DEF Elements
  <2> QED
    BY <2>1, <2>2
<1> QED
    BY <1>1, <1>6, <1>7, <1>8 DEF p
\* What is left of a sequence behind its first entries.
LEMMA SubSeqBehind ==
    ASSUME NEW S, NEW q \in Seq(S), NEW n \in 0..Len(q)
    PROVE  LET p == SubSeq(q, n + 1, Len(q))
           IN  p \in Seq(S) /\ Len(p) = Len(q) - n /\ \A i \in 1..(Len(q) - n) : p[i] = q[n + i]
<1> DEFINE p == SubSeq(q, n + 1, Len(q))
<1>1. n + 1 \in 1..(Len(q) + 1) /\ Len(q) \in Nat
    OBVIOUS
<1>2. CASE n = Len(q)
    BY <1>1, <1>2
<1>3. CASE n < Len(q)
    BY <1>1, <1>3, SubSeqProperties
<1> QED
    BY <1>2, <1>3

\* What is left of a sequence without repeats behind its first entries.
LEMMA TrimmedProperties ==
    ASSUME NEW S, NEW q \in Seq(S), NoRepeats(q), NEW n \in 0..Len(q)
    PROVE  LET p == SubSeq(q, n + 1, Len(q))
           IN  /\ p \in Seq(S) /\ Len(p) = Len(q) - n /\ NoRepeats(p)
               /\ Elements(p) = Elements(q) \ {q[i] : i \in 1..n}
<1> DEFINE p == SubSeq(q, n + 1, Len(q))
<1>1. p \in Seq(S) /\ Len(p) = Len(q) - n /\ \A i \in 1..(Len(q) - n) : p[i] = q[n + i]
    BY SubSeqBehind
<1>2. DOMAIN p = 1..(Len(q) - n) /\ DOMAIN q = 1..Len(q) /\ Len(q) \in Nat
    BY <1>1
<1> HIDE DEF p
<1>3. NoRepeats(p)
  <2> SUFFICES ASSUME NEW i \in DOMAIN p, NEW j \in DOMAIN p, p[i] = p[j] PROVE i = j
    BY DEF NoRepeats
  <2>1. n + i \in DOMAIN q /\ n + j \in DOMAIN q /\ q[n + i] = q[n + j]
    BY <1>1, <1>2
  <2>2. n + i = n + j
    BY <2>1 DEF NoRepeats
  <2> QED
    BY <1>2, <2>2
<1>4. ASSUME NEW i \in DOMAIN p PROVE p[i] \in Elements(q) \ {q[j] : j \in 1..n}
  <2>1. n + i \in DOMAIN q /\ p[i] = q[n + i] /\ n + i > n
    BY <1>1, <1>2
  <2>2. ASSUME NEW j \in 1..n PROVE q[j] # q[n + i]
    <3>1. j \in DOMAIN q /\ j # n + i
        BY <1>2, <2>1
    <3> QED
        BY <2>1, <3>1 DEF NoRepeats
  <2> QED
    BY <2>1, <2>2 DEF Elements
<1>5. ASSUME NEW i \in DOMAIN q, q[i] \notin {q[j] : j \in 1..n} PROVE q[i] \in Elements(p)
  <2>1. i \notin 1..n
    BY <1>5
  <2>2. i - n \in DOMAIN p /\ p[i - n] = q[i]
    BY <1>1, <1>2, <2>1
  <2> QED
    BY <2>2 DEF Elements
<1> QED
    BY <1>1, <1>3, <1>4, <1>5 DEF p, Elements

\* A sequence with an entry put behind one of its positions.
Inserted(q, x, at) == SubSeq(q, 1, at) \o <<x>> \o SubSeq(q, at + 1, Len(q))

\* A new entry put somewhere into a sequence without repeats.
LEMMA InsertedProperties ==
    ASSUME NEW S, NEW q \in Seq(S), NoRepeats(q), NEW x \in S, x \notin Elements(q), NEW at \in 0..Len(q)
    PROVE  /\ Inserted(q, x, at) \in Seq(S) /\ Len(Inserted(q, x, at)) = Len(q) + 1
           /\ NoRepeats(Inserted(q, x, at)) /\ Elements(Inserted(q, x, at)) = Elements(q) \cup {x}
<1> DEFINE l == SubSeq(q, 1, at)
           r == SubSeq(q, at + 1, Len(q))
           p == l \o <<x>> \o r
<1>0. DOMAIN q = 1..Len(q) /\ Len(q) \in Nat /\ at \in Nat /\ at <= Len(q)
    OBVIOUS
<1>1. l \in Seq(S) /\ Len(l) = at /\ \A i \in 1..at : l[i] = q[i]
  <2>1. CASE at = 0
    BY <1>0, <2>1
  <2>2. CASE at > 0
    BY <1>0, <2>2, SubSeqProperties
  <2> QED
    BY <1>0, <2>1, <2>2
<1>2. r \in Seq(S) /\ Len(r) = Len(q) - at /\ \A i \in 1..(Len(q) - at) : r[i] = q[at + i]
    BY SubSeqBehind
<1> HIDE DEF l, r
<1>3. /\ p \in Seq(S) /\ Len(p) = Len(q) + 1
      /\ \A i \in 1..(Len(q) + 1) : p[i] = IF i <= at THEN l[i] ELSE IF i = at + 1 THEN x ELSE r[i - (at + 1)]
    BY <1>0, <1>1, <1>2
<1> HIDE DEF p
<1>4. DOMAIN p = 1..(Len(q) + 1)
    BY <1>3
<1>5. \A i \in 1..at : p[i] = q[i]
    BY <1>0, <1>1, <1>3
<1>6. p[at + 1] = x
    BY <1>0, <1>3
<1>7. ASSUME NEW i \in (at + 2)..(Len(q) + 1) PROVE p[i] = q[i - 1]
  <2>1. i - (at + 1) \in 1..(Len(q) - at) /\ i \in 1..(Len(q) + 1) /\ ~(i <= at) /\ i # at + 1 /\ at + (i - (at + 1)) = i - 1
    BY <1>0, <1>7
  <2>2. p[i] = r[i - (at + 1)]
    BY <1>3, <2>1
  <2>3. r[i - (at + 1)] = q[at + (i - (at + 1))]
    BY <1>2, <2>1
  <2> QED
    BY <2>1, <2>2, <2>3
<1> DEFINE old(i) == IF i <= at THEN i ELSE i - 1
<1>8. ASSUME NEW i \in DOMAIN p, i # at + 1 PROVE old(i) \in DOMAIN q /\ p[i] = q[old(i)]
    BY <1>0, <1>4, <1>5, <1>7, <1>8
<1>9. ASSUME NEW i \in DOMAIN p, NEW j \in DOMAIN p, i # at + 1, j # at + 1, old(i) = old(j) PROVE i = j
    BY <1>0, <1>4, <1>9
<1> HIDE DEF old
<1>10. NoRepeats(p)
  <2> SUFFICES ASSUME NEW i \in DOMAIN p, NEW j \in DOMAIN p, p[i] = p[j] PROVE i = j
    BY DEF NoRepeats
  <2>1. CASE i # at + 1 /\ j # at + 1
    BY <1>8, <1>9, <2>1 DEF NoRepeats
  <2>2. CASE i = at + 1 \/ j = at + 1
    BY <1>6, <1>8, <2>2 DEF Elements
  <2> QED
    BY <2>1, <2>2
<1>11. ASSUME NEW i \in DOMAIN q PROVE q[i] \in Elements(p)
  <2>1. CASE i <= at
    BY <1>0, <1>4, <1>5, <2>1 DEF Elements
  <2>2. CASE i > at
    <3>1. i + 1 \in (at + 2)..(Len(q) + 1) /\ i + 1 \in DOMAIN p /\ (i + 1) - 1 = i
        BY <1>0, <1>4, <2>2
    <3>2. p[i + 1] = q[i]
        BY <1>7, <3>1
    <3> QED
        BY <3>1, <3>2 DEF Elements
  <2> QED
    BY <1>0, <2>1, <2>2
<1>12. x \in Elements(p)
  <2>1. at + 1 \in DOMAIN p
    BY <1>0, <1>4
  <2> QED
    BY <1>6, <2>1 DEF Elements
<1>13. ASSUME NEW i \in DOMAIN p PROVE p[i] \in Elements(q) \cup {x}
    BY <1>6, <1>8 DEF Elements
<1> QED
  <2>1. Inserted(q, x, at) = p
    BY DEF Inserted, p, l, r
  <2>2. Elements(p) = Elements(q) \cup {x}
    BY <1>11, <1>12, <1>13 DEF Elements
  <2> QED
    BY <1>3, <1>10, <2>1, <2>2

\* The last of some positions.
LEMMA LastExists ==
    ASSUME NEW ns, ns \subseteq Nat, IsFiniteSet(ns), ns # {}
    PROVE  \E n \in ns : \A o \in ns : o <= n
<1>1. Cardinality(ns) \in Nat /\ Cardinality(ns) # 0
    BY FS_CardinalityType, FS_EmptySet
<1>2. PICK n \in ns : Rank(ns, n) = Cardinality(ns)
  <2>1. Cardinality(ns) \in 1..Cardinality(ns)
    BY <1>1
  <2> QED
    BY <2>1, Ranked
<1>3. {o \in ns : o <= n} = ns
    BY <1>2, FS_Subset DEF Rank
<1> QED
    BY <1>3
\* The map holds exactly what is parked, each arrival once, within its limit.
MapInv ==
    /\ arrival \in [Arrivals -> ArrivalRecords]
    /\ pendingMessages \in Seq(Arrivals) /\ Len(pendingMessages) <= MaxParked /\ NoRepeats(pendingMessages)
    /\ Elements(pendingMessages) = {i \in Arrivals : arrival[i].phase = "parked"}
    /\ requested \subseteq Senders /\ UNION {open, timing, identifying} \subseteq Links /\ rejection \in BOOLEAN

\* A sequence without repeats has as many elements as entries.
LEMMA MapSuffices == CacheInv /\ MapInv => ParkingTypeOK
<1> SUFFICES ASSUME CacheInv, MapInv PROVE Cardinality(Elements(pendingMessages)) = Len(pendingMessages)
    BY DEF MapInv, ParkingTypeOK, CacheInv
<1> DEFINE q == pendingMessages
<1>1. q \in Seq(Arrivals) /\ DOMAIN q = 1..Len(q) /\ Len(q) \in Nat /\ NoRepeats(q)
    BY DEF MapInv
<1>2. q = [i \in 1..Len(q) |-> q[i]]
    BY <1>1
<1> HIDE DEF q
<1>3. q \in Bijection(1..Len(q), Elements(q))
    BY <1>1, <1>2 DEF Bijection, Injection, Surjection, IsInjective, NoRepeats, Elements
<1>4. ExistsBijection(1..Len(q), Elements(q))
    BY <1>3 DEF ExistsBijection
<1> QED
    BY <1>1, <1>4, FS_CountingElements DEF q

\* The message of an arrival is a copy of one.
LEMMA ArrivalMessage ==
    ASSUME NEW r \in ArrivalRecords
    PROVE  r.message.source \in Senders /\ r.message.messageId \in MessageIds
<1>1. PICK m \in Msgs : r.message \in Copies(m, FALSE)
    BY DEF ArrivalRecords
<1>2. FALSE \in BOOLEAN
    OBVIOUS
<1>3. r.message.source = Sender[m] /\ r.message.messageId \in IdsOf(m)
    BY <1>1, <1>2, CopyRead, Zenon
<1> QED
    BY <1>3 DEF Senders, IdsOf

\* A record whose phase, or phase and guard, change.
LEMMA RecordUpdates ==
    ASSUME NEW P, NEW M, NEW K, NEW r \in [phase : P, message : M, key : K, guarded : BOOLEAN], NEW ph \in P
    PROVE  /\ [r EXCEPT !.phase = ph] \in [phase : P, message : M, key : K, guarded : BOOLEAN]
           /\ [r EXCEPT !.phase = ph, !.guarded = TRUE] \in [phase : P, message : M, key : K, guarded : BOOLEAN]
           /\ [r EXCEPT !.phase = ph].phase = ph /\ [r EXCEPT !.phase = ph, !.guarded = TRUE].phase = ph
OBVIOUS

\* The phases of an arrival.
AllPhases == {"none", "recalling", "unknown", "parked", "verifying", "done", "failed", "dropped"}

\* The same for what is known of an arrival.
LEMMA ArrivalUpdates ==
    ASSUME NEW r \in ArrivalRecords, NEW ph \in AllPhases
    PROVE  /\ [r EXCEPT !.phase = ph] \in ArrivalRecords /\ [r EXCEPT !.phase = ph].phase = ph
           /\ [r EXCEPT !.phase = ph, !.guarded = TRUE] \in ArrivalRecords
           /\ [r EXCEPT !.phase = ph, !.guarded = TRUE].phase = ph
<1> DEFINE M == UNION {Copies(m, FALSE) : m \in Msgs}
<1>1. ArrivalRecords = [phase : AllPhases, message : M, key : Keys, guarded : BOOLEAN]
    BY DEF ArrivalRecords, AllPhases
<1> HIDE DEF M
<1> QED
    BY <1>1, RecordUpdates

\* What is recorded of the arrivals after some of them moved to another phase.
LEMMA SetPhases ==
    ASSUME MapInv, NEW is, NEW ph \in AllPhases
    PROVE  /\ SetPhase(is, ph) \in [Arrivals -> ArrivalRecords]
           /\ \A j \in Arrivals : SetPhase(is, ph)[j].phase = IF j \in is THEN ph ELSE arrival[j].phase
<1>1. arrival \in [Arrivals -> ArrivalRecords]
    BY DEF MapInv
<1> QED
    BY <1>1, ArrivalUpdates DEF SetPhase

\* What stays when some entries leave the map.
LEMMA WithoutProperties ==
    ASSUME MapInv, NEW is
    PROVE  /\ Without(is) \in Seq(Arrivals) /\ Len(Without(is)) <= MaxParked /\ NoRepeats(Without(is))
           /\ Elements(Without(is)) = Elements(pendingMessages) \ is
<1> DEFINE q == pendingMessages
           ns == {n \in DOMAIN q : q[n] \notin is}
<1>1. q \in Seq(Arrivals) /\ Len(q) <= MaxParked /\ NoRepeats(q) /\ ns \subseteq DOMAIN q
    BY DEF MapInv
<1>2. Without(is) = Picked(q, ns)
    BY DEF Without
<1>3. {q[n] : n \in ns} = Elements(q) \ is
    BY DEF Elements
<1> HIDE DEF ns, q
<1>4. /\ Picked(q, ns) \in Seq(Arrivals) /\ Len(Picked(q, ns)) <= Len(q)
      /\ NoRepeats(Picked(q, ns)) /\ Elements(Picked(q, ns)) = {q[n] : n \in ns}
    BY <1>1, PickedProperties
<1>5. Len(Picked(q, ns)) <= MaxParked
    BY <1>1, <1>4, ParkingAssumption
<1> QED
    BY <1>2, <1>3, <1>4, <1>5 DEF q

\* Entries that leave the map go through _processIncomingMessage again.
LEMMA ReprocessKeeps ==
    ASSUME MapInv, NEW is, Reprocess(is), requested' \subseteq Senders,
           UNION {open, timing, identifying}' \subseteq Links, rejection' = rejection
    PROVE  MapInv'
<1>1. /\ pendingMessages' \in Seq(Arrivals) /\ Len(pendingMessages') <= MaxParked /\ NoRepeats(pendingMessages')
      /\ Elements(pendingMessages') = Elements(pendingMessages) \ is
    BY WithoutProperties DEF Reprocess
<1>0. "recalling" \in AllPhases /\ arrival \in [Arrivals -> ArrivalRecords]
    BY DEF AllPhases, MapInv
<1>2. arrival' \in [Arrivals -> ArrivalRecords]
    BY <1>0, ArrivalUpdates DEF Reprocess
<1>3. \A j \in Arrivals : arrival'[j].phase = IF j \in is THEN "recalling" ELSE arrival[j].phase
    BY <1>0, ArrivalUpdates DEF Reprocess
<1>4. Elements(pendingMessages') = {i \in Arrivals : arrival'[i].phase = "parked"}
    BY <1>1, <1>3 DEF MapInv
<1> QED
    BY <1>1, <1>2, <1>4 DEF MapInv

\* An arrival is put at the end of its bucket.
LEMMA ParkedProperties ==
    ASSUME MapInv, NEW i \in Arrivals, arrival[i].phase # "parked"
    PROVE  /\ Parked(i) \in Seq(Arrivals) /\ Len(Parked(i)) = Len(pendingMessages) + 1
           /\ NoRepeats(Parked(i)) /\ Elements(Parked(i)) = Elements(pendingMessages) \cup {i}
<1> DEFINE q == pendingMessages
           before == {n \in DOMAIN q : arrival[q[n]].key = arrival[i].key}
           at == IF before = {} THEN Len(q) ELSE CHOOSE n \in before : \A o \in before : o <= n
<1>1. q \in Seq(Arrivals) /\ NoRepeats(q) /\ i \notin Elements(q) /\ DOMAIN q = 1..Len(q) /\ Len(q) \in Nat
    BY DEF MapInv
<1>2. at \in 0..Len(q)
  <2>1. CASE before = {}
    <3>1. \A n \in Nat : n \in 0..n
        OBVIOUS
    <3> QED
        BY ONLY <1>1, <2>1, <3>1, Zenon
  <2>2. CASE before # {}
    <3>1. before \subseteq Nat /\ before \in SUBSET (1..Len(q)) /\ IsFiniteSet(1..Len(q))
      <4>1. before \subseteq DOMAIN q /\ DOMAIN q = 1..Len(q)
        BY ONLY <1>1, Zenon
      <4>2. \A n \in Nat : 1..n \subseteq Nat /\ IsFiniteSet(1..n)
        BY ONLY FS_Interval
      <4> QED
        BY ONLY <1>1, <4>1, <4>2, Zenon
    <3>2. IsFiniteSet(before)
        BY <3>1, FS_Subset
    <3>3. \E n \in before : \A o \in before : o <= n
        BY <2>2, <3>1, <3>2, LastExists
    <3>4. at \in before
        BY <2>2, <3>3
    <3> QED
        BY <1>1, <3>1, <3>4
  <2> QED
    BY <2>1, <2>2
<1> DEFINE p == Inserted(q, i, at)
<1>3. Parked(i) = p
    BY DEF Parked, Inserted
<1> HIDE DEF at, q
<1>4. p \in Seq(Arrivals) /\ Len(p) = Len(q) + 1 /\ NoRepeats(p) /\ Elements(p) = Elements(q) \cup {i}
  <2>1. i \in Arrivals /\ q \in Seq(Arrivals) /\ NoRepeats(q) /\ i \notin Elements(q) /\ at \in 0..Len(q)
    BY <1>1, <1>2
  <2> QED
    BY ONLY <2>1, InsertedProperties
<1> QED
    BY <1>3, <1>4 DEF q

\* Parking a message drops the oldest when the map is full.
LEMMA ParkKeeps ==
    ASSUME MapInv, NEW i \in Arrivals, Park(i)
    PROVE  MapInv'
<1> DEFINE all == Parked(i)
           over == IF Len(all) > MaxParked THEN Len(all) - MaxParked ELSE 0
           dropped == {all[n] : n \in 1..over}
           now(j) == IF j \in dropped THEN "dropped" ELSE IF j = i THEN "parked" ELSE arrival[j].phase
<1>1. arrival[i].phase = "unknown"
    BY DEF Park
<1>2. /\ all \in Seq(Arrivals) /\ Len(all) = Len(pendingMessages) + 1
      /\ NoRepeats(all) /\ Elements(all) = Elements(pendingMessages) \cup {i}
    BY <1>1, ParkedProperties
<1>3. /\ pendingMessages' = SubSeq(all, over + 1, Len(all))
      /\ arrival' = [j \in Arrivals |->
           [arrival[j] EXCEPT !.phase = IF j \in dropped THEN "dropped" ELSE IF j = i THEN "parked" ELSE @]]
    BY DEF Park
<1>4. /\ arrival \in [Arrivals -> ArrivalRecords]
      /\ Elements(pendingMessages) = {j \in Arrivals : arrival[j].phase = "parked"}
      /\ Len(pendingMessages) \in Nat /\ Len(pendingMessages) <= MaxParked
    BY DEF MapInv
<1> HIDE DEF all
<1>5. over \in 0..Len(all) /\ Len(all) - over <= MaxParked
    BY <1>2, <1>4, ParkingAssumption
<1> HIDE DEF over
<1>6. /\ pendingMessages' \in Seq(Arrivals) /\ Len(pendingMessages') = Len(all) - over /\ NoRepeats(pendingMessages')
      /\ Elements(pendingMessages') = Elements(all) \ dropped
    BY <1>2, <1>3, <1>5, TrimmedProperties
<1> HIDE DEF dropped
<1>7. ASSUME NEW j \in Arrivals
      PROVE  now(j) \in AllPhases /\ arrival'[j] = [arrival[j] EXCEPT !.phase = now(j)]
  <2>1. arrival[j].phase \in AllPhases
    BY <1>4 DEF ArrivalRecords, AllPhases
  <2> QED
    BY <1>3, <2>1 DEF AllPhases
<1> HIDE DEF now
<1>8. ASSUME NEW j \in Arrivals PROVE arrival'[j] \in ArrivalRecords /\ arrival'[j].phase = now(j)
  <2>1. arrival[j] \in ArrivalRecords /\ now(j) \in AllPhases
    BY <1>4, <1>7
  <2>2. [arrival[j] EXCEPT !.phase = now(j)] \in ArrivalRecords /\ [arrival[j] EXCEPT !.phase = now(j)].phase = now(j)
    BY ONLY <2>1, ArrivalUpdates, Zenon
  <2> QED
    BY <1>7, <2>2
<1>9. arrival' \in [Arrivals -> ArrivalRecords]
    BY <1>3, <1>8
<1>10. Elements(pendingMessages') = {j \in Arrivals : arrival'[j].phase = "parked"}
    BY <1>2, <1>4, <1>6, <1>8 DEF now
<1>11. requested' \subseteq Senders
  <2>1. SenderOf(i) \in Senders
    BY <1>4, ArrivalMessage DEF SenderOf
  <2> QED
    BY <2>1 DEF Park, MapInv
<1>12. UNCHANGED <<open, timing, identifying, rejection>>
    BY DEF Park, links
<1> QED
    BY <1>5, <1>6, <1>9, <1>10, <1>11, <1>12 DEF MapInv

\* What an arrival is recorded as.
LEMMA RecordFields ==
    ASSUME NEW P, NEW M, NEW K, NEW ph \in P, NEW message \in M, NEW k \in K, NEW guarded \in BOOLEAN
    PROVE  LET r == [phase |-> ph, message |-> message, key |-> k, guarded |-> guarded]
           IN  r \in [phase : P, message : M, key : K, guarded : BOOLEAN] /\ r.phase = ph
OBVIOUS

\* A buffer of a message is recorded as a copy of it.
LEMMA ArrivalRecorded ==
    ASSUME NEW m \in Msgs, NEW o \in BOOLEAN, NEW message \in Copies(m, o),
           NEW ph \in AllPhases, NEW k \in Keys, NEW guarded \in BOOLEAN
    PROVE  LET r == [phase |-> ph, message |-> message, key |-> k, guarded |-> guarded]
           IN  r \in ArrivalRecords /\ r.phase = ph
<1> DEFINE M == UNION {Copies(x, FALSE) : x \in Msgs}
<1>1. ArrivalRecords = [phase : AllPhases, message : M, key : Keys, guarded : BOOLEAN]
    BY DEF ArrivalRecords, AllPhases
<1>2. message \in Copies(m, FALSE)
    BY CopyRead, Zenon
<1>3. message \in M
    BY <1>2, Zenon
<1> HIDE DEF M
<1> QED
    BY <1>1, <1>3, RecordFields

\* Arrivals that were not parked, or leave the map, are not parked afterwards.
LEMMA NotParked ==
    ASSUME MapInv, arrival' \in [Arrivals -> ArrivalRecords], NEW is,
           \A j \in Arrivals \ is : arrival'[j].phase = arrival[j].phase,
           \A j \in Arrivals \cap is : arrival'[j].phase # "parked",
           \/ pendingMessages' = Without(is)
           \/ pendingMessages' = pendingMessages /\ \A j \in Arrivals \cap is : arrival[j].phase # "parked",
           requested' = requested, UNION {open', timing', identifying'} \subseteq Links, rejection' \in BOOLEAN
    PROVE  MapInv'
<1>1. Elements(pendingMessages) = {j \in Arrivals : arrival[j].phase = "parked"}
    BY DEF MapInv
<1>2. /\ pendingMessages' \in Seq(Arrivals) /\ Len(pendingMessages') <= MaxParked /\ NoRepeats(pendingMessages')
      /\ Elements(pendingMessages') = Elements(pendingMessages) \ is
  <2>1. CASE pendingMessages' = Without(is)
    BY <2>1, WithoutProperties
  <2>2. CASE pendingMessages' = pendingMessages /\ \A j \in Arrivals \cap is : arrival[j].phase # "parked"
    <3>1. Elements(pendingMessages) \ is = Elements(pendingMessages)
        BY <1>1, <2>2
    <3> QED
        BY <2>2, <3>1 DEF MapInv
  <2> QED
    BY <2>1, <2>2
<1>3. Elements(pendingMessages') = {j \in Arrivals : arrival'[j].phase = "parked"}
    BY <1>1, <1>2
<1>4. requested' \subseteq Senders
    BY DEF MapInv
<1> QED
    BY <1>2, <1>3, <1>4 DEF MapInv

\* A step of _processIncomingMessage keeps the map and the cache.
LEMMA ProcessKeeps ==
    ASSUME CacheInv, MapInv, NEW i \in Arrivals, Process(i)
    PROVE  CacheInv' /\ Grown /\ MapInv'
<1>0. known \subseteq Senders
    BY DEF CacheInv, DispatchTypeOK
<1>1. CASE Recall(i)
  <2>1. CacheInv' /\ Grown
    BY <1>0, <1>1, NothingShown DEF Recall
  <2>2. PICK ph \in {"verifying", "unknown"} : arrival' = SetPhase({i}, ph)
    BY <1>1 DEF Recall
  <2>3. /\ arrival' \in [Arrivals -> ArrivalRecords]
        /\ \A j \in Arrivals : arrival'[j].phase = IF j \in {i} THEN ph ELSE arrival[j].phase
    BY <2>2, SetPhases DEF AllPhases
  <2>4. pendingMessages' = Without({i}) \/ pendingMessages' = pendingMessages
    BY <1>1 DEF Recall
  <2>5. arrival[i].phase # "parked" /\ UNCHANGED <<requested, open, timing, identifying, rejection>>
    BY <1>1 DEF Recall, links
  <2>6. UNION {open', timing', identifying'} \subseteq Links /\ rejection' \in BOOLEAN
    BY <2>5 DEF MapInv
  <2> QED
    BY <2>1, <2>3, <2>4, <2>5, <2>6, NotParked
<1>2. CASE Park(i)
  <2>1. CacheInv' /\ Grown
    BY <1>0, <1>2, NothingShown DEF Park
  <2> QED
    BY <1>2, <2>1, ParkKeeps
<1>3. CASE Verify(i)
  <2> DEFINE message == arrival[i].message
  <2>1. message.messageId \in MessageIds
    BY ArrivalMessage DEF MapInv
  <2>2. CacheInv' /\ Grown
    <3>1. known' \subseteq Senders /\ (Dispatch(message) \/ UNCHANGED shown)
        BY <1>0, <1>3 DEF Verify
    <3> HIDE DEF message
    <3> QED
        BY <2>1, <3>1, NothingShown, DispatchKeeps DEF Shows, Grown
  <2>3. PICK ph \in {"failed", "done"} : arrival' = SetPhase({i}, ph)
    BY <1>3 DEF Verify
  <2>4. /\ arrival' \in [Arrivals -> ArrivalRecords]
        /\ \A j \in Arrivals : arrival'[j].phase = IF j \in {i} THEN ph ELSE arrival[j].phase
    BY <2>3, SetPhases DEF AllPhases
  <2>5. arrival[i].phase # "parked" /\ UNCHANGED <<pendingMessages, requested, open, timing, identifying>>
    BY <1>3 DEF Verify, links
  <2>6. rejection' \in BOOLEAN
    <3>1. rejection' = (rejection \/ ~ arrival[i].guarded) \/ rejection' = rejection
        BY <1>3 DEF Verify
    <3>2. rejection \in BOOLEAN
        BY DEF MapInv
    <3> QED
        BY ONLY <3>1, <3>2, Zenon
  <2>7. UNION {open', timing', identifying'} \subseteq Links
    BY <2>5 DEF MapInv
  <2> QED
    BY <2>2, <2>4, <2>5, <2>6, <2>7, NotParked
<1> QED
    BY <1>1, <1>2, <1>3 DEF Process

\* Every step on a link or as a packet keeps the map and the cache.
LEMMA ParkingKeeps ==
    ASSUME CacheInv, MapInv, ParkingNext
    PROVE  CacheInv' /\ Grown /\ MapInv'
<1>0. /\ known \subseteq Senders /\ requested \subseteq Senders /\ rejection \in BOOLEAN
      /\ open \subseteq Links /\ timing \subseteq Links /\ identifying \subseteq Links
    BY DEF CacheInv, DispatchTypeOK, MapInv
<1>1. ASSUME NEW i \in Arrivals, NEW m \in Msgs, NEW k \in Keys, NEW g \in BOOLEAN, Arrive(i, m, k, g)
      PROVE  CacheInv' /\ Grown /\ MapInv'
  <2>1. CacheInv' /\ Grown
    BY <1>0, <1>1, NothingShown DEF Arrive
  <2>2. /\ arrival[i].phase = "none" /\ UNCHANGED <<pendingMessages, requested, open, timing, identifying, rejection>>
    BY <1>1 DEF Arrive, links
  <2>3. PICK message \in Copies(m, k = Opportunistic) :
          arrival' = [arrival EXCEPT ![i] = [phase |-> "recalling", message |-> message, key |-> k, guarded |-> g]]
    BY <1>1 DEF Arrive
  <2> DEFINE r == [phase |-> "recalling", message |-> message, key |-> k, guarded |-> g]
  <2>4. r \in ArrivalRecords /\ r.phase = "recalling"
    <3>1. "recalling" \in AllPhases
        BY DEF AllPhases
    <3>2. (k = Opportunistic) \in BOOLEAN
        OBVIOUS
    <3> QED
        BY <2>3, <3>1, <3>2, ArrivalRecorded, Zenon
  <2> HIDE DEF r
  <2>5. arrival' = [arrival EXCEPT ![i] = r]
    BY <2>3 DEF r
  <2>6. /\ arrival' \in [Arrivals -> ArrivalRecords]
        /\ \A j \in Arrivals : arrival'[j].phase = IF j \in {i} THEN "recalling" ELSE arrival[j].phase
    BY <2>4, <2>5 DEF MapInv
  <2>7. UNION {open', timing', identifying'} \subseteq Links /\ rejection' \in BOOLEAN
    BY <1>0, <2>2
  <2> QED
    BY <2>1, <2>2, <2>6, <2>7, NotParked
<1>2. ASSUME NEW s \in Senders, SenderAnnounces(s) PROVE CacheInv' /\ Grown /\ MapInv'
  <2>1. CacheInv' /\ Grown
    BY <1>0, <1>2, NothingShown DEF SenderAnnounces
  <2> QED
    BY <1>0, <1>2, <2>1, ReprocessKeeps DEF SenderAnnounces, links
<1>3. ASSUME NEW l \in Links, Identify(l) PROVE CacheInv' /\ Grown /\ MapInv'
  <2>1. CacheInv' /\ Grown
    BY <1>0, <1>3, NothingShown DEF Identify
  <2>2. UNION {open', timing', identifying'} \subseteq Links
    BY <1>0, <1>3 DEF Identify
  <2>3. UNCHANGED <<arrival, pendingMessages, requested, rejection>>
    BY <1>3 DEF Identify
  <2> QED
    BY <2>1, <2>2, <2>3 DEF MapInv
<1>4. ASSUME NEW l \in Links, Identified(l) PROVE CacheInv' /\ Grown /\ MapInv'
  <2>1. LinkPeer[l] \in Senders
    BY ParkingAssumption
  <2>2. CacheInv' /\ Grown
    BY <1>0, <1>4, <2>1, NothingShown DEF Identified
  <2> QED
    BY <1>0, <1>4, <2>2, ReprocessKeeps DEF Identified
<1>5. ASSUME NEW l \in Links, IdentifyTimeout(l) PROVE CacheInv' /\ Grown /\ MapInv'
  <2>1. CacheInv' /\ Grown
    BY <1>0, <1>5, NothingShown DEF IdentifyTimeout
  <2> QED
    BY <1>0, <1>5, <2>1, ReprocessKeeps DEF IdentifyTimeout
<1>6. ASSUME NEW l \in Links, CloseLink(l) PROVE CacheInv' /\ Grown /\ MapInv'
  <2>1. CacheInv' /\ Grown
    BY <1>0, <1>6, NothingShown DEF CloseLink
  <2>2. arrival' = SetPhase(Bucket(l), "dropped") /\ pendingMessages' = Without(Bucket(l))
    BY <1>6 DEF CloseLink
  <2>3. /\ arrival' \in [Arrivals -> ArrivalRecords]
        /\ \A j \in Arrivals : arrival'[j].phase = IF j \in Bucket(l) THEN "dropped" ELSE arrival[j].phase
    BY <2>2, SetPhases DEF AllPhases
  <2>4. requested' = requested /\ rejection' \in BOOLEAN /\ UNION {open', timing', identifying'} \subseteq Links
    BY <1>0, <1>6 DEF CloseLink
  <2> QED
    BY <2>1, <2>2, <2>3, <2>4, NotParked
<1> QED
    BY <1>1, <1>2, <1>3, <1>4, <1>5, <1>6, ProcessKeeps DEF ParkingNext

-----------------------------------------------------------------------------
\* The invariant: the cache, the map and what the propagation node was told.
InboundInv == CacheInv /\ MapInv /\ DownloadInv

\* It holds initially: nothing was shown, parked or fetched.
LEMMA InboundInitially == Init => InboundInv
<1> SUFFICES ASSUME Init PROVE InboundInv
    OBVIOUS
<1>1. CacheInv
    BY DEF Init, ParkingInit, DispatchInit, CacheInv, DispatchTypeOK, Elements
<1>2. MapInv
  <2>1. NotYet \in ArrivalRecords /\ NotYet.phase = "none"
    <3> DEFINE M == UNION {Copies(m, FALSE) : m \in Msgs}
               c == CHOOSE c \in M : TRUE
    <3>1. ArrivalRecords = [phase : AllPhases, message : M, key : Keys, guarded : BOOLEAN]
        BY DEF ArrivalRecords, AllPhases
    <3>2. NotYet = [phase |-> "none", message |-> c, key |-> Opportunistic, guarded |-> TRUE]
        BY DEF NotYet
    <3>3. \E x : x \in M
      <4>1. PICK m \in Msgs : TRUE
        BY OthersAssumption
      <4>2. "signed" \in Encodings /\ TRUE \in BOOLEAN
        BY DispatchAssumption
      <4>3. Deserialize(Received(m, TRUE, "signed", FALSE), Here) \in Copies(m, FALSE)
        BY <4>2, CopyMember, Zenon
      <4> QED
        BY <4>1, <4>3, Zenon
    <3>4. c \in M
        BY <3>3, Zenon
    <3>5. "none" \in AllPhases /\ Opportunistic \in Keys /\ TRUE \in BOOLEAN
        BY DEF AllPhases, Keys
    <3> HIDE DEF M, c
    <3> QED
        BY <3>1, <3>2, <3>4, <3>5, RecordFields
  <2>2. arrival = [i \in Arrivals |-> NotYet] /\ pendingMessages = << >> /\ requested = {} /\ open = Links /\ timing = Links /\ identifying = {}
    BY DEF Init, ParkingInit
  <2>3. rejection = FALSE
    BY DEF Init, ParkingInit
  <2>4. rejection \in BOOLEAN
    BY <2>3, Zenon
  <2>5. Elements(pendingMessages) = {i \in Arrivals : arrival[i].phase = "parked"}
    BY <2>1, <2>2 DEF Elements
  <2>6. /\ pendingMessages \in Seq(Arrivals) /\ Len(pendingMessages) <= MaxParked /\ NoRepeats(pendingMessages)
    BY <2>2, ParkingAssumption DEF NoRepeats
  <2> QED
    BY <2>1, <2>2, <2>4, <2>5, <2>6 DEF MapInv
<1>3. DownloadInv
    BY DEF Init, DownloadInit, DownloadInv, DownloadTyped, SessionRecords, Idle, Vouched
<1> QED
    BY <1>1, <1>2, <1>3 DEF InboundInv

\* Every step of the router keeps it.
LEMMA InboundStep == InboundInv /\ [Next]_mcVars => InboundInv'
<1> SUFFICES ASSUME CacheInv, MapInv, DownloadInv, [Next]_mcVars PROVE InboundInv'
    BY DEF InboundInv
<1>1. CASE ParkingNext /\ ParkingOnly
  <2>1. CacheInv' /\ Grown /\ MapInv'
    BY <1>1, ParkingKeeps
  <2>2. UNCHANGED <<stored, purged, processedTransientIds, session, reading, lost>>
    BY <1>1 DEF ParkingOnly, node
  <2> QED
    BY <2>1, <2>2, DownloadFrame DEF InboundInv
<1>2. CASE DownloadNext /\ DownloadOnly
  <2>1. CacheInv' /\ DownloadInv'
    BY <1>2, DownloadKeeps
  <2>2. UNCHANGED <<arrival, pendingMessages, requested, open, timing, identifying, rejection>>
    BY <1>2 DEF DownloadOnly, links
  <2>3. MapInv'
    BY <2>2 DEF MapInv
  <2> QED
    BY <2>1, <2>3 DEF InboundInv
<1>3. CASE UNCHANGED mcVars
  <2>1. UNCHANGED shown /\ known' = known /\ UNCHANGED <<stored, purged, processedTransientIds, session, reading, lost>>
    BY <1>3 DEF mcVars, downloadVars, node
  <2>2. CacheInv' /\ Grown
    BY <2>1, NothingShown DEF CacheInv, DispatchTypeOK
  <2>3. UNCHANGED <<arrival, pendingMessages, requested, open, timing, identifying, rejection>>
    BY <1>3 DEF mcVars, parkingVars, links
  <2>4. MapInv'
    BY <2>3 DEF MapInv
  <2> QED
    BY <2>1, <2>2, <2>4, DownloadFrame DEF InboundInv
<1> QED
    BY <1>1, <1>2, <1>3 DEF Next

\* It implies what is promised.
LEMMA InboundSuffices == InboundInv => InboundSafe
<1> SUFFICES ASSUME InboundInv PROVE InboundSafe
    OBVIOUS
<1>1. DispatchedOnce
  <2> SUFFICES ASSUME NEW id \in MessageIds PROVE dispatched[id] <= 1 + forgotten[id]
    BY DEF DispatchedOnce
  <2>1. dispatched[id] \in Nat /\ forgotten[id] \in Nat
    BY DEF InboundInv, CacheInv, DispatchTypeOK
  <2>2. dispatched[id] \in 1..(1 + forgotten[id]) \/ dispatched[id] <= forgotten[id]
    BY DEF InboundInv, CacheInv
  <2> QED
    BY <2>1, <2>2
<1>2. PurgedIsDelivered
    BY DEF PurgedIsDelivered, InboundInv, DownloadInv, Vouched, Delivered
<1>3. ParkingTypeOK
    BY MapSuffices DEF InboundInv
<1> QED
    BY <1>1, <1>2, <1>3 DEF InboundSafe

\* InboundSafe for any messages, encodings, copies, links, sessions and limits: whatever packets,
\* links, announces and downloads interleave, the application sees a message once and again only
\* after its id left the cache, the node deletes on the recipient's word only what was delivered,
\* and the map holds exactly what is parked.
THEOREM InboundSafety == Spec => []InboundSafe
<1>1. Init => InboundInv
    BY InboundInitially
<1>2. InboundInv /\ [Next]_mcVars => InboundInv'
    BY InboundStep
<1>3. InboundInv => InboundSafe
    BY InboundSuffices
<1> QED
    BY <1>1, <1>2, <1>3, PTL DEF Spec

-----------------------------------------------------------------------------
\* Sending.

\* A send is only where its fallback allows it to be, and what it reported is held.
SendInv ==
    /\ lsPc = [s \in Sends |-> lsPc[s]] /\ lsVia = [s \in Sends |-> lsVia[s]]
    /\ \A s \in Sends : lsPc[s] = "opportunistic" => FallbackOf[s] # "none"
    /\ \A s \in Sends : lsPc[s] \in {"packing", "submitting"} => FallbackOf[s] = "propagation"
    /\ SentIsHeld

\* The initial state of the router's send tables.
LEMMA SendInitially == SendInit => SendInv
BY DEF SendInit, SendInv, SentIsHeld

\* Every step of a send, and the closing of a link, keeps the invariant.
LEMMA SendInductive == SendInv /\ [SendNext]_sendVars => SendInv'
<1> SUFFICES ASSUME SendInv, [SendNext]_sendVars PROVE SendInv'
    OBVIOUS
<1> USE DEF SendInv, SentIsHeld, Goes, Ends, Escalate, tableVars
<1>1. ASSUME NEW s \in Sends, Send(s) \/ RequestAndAwaitPath(s) \/ DirectLinkUp(s) PROVE SendInv'
    BY <1>1 DEF Send, RequestAndAwaitPath, DirectLinkUp
<1>2. ASSUME NEW s \in Sends, DirectLinkFails(s) \/ ResourceFails(s) \/ LinkGone(s) PROVE SendInv'
    BY <1>2 DEF DirectLinkFails, ResourceFails, LinkGone
<1>3. ASSUME NEW s \in Sends, SendOverLink(s) \/ IdentifiesLink(s) PROVE SendInv'
    BY <1>3 DEF SendOverLink, IdentifiesLink
<1>4. ASSUME NEW s \in Sends, SendPacketOnLink(s) \/ Advertise(s) PROVE SendInv'
    BY <1>4 DEF SendPacketOnLink, Advertise
<1>5. ASSUME NEW s \in Sends, ResourceAssembled(s) \/ ResourceProven(s) PROVE SendInv'
    BY <1>5 DEF ResourceAssembled, ResourceProven
<1>6. ASSUME NEW s \in Sends, OpportunisticArrives(s) \/ OpportunisticProven(s) PROVE SendInv'
    BY <1>6 DEF OpportunisticArrives, OpportunisticProven
<1>7. ASSUME NEW s \in Sends, OpportunisticFails(s) PROVE SendInv'
    BY <1>7 DEF OpportunisticFails
<1>8. ASSUME NEW s \in Sends, SubmitOnCached(s) \/ SubmitOnFresh(s) \/ SubmitRefused(s) PROVE SendInv'
    BY <1>8 DEF SubmitOnCached, SubmitOnFresh, SubmitRefused
<1>9. ASSUME NEW s \in Sends, SubmitProven(s) \/ SubmitFails(s) PROVE SendInv'
    BY <1>9 DEF SubmitProven, SubmitFails
<1>10. ASSUME NEW l \in LinkIds, LinkCloses(l) PROVE SendInv'
    BY <1>10 DEF LinkCloses
<1>11. CASE UNCHANGED sendVars
    BY <1>11 DEF sendVars
<1> QED
    BY <1>1, <1>2, <1>3, <1>4, <1>5, <1>6, <1>7, <1>8, <1>9, <1>10, <1>11 DEF SendNext, SendStep

\* send() reports success only for what the recipient or the node holds, and by a way the
\* caller allowed: for any sends, sizes, fallbacks and number of links.
THEOREM SendSafety == SendInit /\ [][SendNext]_sendVars => []SentIsHeld
<1>1. SendInv => SentIsHeld
    BY DEF SendInv
<1> QED
    BY SendInitially, SendInductive, <1>1, PTL

=============================================================================
