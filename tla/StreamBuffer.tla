---------------------------- MODULE StreamBuffer ----------------------------
(***************************************************************************)
(* Web Stream adapters over a Channel: a WritableStream that cuts what it   *)
(* is given into stream messages, and the ReadableStream at the other end.  *)
(* The channel between them is the one OrderedDelivery promises, with its   *)
(* send window; it may shut down at any time.                               *)
(***************************************************************************)
EXTENDS Naturals, Sequences

CONSTANTS
    MaxBytes,       \* bound: bytes written to the stream
    MaxDataLen,     \* _maxDataLen: bytes that fit in a message uncompressed
    MaxChunkLen,    \* MAX_CHUNK_LEN: bytes one message may stand for
    MinCompress,    \* below this length compression is not tried (32 in the code)
    SendWindow      \* bound: messages under way

ASSUME StreamAssumption == {MaxBytes, MinCompress} \subseteq Nat /\ {MaxDataLen, MaxChunkLen, SendWindow} \subseteq Nat \ {0}

VARIABLES
    sbChunks,       \* bytes the application has handed over in write() calls
    sbOffset,       \* of those, bytes already sent
    sbWriter,       \* "idle", "writing", "closing", "closed" or "aborted"
    sbWire,         \* stream messages under way, in order: [from, to, eof, packed]
    sbDown,         \* the channel is shut down
    sbReader,       \* "open", "done", "failed" or "cancelled"
    sbRead,         \* bytes enqueued in the reader
    sbInflate       \* the reader has a bz2 module

streamVars == <<sbChunks, sbOffset, sbWriter, sbWire, sbDown, sbReader, sbRead, sbInflate>>

StreamInit ==
    /\ sbChunks = 0 /\ sbOffset = 0 /\ sbWriter = "idle" /\ sbWire = << >> /\ sbDown = FALSE
    /\ sbReader = "open" /\ sbRead = << >> /\ sbInflate \in BOOLEAN

Ready == Len(sbWire) < SendWindow

\* write(): the next call starts when the one before has settled.
WriteChunk(n) ==
    /\ sbWriter = "idle" /\ sbChunks + n <= MaxBytes
    /\ sbChunks' = sbChunks + n /\ sbWriter' = "writing"
    /\ UNCHANGED <<sbOffset, sbWire, sbDown, sbReader, sbRead, sbInflate>>

\* Mutant: the whole piece counts as sent although only what fits was.
WriteOneWhole(left) ==
    {[sent |-> k, used |-> left, packed |-> FALSE] : k \in {IF left < MaxDataLen THEN left ELSE MaxDataLen}}

Lesser(a, b) == IF a < b THEN a ELSE b

\* _writeOne: a compressed segment - all, a half or a third of what is left up to the chunk
\* length, if that is worth trying and its compressed form fits - or as much as fits as it is.
WriteOne(left) == LET cap == Lesser(left, MaxChunkLen) IN
    {[sent |-> cap \div t, used |-> cap \div t, packed |-> TRUE] : t \in {u \in 1..3 : cap \div u > MinCompress}}
      \cup {[sent |-> k, used |-> k, packed |-> FALSE] : k \in {Lesser(cap, MaxDataLen)}}

\* One message of the write under way is accepted by the channel.  _awaitReady waits while the
\* window is full.  It notices a shutdown only then, and a channel that shut down has an empty
\* ring: the send fails with LINK_NOT_READY and is tried again at once, so there is no step
\* that leaves "writing" or "closing".
SendOne ==
    /\ sbWriter = "writing" /\ sbOffset < sbChunks /\ Ready /\ ~sbDown
    /\ \E w \in WriteOne(sbChunks - sbOffset) :
          /\ sbWire' = Append(sbWire, [from |-> sbOffset + 1, to |-> sbOffset + w.sent, eof |-> FALSE, packed |-> w.packed])
          /\ sbOffset' = sbOffset + w.used
    /\ UNCHANGED <<sbChunks, sbWriter, sbDown, sbReader, sbRead, sbInflate>>

WriteSettled ==
    /\ sbWriter = "writing" /\ sbOffset = sbChunks /\ sbWriter' = "idle"
    /\ UNCHANGED <<sbChunks, sbOffset, sbWire, sbDown, sbReader, sbRead, sbInflate>>

CloseWriter ==
    /\ sbWriter = "idle" /\ sbWriter' = "closing"
    /\ UNCHANGED <<sbChunks, sbOffset, sbWire, sbDown, sbReader, sbRead, sbInflate>>

SendEof ==
    /\ sbWriter = "closing" /\ Ready /\ ~sbDown
    /\ sbWire' = Append(sbWire, [from |-> sbOffset + 1, to |-> sbOffset, eof |-> TRUE, packed |-> FALSE])
    /\ sbWriter' = "closed"
    /\ UNCHANGED <<sbChunks, sbOffset, sbDown, sbReader, sbRead, sbInflate>>

AbortWriter ==
    /\ sbWriter = "idle" /\ sbWriter' = "aborted"
    /\ UNCHANGED <<sbChunks, sbOffset, sbWire, sbDown, sbReader, sbRead, sbInflate>>

\* _onMessage: what a message makes of an open reader.
OnMessage(m) ==
    IF m.packed /\ ~sbInflate THEN "failed" ELSE IF m.eof THEN "done" ELSE "open"

Deliver ==
    /\ sbWire # << >> /\ ~sbDown
    /\ LET m == Head(sbWire)
       IN  IF sbReader = "open"
           THEN /\ sbReader' = OnMessage(m)
                /\ sbRead' = IF OnMessage(m) = "failed" THEN sbRead
                             ELSE sbRead \o [k \in 1..m.to + 1 - m.from |-> m.from + k - 1]
           ELSE UNCHANGED <<sbReader, sbRead>>
    /\ sbWire' = Tail(sbWire)
    /\ UNCHANGED <<sbChunks, sbOffset, sbWriter, sbDown, sbInflate>>

CancelReader ==
    /\ sbReader = "open" /\ sbReader' = "cancelled"
    /\ UNCHANGED <<sbChunks, sbOffset, sbWriter, sbWire, sbDown, sbRead, sbInflate>>

\* The link closed: the ring is emptied, so the window has room again.
ShutDown ==
    /\ ~sbDown /\ sbDown' = TRUE /\ sbWire' = << >>
    /\ UNCHANGED <<sbChunks, sbOffset, sbWriter, sbReader, sbRead, sbInflate>>

StreamStep == SendOne \/ WriteSettled \/ SendEof \/ Deliver

StreamNext ==
    \/ StreamStep \/ CloseWriter \/ AbortWriter \/ CancelReader \/ ShutDown
    \/ \E n \in 1..MaxBytes : WriteChunk(n)

\* The event loop runs the writer's polls and the channel delivers or is shut down.
StreamSpec == StreamInit /\ [][StreamNext]_streamVars /\ WF_streamVars(StreamStep)
-----------------------------------------------------------------------------
\* The reader gets the bytes of the writer, in order, without gaps or repeats, however writes
\* are cut into messages and compressed, and a stream that ended by EOF is complete
\* (_writeOne, write, close, _onMessage).
StreamIntact ==
    /\ \A k \in DOMAIN sbRead : sbRead[k] = k
    /\ sbReader = "done" => Len(sbRead) = sbChunks

\* _awaitReady: waits until there is room and bails if the channel shuts down, so a write or a
\* close settles one way or the other.
WriteSettles == sbWriter \in {"writing", "closing"} ~> sbWriter \notin {"writing", "closing"}
=============================================================================
