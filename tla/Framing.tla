------------------------------ MODULE Framing ------------------------------
(***************************************************************************)
(* HDLC and KISS byte-stream framing, and the KISS parser of the RNode      *)
(* driver: packets are escaped, delimited and concatenated, and the reader, *)
(* which may attach in the middle of a frame, cuts them out again one byte  *)
(* at a time.  A frame may be refused by the interface's access code check, *)
(* which the stream of a socket awaits and the RNode driver does not.       *)
(*                                                                          *)
(* Bytes are symbols: "end" is the delimiter, "esc" the escape, "tend" and  *)
(* "tesc" their transposed forms (the XOR with the mask in HDLC), "cmd" is  *)
(* the KISS data command.                                                   *)
(***************************************************************************)
EXTENDS Naturals, Sequences, FiniteSets

CONSTANTS
    Framings,     \* a subset of {"hdlc", "kiss", "rnode"}
    Payloads,     \* packets that may be sent, sequences of symbols
    MaxFrames,    \* bound: packets sent in one behaviour
    Noise,        \* what is on the wire before the first frame
    MinRaw,       \* packets up to this length are refused by _openRaw
    MaxFrame      \* maxFrameSize, maxMtu and HW_MTU

\* "cmd" is also an ordinary byte, "data" any other.
Bytes == {"end", "esc", "tend", "tesc", "cmd", "data"}

\* A packet fits, in HDLC with its escapes, and the tail of a frame holds no delimiter but the
\* one that closes it.
ASSUME FramingAssumption ==
    /\ MinRaw \in Nat /\ MaxFrame \in Nat \ {0} /\ Payloads \cup Noise \subseteq Seq(Bytes)
    /\ \A p \in Payloads : Len(p) <= MaxFrame /\ ("hdlc" \in Framings => 2 * Len(p) <= MaxFrame)
    /\ \A tail \in Noise : \A i \in DOMAIN tail : tail[i] = "end" => i = Len(tail)

VARIABLES
    frKind,       \* the framing, fixed
    frSent,       \* the packets, fixed
    frNoise,      \* what is left of the noise
    frPkt,        \* the packet whose frame is on the wire
    frAt, frOff,  \* the next byte of that frame: its piece and the offset therein
    frIn, frEsc,  \* inside a frame; the last byte was an escape
    frCmd,        \* the KISS command: "unknown" or the first byte of the frame
    frBuf,        \* the frame's bytes so far
    frCut,        \* the packets cut out of the stream that the check accepts, in order
    frOut         \* the positions in frCut of those handed on to deserialize, in that order

framingVars == <<frKind, frSent, frNoise, frPkt, frAt, frOff, frIn, frEsc, frCmd, frBuf, frCut, frOut>>

Transposed(b) == CASE b = "end" -> "tend" [] b = "esc" -> "tesc" [] OTHER -> b
Plain(b) == CASE b = "tend" -> "end" [] b = "tesc" -> "esc" [] OTHER -> b

\* Mutant: the escape byte itself is not escaped.
HdlcEscapeFlagOnly(b) == IF b = "end" THEN <<"esc", Transposed(b)>> ELSE <<b>>

\* What the loops of hdlcEscape and kissEscape make of a byte.
HdlcEscape(b) == IF b \in {"end", "esc"} THEN <<"esc", Transposed(b)>> ELSE <<b>>

KissEscape(b) == CASE b = "esc" -> <<"esc", "tesc">> [] b = "end" -> <<"esc", "tend">> [] OTHER -> <<b>>

\* A frame in pieces: what opens it is piece 0, then there is one for every byte of the
\* packet, and the delimiter that closes it.
HdlcFrame(p, i) == IF i \in DOMAIN p THEN HdlcEscape(p[i]) ELSE <<"end">>
KissFrame(p, i) == IF i = 0 THEN <<"end", "cmd">> ELSE IF i \in DOMAIN p THEN KissEscape(p[i]) ELSE <<"end">>

Piece == IF frKind = "hdlc" THEN HdlcFrame(frSent[frPkt], frAt) ELSE KissFrame(frSent[frPkt], frAt)

\* What a sequence holds at the given positions, in its order.
AtPositions(q, ns) ==
    LET nth(k) == CHOOSE n \in ns : Cardinality({o \in ns : o <= n}) = k
    IN  [k \in 1..Cardinality(ns) |-> q[nth(k)]]

\* hdlcUnescape of a whole frame: every byte but the escapes, those behind an escape as they
\* were.  An escape that transposes nothing makes it invalid.
HdlcUnescape(buf) ==
    LET valid == \A i \in DOMAIN buf : buf[i] = "esc" => i < Len(buf) /\ buf[i + 1] \in {"tend", "tesc"}
        plain == [i \in DOMAIN buf |-> IF i > 1 /\ buf[i - 1] = "esc" THEN Plain(buf[i]) ELSE buf[i]]
    IN  IF valid THEN AtPositions(plain, {i \in DOMAIN buf : buf[i] # "esc"}) ELSE << >>

Refused(p) == Len(p) <= MinRaw

FramingInit ==
    /\ frKind \in Framings
    /\ frSent \in UNION {[1..n -> Payloads] : n \in 1..MaxFrames}
    /\ frNoise \in Noise /\ frPkt = 1 /\ frAt = 0 /\ frOff = 1
    /\ frIn = FALSE /\ frEsc = FALSE /\ frCmd = "unknown" /\ frBuf = << >> /\ frCut = << >> /\ frOut = << >>

\* The stream is in order and loses nothing, and the parsers take it byte by byte, however it
\* is cut into chunks: the next byte of it is read.
NextByte == IF frNoise # << >> THEN Head(frNoise) ELSE Piece[frOff]

Consume ==
    /\ frPkt <= Len(frSent) /\ UNCHANGED <<frKind, frSent>>
    /\ CASE frNoise # << >> -> frNoise' = Tail(frNoise) /\ UNCHANGED <<frPkt, frAt, frOff>>
         [] frNoise = << >> /\ frOff < Len(Piece) -> frOff' = frOff + 1 /\ UNCHANGED <<frNoise, frPkt, frAt>>
         [] OTHER ->
              /\ frOff' = 1 /\ UNCHANGED frNoise
              /\ IF frAt <= Len(frSent[frPkt]) THEN frAt' = frAt + 1 /\ UNCHANGED frPkt
                 ELSE frAt' = 0 /\ frPkt' = frPkt + 1

Restart(inFrame) == frIn' = inFrame /\ frEsc' = FALSE /\ frCmd' = "unknown" /\ frBuf' = << >>

\* The transform awaits the check of a frame before it reads on.
HandOn == frOut' = IF frCut' = frCut THEN frOut ELSE Append(frOut, Len(frCut'))

\* The HDLC unframer: a flag ends a frame and starts the next, whatever became of the first.
HdlcFeed ==
    /\ frKind = "hdlc" /\ Consume
    /\ IF NextByte = "end"
       THEN /\ Restart(TRUE)
            /\ frCut' = IF frIn /\ ~Refused(HdlcUnescape(frBuf)) THEN Append(frCut, HdlcUnescape(frBuf)) ELSE frCut
       ELSE /\ UNCHANGED frCut
            /\ CASE ~frIn -> UNCHANGED <<frIn, frEsc, frCmd, frBuf>>
                 [] frIn /\ Len(frBuf) >= MaxFrame -> Restart(FALSE)
                 [] OTHER -> frBuf' = Append(frBuf, NextByte) /\ UNCHANGED <<frIn, frEsc, frCmd>>
    /\ HandOn

\* The KISS unframer. A refused frame leaves the parser as it is: command and buffer stay.
KissFeed ==
    /\ frKind = "kiss" /\ Consume
    /\ LET byte == NextByte
       IN  IF byte = "end"
           THEN IF frIn /\ frCmd = "cmd" /\ Refused(frBuf)
                THEN UNCHANGED <<frIn, frEsc, frCmd, frBuf, frCut>>
                ELSE /\ Restart(TRUE)
                     /\ frCut' = IF frIn /\ frCmd = "cmd" THEN Append(frCut, frBuf) ELSE frCut
           ELSE /\ UNCHANGED frCut
                /\ CASE ~frIn -> UNCHANGED <<frIn, frEsc, frCmd, frBuf>>
                     [] frIn /\ frBuf = << >> /\ frCmd = "unknown" -> frCmd' = byte /\ UNCHANGED <<frIn, frEsc, frBuf>>
                     [] frIn /\ frCmd \notin {"unknown", "cmd"} -> UNCHANGED <<frIn, frEsc, frCmd, frBuf>>
                     [] frIn /\ frCmd = "cmd" /\ Len(frBuf) >= MaxFrame -> Restart(FALSE)
                     [] frIn /\ frCmd = "cmd" /\ Len(frBuf) < MaxFrame /\ byte = "esc" ->
                            frEsc' = TRUE /\ UNCHANGED <<frIn, frCmd, frBuf>>
                     [] OTHER ->
                            IF frEsc /\ byte \notin {"tend", "tesc"}
                            THEN Restart(FALSE)
                            ELSE /\ frBuf' = Append(frBuf, IF frEsc THEN Plain(byte) ELSE byte)
                                 /\ frEsc' = FALSE /\ UNCHANGED <<frIn, frCmd>>
    /\ HandOn

\* CMD_DATA: escapes are resolved as they arrive, an unknown one yields its byte.
HandleDataByte(byte) ==
    IF byte = "esc" THEN frEsc' = TRUE /\ UNCHANGED frBuf
    ELSE frBuf' = Append(frBuf, IF frEsc THEN Plain(byte) ELSE byte) /\ frEsc' = FALSE

\* The RNode driver's parser: a data frame is taken at its closing delimiter, which does not
\* open the next one; bytes past the hardware MTU are ignored and the rest is kept.
FeedBytes ==
    /\ frKind = "rnode" /\ Consume /\ UNCHANGED frOut
    /\ LET byte == NextByte
       IN  IF byte = "end"
           THEN IF frIn /\ frCmd = "cmd"
                THEN /\ frIn' = FALSE /\ frBuf' = << >> /\ frEsc' = FALSE /\ UNCHANGED frCmd
                     /\ frCut' = IF Refused(frBuf) THEN frCut ELSE Append(frCut, frBuf)
                ELSE Restart(TRUE) /\ UNCHANGED frCut
           ELSE /\ UNCHANGED frCut
                /\ CASE ~frIn \/ Len(frBuf) >= MaxFrame -> UNCHANGED <<frIn, frEsc, frCmd, frBuf>>
                     [] frIn /\ Len(frBuf) < MaxFrame /\ frBuf = << >> /\ frCmd = "unknown" ->
                            frCmd' = byte /\ UNCHANGED <<frIn, frEsc, frBuf>>
                     [] OTHER -> HandleDataByte(byte) /\ UNCHANGED <<frIn, frCmd>>

\* Mutant: a frame may be handed on by each of two checks.
RadioProcessIncomingTwice(i) ==
    /\ frKind = "rnode" /\ i \in DOMAIN frCut /\ Len(frOut) < Len(frCut)
    /\ frOut' = Append(frOut, i)
    /\ UNCHANGED <<frKind, frSent, frNoise, frPkt, frAt, frOff, frIn, frEsc, frCmd, frBuf, frCut>>

\* The RNode driver has started the checks of its frames and not waited for them: one of them
\* is over.
RadioProcessIncoming(i) ==
    /\ frKind = "rnode" /\ i \in DOMAIN frCut /\ \A k \in DOMAIN frOut : frOut[k] # i
    /\ frOut' = Append(frOut, i)
    /\ UNCHANGED <<frKind, frSent, frNoise, frPkt, frAt, frOff, frIn, frEsc, frCmd, frBuf, frCut>>

FramingNext == HdlcFeed \/ KissFeed \/ FeedBytes \/ \E i \in 1..MaxFrames : RadioProcessIncoming(i)
-----------------------------------------------------------------------------
\* Of the packets whose frames have been read, those the access code check accepts.
Accepted == AtPositions(frSent, {i \in 1..frPkt - 1 : ~Refused(frSent[i])})

\* Each is handed on at most once; in its turn, if the positions are 1, 2, 3.
HandedOnce ==
    /\ \A k \in DOMAIN frOut : frOut[k] \in DOMAIN frCut
    /\ \A j, k \in DOMAIN frOut : frOut[j] = frOut[k] => j = k
InTurn == frOut = [k \in DOMAIN frCut |-> k]

\* Whatever bytes the packets contain and wherever the reader attached, a packet is cut out
\* when the last byte of its frame is read, and nothing else is: exactly the packets that the
\* access code check accepts. Each is handed on once, by the stream of a socket at once and in
\* order, by the RNode driver when its check is over. The KISS stream is only claimed to do so
\* when none is refused: see KissResyncs (the unframer streams, _feedBytes, _processIncoming).
FramesRecovered ==
    (frKind = "kiss" => \A i \in DOMAIN frSent : ~Refused(frSent[i]))
        => frCut = Accepted /\ HandedOnce /\ (frKind # "rnode" => InTurn)

\* createKissUnframerStream drops a frame that is refused and goes on with the next one.
KissResyncs == frKind = "kiss" => frCut = Accepted

\* The RNode driver dispatches packets in the order in which they came over the air.
RadioInOrder == \A j, k \in DOMAIN frOut : j < k => frOut[j] < frOut[k]
=============================================================================
