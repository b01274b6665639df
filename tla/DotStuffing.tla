---------------------------- MODULE DotStuffing ----------------------------
(***************************************************************************)
(* The message body on the wire: dotWriter, which stuffs what the client   *)
(* sends after DATA, and dotReader, which unstuffs it for the server's     *)
(* OnData, byte by byte.  Source: internal/textproto/dot.go.               *)
(*                                                                         *)
(* `stream` is every byte put on the connection since the 354 reply, and   *)
(* `pos` how many of them the reader has taken (UnreadByte gives one       *)
(* back).  The peer is either this library's dotWriter or a foreign client *)
(* that puts any bytes it likes on the wire.  OnData chooses the length of *)
(* the buffer of every Read.                                               *)
(*                                                                         *)
(* The definitions named Mut* are plausible slips in the definition that   *)
(* follows them; no behaviour uses them (README, "Mutants").               *)
(***************************************************************************)
EXTENDS Integers, Sequences

CONSTANTS
    DOT, CR, LF,     \* the bytes the automata tell apart
    Others,          \* the other bytes
    Lens,            \* the buffer lengths OnData reads with
    MaxBytes         \* bound: bytes of a body, or of a foreign stream

Bytes == {DOT, CR, LF} \cup Others

ASSUME ByteAssumption ==
    /\ DOT # CR /\ DOT # LF /\ CR # LF
    /\ Others \cap {DOT, CR, LF} = {}
ASSUME LensAssumption == Lens \subseteq Nat \ {0}
ASSUME MaxAssumption == MaxBytes \in Nat

VARIABLES
    peer,            \* "dotWriter" or "foreign"
    body,            \* the bytes given to dotWriter.Write
    beginLine,       \* dotWriter.beginLine
    closed,          \* dotWriter.closed
    broken,          \* the bufio.Writer's sticky error
    after,           \* what the client has sent behind the body
    stream, pos,     \* the connection
    state,           \* dotReader.state
    len, n,          \* len(p), and the bytes of it filled; n = len: no Read runs
    got,             \* what Read has handed out
    ended,           \* "marked": Read met the end mark; "cut": ReadByte failed
    lost             \* a byte was taken from the stream and never handed out

wvars == <<peer, body, beginLine, closed, broken, after>>
rvars == <<pos, state, len, n, got, ended, lost>>
vars == <<wvars, stream, rvars>>

----------------------------------------------------------------------------
(* dotWriter *)

MutFirstLineOnly(b) == IF body = <<>> /\ b = DOT THEN <<DOT, b>> ELSE <<b>>

\* A dot at the beginning of a line is doubled.
Stuffed(b) == IF beginLine /\ b = DOT THEN <<DOT, b>> ELSE <<b>>

\* One turn of Write's loop.
Write(b) ==
    /\ peer = "dotWriter" /\ ~closed /\ ~broken /\ Len(body) < MaxBytes
    /\ stream' = stream \o Stuffed(b)
    /\ body' = Append(body, b) /\ beginLine' = (b = LF)
    /\ UNCHANGED <<peer, closed, broken, after, rvars>>

\* WriteByte fails, and with bufio's sticky error every later write.
writeError ==
    /\ peer = "dotWriter" /\ ~closed /\ ~broken /\ broken' = TRUE
    /\ UNCHANGED <<peer, body, beginLine, closed, after, stream, rvars>>

\* What Close puts after the body: the end of an open line, then the mark.
Missing == IF beginLine THEN <<>> ELSE <<CR, LF>>
Mark == <<DOT, CR, LF>>

\* A second Close, and a Write after Close, do nothing.
Close ==
    /\ peer = "dotWriter" /\ ~closed /\ closed' = TRUE
    /\ stream' = IF broken THEN stream ELSE stream \o Missing \o Mark
    /\ UNCHANGED <<peer, body, beginLine, broken, after, rvars>>

\* The client's next command, sent behind the body (the first byte of it).
nextCommand(b) ==
    /\ peer = "dotWriter" /\ closed /\ ~broken /\ after = <<>>
    /\ after' = <<b>> /\ stream' = Append(stream, b)
    /\ UNCHANGED <<peer, body, beginLine, closed, broken, rvars>>

\* A client that is not this library sends anything.
foreign(b) ==
    /\ peer = "foreign" /\ Len(stream) < MaxBytes
    /\ stream' = Append(stream, b)
    /\ UNCHANGED <<wvars, rvars>>

----------------------------------------------------------------------------
(* dotReader *)

\* OnData calls Read with a buffer of l bytes.  At dotStateEOF Read returns
\* io.EOF and changes nothing.
Read(l) ==
    /\ n = len /\ state # "EOF"
    /\ len' = l /\ n' = 0
    /\ UNCHANGED <<wvars, stream, pos, state, got, ended, lost>>

\* The loop: Read runs, and ReadByte returns b.
ReadByte(b) == n < len /\ pos < Len(stream) /\ b = stream[pos + 1]
take == pos' = pos + 1
UnreadByte == UNCHANGED pos

\* p[n] = ..., n++
emit(bytes) == got' = got \o bytes /\ n' = n + Len(bytes) /\ UNCHANGED len
Room == len - n

AfterByte(b) == CASE b = CR -> "CR" [] b = LF -> "BeginLine" [] OTHER -> "Line"

MutCRLFOnly(b) ==
    state = "BeginLine" /\ b = DOT /\ (IF pos < 2 THEN TRUE ELSE stream[pos - 1] = CR)
LeadingDot(b) == state = "BeginLine" /\ b = DOT

\* BeginLine, Line and CR hand on every byte but a dot that begins a line.
plainByte ==
    \E b \in Bytes :
        /\ ReadByte(b) /\ state \in {"BeginLine", "Line", "CR"} /\ ~LeadingDot(b)
        /\ state' = AfterByte(b) /\ take /\ emit(<<b>>)
        /\ UNCHANGED <<wvars, stream, ended, lost>>

leadingDot ==
    \E b \in Bytes :
        /\ ReadByte(b) /\ LeadingDot(b)
        /\ state' = "Dot" /\ take
        /\ UNCHANGED <<wvars, stream, len, n, got, ended, lost>>

\* ".\n" and ".\r\n" end the body: Read returns with io.EOF.
endMark ==
    /\ ReadByte(LF) /\ state \in {"Dot", "DotCR"}
    /\ state' = "EOF" /\ ended' = "marked" /\ take
    /\ len' = 0 /\ n' = 0
    /\ UNCHANGED <<wvars, stream, got, lost>>

dotCR ==
    /\ ReadByte(CR) /\ state = "Dot"
    /\ state' = "DotCR" /\ take
    /\ UNCHANGED <<wvars, stream, len, n, got, ended, lost>>

stuffedDot ==
    /\ ReadByte(DOT) /\ state = "Dot"
    /\ state' = "Line" /\ emit(<<DOT>>) /\ take
    /\ UNCHANGED <<wvars, stream, ended, lost>>

MutSkipByte(held, b) == emit(held) /\ take

\* What was held back is handed out, with the byte after it if there is room.
Release(held, b) ==
    IF Room > Len(held) THEN emit(Append(held, b)) /\ take
                        ELSE emit(held) /\ UnreadByte

lonelyDot ==
    \E b \in Others :
        /\ ReadByte(b) /\ state = "Dot"
        /\ state' = "Line" /\ Release(<<DOT>>, b)
        /\ UNCHANGED <<wvars, stream, ended, lost>>

\* ".\r" was not the mark.  With room for one byte only the dot is handed out,
\* and the CR is gone: UnreadByte gives back the byte after it.
falseAlarm ==
    \E b \in Bytes \ {LF} :
        /\ ReadByte(b) /\ state = "DotCR"
        /\ state' = "Line"
        /\ IF Room >= 2 THEN Release(<<DOT, CR>>, b) /\ UNCHANGED lost
                        ELSE emit(<<DOT>>) /\ UnreadByte /\ lost' = TRUE
        /\ UNCHANGED <<wvars, stream, ended>>

\* ReadByte fails; Read returns what it has, or the error.
readError ==
    /\ n < len /\ state # "EOF" /\ pos = Len(stream)
    /\ state' = "EOF" /\ ended' = "cut"
    /\ len' = 0 /\ n' = 0
    /\ UNCHANGED <<wvars, stream, pos, got, lost>>

----------------------------------------------------------------------------
Init ==
    /\ peer \in {"dotWriter", "foreign"}
    /\ body = <<>> /\ beginLine = TRUE /\ closed = FALSE /\ broken = FALSE
    /\ after = <<>> /\ stream = <<>>
    /\ pos = 0 /\ state = "BeginLine" /\ len = 0 /\ n = 0 /\ got = <<>>
    /\ ended = "no" /\ lost = FALSE

WriterStep ==
    \/ \E b \in Bytes : Write(b) \/ nextCommand(b) \/ foreign(b)
    \/ writeError \/ Close

ReaderStep ==
    \/ \E l \in Lens : Read(l)
    \/ plainByte \/ leadingDot \/ endMark \/ dotCR \/ stuffedDot \/ lonelyDot
    \/ falseAlarm \/ readError

\* The body has been read, or its connection has failed.
Done == state = "EOF" /\ UNCHANGED vars

Next == WriterStep \/ ReaderStep \/ Done

Spec == Init /\ [][Next]_vars
----------------------------------------------------------------------------
(* Properties *)

\* What the library writes it reads: whatever the body and however Read is
\* called, the reader hands out the body, its last line completed, and leaves
\* the connection at the first byte of the next command.
RoundTrip ==
    peer = "dotWriter" =>
        LET whole == IF closed THEN body \o Missing ELSE body
        IN /\ ~lost
           /\ Len(got) <= Len(whole) /\ got = SubSeq(whole, 1, Len(got))
           /\ ended = "marked" =>
                 got = whole /\ SubSeq(stream, pos + 1, Len(stream)) = after

LineStart(k) == k = 1 \/ stream[k - 1] = LF
DotLine(k) == stream[k] = DOT /\ LineStart(k)

\* Byte k completes a line that is a dot and nothing else.
IsMark(k) ==
    /\ stream[k] = LF
    /\ \/ k >= 2 /\ DotLine(k - 1)
       \/ k >= 3 /\ stream[k - 1] = CR /\ DotLine(k - 2)

\* On any stream and with any buffers, the reader stops at the first end mark,
\* and only there: it takes no byte of the command that follows.
StopsAtMark ==
    /\ \A k \in 1..pos : IsMark(k) => k = pos /\ ended = "marked"
    /\ ended = "marked" => pos >= 1 /\ IsMark(pos)

\* The strengthening that makes StopsAtMark inductive: what the state of the
\* reader says about the bytes just before pos.  In the middle of a line a dot,
\* or a dot and a CR, may have begun it only if UnreadByte has put back a byte
\* that keeps it from being the mark.
TypeInv ==
    /\ stream \in Seq(Bytes) /\ pos \in 0..Len(stream)
    /\ state \in {"BeginLine", "Line", "CR", "Dot", "DotCR", "EOF"}
    /\ ended \in {"no", "marked", "cut"}
ReaderInv ==
    /\ ended = "no" <=> state # "EOF"
    /\ state = "BeginLine" => pos = 0 \/ stream[pos] = LF
    /\ state = "Dot" => pos >= 1 /\ DotLine(pos)
    /\ state = "DotCR" => pos >= 2 /\ stream[pos] = CR /\ DotLine(pos - 1)
    /\ state \in {"Line", "CR"} =>
          /\ pos >= 1 /\ stream[pos] # LF
          /\ DotLine(pos) =>
                pos < Len(stream) /\ stream[pos + 1] \notin {CR, LF}
          /\ pos >= 2 /\ stream[pos] = CR /\ DotLine(pos - 1) =>
                pos < Len(stream) /\ stream[pos + 1] # LF

\* The bytes the reader holds back, and those that are no part of the body.
Held(k) == \/ state \in {"Dot", "DotCR"} /\ k = pos
           \/ state = "DotCR" /\ k = pos - 1
Stuffing(k) == DotLine(k) /\ k < Len(stream) /\ stream[k + 1] = DOT
InMark(k) ==
    ended = "marked" /\ (k >= pos - 1 \/ (k = pos - 2 /\ stream[pos - 1] = CR))

\* On any stream and with any buffers, Read hands out every byte once and in
\* order, but for stuffing and the end mark, unless it has lost a CR.
Faithful ==
    LET Kept(k) == ~Held(k) /\ ~Stuffing(k) /\ ~InMark(k)
        decoded[k \in 0..pos] ==
            IF k = 0 THEN <<>>
            ELSE IF Kept(k) THEN Append(decoded[k - 1], stream[k]) ELSE decoded[k - 1]
    IN ended # "cut" /\ ~lost => got = decoded[pos]
=============================================================================
