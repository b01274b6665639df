----------------------------- MODULE DotProofs -----------------------------
(***************************************************************************)
(* dotReader stops at the first end mark of any stream, for any bytes,     *)
(* any length of stream and any lengths of buffers.                        *)
(***************************************************************************)
EXTENDS DotStuffing, SequenceTheorems, TLAPS

Inv == TypeInv /\ ReaderInv /\ StopsAtMark

ByteStep == \/ plainByte \/ leadingDot \/ endMark \/ dotCR \/ stuffedDot
            \/ lonelyDot \/ falseAlarm

\* The writer's bytes go behind what has been read, and change none of it.
LEMMA WriterAppends ==
    ASSUME TypeInv, WriterStep
    PROVE  /\ UNCHANGED <<pos, state, ended>>
           /\ \E t \in Seq(Bytes) : stream' = stream \o t
  <1>0. DOT \in Bytes /\ CR \in Bytes /\ LF \in Bytes
    BY DEF Bytes
  <1>1. \A b \in Bytes : Append(stream, b) = stream \o <<b>> /\ <<b>> \in Seq(Bytes)
    BY DEF TypeInv
  <1>2. stream = stream \o <<>> /\ <<>> \in Seq(Bytes)
    BY DEF TypeInv
  <1>3. ASSUME NEW b \in Bytes, Write(b) \/ nextCommand(b) \/ foreign(b)
        PROVE  \E t \in Seq(Bytes) : stream' = stream \o t
    <2>1. <<DOT, b>> \in Seq(Bytes) /\ <<b>> \in Seq(Bytes)
      BY <1>0
    <2>2. Stuffed(b) \in Seq(Bytes)
      BY <2>1 DEF Stuffed
    <2> QED BY <1>1, <1>3, <2>2 DEF Write, nextCommand, foreign
  <1>4. ASSUME writeError
        PROVE  \E t \in Seq(Bytes) : stream' = stream \o t
    BY <1>2, <1>4 DEF writeError
  <1>5. ASSUME Close
        PROVE  \E t \in Seq(Bytes) : stream' = stream \o t
    <2>1. <<CR, LF>> \in Seq(Bytes) /\ <<>> \in Seq(Bytes)
      BY <1>0
    <2>2. Missing \in Seq(Bytes)
      BY <2>1 DEF Missing
    <2>3. Mark \in Seq(Bytes)
      BY <1>0 DEF Mark
    <2>4. Missing \o Mark \in Seq(Bytes)
      BY <2>2, <2>3
    <2>5. (stream \o Missing) \o Mark = stream \o (Missing \o Mark)
      BY <2>2, <2>3, ConcatAssociative DEF TypeInv
    <2> QED BY <1>2, <1>5, <2>4, <2>5 DEF Close
  <1>6. UNCHANGED <<pos, state, ended>>
    BY DEF WriterStep, Write, nextCommand, foreign, writeError, Close, rvars
  <1> QED BY <1>3, <1>4, <1>5, <1>6 DEF WriterStep

\* Appending changes no verdict on the bytes there were.
LEMMA AppendKeeps ==
    ASSUME TypeInv, NEW t \in Seq(Bytes), stream' = stream \o t
    PROVE  /\ stream' \in Seq(Bytes) /\ Len(stream') >= Len(stream)
           /\ \A k \in 1..Len(stream) :
                 /\ stream'[k] = stream[k]
                 /\ DotLine(k)' <=> DotLine(k)
                 /\ IsMark(k)' <=> IsMark(k)
  <1>1. /\ stream' \in Seq(Bytes) /\ Len(stream') >= Len(stream)
        /\ \A k \in 1..Len(stream) : stream'[k] = stream[k]
    BY DEF TypeInv
  <1>2. \A k \in 1..Len(stream) : DotLine(k)' <=> DotLine(k)
    BY <1>1 DEF DotLine, LineStart, TypeInv
  <1>3. \A k \in 1..Len(stream) : IsMark(k)' <=> IsMark(k)
    BY <1>1, <1>2 DEF IsMark, TypeInv
  <1> QED BY <1>1, <1>2, <1>3

\* A writer's step leaves the reader's invariant as it is.
LEMMA WriterKeeps ==
    ASSUME Inv, WriterStep
    PROVE  Inv'
  <1>1. /\ UNCHANGED <<pos, state, ended>>
        /\ \E t \in Seq(Bytes) : stream' = stream \o t
    BY WriterAppends DEF Inv
  <1>2. /\ stream' \in Seq(Bytes) /\ Len(stream') >= Len(stream)
        /\ \A k \in 1..Len(stream) :
              /\ stream'[k] = stream[k]
              /\ DotLine(k)' <=> DotLine(k)
              /\ IsMark(k)' <=> IsMark(k)
    BY <1>1, AppendKeeps DEF Inv
  <1>3. TypeInv'
    BY <1>1, <1>2 DEF Inv, TypeInv
  <1>4. ReaderInv'
    BY <1>1, <1>2 DEF Inv, TypeInv, ReaderInv
  <1>5. StopsAtMark'
    BY <1>1, <1>2 DEF Inv, TypeInv, StopsAtMark
  <1> QED BY <1>3, <1>4, <1>5 DEF Inv
----------------------------------------------------------------------------
(* The reader *)

\* A step of Read takes a byte or gives it back, and touches no other.
LEMMA ReaderTypes ==
    ASSUME TypeInv, ByteStep
    PROVE  /\ TypeInv' /\ stream' = stream /\ state # "EOF"
           /\ pos < Len(stream) /\ pos' \in {pos, pos + 1}
  <1>1. pos < Len(stream) /\ stream' = stream /\ state # "EOF"
    BY DEF ByteStep, plainByte, leadingDot, endMark, dotCR, stuffedDot, lonelyDot,
           falseAlarm, ReadByte, LeadingDot
  <1>2. pos' \in {pos, pos + 1}
    BY DEF ByteStep, plainByte, leadingDot, endMark, dotCR, stuffedDot, lonelyDot,
           falseAlarm, take, UnreadByte, Release
  <1>3. /\ state' \in {"BeginLine", "Line", "CR", "Dot", "DotCR", "EOF"}
        /\ ended' \in {"no", "marked", "cut"}
    BY DEF ByteStep, plainByte, leadingDot, endMark, dotCR, stuffedDot, lonelyDot,
           falseAlarm, AfterByte, TypeInv
  <1> QED BY <1>1, <1>2, <1>3 DEF TypeInv

\* Verdicts on a stream that does not change do not change.
LEMMA SameStream ==
    ASSUME stream' = stream, NEW k
    PROVE  (DotLine(k)' <=> DotLine(k)) /\ (IsMark(k)' <=> IsMark(k))
  BY DEF DotLine, LineStart, IsMark

\* Taking a byte that does not complete a mark passes no mark.
LEMMA NoMarkPassed ==
    ASSUME TypeInv, StopsAtMark, ended = "no", ended' = "no", stream' = stream,
           pos' = pos \/ (pos' = pos + 1 /\ ~IsMark(pos + 1))
    PROVE  StopsAtMark'
  <1>1. \A k \in 1..pos' : ~IsMark(k)
    BY DEF StopsAtMark, TypeInv
  <1> QED BY <1>1, SameStream DEF StopsAtMark

\* In the middle of a line and at its beginning, the byte that Read hands on is
\* no end of a mark.
LEMMA PlainStops ==
    ASSUME Inv, plainByte
    PROVE  ReaderInv' /\ StopsAtMark'
  <1>1. PICK b \in Bytes :
           /\ ReadByte(b) /\ state \in {"BeginLine", "Line", "CR"} /\ ~LeadingDot(b)
           /\ state' = AfterByte(b) /\ pos' = pos + 1
           /\ UNCHANGED <<stream, ended>>
    BY DEF plainByte, take
  <1>2. /\ b = stream[pos + 1] /\ pos < Len(stream) /\ pos \in Nat
        /\ ended = "no" /\ ended' = "no" /\ state # "EOF" /\ state' # "EOF"
    BY <1>1 DEF ReadByte, Inv, TypeInv, ReaderInv, AfterByte
  <1>3. ~IsMark(pos + 1)
    BY <1>1, <1>2, ByteAssumption DEF Inv, ReaderInv, IsMark, DotLine
  <1>4. StopsAtMark'
    BY <1>1, <1>2, <1>3, NoMarkPassed DEF Inv
  <1>5. CASE b = LF
    <2>1. state' = "BeginLine" /\ stream'[pos'] = LF
      BY <1>1, <1>2, <1>5, ByteAssumption DEF AfterByte
    <2> QED BY <1>2, <1>4, <2>1 DEF ReaderInv
  <1>6. CASE b # LF
    <2>1. state' \in {"Line", "CR"}
      BY <1>1, <1>6 DEF AfterByte
    <2>2. ~DotLine(pos + 1)
      BY <1>1, <1>2, <1>6, ByteAssumption DEF DotLine, LineStart, LeadingDot, Inv, ReaderInv
    <2>3. ~(b = CR /\ pos >= 1 /\ DotLine(pos))
      BY <1>1, <1>2, ByteAssumption DEF DotLine, Inv, ReaderInv
    <2> QED BY <1>1, <1>2, <1>4, <1>6, <2>1, <2>2, <2>3, SameStream DEF ReaderInv
  <1> QED BY <1>5, <1>6

\* What follows a dot, or a dot and a CR, that begins a line.
LEMMA DotStops ==
    ASSUME Inv, ByteStep, ~plainByte
    PROVE  ReaderInv' /\ StopsAtMark'
  <1>0. /\ stream' = stream /\ pos < Len(stream) /\ pos \in Nat
        /\ state # "EOF" /\ ended = "no"
    BY ReaderTypes DEF Inv, TypeInv, ReaderInv
  <1>1. CASE leadingDot
    <2>1. /\ state = "BeginLine" /\ stream[pos + 1] = DOT /\ pos' = pos + 1
          /\ state' = "Dot" /\ ended' = "no"
      BY <1>0, <1>1 DEF leadingDot, ReadByte, LeadingDot, take
    <2>2. DotLine(pos + 1) /\ ~IsMark(pos + 1)
      BY <1>0, <2>1, ByteAssumption DEF DotLine, LineStart, IsMark, Inv, ReaderInv
    <2>3. StopsAtMark'
      BY <1>0, <2>1, <2>2, NoMarkPassed DEF Inv
    <2> QED BY <1>0, <2>1, <2>2, <2>3, SameStream DEF ReaderInv
  <1>2. CASE endMark
    <2>1. /\ state \in {"Dot", "DotCR"} /\ stream[pos + 1] = LF /\ pos' = pos + 1
          /\ state' = "EOF" /\ ended' = "marked"
      BY <1>2 DEF endMark, ReadByte, take
    <2>2. IsMark(pos + 1)
      BY <1>0, <2>1 DEF IsMark, Inv, ReaderInv
    <2>3. \A k \in 1..pos : ~IsMark(k)
      BY <1>0 DEF Inv, StopsAtMark
    <2>4. StopsAtMark'
      BY <1>0, <2>1, <2>2, <2>3, SameStream DEF StopsAtMark
    <2> QED BY <2>1, <2>4 DEF ReaderInv
  <1>3. CASE dotCR
    <2>1. /\ state = "Dot" /\ stream[pos + 1] = CR /\ pos' = pos + 1
          /\ state' = "DotCR" /\ ended' = "no"
      BY <1>0, <1>3 DEF dotCR, ReadByte, take
    <2>2. ~IsMark(pos + 1) /\ DotLine(pos) /\ pos >= 1
      BY <1>0, <2>1, ByteAssumption DEF IsMark, Inv, ReaderInv
    <2>3. StopsAtMark'
      BY <1>0, <2>1, <2>2, NoMarkPassed DEF Inv
    <2> QED BY <1>0, <2>1, <2>2, <2>3, SameStream DEF ReaderInv
  <1>4. CASE stuffedDot
    <2>1. /\ state = "Dot" /\ stream[pos + 1] = DOT /\ pos' = pos + 1
          /\ state' = "Line" /\ ended' = "no"
      BY <1>0, <1>4 DEF stuffedDot, ReadByte, take
    <2>2. /\ ~IsMark(pos + 1) /\ stream[pos] = DOT /\ pos >= 1
          /\ ~DotLine(pos + 1)
      BY <1>0, <2>1, ByteAssumption DEF IsMark, DotLine, LineStart, Inv, ReaderInv
    <2>3. StopsAtMark'
      BY <1>0, <2>1, <2>2, NoMarkPassed DEF Inv
    <2> QED BY <1>0, <2>1, <2>2, <2>3, SameStream, ByteAssumption DEF ReaderInv
  <1>5. CASE lonelyDot \/ falseAlarm
    <2>1. /\ \/ state = "Dot" /\ stream[pos + 1] \notin {CR, LF, DOT}
             \/ state = "DotCR" /\ stream[pos + 1] # LF
          /\ pos' \in {pos, pos + 1} /\ state' = "Line" /\ ended' = "no"
      <3>1. pos' \in {pos, pos + 1}
        BY <1>5, ReaderTypes DEF Inv
      <3>2. CASE lonelyDot
        BY <1>0, <3>1, <3>2, ByteAssumption DEF lonelyDot, ReadByte
      <3>3. CASE falseAlarm
        BY <1>0, <3>1, <3>3 DEF falseAlarm, ReadByte
      <3> QED BY <1>5, <3>2, <3>3
    <2>2. ~IsMark(pos + 1)
      BY <1>0, <2>1 DEF IsMark
    <2>3. StopsAtMark'
      BY <1>0, <2>1, <2>2, NoMarkPassed DEF Inv
    <2>4. /\ pos >= 1 /\ stream[pos] \in {DOT, CR}
          /\ stream[pos] = DOT => stream[pos + 1] \notin {CR, LF, DOT}
          /\ ~DotLine(pos + 1)
      BY <1>0, <2>1, ByteAssumption DEF DotLine, LineStart, Inv, ReaderInv
    <2>5. CASE pos' = pos
      BY <1>0, <2>1, <2>3, <2>4, <2>5, SameStream, ByteAssumption DEF ReaderInv, DotLine
    <2>6. CASE pos' = pos + 1
      BY <1>0, <2>1, <2>3, <2>4, <2>6, SameStream, ByteAssumption DEF ReaderInv, DotLine
    <2> QED BY <2>1, <2>5, <2>6
  <1> QED BY <1>1, <1>2, <1>3, <1>4, <1>5 DEF ByteStep

\* Every step keeps the invariant.
LEMMA InvStep == Inv /\ [Next]_vars => Inv'
  <1> SUFFICES ASSUME Inv, [Next]_vars PROVE Inv'
    OBVIOUS
  <1>1. CASE WriterStep
    BY <1>1, WriterKeeps
  <1>2. CASE ByteStep
    BY <1>2, ReaderTypes, PlainStops, DotStops DEF Inv
  <1>3. CASE \E l \in Lens : Read(l)
    <2>1. UNCHANGED <<stream, pos, state, ended>>
      BY <1>3 DEF Read
    <2> QED BY <2>1, SameStream DEF Inv, TypeInv, ReaderInv, StopsAtMark
  <1>4. CASE readError
    <2>1. /\ UNCHANGED <<stream, pos>> /\ state' = "EOF" /\ ended' = "cut"
          /\ state # "EOF"
      BY <1>4 DEF readError
    <2>2. ended # "marked"
      BY <2>1 DEF Inv, ReaderInv
    <2> QED BY <2>1, <2>2, SameStream DEF Inv, TypeInv, ReaderInv, StopsAtMark
  <1>5. CASE UNCHANGED vars
    <2>1. UNCHANGED <<stream, pos, state, ended>>
      BY <1>5 DEF vars, rvars
    <2> QED BY <2>1, SameStream DEF Inv, TypeInv, ReaderInv, StopsAtMark
  <1> QED BY <1>1, <1>2, <1>3, <1>4, <1>5 DEF Next, ReaderStep, ByteStep, Done

\* On any stream, read with any buffers, dotReader.Read stops at the first end
\* mark and only there.
THEOREM ReaderStops == Spec => []StopsAtMark
  <1>1. Init => Inv
    BY DEF Init, Inv, TypeInv, ReaderInv, StopsAtMark
  <1>2. Inv => StopsAtMark
    BY DEF Inv
  <1> QED BY <1>1, <1>2, InvStep, PTL DEF Spec
=============================================================================
