---------------------------- MODULE ClientProofs ----------------------------
(***************************************************************************)
(* Safety of Client for every value of its constants, whatever the server  *)
(* answers: type correctness, then the inductive invariant.                *)
(***************************************************************************)
EXTENDS Client, SequenceTheorems, TLAPS

Places == {"none", "idle", "gone", "send", "reply", "body", "final",
           "handshake", "respond", "cancel"}
Errs == {"nil", "smtp", "io", "mech"}
Queued == [line: Steps, secure: BOOLEAN]

----------------------------------------------------------------------------
(* The inductive invariant *)

Constructors == {"Dial", "NewClient"}
Mailing == {"MAIL", "RCPT", "DATA", "BDAT", "RSET", "NOOP"}

\* Where the goroutine is says what it is doing, and a call has no result
\* before it returns.
PlaceInv ==
    /\ Busy <=> todo # <<>>
    /\ Busy <=> api # "none"
    /\ Busy \/ at = "none" => result = NoResult
    /\ at \in {"body", "final"} => Doing("DATA")
    /\ at = "handshake" => Doing("STARTTLS")
    /\ at \in {"respond", "cancel"} => Doing("AUTH")

\* What is ahead of a call: STARTTLS and the greeting come first, AUTH comes
\* first or behind what an upgrade puts before it, and outside the
\* constructors EHLO and HELO are sent over TLS only.
StepOK(i) ==
    /\ todo[i].verb = "STARTTLS" => i = 1
    /\ todo[i].verb \in {"EHLO", "HELO"} => tls \/ api \in Constructors
    /\ todo[i].verb = "AUTH" =>
          i = 1 \/ (i = 2 /\ todo[1].verb \in {"STARTTLS", "EHLO", "HELO"})
    /\ api \in Constructors => todo[i].verb \in {"greeting", "EHLO", "HELO"}
    /\ api = "StartTLS" => i = 1 /\ todo[i].verb \in {"STARTTLS", "EHLO", "HELO"}
    /\ api = "Close" <=> todo[i].verb = "QUIT"
    /\ api = "Reset" => todo[i].verb = "RSET"
StepsInv == \A i \in 1..Len(todo) : StepOK(i)

\* LOGIN's step counts the challenges of the exchange, from the call on that
\* passes a new mechanism.
MechOK(i) ==
    todo[i].verb = "AUTH" =>
        /\ i = 2 \/ at = "send" => todo[i].n = 0
        /\ todo[i].arg = "LOGIN" /\ ~mech.used =>
              mech.step = IF i = 1 /\ at \in {"respond", "cancel"}
                          THEN todo[i].n - 1 ELSE todo[i].n
MechInv == \A i \in 1..Len(todo) : MechOK(i)

----------------------------------------------------------------------------
(* The operators the model is built from *)

\* One element, and two, as a sequence.
LEMMA Singles ==
    ASSUME NEW S, NEW x \in S, NEW y \in S
    PROVE  /\ <<x>> \in Seq(S) /\ Len(<<x>>) = 1 /\ <<x>>[1] = x
           /\ <<x, y>> \in Seq(S) /\ Len(<<x, y>>) = 2
           /\ <<x, y>>[1] = x /\ <<x, y>>[2] = y
  OBVIOUS

\* Two sequences, one behind the other.
LEMMA Joined ==
    ASSUME NEW S, NEW p \in Seq(S), NEW q \in Seq(S)
    PROVE  /\ p \o q \in Seq(S) /\ Len(p \o q) = Len(p) + Len(q)
           /\ Len(p) \in Nat /\ Len(q) \in Nat
           /\ \A i \in 1..Len(p) : (p \o q)[i] = p[i]
           /\ \A i \in 1..Len(q) : (p \o q)[Len(p) + i] = q[i]
           /\ \A i \in 1..Len(p \o q) :
                 \/ i \in 1..Len(p)
                 \/ \E k \in 1..Len(q) : i = Len(p) + k
<1>1. /\ p \o q \in Seq(S) /\ Len(p \o q) = Len(p) + Len(q)
      /\ Len(p) \in Nat /\ Len(q) \in Nat
      /\ \A i \in 1..Len(p) : (p \o q)[i] = p[i]
      /\ \A i \in 1..Len(q) : (p \o q)[Len(p) + i] = q[i]
  OBVIOUS
<1>2. ASSUME NEW i \in 1..Len(p \o q), i \notin 1..Len(p)
      PROVE  \E k \in 1..Len(q) : i = Len(p) + k
  <2>1. i - Len(p) \in 1..Len(q) /\ i = Len(p) + (i - Len(p))
    BY <1>1, <1>2
  <2> QED BY <2>1
<1> QED BY <1>1, <1>2

\* A step is a record of its four fields.
LEMMA StepTypes ==
    /\ \A v \in StepVerbs : Bare(v) \in Steps
    /\ \A v \in StepVerbs, a \in Args : With(v, a) \in Steps
    /\ \A b \in MessageReaders : DataStep(b) \in Steps
    /\ \A m \in Mechanisms : AuthStep(m) \in Steps
<1>1. \A v \in StepVerbs : Bare(v) \in Steps
  BY DEF Bare, Steps, Empty, Args, Opts
<1>2. \A v \in StepVerbs, a \in Args : With(v, a) \in Steps
  BY DEF With, Bare, Steps, Empty, Opts
<1>3. ASSUME NEW b \in MessageReaders PROVE DataStep(b) \in Steps
  <2>1. b.n \in Nat
    BY CallAssumption
  <2> QED BY <2>1 DEF DataStep, Bare, Steps, Empty, StepVerbs, Args, Opts
<1>4. ASSUME NEW m \in Mechanisms PROVE AuthStep(m) \in Steps
  <2>1. m \in Args
    BY DEF Args
  <2> QED BY <2>1 DEF AuthStep, With, Bare, Steps, Empty, StepVerbs, Opts
<1> QED BY <1>1, <1>2, <1>3, <1>4

\* The lines of a body and of a chunk.
LEMMA TextType ==
    ASSUME NEW n \in Nat
    PROVE  /\ Text(n) \in Seq(Steps) /\ Len(Text(n)) = n
           /\ \A i \in 1..n : Text(n)[i] = Bare("TEXT")
           /\ Terminated(n) \in Seq(Steps) /\ Len(Terminated(n)) = n + 1
           /\ \A i \in 1..n : Terminated(n)[i] = Bare("TEXT")
           /\ Terminated(n)[n + 1] = Bare(".")
<1>1. Bare("TEXT") \in Steps /\ Bare(".") \in Steps
  BY StepTypes DEF StepVerbs
<1> HIDE DEF Bare
<1>2. Text(n) \in Seq(Steps) /\ Len(Text(n)) = n
      /\ \A i \in 1..n : Text(n)[i] = Bare("TEXT")
  BY <1>1 DEF Text
<1> QED BY <1>1, <1>2 DEF Terminated

\* Lines written join those on their way to the server.
LEMMA WriteAppends ==
    ASSUME rbuf \in Seq(Queued), tls \in BOOLEAN,
           NEW ls \in Seq(Steps), Write(ls)
    PROVE  /\ rbuf' \in Seq(Queued) /\ Len(rbuf') = Len(rbuf) + Len(ls)
           /\ \A i \in 1..Len(ls) : rbuf'[Len(rbuf) + i].line = ls[i]
<1> DEFINE w == [i \in 1..Len(ls) |-> [line |-> ls[i], secure |-> tls]]
<1>1. \A i \in 1..Len(ls) : w[i] \in Queued /\ w[i].line = ls[i]
  BY DEF Queued
<1>2. w \in Seq(Queued) /\ Len(w) = Len(ls)
  BY <1>1
<1>3. rbuf' = rbuf \o w
  BY DEF Write
<1> HIDE DEF w
<1>4. rbuf \o w \in Seq(Queued) /\ Len(rbuf \o w) = Len(rbuf) + Len(w)
  BY <1>2, ConcatProperties
<1>5. \A i \in 1..Len(ls) : rbuf'[Len(rbuf) + i] = w[i]
  BY <1>2, <1>3
<1> QED BY <1>1, <1>2, <1>3, <1>4, <1>5

\* Reply lines read are gone from the stream.
LEMMA ConsumeType ==
    ASSUME wire \in Seq(ReplyLines), NEW n \in 0..Len(wire), Consume(n)
    PROVE  wire' \in Seq(ReplyLines) /\ Len(wire') = Len(wire) - n
  BY DEF Consume

\* What a step sends is a sequence of lines that begins with its verb.
LEMMA SentType ==
    ASSUME NEW s \in Steps
    PROVE  /\ Sent(s) \in Seq(Steps) /\ Len(Sent(s)) >= 1
           /\ Sent(s)[1] \in Steps /\ Sent(s)[1].verb = s.verb
           /\ s.verb = "BDAT" => Len(Sent(s)) = 1 + s.n /\ Sent(s)[1] = s
           /\ s.verb # "BDAT" => Len(Sent(s)) = 1
<1>1. CASE s.verb = "BDAT"
  <2>1. s.n \in Nat
    BY DEF Steps
  <2>2. Text(s.n) \in Seq(Steps) /\ Len(Text(s.n)) = s.n
    BY <2>1, TextType
  <2>3. Sent(s) = <<s>> \o Text(s.n)
    BY <1>1 DEF Sent
  <2> HIDE DEF Text
  <2> QED BY <1>1, <2>1, <2>2, <2>3
<1>2. CASE s.verb = "DATA"
  <2>1. Bare("DATA") \in Steps /\ Bare("DATA").verb = "DATA"
    BY StepTypes DEF Bare, StepVerbs
  <2>2. Sent(s) = <<Bare("DATA")>>
    BY <1>2 DEF Sent
  <2> HIDE DEF Bare
  <2> QED BY <1>2, <2>1, <2>2
<1>3. CASE s.verb \notin {"BDAT", "DATA"}
  BY <1>3 DEF Sent
<1> QED BY <1>1, <1>2, <1>3
\* The steps of SendMail, and with them of SubmitMessage.
LEMMA SendStepsType ==
    ASSUME NEW f \in From, NEW to \in To, NEW b \in MessageReaders
    PROVE  /\ SendSteps(f, to, b) \in Seq(Steps) /\ Len(SendSteps(f, to, b)) >= 1
           /\ \A i \in 1..Len(SendSteps(f, to, b)) :
                 /\ SendSteps(f, to, b)[i].verb \in {"MAIL", "RCPT", "DATA"}
                 /\ SendSteps(f, to, b)[i].verb = "DATA" =>
                       i = Len(SendSteps(f, to, b))
<1> DEFINE M == {s \in Steps : s.verb \in {"MAIL", "RCPT", "DATA"}}
           mail == <<With("MAIL", f)>>
           rcpts == [i \in 1..Len(to) |-> With("RCPT", to[i])]
           data == <<DataStep(b)>>
<1>1. to \in Seq(STRING)
  BY CallAssumption
<1>2. f \in Args /\ \A i \in 1..Len(to) : to[i] \in Args
  BY <1>1 DEF Args, Addressees
<1>3. With("MAIL", f) \in M /\ DataStep(b) \in M
  <2>1. With("MAIL", f).verb = "MAIL" /\ DataStep(b).verb = "DATA"
    BY DEF With, Bare, DataStep
  <2>2. With("MAIL", f) \in Steps /\ DataStep(b) \in Steps
    BY <1>2, StepTypes DEF StepVerbs
  <2> HIDE DEF With, DataStep
  <2> QED BY <2>1, <2>2
<1>4. ASSUME NEW i \in 1..Len(to) PROVE With("RCPT", to[i]) \in M
  <2>1. With("RCPT", to[i]).verb = "RCPT"
    BY DEF With, Bare
  <2>2. With("RCPT", to[i]) \in Steps
    BY <1>2, StepTypes DEF StepVerbs
  <2> QED BY <2>1, <2>2
<1>5. /\ mail \in Seq(Steps) /\ data \in Seq(Steps) /\ rcpts \in Seq(Steps)
      /\ Len(mail) = 1 /\ Len(data) = 1 /\ Len(rcpts) \in Nat
      /\ mail[1].verb = "MAIL" /\ data[1].verb = "DATA"
      /\ \A i \in 1..Len(rcpts) : rcpts[i].verb = "RCPT"
  <2>1. With("MAIL", f).verb = "MAIL" /\ DataStep(b).verb = "DATA"
    BY DEF With, Bare, DataStep
  <2>2. \A i \in 1..Len(to) : With("RCPT", to[i]).verb = "RCPT"
    BY DEF With, Bare
  <2> HIDE DEF With, DataStep
  <2>3. mail \in Seq(Steps) /\ Len(mail) = 1 /\ mail[1] = With("MAIL", f)
    BY <1>3
  <2>4. data \in Seq(Steps) /\ Len(data) = 1 /\ data[1] = DataStep(b)
    BY <1>3
  <2>5. /\ rcpts \in Seq(Steps) /\ Len(rcpts) = Len(to)
        /\ \A i \in 1..Len(to) : rcpts[i] = With("RCPT", to[i])
    BY <1>1, <1>4
  <2> HIDE DEF mail, data, rcpts
  <2> QED BY <2>1, <2>2, <2>3, <2>4, <2>5
<1> HIDE DEF mail, data, rcpts
<1> DEFINE h == mail \o rcpts
           all == h \o data
<1>6. SendSteps(f, to, b) = all
  BY DEF SendSteps, mail, rcpts, data
<1>7. /\ h \in Seq(Steps) /\ Len(h) \in Nat
      /\ \A i \in 1..Len(h) : h[i].verb \in {"MAIL", "RCPT"}
  <2>0. mail \in Seq(Steps) /\ rcpts \in Seq(Steps)
    BY <1>5
  <2>1. /\ h \in Seq(Steps) /\ Len(h) = Len(mail) + Len(rcpts)
        /\ \A i \in 1..Len(mail) : h[i] = mail[i]
        /\ \A i \in 1..Len(rcpts) : h[Len(mail) + i] = rcpts[i]
        /\ \A i \in 1..Len(h) :
              i \in 1..Len(mail) \/ \E k \in 1..Len(rcpts) : i = Len(mail) + k
    BY <2>0, Joined
  <2> HIDE DEF h
  <2>2. \A i \in 1..Len(mail) : h[i].verb = "MAIL"
    BY <1>5, <2>1
  <2>3. \A k \in 1..Len(rcpts) : h[Len(mail) + k].verb = "RCPT"
    BY <1>5, <2>1
  <2>4. \A i \in 1..Len(h) : h[i].verb \in {"MAIL", "RCPT"}
    BY <2>1, <2>2, <2>3, ZenonT(30)
  <2> QED BY <2>1, <2>4
<1> HIDE DEF h
<1>8. /\ all \in Seq(Steps) /\ Len(all) = Len(h) + Len(data)
      /\ \A i \in 1..Len(h) : all[i] = h[i]
      /\ \A i \in 1..Len(all) :
            i \in 1..Len(h) \/ \E k \in 1..Len(data) : i = Len(h) + k
      /\ \A i \in 1..Len(data) : all[Len(h) + i] = data[i]
  <2>1. h \in Seq(Steps) /\ data \in Seq(Steps)
    BY <1>5, <1>7
  <2> QED BY <2>1, Joined
<1> HIDE DEF all
<1>9. Len(all) >= 1 /\ \A i \in 1..Len(all) : i \in 1..Len(h) \/ i = Len(all)
  BY <1>5, <1>7, <1>8
<1>10. all[Len(all)].verb = "DATA"
  BY <1>5, <1>8
<1>11. \A i \in 1..Len(all) : /\ all[i].verb \in {"MAIL", "RCPT", "DATA"}
                              /\ all[i].verb = "DATA" => i = Len(all)
  BY <1>7, <1>8, <1>9, <1>10
<1> QED BY <1>6, <1>8, <1>9, <1>11, ZenonT(30)

\* The kinds of answers.
LEMMA AnswerKinds ==
    ASSUME NEW v, NEW r \in Answers(v)
    PROVE  \/ \E c \in 0..599 : r = Reply(c)
           \/ r \in {Garbage, Offer({"STARTTLS"}), Undecodable}
<1>1. CASE v = "EHLO"
  <2>1. Answers(v) = {Offer({"STARTTLS"}), Reply(500), Reply(550)}
    BY <1>1 DEF Answers
  <2> QED BY <2>1
<1>2. CASE v = "AUTH"
  <2>1. Answers(v) = {Reply(235), Reply(334), Reply(535), Undecodable}
    BY <1>2 DEF Answers
  <2> QED BY <2>1
<1>3. CASE v = "STARTTLS"
  <2>1. Answers(v) = {Reply(220), Reply(454)}
    BY <1>3 DEF Answers
  <2> QED BY <2>1
<1>4. CASE v = "DATA"
  <2>1. Answers(v) = {Reply(354), Reply(554), Garbage}
    BY <1>4 DEF Answers
  <2> QED BY <2>1
<1>5. CASE v = "QUIT"
  <2>1. Answers(v) = {Reply(221)}
    BY <1>5 DEF Answers
  <2> QED BY <2>1
<1>6. CASE v \notin {"EHLO", "AUTH", "STARTTLS", "DATA", "QUIT"}
  <2>1. Answers(v) = {Reply(250), Reply(550)}
    BY <1>6 DEF Answers
  <2> QED BY <2>1
<1> QED BY <1>1, <1>2, <1>3, <1>4, <1>5, <1>6

\* What the server may answer.
LEMMA AnswerTypes ==
    /\ \A c \in 0..599 : Reply(c) \in Seq(ReplyLines) /\ Len(Reply(c)) = 1
    /\ \A v : \A r \in Answers(v) : r \in Seq(ReplyLines) /\ Len(r) \in {1, 2}
<1>1. ASSUME NEW c \in 0..599
      PROVE  Reply(c) \in Seq(ReplyLines) /\ Len(Reply(c)) = 1
  <2>1. [code |-> c, sep |-> " ", exts |-> {}] \in ReplyLines
    BY DEF ReplyLines, Words
  <2> QED BY <2>1, Singles, Zenon DEF Reply
<1>2. Garbage \in Seq(ReplyLines) /\ Len(Garbage) = 1
  <2>1. [code |-> 0, sep |-> "bad", exts |-> {}] \in ReplyLines
    BY DEF ReplyLines, Words
  <2> QED BY <2>1, Singles, Zenon DEF Garbage
<1>3. Offer({"STARTTLS"}) \in Seq(ReplyLines) /\ Len(Offer({"STARTTLS"})) = 2
  <2> DEFINE x == [code |-> 250, sep |-> "-", exts |-> {}]
             y == [code |-> 250, sep |-> " ", exts |-> {"STARTTLS"}]
  <2>1. x \in ReplyLines /\ y \in ReplyLines
    BY DEF ReplyLines, Words
  <2>2. Offer({"STARTTLS"}) = <<x, y>>
    BY DEF Offer
  <2> HIDE DEF x, y
  <2> QED BY <2>1, <2>2, Singles
<1>4. Undecodable \in Seq(ReplyLines) /\ Len(Undecodable) = 1
  <2> DEFINE x == [code |-> 334, sep |-> " ", exts |-> {"not base64"}]
  <2>1. x \in ReplyLines /\ Undecodable = <<x>>
    BY DEF ReplyLines, Undecodable, Words
  <2> HIDE DEF x
  <2> QED BY <2>1, Singles
<1>5. ASSUME NEW v, NEW r \in Answers(v)
      PROVE  r \in Seq(ReplyLines) /\ Len(r) \in {1, 2}
  <2>1. \/ \E c \in 0..599 : r = Reply(c)
        \/ r \in {Garbage, Offer({"STARTTLS"}), Undecodable}
    BY AnswerKinds
  <2> QED BY <1>1, <1>2, <1>3, <1>4, <2>1, ZenonT(30)
<1> QED BY <1>1, <1>5
----------------------------------------------------------------------------
(* Type correctness *)

ControlOK ==
    /\ at \in Places /\ api \in Names /\ todo \in Seq(Steps)
    /\ result \in [api: Names, err: Errs] /\ open \in BOOLEAN

StreamsOK == rbuf \in Seq(Queued) /\ wire \in Seq(ReplyLines)

RestOK ==
    /\ tls \in BOOLEAN /\ extsTls \in BOOLEAN
    /\ exts \in SUBSET Words
    /\ mech \in [step: 0..2, used: BOOLEAN]
    /\ deadline \in {"none", "set", "expired"} /\ werr \in BOOLEAN
    /\ srv \in ServerPlaces /\ calls \in Nat /\ clean \in BOOLEAN

\* TypeOK in three parts: the goroutine, the streams, and the rest.
LEMMA TypeParts ==
    /\ TypeOK <=> ControlOK /\ StreamsOK /\ RestOK
    /\ TypeOK' <=> ControlOK' /\ StreamsOK' /\ RestOK'
  BY DEF TypeOK, ControlOK, StreamsOK, RestOK, Places, Errs, Queued

\* A step in progress.
LEMMA StepType ==
    ASSUME ControlOK, todo # <<>>
    PROVE  /\ step \in Steps /\ step = todo[1] /\ Len(todo) \in Nat \ {0}
           /\ Tail(todo) \in Seq(Steps) /\ Len(Tail(todo)) = Len(todo) - 1
           /\ \A i \in 1..(Len(todo) - 1) : Tail(todo)[i] = todo[i + 1]
  BY DEF ControlOK, step

\* A call that returns, and a step that succeeds.
LEMMA ReturnType ==
    ASSUME ControlOK, NEW o \in BOOLEAN, NEW err \in Errs, ReturnAnd(o, err)
    PROVE  ControlOK'
<1>1. at' \in Places /\ api' \in Names /\ todo' = <<>> /\ open' \in BOOLEAN
  BY DEF ReturnAnd, Places, Names
<1>2. result' \in [api: Names, err: Errs]
  BY DEF ReturnAnd, ControlOK
<1>3. todo' \in Seq(Steps)
  BY <1>1
<1> QED BY <1>1, <1>2, <1>3 DEF ControlOK

\* Going on to the next step, or returning after the last, keeps the types.
LEMMA AdvanceType ==
    ASSUME ControlOK, todo # <<>>, Advance
    PROVE  ControlOK'
<1>1. CASE Len(todo) = 1
  <2>1. Return("nil")
    BY <1>1 DEF Advance
  <2>2. (open /\ ~Closes("nil")) \in BOOLEAN /\ "nil" \in Errs
    BY DEF Errs, ControlOK, Closes
  <2> QED BY <2>1, <2>2, ReturnType DEF Return
<1>2. CASE Len(todo) # 1
  <2>1. at' = "send" /\ todo' = Tail(todo) /\ UNCHANGED <<api, result, open>>
    BY <1>2 DEF Advance
  <2> QED BY <2>1, StepType DEF ControlOK, Places
<1> QED BY <1>1, <1>2

\* A call that returns an error keeps the types.
LEMMA FailType ==
    ASSUME ControlOK, NEW err \in Errs, Return(err)
    PROVE  ControlOK'
<1>1. (open /\ ~Closes(err)) \in BOOLEAN
  BY DEF ControlOK, Closes
<1> QED BY <1>1, ReturnType DEF Return

\* A call that ends on an I/O error keeps the types and leaves the stream unclean.
LEMMA BreakType ==
    ASSUME ControlOK, Break
    PROVE  ControlOK' /\ clean' = FALSE
<1>1. Failure \in Errs
  BY DEF Failure, Errs
<1> QED BY <1>1, FailType DEF Break

\* A reply is read from the stream.
LEMMA ReadType ==
    ASSUME StreamsOK, NEW n \in 1..Len(wire), EndsReply(n) /\ Consume(n)
    PROVE  wire' \in Seq(ReplyLines)
  BY ConsumeType DEF StreamsOK

\* A step writes its command.
LEMMA RequestType ==
    ASSUME TypeOK, NEW v, Request(v)
    PROVE  TypeOK'
<1>1. ControlOK /\ StreamsOK /\ RestOK /\ todo # <<>>
  BY TypeParts DEF Request, Doing
<1>2. Sent(step) \in Seq(Steps)
  BY <1>1, StepType, SentType
<1>3. StreamsOK'
  <2>1. Write(Sent(step)) /\ wire' = wire
    BY DEF Request
  <2> QED BY <1>1, <1>2, <2>1, WriteAppends DEF StreamsOK, RestOK
<1>4. ControlOK'
  BY <1>1 DEF Request, ControlOK, Places
<1>5. RestOK'
  BY <1>1 DEF Request, RestOK, fields
<1> QED BY <1>3, <1>4, <1>5, TypeParts

\* A step reads its reply.
LEMMA ExpectType ==
    ASSUME TypeOK, NEW p, NEW v, NEW want, Expect(p, v, want)
    PROVE  TypeOK'
<1>1. ControlOK /\ StreamsOK /\ RestOK /\ todo # <<>>
  BY TypeParts DEF Expect, Doing
<1>2. PICK n \in 1..Len(wire) :
          /\ ReadReply(n)
          /\ IF Wanted(wire[n].code, want) THEN Advance /\ UNCHANGED clean
             ELSE Return("smtp") /\ clean' = (clean /\ InStepAfterRefusal)
  BY DEF Expect
<1>3. StreamsOK'
  BY <1>1, <1>2, ReadType DEF ReadReply, Expect, StreamsOK
<1>4. ControlOK'
  BY <1>1, <1>2, AdvanceType, FailType DEF Errs
<1>5. RestOK'
  BY <1>1, <1>2 DEF Expect, RestOK, fields, InStepAfterRefusal
<1> QED BY <1>3, <1>4, <1>5, TypeParts
\* The application begins a call.
LEMMA BeginType ==
    ASSUME TypeOK, NEW name \in Names, NEW steps \in Seq(Steps),
           Begin(name, steps), mech' \in [step: 0..2, used: BOOLEAN]
    PROVE  TypeOK'
<1>1. ControlOK /\ StreamsOK /\ RestOK
  BY TypeParts
<1>2. NoResult \in [api: Names, err: Errs]
  BY DEF NoResult, Names, Errs
<1>3. ControlOK'
  BY <1>1, <1>2 DEF Begin, ControlOK, Places
<1>4. deadline' \in {"none", "set", "expired"}
  BY CallAssumption DEF Begin
<1>5. calls' \in Nat
  <2>1. calls \in Nat /\ calls' = calls + 1
    BY <1>1 DEF Begin, RestOK
  <2> QED BY <2>1
<1>6. StreamsOK' /\ RestOK'
  BY <1>1, <1>4, <1>5 DEF Begin, StreamsOK, RestOK, fields
<1> QED BY <1>3, <1>6, TypeParts

\* Beginning a call of one step keeps the types.
LEMMA CallType ==
    ASSUME TypeOK, NEW name \in Names, NEW s \in Steps, Call(name, <<s>>)
    PROVE  TypeOK'
<1>1. <<s>> \in Seq(Steps)
  BY Singles
<1>2. mech' \in [step: 0..2, used: BOOLEAN]
  BY DEF Call, TypeOK
<1> QED BY <1>1, <1>2, BeginType DEF Call

\* I/O errors.
LEMMA ErrorType ==
    ASSUME TypeOK, writeError \/ readError \/ malformedReply
    PROVE  TypeOK'
<1>1. ControlOK /\ StreamsOK /\ RestOK
  BY TypeParts
<1>2. ControlOK' /\ clean' = FALSE
  BY <1>1, BreakType DEF writeError, readError, malformedReply
<1>3. StreamsOK'
  <2>1. CASE writeError
    BY <1>1, <2>1 DEF writeError, StreamsOK
  <2>2. CASE readError \/ malformedReply
    <3>1. PICK n \in 0..Len(wire) : Consume(n)
      BY <1>1, <2>2 DEF readError, malformedReply, StreamsOK
    <3> QED BY <1>1, <2>2, <3>1, ConsumeType
            DEF readError, malformedReply, StreamsOK
  <2> QED BY <2>1, <2>2
<1>4. RestOK'
  BY <1>1, <1>2 DEF writeError, readError, malformedReply, RestOK, fields
<1> QED BY <1>2, <1>3, <1>4, TypeParts

\* The constructors.
LEMMA ConnectType ==
    ASSUME TypeOK, Dial \/ NewClient \/ greeting
    PROVE  TypeOK'
<1>1. ControlOK /\ StreamsOK /\ RestOK
  BY TypeParts
<1>2. CASE Dial \/ NewClient
  <2>1. /\ at' = "reply" /\ api' \in Names
        /\ todo' = <<Bare("greeting"), With("EHLO", "h")>>
        /\ UNCHANGED <<result, open, fields, mech, werr, rbuf, wire, srv, calls,
                       clean>>
    BY <1>2 DEF Dial, NewClient, Connect, Names
  <2>2. Bare("greeting") \in Steps /\ With("EHLO", "h") \in Steps
    BY StepTypes DEF StepVerbs, Args
  <2>3. todo' \in Seq(Steps)
    BY <2>1, <2>2, Singles
  <2>4. deadline' \in {"none", "set", "expired"}
    BY <1>2, CallAssumption DEF Dial, NewClient
  <2>5. ControlOK' /\ StreamsOK' /\ RestOK'
    BY <1>1, <2>1, <2>3, <2>4
       DEF ControlOK, StreamsOK, RestOK, Places, fields
  <2> QED BY <2>5, TypeParts
<1>3. CASE greeting
  <2>1. PICK n \in 1..Len(wire) :
            /\ ReadReply(n)
            /\ IF wire[n].code = 220 THEN Advance ELSE Return("smtp")
            /\ deadline' \in {"none", deadline}
    BY <1>3 DEF greeting
  <2>2. todo # <<>>
    BY <1>3 DEF greeting, Doing
  <2>3. ControlOK'
    BY <1>1, <2>1, <2>2, AdvanceType, FailType DEF Errs
  <2>4. StreamsOK'
    BY <1>1, <1>3, <2>1, ReadType DEF ReadReply, greeting, StreamsOK
  <2>5. RestOK'
    BY <1>1, <1>3, <2>1 DEF greeting, RestOK, fields
  <2> QED BY <2>3, <2>4, <2>5, TypeParts
<1> QED BY <1>2, <1>3

\* The greeting's replies.
LEMMA EhloType ==
    ASSUME TypeOK, ehloReply \/ heloReply
    PROVE  TypeOK'
<1>1. ControlOK /\ StreamsOK /\ RestOK /\ todo # <<>>
  BY TypeParts DEF ehloReply, heloReply, Doing
<1>2. PICK n \in 1..Len(wire) :
          /\ ReadReply(n)
          /\ \/ Advance /\ exts' \in {{}, ParseEHLOResponse(n)} /\ extsTls' = tls
             \/ /\ todo' = <<With("HELO", "h")>> \o Tail(todo) /\ at' = "send"
                /\ UNCHANGED <<api, result, open, exts, extsTls>>
             \/ Return("smtp") /\ UNCHANGED <<exts, extsTls>>
  BY DEF ehloReply, heloReply, SetExts
<1>3. ParseEHLOResponse(n) \in SUBSET Words
  <2>1. \A i \in 2..n : wire[i] \in ReplyLines
    BY <1>1 DEF StreamsOK
  <2>2. \A i \in 2..n : wire[i].exts \in SUBSET Words
    BY <2>1, ZenonT(30) DEF ReplyLines
  <2> QED BY <2>2 DEF ParseEHLOResponse
<1>4. ControlOK'
  <2>1. With("HELO", "h") \in Steps
    BY StepTypes DEF StepVerbs, Args
  <2>2. <<With("HELO", "h")>> \o Tail(todo) \in Seq(Steps)
    BY <1>1, <2>1, StepType, Singles, ConcatProperties
  <2> QED BY <1>1, <1>2, <2>2, AdvanceType, FailType
          DEF Errs, ControlOK, Places
<1>5. StreamsOK'
  BY <1>1, <1>2, ReadType DEF ReadReply, ehloReply, heloReply, StreamsOK
<1>6. /\ exts' \in SUBSET Words /\ extsTls' \in BOOLEAN
      /\ UNCHANGED <<tls, mech, deadline, werr, srv, calls, clean>>
  BY <1>1, <1>2, <1>3 DEF ehloReply, heloReply, RestOK
<1>7. RestOK'
  BY <1>1, <1>6 DEF RestOK
<1> QED BY <1>4, <1>5, <1>7, TypeParts
\* DATA's replies and its body.
LEMMA BodyType ==
    ASSUME TypeOK, todo # <<>>, dataReply \/ sendBody \/ bodyWriteError
    PROVE  TypeOK'
<1>1. ControlOK /\ StreamsOK /\ RestOK /\ tls \in BOOLEAN
  BY TypeParts DEF RestOK
<1>2. step.n \in Nat
  BY <1>1, StepType DEF Steps
<1>3. CASE dataReply
  <2>1. PICK n \in 1..Len(wire) :
            /\ ReadReply(n)
            /\ \/ at' = "body" /\ UNCHANGED <<api, todo, result, open>>
               \/ Return("smtp")
    BY <1>3 DEF dataReply
  <2>2. ControlOK'
    BY <1>1, <2>1, FailType DEF Errs, ControlOK, Places
  <2>3. StreamsOK'
    BY <1>1, <1>3, <2>1, ReadType DEF ReadReply, dataReply, StreamsOK
  <2>4. RestOK'
    BY <1>1, <1>3 DEF dataReply, RestOK, fields
  <2> QED BY <2>2, <2>3, <2>4, TypeParts
<1>4. CASE sendBody \/ bodyWriteError
  <2>1. PICK k \in 0..step.n : Write(Terminated(k)) \/ Write(Text(k))
    BY <1>2, <1>4 DEF sendBody, bodyWriteError
  <2>2. Terminated(k) \in Seq(Steps) /\ Text(k) \in Seq(Steps)
    BY <1>2, TextType
  <2>3. StreamsOK'
    BY <1>1, <1>4, <2>1, <2>2, WriteAppends
       DEF sendBody, bodyWriteError, StreamsOK
  <2>4. ControlOK' /\ clean' \in BOOLEAN
    <3>1. \/ Break
          \/ at' = "final" /\ UNCHANGED <<api, todo, result, open, clean>>
      BY <1>4 DEF sendBody, bodyWriteError
    <3> QED BY <1>1, <3>1, BreakType DEF ControlOK, Places, RestOK
  <2>5. RestOK'
    BY <1>1, <1>4, <2>4 DEF sendBody, bodyWriteError, RestOK, fields
  <2> QED BY <2>3, <2>4, <2>5, TypeParts
<1> QED BY <1>3, <1>4

\* STARTTLS, and the client's part of the handshake.
LEMMA HandshakeType ==
    ASSUME TypeOK, todo # <<>>,
           \/ startTLSReply
           \/ /\ upgraded \/ handshakeError
              /\ srv' \in ServerPlaces /\ rbuf' \in Seq(Queued)
    PROVE  TypeOK'
<1>1. ControlOK /\ StreamsOK /\ RestOK
  BY TypeParts
<1>2. CASE startTLSReply
  <2>1. PICK n \in 1..Len(wire) :
            /\ ReadReply(n)
            /\ \/ at' = "handshake" /\ UNCHANGED <<api, todo, result, open>>
               \/ Return("smtp")
    BY <1>2 DEF startTLSReply
  <2>2. ControlOK'
    BY <1>1, <2>1, FailType DEF Errs, ControlOK, Places
  <2>3. StreamsOK'
    BY <1>1, <1>2, <2>1, ReadType DEF ReadReply, startTLSReply, StreamsOK
  <2>4. RestOK'
    BY <1>1, <1>2 DEF startTLSReply, RestOK, fields
  <2> QED BY <2>2, <2>3, <2>4, TypeParts
<1>3. CASE upgraded /\ srv' \in ServerPlaces /\ rbuf' \in Seq(Queued)
  <2>1. With("EHLO", "h") \in Steps
    BY StepTypes DEF StepVerbs, Args
  <2>2. <<With("EHLO", "h")>> \o Tail(todo) \in Seq(Steps)
    BY <1>1, <2>1, StepType, Singles, ConcatProperties
  <2>3. ControlOK'
    BY <1>1, <1>3, <2>2 DEF upgraded, Reissue, ControlOK, Places
  <2>4. StreamsOK'
    BY <1>3 DEF upgraded, StreamsOK
  <2>5. RestOK'
    BY <1>1, <1>3 DEF upgraded, RestOK
  <2> QED BY <2>3, <2>4, <2>5, TypeParts
<1>4. CASE handshakeError /\ srv' \in ServerPlaces /\ rbuf' \in Seq(Queued)
  <2>1. PICK closed \in BOOLEAN : ReturnAnd(open /\ ~closed, "io")
    BY <1>4 DEF handshakeError, HandshakeFailed
  <2>2. ControlOK'
    <3>1. (open /\ ~closed) \in BOOLEAN /\ "io" \in Errs
      BY <1>1 DEF ControlOK, Errs
    <3> QED BY <1>1, <2>1, <3>1, ReturnType
  <2>3. wire' \in Seq(ReplyLines)
    <3>1. [code |-> 0, sep |-> "bad", exts |-> {}] \in ReplyLines
      BY DEF ReplyLines, Words
    <3>2. Append(wire, [code |-> 0, sep |-> "bad", exts |-> {}])
              \in Seq(ReplyLines)
      BY <1>1, <3>1, AppendProperties DEF StreamsOK
    <3> QED BY <1>1, <1>4, <3>2 DEF handshakeError, StreamsOK
  <2>4. StreamsOK' /\ RestOK'
    BY <1>1, <1>4, <2>3 DEF handshakeError, StreamsOK, RestOK, fields
  <2> QED BY <2>2, <2>4, TypeParts
<1> QED BY <1>2, <1>3, <1>4

\* The steps of an AUTH exchange.
LEMMA AuthType ==
    ASSUME TypeOK, todo # <<>>,
           authReply \/ respond \/ respondError \/ authCancelled
    PROVE  TypeOK'
<1>1. ControlOK /\ StreamsOK /\ RestOK /\ tls \in BOOLEAN
  BY TypeParts DEF RestOK
<1>2. step \in Steps /\ step = todo[1] /\ Len(todo) \in Nat \ {0}
  BY <1>1, StepType
<1>3. ~NextFails /\ LoginNext => mech' \in [step: 0..2, used: BOOLEAN]
  <2>1. mech \in [step: 0..2, used: BOOLEAN]
    BY <1>1 DEF RestOK
  <2> QED BY <2>1 DEF NextFails, LoginNext
<1>4. CASE authReply
  <2>1. PICK n \in 1..Len(wire) :
            /\ ReadReply(n)
            /\ \/ Advance /\ UNCHANGED clean
               \/ Return("smtp") /\ UNCHANGED clean
               \/ Break
               \/ /\ at' = "respond"
                  /\ todo' = [todo EXCEPT ![1].n = Count(@)]
                  /\ UNCHANGED <<api, result, open, clean>>
    BY <1>4 DEF authReply
  <2>2. [todo EXCEPT ![1].n = Count(@)] \in Seq(Steps)
    <3>1. [todo[1] EXCEPT !.n = Count(@)] \in Steps
      BY <1>2 DEF Steps, Count
    <3>2. [todo EXCEPT ![1] = [todo[1] EXCEPT !.n = Count(@)]] \in Seq(Steps)
      BY <1>1, <1>2, <3>1, ExceptSeq DEF ControlOK
    <3> QED BY <3>2
  <2>3. ControlOK' /\ clean' \in BOOLEAN
    BY <1>1, <2>1, <2>2, AdvanceType, FailType, BreakType
       DEF Errs, ControlOK, Places, RestOK
  <2>4. StreamsOK'
    BY <1>1, <1>4, <2>1, ReadType DEF ReadReply, authReply, StreamsOK
  <2>5. RestOK'
    BY <1>1, <1>4, <2>3 DEF authReply, RestOK, fields
  <2> QED BY <2>3, <2>4, <2>5, TypeParts
<1>5. CASE respond
  <2> DEFINE answer == [With("b64", "good") EXCEPT
                          !.opt = IF step.arg # "LOGIN" THEN Empty
                                  ELSE IF mech.step = 0 THEN "user" ELSE "pass"]
  <2>1. answer \in Steps /\ Bare("*") \in Steps
    <3>1. With("b64", "good") \in Steps /\ Bare("*") \in Steps
      BY StepTypes DEF StepVerbs, Args
    <3>2. \A o \in Opts : [With("b64", "good") EXCEPT !.opt = o] \in Steps
      BY <3>1 DEF Steps
    <3> QED BY <3>1, <3>2 DEF Opts
  <2> HIDE DEF answer
  <2>2. <<answer>> \in Seq(Steps) /\ <<Bare("*")>> \in Seq(Steps)
    BY <2>1, Singles
  <2>3. /\ \/ Write(<<Bare("*")>>) /\ at' = "cancel" /\ UNCHANGED mech
           \/ ~NextFails /\ Write(<<answer>>) /\ at' = "reply" /\ LoginNext
        /\ UNCHANGED <<api, todo, result, open, fields, deadline, werr, wire,
                       srv, calls, clean>>
    BY <1>5 DEF respond, answer
  <2>4. StreamsOK'
    BY <1>1, <2>2, <2>3, WriteAppends DEF StreamsOK
  <2>5. ControlOK'
    BY <1>1, <2>3 DEF ControlOK, Places
  <2>6. mech' \in [step: 0..2, used: BOOLEAN]
    BY <1>1, <1>3, <2>3 DEF RestOK
  <2>7. RestOK'
    BY <1>1, <2>3, <2>6 DEF RestOK, fields
  <2> QED BY <2>4, <2>5, <2>7, TypeParts
<1>6. CASE respondError
  <2>1. /\ \/ /\ at' = "cancel" /\ clean' = FALSE
              /\ UNCHANGED <<api, todo, result, open, mech>>
           \/ ~NextFails /\ Break /\ LoginNext
        /\ werr' = TRUE
        /\ UNCHANGED <<fields, deadline, rbuf, wire, srv, calls>>
    BY <1>6 DEF respondError
  <2>2. ControlOK' /\ clean' = FALSE
    BY <1>1, <2>1, BreakType DEF ControlOK, Places
  <2>3. mech' \in [step: 0..2, used: BOOLEAN]
    BY <1>1, <1>3, <2>1 DEF RestOK
  <2>4. StreamsOK' /\ RestOK'
    BY <1>1, <2>1, <2>2, <2>3 DEF StreamsOK, RestOK, fields
  <2> QED BY <2>2, <2>4, TypeParts
<1>7. CASE authCancelled
  <2>1. PICK n \in 1..Len(wire) : ReadReply(n)
    BY <1>7 DEF authCancelled, ReadCancelReply
  <2>2. ControlOK'
    BY <1>1, <1>7, FailType DEF authCancelled, Errs
  <2>3. StreamsOK' /\ RestOK'
    BY <1>1, <1>7, <2>1, ReadType
       DEF ReadReply, authCancelled, StreamsOK, RestOK, fields
  <2> QED BY <2>2, <2>3, TypeParts
<1> QED BY <1>4, <1>5, <1>6, <1>7
\* A mechanism passed to AUTH.
LEMMA UseType ==
    ASSUME TypeOK, NEW m, UseMechanism(m)
    PROVE  mech' \in [step: 0..2, used: BOOLEAN]
<1>1. mech \in [step: 0..2, used: BOOLEAN]
  BY DEF TypeOK
<1>2. [mech EXCEPT !.used = mech.step > 0] \in [step: 0..2, used: BOOLEAN]
  <2>1. \A q \in BOOLEAN : [mech EXCEPT !.used = q] \in [step: 0..2, used: BOOLEAN]
    BY <1>1
  <2>2. (mech.step > 0) \in BOOLEAN
    OBVIOUS
  <2> QED BY <2>1, <2>2
<1>3. [step |-> 0, used |-> FALSE] \in [step: 0..2, used: BOOLEAN]
  OBVIOUS
<1> QED BY <1>1, <1>2, <1>3 DEF UseMechanism

\* What SubmitMessage has ahead of it: perhaps STARTTLS, AUTH, the message.
Submits(ss, m) ==
    /\ ss \in Seq(Steps) /\ Len(UpgradeFirst) \in {0, 1}
    /\ Len(ss) > Len(UpgradeFirst)
    /\ ss[Len(UpgradeFirst) + 1] = AuthStep(m)
    /\ Len(UpgradeFirst) = 1 => ss[1] = Bare("STARTTLS")
    /\ \A i \in (Len(UpgradeFirst) + 2)..Len(ss) :
          /\ ss[i].verb \in {"MAIL", "RCPT", "DATA"}
          /\ ss[i].verb = "DATA" => i = Len(ss)

\* The steps of SubmitMessage: perhaps STARTTLS, one AUTH, then SendMail's.
LEMMA SubmitSteps ==
    ASSUME NEW m \in Mechanisms, NEW f \in From, NEW to \in To,
           NEW b \in MessageReaders, NEW ss,
           ss = UpgradeFirst \o <<AuthStep(m)>> \o SendSteps(f, to, b)
    PROVE  Submits(ss, m)
<1> DEFINE u == UpgradeFirst
           a == <<AuthStep(m)>>
           d == SendSteps(f, to, b)
<1>1. Bare("STARTTLS") \in Steps /\ AuthStep(m) \in Steps
  BY StepTypes DEF StepVerbs
<1>2. u \in {<<>>, <<Bare("STARTTLS")>>}
  BY DEF UpgradeFirst
<1>3. /\ u \in Seq(Steps) /\ Len(u) \in {0, 1}
      /\ Len(u) = 1 => u[1] = Bare("STARTTLS")
  <2>1. CASE u = <<>>
    BY <2>1
  <2>2. CASE u = <<Bare("STARTTLS")>>
    BY <1>1, <2>2, Singles
  <2> HIDE DEF u
  <2> QED BY <1>2, <2>1, <2>2
<1>4. a \in Seq(Steps) /\ Len(a) = 1 /\ a[1] = AuthStep(m)
  BY <1>1, Singles
<1>5. /\ d \in Seq(Steps)
      /\ \A i \in 1..Len(d) : /\ d[i].verb \in {"MAIL", "RCPT", "DATA"}
                              /\ d[i].verb = "DATA" => i = Len(d)
  BY SendStepsType
<1>6. ss = (u \o a) \o d
  OBVIOUS
<1> HIDE DEF u, a, d
<1>7. /\ u \o a \in Seq(Steps) /\ Len(u \o a) = Len(u) + 1
      /\ (u \o a)[Len(u) + 1] = AuthStep(m)
      /\ Len(u) = 1 => (u \o a)[1] = Bare("STARTTLS")
  <2>1. /\ u \o a \in Seq(Steps) /\ Len(u \o a) = Len(u) + Len(a)
        /\ \A i \in 1..Len(u) : (u \o a)[i] = u[i]
        /\ \A i \in 1..Len(a) : (u \o a)[Len(u) + i] = a[i]
    BY <1>3, <1>4, Joined
  <2>2. 1 \in 1..1
    OBVIOUS
  <2>3. 1 \in 1..Len(a) /\ (Len(u) = 1 => 1 \in 1..Len(u))
    BY <1>4, <2>2, Zenon
  <2> QED BY <1>3, <1>4, <2>1, <2>3
<1> DEFINE h == u \o a
<1>8. ss = h \o d /\ h \in Seq(Steps) /\ Len(h) = Len(u) + 1
  BY <1>6, <1>7
<1>9. h[Len(u) + 1] = AuthStep(m) /\ (Len(u) = 1 => h[1] = Bare("STARTTLS"))
  BY <1>7
<1> HIDE DEF h
<1>10. /\ ss \in Seq(Steps) /\ Len(ss) = Len(h) + Len(d) /\ Len(d) \in Nat
       /\ \A i \in 1..Len(h) : ss[i] = h[i]
       /\ \A i \in (Len(h) + 1)..Len(ss) : ss[i] = d[i - Len(h)]
  <2>1. /\ h \o d \in Seq(Steps) /\ Len(h \o d) = Len(h) + Len(d)
        /\ \A i \in 1..(Len(h) + Len(d)) :
              (h \o d)[i] = IF i <= Len(h) THEN h[i] ELSE d[i - Len(h)]
    BY <1>5, <1>8, ConcatProperties
  <2>2. Len(h) \in Nat /\ Len(d) \in Nat
    BY <1>5, <1>8
  <2>3. ss = h \o d
    BY <1>8
  <2>4. \A i \in 1..Len(h) : (h \o d)[i] = h[i]
    BY <2>1, <2>2
  <2>5. \A i \in (Len(h) + 1)..(Len(h) + Len(d)) : (h \o d)[i] = d[i - Len(h)]
    BY <2>1, <2>2
  <2> QED BY <2>1, <2>2, <2>3, <2>4, <2>5
<1>11. \A i \in (Len(u) + 2)..Len(ss) :
          /\ ss[i].verb \in {"MAIL", "RCPT", "DATA"}
          /\ ss[i].verb = "DATA" => i = Len(ss)
  <2>1. SUFFICES ASSUME NEW i \in (Len(u) + 2)..Len(ss)
                 PROVE  /\ ss[i].verb \in {"MAIL", "RCPT", "DATA"}
                        /\ ss[i].verb = "DATA" => i = Len(ss)
    OBVIOUS
  <2>2. i - Len(h) \in 1..Len(d) /\ ss[i] = d[i - Len(h)]
    BY <1>3, <1>8, <1>10, SMTT(30)
  <2>3. i - Len(h) = Len(d) => i = Len(ss)
    BY <1>3, <1>8, <1>10, SMTT(30)
  <2> DEFINE k == i - Len(h)
  <2>4. d[k].verb \in {"MAIL", "RCPT", "DATA"} /\ (d[k].verb = "DATA" => k = Len(d))
    BY <1>5, <2>2, ZenonT(30)
  <2> HIDE DEF k
  <2>5. ss[i] = d[k] /\ (k = Len(d) => i = Len(ss))
    BY <2>2, <2>3 DEF k
  <2> QED BY <2>4, <2>5
<1>12. ss[Len(u) + 1] = h[Len(u) + 1] /\ (Len(u) = 1 => ss[1] = h[1])
  BY <1>3, <1>8, <1>10, SMTT(30)
<1>13. Len(ss) > Len(u)
  BY <1>3, <1>8, <1>10
<1>14. UpgradeFirst = u
  BY DEF u
<1> QED BY <1>3, <1>9, <1>10, <1>11, <1>12, <1>13, <1>14 DEF Submits

\* The calls of the application.
LEMMA CallsType ==
    ASSUME TypeOK, Mail \/ Rcpt \/ Bdat \/ Reset \/ Noop \/ SendMail
    PROVE  TypeOK'
<1>1. CASE Mail
  <2>1. \A f \in From : With("MAIL", f) \in Steps
    BY StepTypes DEF StepVerbs, Args
  <2> QED BY <1>1, <2>1, CallType, RequestType, ExpectType
          DEF Mail, Exchange, Names
<1>2. CASE Rcpt
  <2>1. \A to \in To : \A i \in DOMAIN to : With("RCPT", to[i]) \in Steps
    BY StepTypes DEF StepVerbs, Args, Addressees
  <2> QED BY <1>2, <2>1, CallType, RequestType, ExpectType
          DEF Rcpt, Exchange, Names
<1>3. CASE Bdat
  <2> DEFINE s(c) == [With("BDAT", "size") EXCEPT !.n = c.n,
                              !.opt = IF c.last THEN "LAST" ELSE Empty]
  <2>1. ASSUME NEW c \in BdatArgs PROVE s(c) \in Steps
    <3>1. c.n \in Nat
      BY CallAssumption
    <3>2. With("BDAT", "size") \in Steps
      BY StepTypes DEF StepVerbs, Args
    <3> QED BY <3>1, <3>2 DEF Steps, Opts
  <2>2. \/ \E c \in BdatArgs : Call("Bdat", <<s(c)>>)
        \/ Request("BDAT") \/ Expect("reply", "BDAT", 250)
    BY <1>3 DEF Bdat, Exchange
  <2> HIDE DEF s
  <2> QED BY <2>1, <2>2, CallType, RequestType, ExpectType DEF Names
<1>4. CASE Reset \/ Noop
  <2>1. Bare("RSET") \in Steps /\ Bare("NOOP") \in Steps
    BY StepTypes DEF StepVerbs
  <2> QED BY <1>4, <2>1, CallType, RequestType, ExpectType
          DEF Reset, Noop, Exchange, Names
<1>5. CASE SendMail
  <2>1. PICK f \in From, to \in To, b \in MessageReaders :
            Call("SendMail", SendSteps(f, to, b))
    BY <1>5 DEF SendMail
  <2>2. mech' \in [step: 0..2, used: BOOLEAN]
    BY <2>1 DEF Call, TypeOK
  <2> QED BY <2>1, <2>2, SendStepsType, BeginType DEF Call, Names
<1> QED BY <1>1, <1>2, <1>3, <1>4, <1>5
\* Data, StartTLS, Auth and SubmitMessage keep the types.
LEMMA LongCallsType ==
    ASSUME TypeOK, PlaceInv, Data \/ StartTLS \/ Auth \/ SubmitMessage
    PROVE  TypeOK'
<1>1. CASE Data
  <2>1. \/ \E b \in MessageReaders : Call("Data", <<DataStep(b)>>)
        \/ Request("DATA") \/ Expect("final", "DATA", 250)
        \/ todo # <<>> /\ (dataReply \/ sendBody \/ bodyWriteError)
    BY <1>1 DEF Data, dataReply, sendBody, bodyWriteError, PlaceInv, Doing
  <2>2. \A b \in MessageReaders : DataStep(b) \in Steps
    BY StepTypes
  <2> QED BY <2>1, <2>2, CallType, RequestType, ExpectType, BodyType DEF Names
<1>2. CASE StartTLS
  <2>1. \/ Call("StartTLS", <<Bare("STARTTLS")>>)
        \/ Request("STARTTLS") \/ (todo # <<>> /\ startTLSReply)
    BY <1>2 DEF StartTLS, startTLSReply, Doing
  <2>2. Bare("STARTTLS") \in Steps
    BY StepTypes DEF StepVerbs
  <2> QED BY <2>1, <2>2, CallType, RequestType, HandshakeType DEF Names
<1>3. CASE Auth
  <2>1. \/ \E m \in Mechanisms : Begin("Auth", <<AuthStep(m)>>) /\ UseMechanism(m)
        \/ Request("AUTH")
        \/ todo # <<>> /\ (authReply \/ respond \/ respondError \/ authCancelled)
    BY <1>3 DEF Auth, authReply, respond, respondError, authCancelled, PlaceInv,
       Doing
  <2>2. ASSUME NEW m \in Mechanisms, Begin("Auth", <<AuthStep(m)>>),
               UseMechanism(m)
        PROVE  TypeOK'
    <3>1. <<AuthStep(m)>> \in Seq(Steps)
      BY StepTypes, Singles
    <3> QED BY <2>2, <3>1, UseType, BeginType DEF Names
  <2> QED BY <2>1, <2>2, RequestType, AuthType
<1>4. CASE SubmitMessage
  <2>1. PICK m \in Mechanisms, f \in From, to \in To, b \in MessageReaders :
            /\ Begin("SubmitMessage",
                     UpgradeFirst \o <<AuthStep(m)>> \o SendSteps(f, to, b))
            /\ UseMechanism(m)
    BY <1>4 DEF SubmitMessage
  <2>2. UpgradeFirst \o <<AuthStep(m)>> \o SendSteps(f, to, b) \in Seq(Steps)
    BY SubmitSteps DEF Submits
  <2> QED BY <2>1, <2>2, UseType, BeginType DEF Names
<1> QED BY <1>1, <1>2, <1>3, <1>4

\* Close, and the deadline.
LEMMA CloseType ==
    ASSUME TypeOK, Close \/ Expire
    PROVE  TypeOK'
<1>1. ControlOK /\ StreamsOK /\ RestOK
  BY TypeParts
<1>2. CASE Request("QUIT")
  BY <1>2, RequestType
<1>3. CASE /\ at = "idle" /\ api' = "Close" /\ todo' = <<Bare("QUIT")>>
           /\ at' = "send" /\ result' = NoResult
           /\ UNCHANGED <<open, fields, mech, deadline, werr, rbuf, wire, srv,
                          calls, clean>>
  <2>1. todo' \in Seq(Steps)
    BY <1>3, StepTypes, Singles DEF StepVerbs
  <2>2. ControlOK'
    BY <1>1, <1>3, <2>1 DEF ControlOK, Places, Names, NoResult, Errs
  <2>3. StreamsOK' /\ RestOK'
    BY <1>1, <1>3 DEF StreamsOK, RestOK, fields
  <2> QED BY <2>2, <2>3, TypeParts
<1>4. CASE /\ (\E n \in 1..Len(wire) : ReadReply(n)) /\ Return("nil")
           /\ UNCHANGED <<fields, mech, deadline, werr, rbuf, srv, calls, clean>>
  <2>1. ControlOK'
    BY <1>1, <1>4, FailType DEF Errs
  <2>2. wire' \in Seq(ReplyLines)
    BY <1>1, <1>4, ReadType DEF ReadReply
  <2>3. StreamsOK' /\ RestOK'
    BY <1>1, <1>4, <2>2 DEF StreamsOK, RestOK, fields
  <2> QED BY <2>1, <2>3, TypeParts
<1>5. CASE Expire
  <2>1. ControlOK' /\ StreamsOK' /\ RestOK'
    BY <1>1, <1>5 DEF Expire, control, fields, ControlOK, StreamsOK, RestOK
  <2> QED BY <2>1, TypeParts
<1> QED BY <1>2, <1>3, <1>4, <1>5 DEF Close

\* The server only appends to what is on its way to the client.
LEMMA ServerAppends ==
    ASSUME ServerStep, wire \in Seq(ReplyLines)
    PROVE  wire' = wire \/ \E r \in Seq(ReplyLines) : wire' = wire \o r
<1>1. ASSUME NEW c \in 0..599, wire' = wire \o Reply(c)
      PROVE  \E r \in Seq(ReplyLines) : wire' = wire \o r
  BY <1>1, AnswerTypes
<1>2. ASSUME NEW v, NEW r \in Answers(v), wire' = wire \o r
      PROVE  \E s \in Seq(ReplyLines) : wire' = wire \o s
  BY <1>2, AnswerTypes
<1>3. CASE serverGreets
  <2>1. PICK c \in {220, 554} : wire' = wire \o Reply(c)
    BY <1>3 DEF serverGreets
  <2>2. c \in 0..599
    OBVIOUS
  <2> QED BY <1>1, <2>1, <2>2, ZenonT(30)
<1>4. CASE serverAnswers
  <2>1. PICK r \in Answers(command.verb) : wire' = wire \o r
    BY <1>4 DEF serverAnswers
  <2> QED BY <1>2, <2>1
<1>5. CASE serverReadsBody
  <2>1. wire' = wire \/ \E c \in {250, 550} : wire' = wire \o Reply(c)
    BY <1>5 DEF serverReadsBody
  <2>2. SUFFICES ASSUME NEW c \in {250, 550}, wire' = wire \o Reply(c)
                 PROVE  \E r \in Seq(ReplyLines) : wire' = wire \o r
    BY <2>1, SMTT(30)
  <2>3. c \in 0..599
    OBVIOUS
  <2> QED BY <1>1, <2>2, <2>3, ZenonT(30)
<1>6. CASE serverAuthenticates
  <2>1. CASE command.verb = "*"
    <3>1. wire' = wire \o Reply(501)
      BY <1>6, <2>1 DEF serverAuthenticates
    <3>2. 501 \in 0..599
      OBVIOUS
    <3> QED BY <1>1, <3>1, <3>2, ZenonT(30)
  <2>2. CASE command.verb # "*"
    <3>1. PICK r \in Answers("AUTH") : wire' = wire \o r
      BY <1>6, <2>2 DEF serverAuthenticates
    <3> QED BY <1>2, <3>1
  <2> QED BY <2>1, <2>2
<1>7. CASE serverCloses
  <2>1. <<>> \in Seq(ReplyLines) /\ Reply(421) \in Seq(ReplyLines)
    BY AnswerTypes
  <2> QED BY <1>7, <2>1 DEF serverCloses
<1> QED BY <1>3, <1>4, <1>5, <1>6, <1>7 DEF ServerStep

\* The command at the server, with its chunk.
LEMMA CommandType ==
    ASSUME rbuf \in Seq(Queued), rbuf # <<>>
    PROVE  command \in Steps /\ command = rbuf[1].line
<1>1. rbuf[1] \in Queued /\ Head(rbuf) = rbuf[1]
  OBVIOUS
<1> QED BY <1>1 DEF command, Queued

\* The server.
LEMMA ServerType ==
    ASSUME TypeOK, ServerStep
    PROVE  TypeOK'
<1>1. ControlOK /\ StreamsOK /\ RestOK
  BY TypeParts
<1>2. UNCHANGED atRest
  BY DEF ServerStep, serverGreets, serverAnswers, serverReadsBody,
     serverAuthenticates, serverCloses
<1>3. srv' \in ServerPlaces
  BY <1>1, SMTT(30) DEF ServerStep, serverGreets, serverAnswers, serverReadsBody,
     serverAuthenticates, serverCloses, After, RestOK, ServerPlaces
<1>4. ControlOK' /\ RestOK'
  <2>1. ControlOK'
    BY <1>1, <1>2 DEF atRest, control, ControlOK
  <2>2. RestOK'
    BY <1>1, <1>2, <1>3 DEF atRest, fields, RestOK
  <2> QED BY <2>1, <2>2
<1>5. wire' \in Seq(ReplyLines)
  BY <1>1, ServerAppends, ConcatProperties DEF StreamsOK
<1>6. rbuf' \in Seq(Queued)
  <2>1. rbuf \in Seq(Queued)
    BY <1>1 DEF StreamsOK
  <2>2. CASE serverAnswers
    <3>1. command \in Steps
      BY <2>1, <2>2, CommandType DEF serverAnswers
    <3>2. 1 + command.n \in Nat /\ 1 \in Nat
      BY <3>1 DEF Steps
    <3>3. \/ rbuf' = SubSeq(rbuf, (1 + command.n) + 1, Len(rbuf))
          \/ rbuf' = SubSeq(rbuf, 1 + 1, Len(rbuf))
      BY <2>2 DEF serverAnswers
    <3>4. \A k \in Nat : SubSeq(rbuf, k + 1, Len(rbuf)) \in Seq(Queued)
      BY <2>1
    <3> QED BY <3>2, <3>3, <3>4
  <2>3. CASE ~serverAnswers
    <3>1. rbuf' = rbuf \/ (rbuf # <<>> /\ rbuf' = Tail(rbuf))
      BY <2>3 DEF ServerStep, serverGreets, serverReadsBody,
         serverAuthenticates, serverCloses
    <3> QED BY <2>1, <3>1
  <2> QED BY <2>2, <2>3
<1> QED BY <1>4, <1>5, <1>6, TypeParts DEF StreamsOK

\* The application and the client.
LEMMA ClientType ==
    ASSUME TypeOK, PlaceInv, ClientStep \/ Expire
    PROVE  TypeOK'
<1>1. CASE ehlo
  BY <1>1, RequestType, EhloType DEF ehlo
<1> QED BY <1>1, ConnectType, CallsType, LongCallsType, CloseType, ErrorType
        DEF ClientStep

\* Every step keeps the types.
LEMMA TypeStep == TypeOK /\ PlaceInv /\ [Next]_vars => TypeOK'
<1> SUFFICES ASSUME TypeOK, PlaceInv, [Next]_vars PROVE TypeOK'
  OBVIOUS
<1>1. ControlOK /\ StreamsOK /\ RestOK
  BY TypeParts
<1>2. CASE handshake
  <2>1. todo # <<>> /\ (upgraded \/ handshakeError)
    BY <1>2 DEF handshake, upgraded, handshakeError, PlaceInv, Doing
  <2>2. srv' \in {"read", srv} /\ rbuf' \in {rbuf, <<>>}
    BY <1>2 DEF handshake
  <2>3. srv' \in ServerPlaces
    BY <1>1, <2>2 DEF RestOK, ServerPlaces
  <2>4. rbuf' \in Seq(Queued)
    <3>1. <<>> \in Seq(Queued)
      BY EmptySeq
    <3> QED BY <1>1, <2>2, <3>1 DEF StreamsOK
  <2> QED BY <2>1, <2>3, <2>4, HandshakeType
<1>3. CASE UNCHANGED vars
  <2>1. ControlOK' /\ StreamsOK'
    BY <1>1, <1>3 DEF vars, control, ControlOK, StreamsOK
  <2>2. RestOK'
    BY <1>1, <1>3 DEF vars, fields, RestOK
  <2> QED BY <2>1, <2>2, TypeParts
<1> QED BY <1>2, <1>3, ClientType, ServerType DEF Next, Ended

----------------------------------------------------------------------------
(* The shapes of a step *)

\* The goroutine stands still.
Stays == UNCHANGED <<control, fields, mech>>

Connects ==
    /\ at = "none" /\ at' = "reply" /\ api' \in Constructors
    /\ todo' = <<Bare("greeting"), With("EHLO", "h")>>
    /\ UNCHANGED <<result, open, fields, mech>>

\* A call begins: one that mails, StartTLS, Close, or one that authenticates,
\* first or after an upgrade, and may go on to mail.
Begins ==
    /\ at = "idle" /\ at' = "send" /\ result' = NoResult
    /\ todo' # <<>> /\ UNCHANGED <<open, fields>>
    /\ \/ /\ api' \in {"Mail", "Rcpt", "Data", "Bdat", "Reset", "Noop", "SendMail"}
          /\ \A i \in 1..Len(todo') : /\ todo'[i].verb \in Mailing
                                      /\ api' = "Reset" => todo'[i].verb = "RSET"
          /\ mech' = mech
       \/ api' = "StartTLS" /\ todo' = <<Bare("STARTTLS")>> /\ mech' = mech
       \/ api' = "Close" /\ todo' = <<Bare("QUIT")>> /\ mech' = mech
       \/ \E m \in Mechanisms, k \in {0, 1} :
             /\ api' \in {"Auth", "SubmitMessage"} /\ UseMechanism(m)
             /\ Len(todo') > k /\ todo'[k + 1] = AuthStep(m)
             /\ k = 1 => todo'[1] = Bare("STARTTLS")
             /\ \A i \in (k + 2)..Len(todo') : todo'[i].verb \in Mailing
             /\ api' = "SubmitMessage" => k = Len(UpgradeFirst)

\* The call goes on within its step.
Goes ==
    /\ UNCHANGED <<api, todo, result, open, fields>>
    /\ \/ at = "send" /\ at' = "reply" /\ mech' = mech
       \/ at = "reply" /\ at' = "body" /\ Doing("DATA") /\ mech' = mech
       \/ at = "body" /\ at' = "final" /\ mech' = mech
       \/ at = "reply" /\ at' = "handshake" /\ Doing("STARTTLS") /\ mech' = mech
       \/ at = "respond" /\ at' = "cancel" /\ mech' = mech
       \/ at = "respond" /\ at' = "reply" /\ LoginNext

Challenged ==
    /\ at = "reply" /\ Doing("AUTH") /\ at' = "respond"
    /\ todo' = [todo EXCEPT ![1].n = Count(@)]
    /\ UNCHANGED <<api, result, open, fields, mech>>

\* The step has succeeded.
Advances ==
    /\ at \in {"reply", "final"} /\ todo # <<>> /\ Advance
    /\ step.verb \notin {"STARTTLS", "QUIT"} /\ UNCHANGED <<tls, mech>>
    /\ IF step.verb \in {"EHLO", "HELO"} THEN extsTls' = tls
       ELSE UNCHANGED <<exts, extsTls>>

\* HELO instead of EHLO, and EHLO after the handshake.
Replaces ==
    /\ todo # <<>> /\ at' = "send"
    /\ \/ /\ at = "reply" /\ step.verb = "EHLO" /\ tls' = tls
          /\ todo' = <<With("HELO", "h")>> \o Tail(todo)
       \/ /\ at = "handshake" /\ tls' = TRUE
          /\ todo' = <<With("EHLO", "h")>> \o Tail(todo)
    /\ UNCHANGED <<api, result, open, exts, extsTls, mech>>

\* The call has failed, or it is a Close.
Returns ==
    /\ Busy /\ UNCHANGED fields
    /\ \E o \in BOOLEAN, err \in Errs :
          /\ ReturnAnd(o, err)
          /\ err = "nil" => api = "Close"
          /\ api \in {"Close", "Dial"} => ~o

Shape == \/ Stays \/ Connects \/ Begins \/ Goes \/ Challenged \/ Advances
         \/ Replaces \/ Returns

\* A call that fails.
LEMMA FailReturns ==
    ASSUME TypeOK, Busy, UNCHANGED fields, NEW err \in Errs, Return(err),
           err = "nil" => api = "Close"
    PROVE  Returns
<1>1. (open /\ ~Closes(err)) \in BOOLEAN
  BY DEF TypeOK, Closes
<1>2. api \in {"Close", "Dial"} => ~(open /\ ~Closes(err))
  BY DEF Closes
<1> QED BY <1>1, <1>2 DEF Returns, Return

\* An I/O error ends the call.
LEMMA BreakReturns ==
    ASSUME TypeOK, Busy, UNCHANGED fields, Break
    PROVE  Returns
<1>1. Failure \in Errs /\ (Failure = "nil" => api = "Close")
  BY DEF Failure, Errs
<1> QED BY <1>1, FailReturns DEF Break

\* Sending a command leaves the step and the call as they are.
LEMMA RequestShape ==
    ASSUME NEW v, Request(v)
    PROVE  Goes
  BY DEF Request, Goes

\* A reply that is read advances the call or ends it.
LEMMA ExpectShape ==
    ASSUME TypeOK, NEW p \in {"reply", "final"}, NEW v \in Mailing, NEW want,
           Expect(p, v, want)
    PROVE  Advances \/ Returns
<1>1. \/ Advance
      \/ Return("smtp")
  BY DEF Expect
<1>2. Busy /\ todo # <<>> /\ step.verb = v /\ UNCHANGED <<fields, mech>>
  BY DEF Expect, Doing, Busy, step
<1>3. CASE Advance
  BY <1>2, <1>3 DEF Advances, Expect, fields, Mailing
<1>4. CASE Return("smtp")
  BY <1>2, <1>4, FailReturns DEF Errs
<1> QED BY <1>1, <1>3, <1>4

\* A call of one step that mails.
LEMMA CallShape ==
    ASSUME NEW name \in {"Mail", "Rcpt", "Data", "Bdat", "Reset", "Noop"},
           NEW s \in Steps, s.verb \in Mailing, Call(name, <<s>>),
           name = "Reset" => s.verb = "RSET"
    PROVE  Begins
<1>1. \A i \in 1..Len(<<s>>) : <<s>>[i].verb \in Mailing /\ <<s>>[i] = s
  BY Singles
<1>2. /\ at = "idle" /\ at' = "send" /\ api' = name /\ todo' = <<s>>
      /\ result' = NoResult /\ UNCHANGED <<open, fields, mech>>
  BY DEF Call, Begin
<1>3. <<s>> # <<>>
  OBVIOUS
<1> QED BY <1>1, <1>2, <1>3 DEF Begins

\* The shapes of the calls of a mail transaction.
LEMMA MailShape ==
    ASSUME TypeOK, Mail \/ Rcpt \/ Bdat \/ Reset \/ Noop \/ SendMail
    PROVE  Begins \/ Goes \/ Advances \/ Returns
<1>1. ASSUME NEW v \in Mailing, Exchange(v, 250)
      PROVE  Goes \/ Advances \/ Returns
  BY <1>1, RequestShape, ExpectShape DEF Exchange
<1>2. CASE Mail
  <2>1. \A f \in From : With("MAIL", f) \in Steps
    BY StepTypes DEF StepVerbs, Args
  <2>2. \A f \in From : With("MAIL", f).verb = "MAIL"
    BY DEF With, Bare
  <2> HIDE DEF With
  <2> QED BY <1>1, <1>2, <2>1, <2>2, CallShape DEF Mail, Mailing
<1>3. CASE Rcpt
  <2>1. \A to \in To : \A i \in DOMAIN to : With("RCPT", to[i]) \in Steps
    BY StepTypes DEF StepVerbs, Args, Addressees
  <2>2. \A a : With("RCPT", a).verb = "RCPT"
    BY DEF With, Bare
  <2> HIDE DEF With
  <2> QED BY <1>1, <1>3, <2>1, <2>2, CallShape DEF Rcpt, Mailing
<1>4. CASE Bdat
  <2> DEFINE s(c) == [With("BDAT", "size") EXCEPT !.n = c.n,
                              !.opt = IF c.last THEN "LAST" ELSE Empty]
  <2>1. ASSUME NEW c \in BdatArgs PROVE s(c) \in Steps /\ s(c).verb = "BDAT"
    <3>1. c.n \in Nat
      BY CallAssumption
    <3>2. With("BDAT", "size") \in Steps
      BY StepTypes DEF StepVerbs, Args
    <3>3. s(c) \in Steps
      BY <3>1, <3>2 DEF Steps, Opts
    <3>4. s(c).verb = "BDAT"
      BY DEF With, Bare
    <3> QED BY <3>3, <3>4
  <2>2. (\E c \in BdatArgs : Call("Bdat", <<s(c)>>)) \/ Exchange("BDAT", 250)
    BY <1>4 DEF Bdat
  <2> HIDE DEF s
  <2> QED BY <1>1, <2>1, <2>2, CallShape DEF Mailing
<1>5. CASE Reset \/ Noop
  <2>1. /\ Bare("RSET") \in Steps /\ Bare("NOOP") \in Steps
        /\ Bare("RSET").verb = "RSET" /\ Bare("NOOP").verb = "NOOP"
    BY StepTypes DEF StepVerbs, Bare
  <2> HIDE DEF Bare
  <2> QED BY <1>1, <1>5, <2>1, CallShape DEF Reset, Noop, Mailing
<1>6. CASE SendMail
  <2>1. PICK f \in From, to \in To, b \in MessageReaders :
            Call("SendMail", SendSteps(f, to, b))
    BY <1>6 DEF SendMail
  <2>2. /\ SendSteps(f, to, b) \in Seq(Steps) /\ Len(SendSteps(f, to, b)) >= 1
        /\ \A i \in 1..Len(SendSteps(f, to, b)) :
              SendSteps(f, to, b)[i].verb \in Mailing
    BY SendStepsType DEF Mailing
  <2>3. SendSteps(f, to, b) # <<>>
    BY <2>2
  <2> QED BY <2>1, <2>2, <2>3 DEF Begins, Call, Begin
<1> QED BY <1>2, <1>3, <1>4, <1>5, <1>6

\* The shapes of Data.
LEMMA DataShape ==
    ASSUME TypeOK, PlaceInv, Data
    PROVE  Begins \/ Goes \/ Advances \/ Returns
<1>1. ASSUME NEW b \in MessageReaders, Call("Data", <<DataStep(b)>>)
      PROVE  Begins
  <2>1. DataStep(b).verb = "DATA" /\ DataStep(b) \in Steps
    BY StepTypes DEF DataStep, Bare
  <2> HIDE DEF DataStep
  <2> QED BY <1>1, <2>1, CallShape DEF Mailing
<1>2. CASE dataReply
  <2>1. \/ at' = "body" /\ UNCHANGED <<api, todo, result, open>>
        \/ Return("smtp")
    BY <1>2 DEF dataReply
  <2>2. Return("smtp") => Returns
    BY <1>2, FailReturns DEF dataReply, Busy, Errs
  <2> QED BY <1>2, <2>1, <2>2 DEF dataReply, Goes
<1>3. CASE sendBody \/ bodyWriteError
  <2>1. \/ Break
        \/ at' = "final" /\ UNCHANGED <<api, todo, result, open, mech>>
    BY <1>3 DEF sendBody, bodyWriteError
  <2>2. Break => Returns
    BY <1>3, BreakReturns DEF sendBody, bodyWriteError, Busy
  <2> QED BY <1>3, <2>1, <2>2 DEF sendBody, bodyWriteError, Goes
<1> QED BY <1>1, <1>2, <1>3, RequestShape, ExpectShape, ZenonT(30) DEF Data, Mailing

\* The shapes of StartTLS: a handshake puts an EHLO in place of the step.
LEMMA TLSShape ==
    ASSUME TypeOK, PlaceInv, StepsInv, StartTLS \/ upgraded \/ handshakeError
    PROVE  Begins \/ Goes \/ Replaces \/ Returns
<1>1. CASE Call("StartTLS", <<Bare("STARTTLS")>>)
  <2>1. <<Bare("STARTTLS")>> # <<>>
    OBVIOUS
  <2> QED BY <1>1, <2>1 DEF Begins, Call, Begin
<1>2. CASE startTLSReply
  <2>1. \/ at' = "handshake" /\ UNCHANGED <<api, todo, result, open>>
        \/ Return("smtp")
    BY <1>2 DEF startTLSReply
  <2>2. Return("smtp") => Returns
    BY <1>2, FailReturns DEF startTLSReply, Busy, Errs
  <2> QED BY <1>2, <2>1, <2>2 DEF startTLSReply, Goes
<1>3. CASE upgraded
  BY <1>3 DEF upgraded, Reissue, Replaces, PlaceInv, Doing
<1>4. CASE handshakeError
  <2>1. PICK closed \in BOOLEAN : ReturnAnd(open /\ ~closed, "io")
    BY <1>4 DEF handshakeError, HandshakeFailed
  <2>2. (open /\ ~closed) \in BOOLEAN /\ "io" \in Errs
    BY DEF TypeOK, Errs
  <2>3. todo # <<>> /\ step.verb = "STARTTLS" /\ Busy
    BY <1>4 DEF handshakeError, PlaceInv, Doing, step, Busy
  <2>4. todo[1].verb = "STARTTLS" /\ 1 \in 1..Len(todo)
    BY <2>3, StepType, TypeParts
  <2>5. api \notin {"Close", "Dial"}
    BY <2>4 DEF StepsInv, StepOK, Constructors
  <2> QED BY <1>4, <2>1, <2>2, <2>3, <2>5 DEF Returns, handshakeError
<1> QED BY <1>1, <1>2, <1>3, <1>4, RequestShape DEF StartTLS

\* The shapes of Auth: a challenge keeps its step at the head.
LEMMA AuthShape ==
    ASSUME TypeOK, PlaceInv, Auth
    PROVE  Begins \/ Goes \/ Challenged \/ Advances \/ Returns
<1>1. ASSUME NEW m \in Mechanisms, Begin("Auth", <<AuthStep(m)>>), UseMechanism(m)
      PROVE  Begins
  <2>1. /\ Len(<<AuthStep(m)>>) = 1 /\ <<AuthStep(m)>>[1] = AuthStep(m)
        /\ <<AuthStep(m)>> # <<>>
    BY StepTypes, Singles
  <2>2. /\ at = "idle" /\ at' = "send" /\ api' = "Auth"
        /\ todo' = <<AuthStep(m)>> /\ result' = NoResult
        /\ UNCHANGED <<open, fields>>
    BY <1>1 DEF Begin
  <2> HIDE DEF AuthStep
  <2>3. /\ Len(todo') > 0 /\ todo'[0 + 1] = AuthStep(m)
        /\ \A i \in (0 + 2)..Len(todo') : todo'[i].verb \in Mailing
    BY <2>1, <2>2
  <2>4. \E k \in {0, 1} :
            /\ Len(todo') > k /\ todo'[k + 1] = AuthStep(m)
            /\ k = 1 => todo'[1] = Bare("STARTTLS")
            /\ \A i \in (k + 2)..Len(todo') : todo'[i].verb \in Mailing
    BY <2>3
  <2> QED BY <1>1, <2>1, <2>2, <2>4 DEF Begins
<1>2. CASE authReply
  <2>1. \/ Advance
        \/ Return("smtp")
        \/ Break
        \/ /\ at' = "respond" /\ todo' = [todo EXCEPT ![1].n = Count(@)]
           /\ UNCHANGED <<api, result, open>>
    BY <1>2, ZenonT(30) DEF authReply
  <2>2. /\ at = "reply" /\ Busy /\ Doing("AUTH") /\ todo # <<>>
        /\ step.verb = "AUTH" /\ UNCHANGED <<fields, mech>>
    BY <1>2 DEF authReply, Busy, Doing, step
  <2>3. CASE Advance
    BY <2>2, <2>3 DEF Advances, fields
  <2>4. CASE Return("smtp")
    BY <2>2, <2>4, FailReturns DEF Errs
  <2>5. CASE Break
    BY <2>2, <2>5, BreakReturns
  <2> QED BY <2>1, <2>2, <2>3, <2>4, <2>5 DEF Challenged
<1>3. CASE respond
  BY <1>3 DEF respond, Goes
<1>4. CASE respondError
  <2>1. \/ at' = "cancel" /\ UNCHANGED <<api, todo, result, open, mech>>
        \/ Break
    BY <1>4 DEF respondError
  <2>2. Break => Returns
    BY <1>4, BreakReturns DEF respondError, Busy
  <2> QED BY <1>4, <2>1, <2>2 DEF respondError, Goes
<1>5. CASE authCancelled
  BY <1>5, FailReturns DEF authCancelled, Busy, Errs
<1> QED BY <1>1, <1>2, <1>3, <1>4, <1>5, RequestShape DEF Auth

\* SubmitMessage begins a call.
LEMMA SubmitShape ==
    ASSUME SubmitMessage
    PROVE  Begins
<1>1. PICK m \in Mechanisms, f \in From, to \in To, b \in MessageReaders :
          /\ Begin("SubmitMessage",
                   UpgradeFirst \o <<AuthStep(m)>> \o SendSteps(f, to, b))
          /\ UseMechanism(m)
  BY DEF SubmitMessage
<1>2. /\ at = "idle" /\ at' = "send" /\ api' = "SubmitMessage"
      /\ todo' = UpgradeFirst \o <<AuthStep(m)>> \o SendSteps(f, to, b)
      /\ result' = NoResult /\ UNCHANGED <<open, fields>>
  BY <1>1 DEF Begin
<1>3. /\ todo' \in Seq(Steps) /\ Len(UpgradeFirst) \in {0, 1}
      /\ Len(todo') > Len(UpgradeFirst)
      /\ todo'[Len(UpgradeFirst) + 1] = AuthStep(m)
      /\ Len(UpgradeFirst) = 1 => todo'[1] = Bare("STARTTLS")
      /\ \A i \in (Len(UpgradeFirst) + 2)..Len(todo') :
            todo'[i].verb \in {"MAIL", "RCPT", "DATA"}
  <2>1. Submits(todo', m)
    BY <1>2, SubmitSteps, ZenonT(30)
  <2> QED BY <2>1 DEF Submits
<1>4. todo' # <<>>
  BY <1>3
<1> DEFINE u == Len(UpgradeFirst)
<1>5. /\ u \in {0, 1} /\ Len(todo') > u /\ todo'[u + 1] = AuthStep(m)
      /\ u = 1 => todo'[1] = Bare("STARTTLS")
      /\ \A i \in (u + 2)..Len(todo') : todo'[i].verb \in Mailing
      /\ u = Len(UpgradeFirst)
  BY <1>3 DEF Mailing
<1> HIDE DEF u
<1> QED BY <1>1, <1>2, <1>4, <1>5 DEF Begins

\* The shapes of Close.
LEMMA CloseShape ==
    ASSUME TypeOK, StepsInv, Close
    PROVE  Begins \/ Goes \/ Returns
<1>1. CASE Request("QUIT")
  BY <1>1, RequestShape
<1>2. CASE /\ at = "idle" /\ api' = "Close" /\ todo' = <<Bare("QUIT")>>
           /\ at' = "send" /\ result' = NoResult
           /\ UNCHANGED <<open, fields, mech, deadline, werr, rbuf, wire, srv,
                          calls, clean>>
  <2>1. <<Bare("QUIT")>> # <<>>
    OBVIOUS
  <2> QED BY <1>2, <2>1 DEF Begins
<1>3. CASE at = "reply" /\ Doing("QUIT") /\ Return("nil") /\ UNCHANGED fields
  <2>1. todo # <<>> /\ step.verb = "QUIT" /\ Busy
    BY <1>3 DEF Doing, step, Busy
  <2>2. todo[1].verb = "QUIT" /\ 1 \in 1..Len(todo)
    BY <2>1, StepType, TypeParts
  <2>3. api = "Close"
    BY <2>2 DEF StepsInv, StepOK
  <2> QED BY <1>3, <2>1, <2>3, FailReturns DEF Errs
<1> QED BY <1>1, <1>2, <1>3 DEF Close

\* The shapes of ehlo: a refused EHLO is replaced by a HELO.
LEMMA EhloShape ==
    ASSUME TypeOK, ehlo
    PROVE  Goes \/ Advances \/ Replaces \/ Returns
<1>1. CASE ehloReply \/ heloReply
  <2>1. \/ Advance /\ extsTls' = tls
        \/ /\ todo' = <<With("HELO", "h")>> \o Tail(todo) /\ at' = "send"
           /\ step.verb = "EHLO"
           /\ UNCHANGED <<api, result, open, exts, extsTls>>
        \/ Return("smtp") /\ UNCHANGED <<exts, extsTls>>
    BY <1>1 DEF ehloReply, heloReply, Doing, step
  <2>2. /\ at = "reply" /\ Busy /\ todo # <<>>
        /\ step.verb \in {"EHLO", "HELO"} /\ UNCHANGED <<tls, mech>>
    BY <1>1 DEF ehloReply, heloReply, Doing, Busy, step
  <2>3. CASE Advance /\ extsTls' = tls
    BY <2>2, <2>3 DEF Advances
  <2>4. CASE Return("smtp") /\ UNCHANGED <<exts, extsTls>>
    BY <2>2, <2>4, FailReturns DEF Errs, fields
  <2> QED BY <2>1, <2>2, <2>3, <2>4 DEF Replaces
<1> QED BY <1>1, RequestShape DEF ehlo

\* The shapes of Dial, NewClient and their reading of the greeting.
LEMMA ConnectShape ==
    ASSUME TypeOK, Dial \/ NewClient \/ greeting
    PROVE  Connects \/ Advances \/ Returns
<1>1. CASE Dial \/ NewClient
  BY <1>1 DEF Dial, NewClient, Connect, Connects, Constructors
<1>2. CASE greeting
  <2>1. Advance \/ Return("smtp")
    BY <1>2 DEF greeting
  <2>2. /\ at = "reply" /\ Busy /\ todo # <<>> /\ step.verb = "greeting"
        /\ UNCHANGED <<fields, mech>>
    BY <1>2 DEF greeting, Doing, Busy, step
  <2>3. CASE Advance
    BY <2>2, <2>3 DEF Advances, fields
  <2>4. CASE Return("smtp")
    BY <2>2, <2>4, FailReturns DEF Errs
  <2> QED BY <2>1, <2>3, <2>4
<1> QED BY <1>1, <1>2

\* The application and the client, its part of the handshake included.
LEMMA ClientShape ==
    ASSUME TypeOK, PlaceInv, StepsInv,
           ClientStep \/ Expire \/ upgraded \/ handshakeError
    PROVE  Shape
<1>1. CASE writeError \/ readError \/ malformedReply
  <2>1. Break /\ Busy /\ UNCHANGED fields
    BY <1>1 DEF writeError, readError, malformedReply, Busy
  <2> QED BY <2>1, BreakReturns DEF Shape
<1>2. CASE Expire
  BY <1>2 DEF Expire, Shape, Stays
<1> QED BY <1>1, <1>2, ConnectShape, EhloShape, MailShape, DataShape,
        TLSShape, AuthShape, SubmitShape, CloseShape DEF ClientStep, Shape

\* Every step has one of the shapes.
LEMMA StepShape ==
    ASSUME TypeOK, PlaceInv, StepsInv, [Next]_vars
    PROVE  Shape
<1>1. CASE ServerStep
  BY <1>1 DEF ServerStep, serverGreets, serverAnswers, serverReadsBody,
     serverAuthenticates, serverCloses, atRest, Shape, Stays
<1>2. CASE UNCHANGED vars
  BY <1>2 DEF vars, Shape, Stays
<1>3. CASE handshake
  BY <1>3, ClientShape DEF handshake
<1> QED BY <1>1, <1>2, <1>3, ClientShape DEF Next, Ended

----------------------------------------------------------------------------
(* The invariants of the calls *)

\* What is ahead after a step of each shape.
LEMMA ConnectTodo ==
    ASSUME Connects
    PROVE  /\ Len(todo') = 2 /\ todo' # <<>>
           /\ todo'[1].verb = "greeting" /\ todo'[2].verb = "EHLO"
<1>1. Bare("greeting") \in Steps /\ With("EHLO", "h") \in Steps
  BY StepTypes DEF StepVerbs, Args
<1>2. Bare("greeting").verb = "greeting" /\ With("EHLO", "h").verb = "EHLO"
  BY DEF Bare, With
<1>3. todo' = <<Bare("greeting"), With("EHLO", "h")>>
  BY DEF Connects
<1> HIDE DEF Bare, With
<1> QED BY <1>1, <1>2, <1>3, Singles

\* A replaced step leaves the steps after it alone.
LEMMA ReplaceTodo ==
    ASSUME TypeOK, Replaces
    PROVE  /\ Len(todo') = Len(todo) /\ todo' # <<>> /\ todo # <<>>
           /\ Len(todo) \in Nat \ {0} /\ Head(todo') = todo'[1]
           /\ todo'[1].verb = IF at = "handshake" THEN "EHLO" ELSE "HELO"
           /\ \A i \in 2..Len(todo) : todo'[i] = todo[i]
<1>1. /\ todo # <<>> /\ Len(todo) \in Nat \ {0}
      /\ Tail(todo) \in Seq(Steps) /\ Len(Tail(todo)) = Len(todo) - 1
      /\ \A i \in 1..(Len(todo) - 1) : Tail(todo)[i] = todo[i + 1]
  BY StepType, TypeParts DEF Replaces
<1>2. PICK s \in Steps : /\ s.verb = IF at = "handshake" THEN "EHLO" ELSE "HELO"
                         /\ todo' = <<s>> \o Tail(todo)
  <2>1. With("HELO", "h") \in Steps /\ With("EHLO", "h") \in Steps
    BY StepTypes DEF StepVerbs, Args
  <2>2. With("HELO", "h").verb = "HELO" /\ With("EHLO", "h").verb = "EHLO"
    BY DEF With, Bare
  <2> HIDE DEF With
  <2> QED BY <2>1, <2>2 DEF Replaces
<1> DEFINE t == Tail(todo)
<1>3. todo' = <<s>> \o t /\ t \in Seq(Steps) /\ Len(t) = Len(todo) - 1
  BY <1>1, <1>2
<1>4. \A i \in 1..(Len(todo) - 1) : t[i] = todo[i + 1]
  BY <1>1
<1> HIDE DEF t
<1>5. /\ Len(todo') = 1 + Len(t) /\ todo'[1] = s /\ todo' # <<>>
      /\ todo' \in Seq(Steps)
      /\ \A i \in 2..(1 + Len(t)) : todo'[i] = t[i - 1]
  BY <1>3
<1>6. \A i \in 2..Len(todo) : i - 1 \in 1..(Len(todo) - 1) /\ (i - 1) + 1 = i
  BY <1>1
<1>7. \A i \in 2..Len(todo) : todo'[i] = todo[i]
  BY <1>1, <1>3, <1>4, <1>5, <1>6
<1> QED BY <1>1, <1>2, <1>3, <1>5, <1>7

\* A challenge counts in the AUTH step and changes nothing else of the call.
LEMMA ChallengeTodo ==
    ASSUME TypeOK, Challenged
    PROVE  /\ Len(todo') = Len(todo) /\ todo' # <<>> /\ todo # <<>>
           /\ Len(todo) \in Nat \ {0} /\ Head(todo') = todo'[1]
           /\ todo[1].verb = "AUTH" /\ todo'[1].verb = "AUTH"
           /\ todo'[1].arg = todo[1].arg /\ todo'[1].n = Count(todo[1].n)
           /\ \A i \in 2..Len(todo) : todo'[i] = todo[i]
<1>1. /\ todo # <<>> /\ step \in Steps /\ step = todo[1]
      /\ Len(todo) \in Nat \ {0} /\ step.verb = "AUTH" /\ todo \in Seq(Steps)
  BY StepType, TypeParts DEF Challenged, Doing, step, ControlOK
<1>2. todo' = [todo EXCEPT ![1] = [todo[1] EXCEPT !.n = Count(@)]]
  BY DEF Challenged
<1>3. todo' \in Seq(Steps)
  <2>1. [todo[1] EXCEPT !.n = Count(@)] \in Steps
    BY <1>1 DEF Steps, Count
  <2> QED BY <1>1, <1>2, <2>1, ExceptSeq
<1>4. /\ Len(todo') = Len(todo) /\ todo'[1] = [todo[1] EXCEPT !.n = Count(@)]
      /\ \A i \in 2..Len(todo) : todo'[i] = todo[i]
  BY <1>1, <1>2
<1>5. /\ todo'[1].verb = todo[1].verb /\ todo'[1].arg = todo[1].arg
      /\ todo'[1].n = Count(todo[1].n)
  BY <1>1, <1>4 DEF Steps
<1>6. todo' # <<>> /\ Head(todo') = todo'[1]
  BY <1>1, <1>3, <1>4
<1> QED BY <1>1, <1>4, <1>5, <1>6

\* Advancing drops the first step, or returns nil after the last.
LEMMA AdvanceTodo ==
    ASSUME TypeOK, Advances
    PROVE  /\ todo # <<>> /\ Len(todo) \in Nat \ {0} /\ step = todo[1]
           /\ \/ /\ Len(todo) = 1
                 /\ ReturnAnd(open /\ api # "Close", "nil")
              \/ /\ Len(todo) # 1 /\ at' = "send"
                 /\ UNCHANGED <<api, result, open>>
                 /\ Len(todo') = Len(todo) - 1 /\ todo' # <<>>
                 /\ \A i \in 1..Len(todo') : todo'[i] = todo[i + 1]
<1>1. /\ todo # <<>> /\ Len(todo) \in Nat \ {0} /\ step = todo[1]
      /\ Tail(todo) \in Seq(Steps) /\ Len(Tail(todo)) = Len(todo) - 1
      /\ \A i \in 1..(Len(todo) - 1) : Tail(todo)[i] = todo[i + 1]
  BY StepType, TypeParts DEF Advances
<1>2. CASE Len(todo) = 1
  <2>1. Return("nil")
    BY <1>2 DEF Advances, Advance
  <2>2. (open /\ ~Closes("nil")) = (open /\ api # "Close")
    BY DEF Closes, TypeOK
  <2> QED BY <1>1, <1>2, <2>1, <2>2 DEF Return
<1>3. CASE Len(todo) # 1
  <2>1. todo' = Tail(todo) /\ at' = "send" /\ UNCHANGED <<api, result, open>>
    BY <1>3 DEF Advances, Advance
  <2>2. Len(todo') # 0 /\ Len(<<>>) = 0
    BY <1>1, <1>3, <2>1
  <2>3. todo' # <<>>
    BY <2>2
  <2> QED BY <1>1, <1>3, <2>1, <2>3
<1> QED BY <1>2, <1>3

\* A call that has returned has nothing ahead of it.
LEMMA ReturnedPlace ==
    ASSUME NEW o, NEW err, ReturnAnd(o, err)
    PROVE  PlaceInv' /\ StepsInv' /\ MechInv'
<1>1. at' \in {"idle", "gone"} /\ todo' = <<>> /\ api' = "none"
  BY DEF ReturnAnd
<1>2. Len(todo') = 0
  BY <1>1
<1>3. PlaceInv'
  BY <1>1 DEF PlaceInv, Busy
<1>4. StepsInv' /\ MechInv'
  BY <1>2 DEF StepsInv, MechInv
<1> QED BY <1>3, <1>4

\* PlaceInv is preserved, shape by shape.
LEMMA PlaceStep ==
    ASSUME TypeOK, PlaceInv, Shape
    PROVE  PlaceInv'
<1>1. CASE Stays
  <2>1. UNCHANGED <<at, api, todo, result>>
    BY <1>1 DEF Stays, control
  <2> QED BY <2>1 DEF PlaceInv, Busy, Doing
<1>2. CASE Connects
  BY <1>2, ConnectTodo DEF Connects, PlaceInv, Busy, Constructors
<1>3. CASE Begins
  BY <1>3 DEF Begins, PlaceInv, Busy
<1>4. CASE Goes
  <2>1. UNCHANGED <<api, todo, result>> /\ Busy /\ Busy'
    BY <1>4 DEF Goes, Busy
  <2>2. \A v : Doing(v)' <=> Doing(v)
    BY <2>1 DEF Doing
  <2>3. /\ at' \in {"body", "final"} => Doing("DATA")
        /\ at' = "handshake" => Doing("STARTTLS")
        /\ at' \in {"respond", "cancel"} => Doing("AUTH")
    BY <1>4 DEF Goes, PlaceInv
  <2> QED BY <2>1, <2>2, <2>3 DEF PlaceInv
<1>5. CASE Challenged
  <2>1. at' = "respond" /\ UNCHANGED <<api, result>> /\ Busy /\ Busy'
    BY <1>5 DEF Challenged, Busy
  <2>2. todo # <<>> /\ todo' # <<>> /\ Doing("AUTH")'
    BY <1>5, ChallengeTodo DEF Doing
  <2> QED BY <2>1, <2>2 DEF PlaceInv
<1>6. CASE Advances
  <2>1. CASE ReturnAnd(open /\ api # "Close", "nil")
    BY <2>1, ReturnedPlace
  <2>2. CASE at' = "send" /\ UNCHANGED <<api, result, open>> /\ todo' # <<>>
    <3>1. Busy /\ Busy'
      BY <1>6, <2>2 DEF Advances, Busy
    <3> QED BY <2>2, <3>1 DEF PlaceInv
  <2> QED BY <1>6, <2>1, <2>2, AdvanceTodo
<1>7. CASE Replaces
  <2>1. at' = "send" /\ UNCHANGED <<api, result>> /\ Busy /\ Busy'
    BY <1>7 DEF Replaces, Busy
  <2>2. todo' # <<>>
    BY <1>7, ReplaceTodo
  <2> QED BY <2>1, <2>2 DEF PlaceInv
<1>8. CASE Returns
  BY <1>8, ReturnedPlace DEF Returns
<1> QED BY <1>1, <1>2, <1>3, <1>4, <1>5, <1>6, <1>7, <1>8 DEF Shape

\* StepsInv is preserved, shape by shape.
LEMMA StepsStep ==
    ASSUME TypeOK, PlaceInv, StepsInv, Shape
    PROVE  StepsInv'
<1>1. /\ StepsInv <=> \A i \in 1..Len(todo) : StepOK(i)
      /\ StepsInv' <=> \A i \in 1..Len(todo') : StepOK(i)'
  BY DEF StepsInv
<1>2. CASE Stays \/ Goes
  <2>1. UNCHANGED <<api, todo, tls>>
    BY <1>2 DEF Stays, Goes, control, fields
  <2> QED BY <2>1 DEF StepsInv, StepOK
<1>3. CASE Connects
  <2>1. /\ Len(todo') = 2 /\ todo'[1].verb = "greeting" /\ todo'[2].verb = "EHLO"
        /\ api' \in Constructors
    BY <1>3, ConnectTodo DEF Connects
  <2>2. StepOK(1)' /\ StepOK(2)'
    BY <2>1 DEF StepOK, Constructors
  <2>3. \A i \in 1..Len(todo') : i = 1 \/ i = 2
    BY <2>1
  <2> QED BY <1>1, <2>2, <2>3
<1>4. CASE Begins
  <2>1. CASE /\ api' \in {"Mail", "Rcpt", "Data", "Bdat", "Reset", "Noop", "SendMail"}
             /\ \A i \in 1..Len(todo') : /\ todo'[i].verb \in Mailing
                                         /\ api' = "Reset" => todo'[i].verb = "RSET"
    <3>1. \A i \in 1..Len(todo') : StepOK(i)'
      BY <2>1 DEF StepOK, Mailing, Constructors
    <3> QED BY <1>1, <3>1
  <2>2. ASSUME NEW v \in {"STARTTLS", "QUIT"}, todo' = <<Bare(v)>>,
               IF v = "STARTTLS" THEN api' = "StartTLS" ELSE api' = "Close"
        PROVE  StepsInv'
    <3>1. Bare(v).verb = v
      BY DEF Bare
    <3> HIDE DEF Bare
    <3>2. Len(todo') = 1 /\ todo'[1].verb = v
      BY <2>2, <3>1
    <3>3. StepOK(1)'
      BY <2>2, <3>2 DEF StepOK, Constructors
    <3> QED BY <1>1, <3>2, <3>3
  <2>3. ASSUME NEW m \in Mechanisms, NEW k \in {0, 1},
               api' \in {"Auth", "SubmitMessage"},
               Len(todo') > k, todo'[k + 1] = AuthStep(m),
               k = 1 => todo'[1] = Bare("STARTTLS"),
               \A i \in (k + 2)..Len(todo') : todo'[i].verb \in Mailing
        PROVE  StepsInv'
    <3>1. Bare("STARTTLS").verb = "STARTTLS" /\ AuthStep(m).verb = "AUTH"
      BY DEF Bare, AuthStep, With
    <3> HIDE DEF Bare, AuthStep
    <3>2. ASSUME NEW i \in 1..Len(todo') PROVE StepOK(i)'
      <4>1. CASE i = k + 1
        BY <2>3, <3>1, <4>1 DEF StepOK, Constructors
      <4>2. CASE k = 1 /\ i = 1
        BY <2>3, <3>1, <4>2 DEF StepOK, Constructors
      <4>3. CASE i \in (k + 2)..Len(todo')
        BY <2>3, <4>3 DEF StepOK, Constructors, Mailing
      <4>4. i = k + 1 \/ (k = 1 /\ i = 1) \/ i \in (k + 2)..Len(todo')
        OBVIOUS
      <4> QED BY <4>1, <4>2, <4>3, <4>4
    <3> QED BY <1>1, <3>2
  <2> QED BY <1>4, <2>1, <2>2, <2>3 DEF Begins
<1>5. CASE Challenged
  <2>1. ASSUME NEW i \in 1..Len(todo') PROVE StepOK(i)'
    <3>1. StepOK(i) /\ UNCHANGED <<api, tls>>
      BY <1>1, <1>5, ChallengeTodo DEF Challenged, fields
    <3>2. i \in 1..Len(todo) /\ Len(todo) \in Nat
      BY <1>5, ChallengeTodo
    <3>3. todo'[i].verb = todo[i].verb /\ todo'[1].verb = todo[1].verb
      BY <1>5, <3>2, ChallengeTodo
    <3> QED BY <3>1, <3>3 DEF StepOK
  <2> QED BY <1>1, <2>1
<1>6. CASE Advances
  <2>1. CASE ReturnAnd(open /\ api # "Close", "nil")
    BY <2>1, ReturnedPlace
  <2>2. CASE /\ Len(todo') = Len(todo) - 1 /\ api' = api
             /\ \A i \in 1..Len(todo') : todo'[i] = todo[i + 1]
    <3>1. ASSUME NEW i \in 1..Len(todo') PROVE StepOK(i)'
      <4>1. Len(todo) \in Nat
        BY <1>6, AdvanceTodo
      <4>2. i + 1 \in 1..Len(todo) /\ i + 1 # 1
        BY <2>2, <4>1
      <4>3. StepOK(i + 1) /\ UNCHANGED <<api, tls>> /\ todo'[i] = todo[i + 1]
        BY <1>1, <1>6, <2>2, <4>2 DEF Advances
      <4>4. todo[i + 1].verb = "AUTH" => i = 1
        BY <4>2, <4>3 DEF StepOK
      <4> QED BY <4>2, <4>3, <4>4 DEF StepOK
    <3> QED BY <1>1, <3>1
  <2> QED BY <1>6, <2>1, <2>2, AdvanceTodo
<1>7. CASE Replaces
  <2>1. ASSUME NEW i \in 1..Len(todo') PROVE StepOK(i)'
    <3>1. Len(todo') = Len(todo) /\ Len(todo) \in Nat \ {0} /\ api' = api
      BY <1>7, ReplaceTodo DEF Replaces
    <3>2. StepOK(i) /\ StepOK(1) /\ 1 \in 1..Len(todo)
      BY <1>1, <3>1
    <3>3. step = todo[1]
      BY <1>7, StepType, TypeParts DEF Replaces
    <3>4. \/ tls' = TRUE /\ todo[1].verb = "STARTTLS" /\ todo'[1].verb = "EHLO"
          \/ tls' = tls /\ todo[1].verb = "EHLO" /\ todo'[1].verb = "HELO"
      BY <1>7, <3>3, ReplaceTodo DEF Replaces, PlaceInv, Doing, step
    <3>5. i # 1 => todo'[i] = todo[i]
      BY <1>7, <3>1, ReplaceTodo
    <3>6. CASE i = 1
      BY <3>1, <3>2, <3>4, <3>6 DEF StepOK, Constructors
    <3>7. CASE i # 1
      BY <3>1, <3>2, <3>4, <3>5, <3>7 DEF StepOK, Constructors
    <3> QED BY <3>6, <3>7
  <2> QED BY <1>1, <2>1
<1>8. CASE Returns
  BY <1>8, ReturnedPlace DEF Returns
<1> QED BY <1>2, <1>3, <1>4, <1>5, <1>6, <1>7, <1>8 DEF Shape

\* MechInv is preserved, shape by shape.
LEMMA MechStep ==
    ASSUME TypeOK, PlaceInv, StepsInv, MechInv, Shape
    PROVE  MechInv'
<1>1. /\ MechInv <=> \A i \in 1..Len(todo) : MechOK(i)
      /\ MechInv' <=> \A i \in 1..Len(todo') : MechOK(i)'
      /\ todo \in Seq(Steps) /\ mech \in [step: 0..2, used: BOOLEAN]
  BY DEF MechInv, TypeOK
<1>2. \A i \in 1..Len(todo) : todo[i].n \in Nat
  <2>1. \A i \in 1..Len(todo) : todo[i] \in Steps
    BY <1>1
  <2> QED BY <2>1 DEF Steps
<1>3. ASSUME mech' = mech, \A i \in 1..Len(todo') : todo'[i].verb # "AUTH"
      PROVE  MechInv'
  BY <1>1, <1>3 DEF MechOK
<1>4. CASE Stays
  <2>1. UNCHANGED <<at, todo, mech>>
    BY <1>4 DEF Stays, control
  <2> QED BY <2>1 DEF MechInv, MechOK
<1>5. CASE Connects
  <2>1. Len(todo') = 2 /\ todo'[1].verb = "greeting" /\ todo'[2].verb = "EHLO"
    BY <1>5, ConnectTodo
  <2>2. \A i \in 1..Len(todo') : todo'[i].verb # "AUTH"
    BY <2>1
  <2> QED BY <1>3, <1>5, <2>2 DEF Connects
<1>6. CASE Begins
  <2>1. CASE /\ \A i \in 1..Len(todo') : todo'[i].verb \in Mailing
             /\ mech' = mech
    BY <1>3, <2>1 DEF Mailing
  <2>2. ASSUME NEW v \in {"STARTTLS", "QUIT"}, todo' = <<Bare(v)>>, mech' = mech
        PROVE  MechInv'
    <3>1. Bare(v).verb = v
      BY DEF Bare
    <3> HIDE DEF Bare
    <3>2. \A i \in 1..Len(todo') : todo'[i].verb # "AUTH"
      BY <2>2, <3>1
    <3> QED BY <1>3, <2>2, <3>2
  <2>3. ASSUME NEW m \in Mechanisms, NEW k \in {0, 1}, UseMechanism(m),
               Len(todo') > k, todo'[k + 1] = AuthStep(m),
               k = 1 => todo'[1] = Bare("STARTTLS"),
               \A i \in (k + 2)..Len(todo') : todo'[i].verb \in Mailing
        PROVE  MechInv'
    <3>1. /\ Bare("STARTTLS").verb = "STARTTLS" /\ AuthStep(m).n = 0
          /\ AuthStep(m).arg = m
      BY DEF Bare, AuthStep, With
    <3>2. m = "LOGIN" /\ ~mech'.used => mech'.step = 0
      <4>1. CASE m = "LOGIN"
        <5>1. \/ mech' = [step |-> 0, used |-> FALSE]
              \/ mech' = [mech EXCEPT !.used = mech.step > 0]
          BY <2>3, <4>1 DEF UseMechanism
        <5>2. CASE mech' = [step |-> 0, used |-> FALSE]
          BY <5>2
        <5>3. CASE mech' = [mech EXCEPT !.used = mech.step > 0]
          <6>1. mech'.step = mech.step /\ mech'.used = (mech.step > 0)
            BY <1>1, <5>3
          <6>2. ~mech'.used => ~(mech.step > 0)
            BY <6>1, Zenon
          <6>3. mech.step \in 0..2
            BY <1>1
          <6> QED BY <6>1, <6>2, <6>3
        <5> QED BY <5>1, <5>2, <5>3
      <4> QED BY <4>1
    <3> HIDE DEF Bare, AuthStep
    <3>3. at' = "send"
      BY <1>6 DEF Begins
    <3>4. ASSUME NEW i \in 1..Len(todo') PROVE MechOK(i)'
      <4>1. CASE i = k + 1
        BY <2>3, <3>1, <3>2, <3>3, <4>1 DEF MechOK
      <4>2. CASE k = 1 /\ i = 1
        BY <2>3, <3>1, <4>2 DEF MechOK
      <4>3. CASE i \in (k + 2)..Len(todo')
        BY <2>3, <4>3 DEF MechOK, Mailing
      <4>4. i = k + 1 \/ (k = 1 /\ i = 1) \/ i \in (k + 2)..Len(todo')
        OBVIOUS
      <4> QED BY <4>1, <4>2, <4>3, <4>4
    <3> QED BY <1>1, <3>4
  <2> QED BY <1>6, <2>1, <2>2, <2>3 DEF Begins
<1>7. CASE Goes
  <2>1. todo' = todo
    BY <1>7 DEF Goes
  <2>2. CASE at \notin {"respond", "cancel"} /\ at' \notin {"respond", "cancel"}
             /\ at' # "send" /\ mech' = mech
    <3>1. \A i \in 1..Len(todo) : MechOK(i) => MechOK(i)'
      BY <2>1, <2>2 DEF MechOK
    <3> QED BY <1>1, <2>1, <3>1
  <2>3. CASE at = "respond" /\ at' = "cancel" /\ mech' = mech
    <3>1. \A i \in 1..Len(todo) : MechOK(i) => MechOK(i)'
      BY <2>1, <2>3 DEF MechOK
    <3> QED BY <1>1, <2>1, <3>1
  <2>4. CASE at = "respond" /\ at' = "reply" /\ LoginNext
    <3>1. todo # <<>> /\ step = todo[1] /\ todo[1].verb = "AUTH"
      BY <2>4, StepType, TypeParts DEF PlaceInv, Doing, step
    <3>2. 1 \in 1..Len(todo)
      BY <1>1, <3>1
    <3>3. ASSUME NEW i \in 1..Len(todo), todo[i].verb = "AUTH" PROVE i = 1
      BY <3>1, <3>3 DEF StepsInv, StepOK
    <3>4. MechOK(1)'
      <4>1. MechOK(1) /\ todo[1].n \in Nat /\ mech.step \in 0..2
        BY <1>1, <1>2, <3>2
      <4>2. CASE todo[1].arg = "LOGIN"
        <5>1. mech' = [mech EXCEPT !.step = @ + 1]
          BY <2>4, <3>1, <4>2 DEF LoginNext
        <5>2. mech'.step = mech.step + 1 /\ mech'.used = mech.used
          BY <1>1, <5>1
        <5>3. ~mech.used => mech.step = todo[1].n - 1
          BY <2>4, <3>1, <4>1, <4>2 DEF MechOK
        <5>4. ~mech.used => mech'.step = todo[1].n
          BY <4>1, <5>2, <5>3
        <5> QED BY <2>1, <2>4, <5>2, <5>4 DEF MechOK
      <4>3. CASE todo[1].arg # "LOGIN"
        BY <2>1, <2>4, <4>3 DEF MechOK
      <4> QED BY <4>2, <4>3
    <3>5. \A i \in 1..Len(todo) : i # 1 => MechOK(i)'
      BY <2>1, <3>3 DEF MechOK
    <3> QED BY <1>1, <2>1, <3>4, <3>5
  <2> QED BY <1>7, <2>2, <2>3, <2>4 DEF Goes
<1>8. CASE Challenged
  <2>1. /\ Len(todo') = Len(todo) /\ Len(todo) \in Nat \ {0}
        /\ todo[1].verb = "AUTH" /\ todo'[1].arg = todo[1].arg
        /\ todo'[1].n = Count(todo[1].n)
        /\ \A i \in 2..Len(todo) : todo'[i] = todo[i]
    BY <1>8, ChallengeTodo
  <2>2. at = "reply" /\ at' = "respond" /\ mech' = mech
    BY <1>8 DEF Challenged
  <2>3. MechOK(1)'
    <3>1. MechOK(1) /\ todo[1].n \in Nat /\ mech.step \in 0..2
      BY <1>1, <1>2, <2>1
    <3>2. todo[1].arg = "LOGIN" /\ ~mech.used => mech.step = todo[1].n
      BY <2>1, <2>2, <3>1 DEF MechOK
    <3>3. todo[1].n <= 2 => Count(todo[1].n) = todo[1].n + 1
      BY <3>1 DEF Count, MaxChallenges
    <3>4. todo[1].arg = "LOGIN" /\ ~mech.used => mech.step = todo'[1].n - 1
      BY <2>1, <3>1, <3>2, <3>3
    <3> QED BY <2>1, <2>2, <3>4 DEF MechOK
  <2>4. ASSUME NEW i \in 2..Len(todo) PROVE MechOK(i)'
    <3>1. i \in 1..Len(todo) /\ i # 1
      BY <2>1
    <3>2. todo[i].verb # "AUTH"
      BY <2>1, <3>1 DEF StepsInv, StepOK
    <3> QED BY <2>1, <3>2 DEF MechOK
  <2>5. \A i \in 1..Len(todo') : i = 1 \/ i \in 2..Len(todo)
    BY <2>1
  <2> QED BY <1>1, <2>3, <2>4, <2>5
<1>9. CASE Advances
  <2>1. CASE ReturnAnd(open /\ api # "Close", "nil")
    BY <2>1, ReturnedPlace
  <2>2. CASE /\ Len(todo') = Len(todo) - 1 /\ at' = "send"
             /\ \A i \in 1..Len(todo') : todo'[i] = todo[i + 1]
    <3>1. ASSUME NEW i \in 1..Len(todo') PROVE MechOK(i)'
      <4>1. Len(todo) \in Nat
        BY <1>1
      <4>2. i + 1 \in 1..Len(todo) /\ i + 1 # 1
        BY <2>2, <4>1
      <4>3. MechOK(i + 1) /\ todo'[i] = todo[i + 1] /\ mech' = mech
        BY <1>1, <1>9, <2>2, <4>2 DEF Advances
      <4>4. todo[i + 1].verb = "AUTH" => i + 1 = 2
        BY <4>2 DEF StepsInv, StepOK
      <4> QED BY <2>2, <4>2, <4>3, <4>4 DEF MechOK
    <3> QED BY <1>1, <3>1
  <2> QED BY <1>9, <2>1, <2>2, AdvanceTodo
<1>10. CASE Replaces
  <2>1. /\ Len(todo') = Len(todo) /\ todo'[1].verb # "AUTH" /\ Len(todo) \in Nat
        /\ \A i \in 2..Len(todo) : todo'[i] = todo[i]
    BY <1>10, ReplaceTodo
  <2>2. mech' = mech
    BY <1>10 DEF Replaces
  <2>3. ASSUME NEW i \in 1..Len(todo') PROVE MechOK(i)'
    <3>1. CASE i = 1
      BY <2>1, <3>1 DEF MechOK
    <3>2. CASE i # 1
      <4>1. todo'[i] = todo[i] /\ MechOK(i)
        BY <1>1, <2>1, <3>2
      <4>2. todo[i].verb = "AUTH" => i = 2
        BY <2>1, <3>2 DEF StepsInv, StepOK
      <4> QED BY <2>2, <3>2, <4>1, <4>2 DEF MechOK
    <3> QED BY <3>1, <3>2
  <2> QED BY <1>1, <2>3
<1>11. CASE Returns
  BY <1>11, ReturnedPlace DEF Returns
<1> QED BY <1>4, <1>5, <1>6, <1>7, <1>8, <1>9, <1>10, <1>11 DEF Shape

\* What StartTLS reports.
LEMMA RefreshStep ==
    ASSUME TypeOK, PlaceInv, StepsInv, RefreshedByTLS, Shape
    PROVE  RefreshedByTLS'
<1>1. CASE Stays \/ Goes \/ Connects
  <2>1. UNCHANGED <<result, fields>>
    BY <1>1 DEF Stays, Goes, Connects, control
  <2> QED BY <2>1 DEF RefreshedByTLS, fields
<1>2. CASE Begins
  <2>1. result' = NoResult
    BY <1>2 DEF Begins
  <2> QED BY <2>1 DEF RefreshedByTLS, NoResult
<1>3. CASE Challenged \/ Replaces
  <2>1. result' = NoResult
    BY <1>3 DEF Challenged, Replaces, PlaceInv, Busy
  <2> QED BY <2>1 DEF RefreshedByTLS, NoResult
<1>4. CASE Advances
  <2>1. CASE Len(todo) = 1 /\ ReturnAnd(open /\ api # "Close", "nil")
    <3>1. SUFFICES ASSUME api = "StartTLS" PROVE tls' /\ extsTls'
      BY <2>1 DEF RefreshedByTLS, ReturnAnd
    <3>2. 1 \in 1..Len(todo) /\ step = todo[1]
      BY <1>4, <2>1, AdvanceTodo
    <3>3. todo[1].verb \in {"EHLO", "HELO"} /\ tls
      BY <1>4, <3>1, <3>2 DEF StepsInv, StepOK, Advances, Constructors
    <3> QED BY <1>4, <3>2, <3>3 DEF Advances
  <2>2. CASE UNCHANGED result
    <3>1. result = NoResult
      BY <1>4 DEF Advances, PlaceInv, Busy
    <3> QED BY <2>2, <3>1 DEF RefreshedByTLS, NoResult
  <2> QED BY <1>4, <2>1, <2>2, AdvanceTodo
<1>5. CASE Returns
  <2>1. PICK o \in BOOLEAN, err \in Errs :
            ReturnAnd(o, err) /\ (err = "nil" => api = "Close")
    BY <1>5 DEF Returns
  <2>2. result' = [api |-> api, err |-> err]
    BY <2>1 DEF ReturnAnd
  <2> QED BY <2>1, <2>2 DEF RefreshedByTLS
<1> QED BY <1>1, <1>2, <1>3, <1>4, <1>5 DEF Shape

\* SubmitMessage never goes on in plaintext where it could have upgraded.
LEMMA SubmitStep ==
    ASSUME TypeOK, TypeOK', PlaceInv, StepsInv, SubmitUpgrades, Shape
    PROVE  SubmitUpgrades'
<1>1. ASSUME UNCHANGED fields PROVE UpgradeFirst' = UpgradeFirst
  BY <1>1 DEF UpgradeFirst, fields
<1>2. CASE Stays \/ Goes
  <2>1. UNCHANGED <<api, todo, fields>>
    BY <1>2 DEF Stays, Goes, control
  <2> QED BY <1>1, <2>1 DEF SubmitUpgrades, Doing, fields
<1>3. CASE Connects \/ Returns
  BY <1>3 DEF Connects, Constructors, Returns, ReturnAnd, SubmitUpgrades
<1>4. CASE Begins
  <2>1. SUFFICES ASSUME api' = "SubmitMessage", ~Doing("STARTTLS")'
                 PROVE  UpgradeFirst = <<>>
    BY <1>1, <1>4 DEF SubmitUpgrades, Begins
  <2>2. PICK k \in {0, 1} : /\ k = 1 => todo'[1] = Bare("STARTTLS")
                            /\ k = Len(UpgradeFirst) /\ Len(todo') > k
    BY <1>4, <2>1 DEF Begins
  <2>3. k = 0
    <3>1. SUFFICES ASSUME k = 1 PROVE FALSE
      OBVIOUS
    <3>2. todo' # <<>> /\ todo'[1].verb = "STARTTLS"
      BY <1>4, <2>2, <3>1 DEF Begins, Bare
    <3>3. Head(todo') = todo'[1]
      <4>1. todo' \in Seq(Steps)
        BY DEF TypeOK
      <4> QED BY <3>2, <4>1
    <3> QED BY <2>1, <3>2, <3>3 DEF Doing
  <2> QED BY <2>2, <2>3 DEF UpgradeFirst
<1>5. CASE Challenged
  <2>1. SUFFICES ASSUME api = "SubmitMessage", ~tls PROVE UpgradeFirst' = <<>>
    BY <1>5 DEF SubmitUpgrades, Challenged, fields
  <2>2. ~Doing("STARTTLS") /\ UNCHANGED fields
    BY <1>5 DEF Challenged, Doing
  <2> QED BY <1>1, <2>1, <2>2 DEF SubmitUpgrades
<1>6. CASE Advances
  <2>1. SUFFICES ASSUME api' = "SubmitMessage", ~tls PROVE UpgradeFirst' = <<>>
    BY <1>6 DEF SubmitUpgrades, Advances
  <2>2. api = "SubmitMessage"
    BY <1>6, <2>1, AdvanceTodo DEF ReturnAnd
  <2>3. 1 \in 1..Len(todo) /\ step = todo[1]
    BY <1>6, AdvanceTodo
  <2>4. step.verb \notin {"EHLO", "HELO", "STARTTLS"}
    BY <1>6, <2>1, <2>2, <2>3 DEF StepsInv, StepOK, Constructors, Advances
  <2>5. UNCHANGED fields /\ ~Doing("STARTTLS")
    BY <1>6, <2>4 DEF Advances, fields, Doing, step
  <2> QED BY <1>1, <2>1, <2>2, <2>5 DEF SubmitUpgrades
<1>7. CASE Replaces
  <2>1. SUFFICES ASSUME api = "SubmitMessage", ~tls' PROVE UpgradeFirst' = <<>>
    BY <1>7 DEF SubmitUpgrades, Replaces
  <2>2. step.verb = "EHLO" /\ tls' = tls
    BY <1>7, <2>1 DEF Replaces
  <2>3. ~Doing("STARTTLS") /\ UNCHANGED fields
    BY <1>7, <2>2 DEF Replaces, Doing, step, fields
  <2> QED BY <1>1, <2>1, <2>2, <2>3 DEF SubmitUpgrades
<1> QED BY <1>2, <1>3, <1>4, <1>5, <1>6, <1>7 DEF Shape

\* No connection is left behind.
LEMMA ReleaseStep ==
    ASSUME TypeOK, PlaceInv, StepsInv, ConnectionReleased, Shape
    PROVE  ConnectionReleased'
<1>1. CASE Stays
  BY <1>1 DEF Stays, control, ConnectionReleased
<1>2. CASE Connects \/ Begins \/ Goes \/ Challenged \/ Replaces
  <2>1. at' # "gone"
    BY <1>2 DEF Connects, Begins, Goes, Challenged, Replaces
  <2> QED BY <2>1 DEF ConnectionReleased
<1>3. CASE Advances
  <2>1. CASE ReturnAnd(open /\ api # "Close", "nil")
    BY <2>1 DEF ReturnAnd, ConnectionReleased
  <2>2. CASE at' = "send"
    BY <2>2 DEF ConnectionReleased
  <2> QED BY <1>3, <2>1, <2>2, AdvanceTodo
<1>4. CASE Returns
  <2>1. PICK o \in BOOLEAN, err \in Errs :
            ReturnAnd(o, err) /\ (api \in {"Close", "Dial"} => ~o)
    BY <1>4 DEF Returns
  <2>2. result'.api = api /\ open' = o
    BY <2>1 DEF ReturnAnd
  <2>3. at' = "gone" => api \in {"Close", "Dial", "NewClient"}
    BY <2>1 DEF ReturnAnd
  <2> QED BY <2>1, <2>2, <2>3 DEF ConnectionReleased
<1> QED BY <1>1, <1>2, <1>3, <1>4 DEF Shape

\* The inductive invariant of the calls.
CallInv == /\ TypeOK /\ PlaceInv /\ StepsInv /\ MechInv
           /\ RefreshedByTLS /\ SubmitUpgrades /\ ConnectionReleased

\* The inductive invariant holds before the client connects.
LEMMA InitCallInv == Init => CallInv
<1> SUFFICES ASSUME Init PROVE CallInv
  OBVIOUS
<1>1. Len(todo) = 0
  BY DEF Init
<1>2. ControlOK
  BY DEF Init, ControlOK, Places, Names, NoResult, Errs
<1>3. StreamsOK /\ RestOK
  <2>1. [step |-> 0, used |-> FALSE] \in [step: 0..2, used: BOOLEAN]
    OBVIOUS
  <2>2. rbuf \in Seq(Queued) /\ wire \in Seq(ReplyLines)
    BY DEF Init
  <2> QED BY <2>1, <2>2 DEF Init, StreamsOK, RestOK, ServerPlaces
<1>4. TypeOK
  BY <1>2, <1>3, TypeParts
<1>5. PlaceInv /\ StepsInv /\ MechInv
  BY <1>1 DEF Init, PlaceInv, Busy, StepsInv, MechInv
<1>6. RefreshedByTLS /\ SubmitUpgrades /\ ConnectionReleased
  BY DEF Init, RefreshedByTLS, SubmitUpgrades, ConnectionReleased, NoResult
<1> QED BY <1>4, <1>5, <1>6 DEF CallInv

\* The shape of a step is all that matters to a call.
LEMMA CallInvShape ==
    ASSUME CallInv, Shape, TypeOK'
    PROVE  CallInv'
<1>1. /\ TypeOK /\ PlaceInv /\ StepsInv /\ MechInv
      /\ RefreshedByTLS /\ SubmitUpgrades /\ ConnectionReleased
  BY DEF CallInv
<1>2. PlaceInv' /\ StepsInv' /\ MechInv'
  BY <1>1, PlaceStep, StepsStep, MechStep
<1>3. RefreshedByTLS' /\ SubmitUpgrades' /\ ConnectionReleased'
  BY <1>1, RefreshStep, SubmitStep, ReleaseStep
<1> QED BY <1>2, <1>3 DEF CallInv

\* Every step preserves the inductive invariant.
LEMMA CallInvStep == CallInv /\ [Next]_vars => CallInv'
<1> SUFFICES ASSUME CallInv, [Next]_vars PROVE CallInv'
  OBVIOUS
<1>1. TypeOK /\ PlaceInv /\ StepsInv
  BY DEF CallInv
<1>2. Shape /\ TypeOK'
  BY <1>1, StepShape, TypeStep
<1> QED BY <1>2, CallInvShape

\* Along every behaviour, whatever the server does.
LEMMA CallSafety == Spec => []CallInv
  BY InitCallInv, CallInvStep, PTL DEF Spec

----------------------------------------------------------------------------
(* What may deliver a message *)

\* The commands a message is delivered on.
Delivers(s) == s.verb = "DATA" \/ (s.verb = "BDAT" /\ s.opt = "LAST")

\* A call has at most one of them ahead, its last step.
DeliversLast == \A i \in 1..Len(todo) : Delivers(todo[i]) => i = Len(todo)

\* It has not been sent.
Ahead == \E i \in 1..Len(todo) : Delivers(todo[i]) /\ (i > 1 \/ at = "send")

\* A call of one step.
LEMMA OneStepLast ==
    ASSUME NEW s, todo' = <<s>>
    PROVE  DeliversLast'
<1>1. Len(todo') = 1
  OBVIOUS
<1> QED BY <1>1 DEF DeliversLast

\* The calls of the application.
LEMMA BeginsLast ==
    ASSUME TypeOK, ClientStep \/ Expire, Begins
    PROVE  DeliversLast'
<1>1. at = "idle" /\ at' = "send"
  BY DEF Begins
<1>2. CASE SendMail
  <2>1. PICK f \in From, to \in To, b \in MessageReaders :
            Call("SendMail", SendSteps(f, to, b))
    BY <1>2 DEF SendMail
  <2>2. todo' = SendSteps(f, to, b)
    BY <2>1 DEF Call, Begin
  <2>3. \A i \in 1..Len(todo') : todo'[i].verb \in {"MAIL", "RCPT", "DATA"}
                                 /\ (todo'[i].verb = "DATA" => i = Len(todo'))
    BY <2>2, SendStepsType
  <2> QED BY <2>3 DEF DeliversLast, Delivers
<1>3. CASE SubmitMessage
  <2>1. PICK m \in Mechanisms, f \in From, to \in To, b \in MessageReaders :
          Begin("SubmitMessage",
                UpgradeFirst \o <<AuthStep(m)>> \o SendSteps(f, to, b))
    BY <1>3 DEF SubmitMessage
  <2>2. todo' = UpgradeFirst \o <<AuthStep(m)>> \o SendSteps(f, to, b)
    BY <2>1 DEF Begin
  <2>3. Submits(todo', m)
    BY <2>2, SubmitSteps, ZenonT(30)
  <2>4. Bare("STARTTLS").verb = "STARTTLS" /\ AuthStep(m).verb = "AUTH"
    BY DEF Bare, AuthStep, With
  <2> HIDE DEF Bare, AuthStep
  <2>5. ASSUME NEW i \in 1..Len(todo'), Delivers(todo'[i])
        PROVE  i = Len(todo')
    <3> DEFINE u == Len(UpgradeFirst)
    <3>1. /\ u \in {0, 1} /\ Len(todo') > u /\ todo'[u + 1] = AuthStep(m)
          /\ u = 1 => todo'[1] = Bare("STARTTLS")
          /\ \A k \in (u + 2)..Len(todo') :
                /\ todo'[k].verb \in {"MAIL", "RCPT", "DATA"}
                /\ todo'[k].verb = "DATA" => k = Len(todo')
      BY <2>3 DEF Submits
    <3> HIDE DEF u
    <3>2. i # u + 1 /\ (u = 1 => i # 1)
      BY <2>4, <2>5, <3>1 DEF Delivers
    <3>3. i \in (u + 2)..Len(todo')
      BY <3>1, <3>2
    <3> QED BY <2>5, <3>1, <3>3 DEF Delivers
  <2> QED BY <2>5 DEF DeliversLast
<1>4. CASE ~SendMail /\ ~SubmitMessage
  <2>1. \E s : todo' = <<s>>
    BY <1>1, <1>4 DEF ClientStep, Dial, NewClient, Connect, greeting, ehlo,
       Request, ehloReply, heloReply, Mail, Rcpt, Data, Bdat, Reset, Noop, Call,
       Begin, Exchange, Expect, dataReply, sendBody, bodyWriteError, StartTLS,
       startTLSReply, Auth, authReply, respond, respondError, authCancelled,
       Close, writeError, readError, malformedReply, Expire, control
  <2> QED BY <2>1, OneStepLast
<1> QED BY <1>2, <1>3, <1>4

\* A step of any other shape has nothing more ahead.
LEMMA AheadStep ==
    ASSUME TypeOK, PlaceInv, DeliversLast, Shape, Begins => DeliversLast'
    PROVE  DeliversLast' /\ (Ahead' => Ahead \/ Begins)
<1>1. Len(todo) \in Nat
  BY DEF TypeOK
<1>2. CASE Stays \/ Goes
  <2>1. todo' = todo /\ (at' = "send" => at = "send")
    BY <1>2 DEF Stays, Goes, control
  <2> QED BY <2>1 DEF DeliversLast, Ahead
<1>3. CASE Connects
  <2>1. Len(todo') = 2 /\ todo'[1].verb = "greeting" /\ todo'[2].verb = "EHLO"
    BY <1>3, ConnectTodo
  <2>2. \A i \in 1..Len(todo') : i = 1 \/ i = 2
    BY <2>1
  <2>3. \A i \in 1..Len(todo') : ~Delivers(todo'[i])
    BY <2>1, <2>2 DEF Delivers
  <2> QED BY <2>3 DEF DeliversLast, Ahead
<1>4. CASE Challenged
  <2>1. /\ Len(todo') = Len(todo) /\ todo'[1].verb = "AUTH"
        /\ \A i \in 2..Len(todo) : todo'[i] = todo[i]
    BY <1>4, ChallengeTodo
  <2>2. \A i \in 1..Len(todo) : i = 1 \/ i \in 2..Len(todo)
    BY <1>1
  <2>3. \A i \in 1..Len(todo') : Delivers(todo'[i]) =>
            i \in 2..Len(todo) /\ Delivers(todo[i])
    BY <2>1, <2>2 DEF Delivers
  <2>4. \A i \in 2..Len(todo) : i \in 1..Len(todo) /\ i > 1
    BY <1>1
  <2> QED BY <2>1, <2>3, <2>4 DEF DeliversLast, Ahead
<1>5. CASE Replaces
  <2>1. /\ Len(todo') = Len(todo) /\ todo'[1].verb \in {"EHLO", "HELO"}
        /\ \A i \in 2..Len(todo) : todo'[i] = todo[i]
    BY <1>5, ReplaceTodo
  <2>2. \A i \in 1..Len(todo) : i = 1 \/ i \in 2..Len(todo)
    BY <1>1
  <2>3. \A i \in 1..Len(todo') : Delivers(todo'[i]) =>
            i \in 2..Len(todo) /\ Delivers(todo[i])
    BY <2>1, <2>2 DEF Delivers
  <2>4. \A i \in 2..Len(todo) : i \in 1..Len(todo) /\ i > 1
    BY <1>1
  <2> QED BY <2>1, <2>3, <2>4 DEF DeliversLast, Ahead
<1>6. ASSUME NEW o, NEW err, ReturnAnd(o, err)
      PROVE  DeliversLast' /\ ~Ahead'
  <2>1. Len(todo') = 0
    BY <1>6 DEF ReturnAnd
  <2> QED BY <2>1 DEF DeliversLast, Ahead
<1>7. CASE Advances
  <2>1. CASE /\ Len(todo') = Len(todo) - 1
             /\ \A i \in 1..Len(todo') : todo'[i] = todo[i + 1]
    <3>1. \A i \in 1..Len(todo') : i + 1 \in 1..Len(todo) /\ i + 1 > 1
      BY <1>1, <2>1
    <3>2. \A i \in 1..Len(todo') : Delivers(todo'[i]) => i + 1 = Len(todo)
      BY <2>1, <3>1 DEF DeliversLast
    <3>3. DeliversLast'
      BY <1>1, <2>1, <3>2 DEF DeliversLast
    <3>4. Ahead' => Ahead
      BY <2>1, <3>1 DEF Ahead
    <3> QED BY <3>3, <3>4
  <2> QED BY <1>6, <1>7, <2>1, AdvanceTodo
<1>8. CASE Returns
  BY <1>6, <1>8 DEF Returns
<1> QED BY <1>2, <1>3, <1>4, <1>5, <1>7, <1>8 DEF Shape

\* Only a handshake changes the layer.
LEMMA LayerStays ==
    ASSUME ClientStep \/ Expire
    PROVE  tls' = tls
  BY DEF ClientStep, Dial, NewClient, Connect, greeting, ehlo, Request,
     ehloReply, heloReply, Mail, Rcpt, Data, Bdat, Reset, Noop, Call,
     Begin, Exchange, Expect, dataReply, sendBody, bodyWriteError, StartTLS,
     startTLSReply, Auth, authReply, respond, respondError, authCancelled,
     SubmitMessage, SendMail, Close, writeError, readError, malformedReply,
     Expire, fields

\* What is written: the command of a step, or lines that deliver nothing.
LEMMA WrittenLines ==
    ASSUME TypeOK, PlaceInv, ClientStep \/ Expire
    PROVE  \/ UNCHANGED rbuf
           \/ /\ at = "send" /\ at' = "reply" /\ todo # <<>> /\ todo' = todo
              /\ Write(Sent(step))
           \/ \E ls \in Seq(Steps) :
                 Write(ls) /\ \A i \in 1..Len(ls) : ~Delivers(ls[i])
<1>1. CASE \E v : Request(v)
  BY <1>1 DEF Request, Doing
<1>2. ~Delivers(Bare("TEXT")) /\ ~Delivers(Bare("."))
  BY DEF Delivers, Bare
<1>3. ASSUME NEW k \in Nat
      PROVE  /\ \A i \in 1..Len(Text(k)) : ~Delivers(Text(k)[i])
             /\ \A i \in 1..Len(Terminated(k)) : ~Delivers(Terminated(k)[i])
             /\ Text(k) \in Seq(Steps) /\ Terminated(k) \in Seq(Steps)
  <2>1. /\ Text(k) \in Seq(Steps) /\ Len(Text(k)) = k
        /\ \A i \in 1..k : Text(k)[i] = Bare("TEXT")
        /\ Terminated(k) \in Seq(Steps) /\ Len(Terminated(k)) = k + 1
        /\ \A i \in 1..k : Terminated(k)[i] = Bare("TEXT")
        /\ Terminated(k)[k + 1] = Bare(".")
    BY TextType
  <2> HIDE DEF Bare, Text, Terminated
  <2>2. \A i \in 1..(k + 1) : i \in 1..k \/ i = k + 1
    OBVIOUS
  <2> QED BY <1>2, <2>1, <2>2
<1>4. CASE sendBody \/ bodyWriteError
  <2>1. todo # <<>>
    BY <1>4 DEF sendBody, bodyWriteError, PlaceInv, Doing
  <2>2. step.n \in Nat
    BY <2>1, StepType, TypeParts DEF Steps
  <2>3. \E k \in 0..step.n : Write(Text(k)) \/ Write(Terminated(k))
    BY <1>4, <2>2 DEF sendBody, bodyWriteError
  <2> QED BY <1>3, <2>2, <2>3
<1>5. CASE respond
  <2>1. PICK s \in Steps : s.verb \in {"*", "b64"} /\ Write(<<s>>)
    <3>1. Bare("*") \in Steps /\ With("b64", "good") \in Steps
      BY StepTypes DEF StepVerbs, Args
    <3>2. Bare("*").verb = "*" /\ With("b64", "good").verb = "b64"
      BY DEF Bare, With
    <3>3. \A o \in Opts : /\ [With("b64", "good") EXCEPT !.opt = o] \in Steps
                          /\ [With("b64", "good") EXCEPT !.opt = o].verb = "b64"
      BY <3>1, <3>2 DEF Steps
    <3>4. {Empty, "user", "pass"} \subseteq Opts
      BY DEF Opts
    <3> DEFINE o == IF step.arg # "LOGIN" THEN Empty
                    ELSE IF mech.step = 0 THEN "user" ELSE "pass"
    <3>5. o \in Opts
      BY <3>4
    <3>6. \/ Write(<<Bare("*")>>)
          \/ Write(<<[With("b64", "good") EXCEPT !.opt = o]>>)
      BY <1>5 DEF respond
    <3> HIDE DEF o, Bare, With
    <3> QED BY <3>1, <3>2, <3>3, <3>5, <3>6
  <2>2. /\ <<s>> \in Seq(Steps)
        /\ \A i \in 1..Len(<<s>>) : ~Delivers(<<s>>[i])
    BY <2>1 DEF Delivers
  <2> QED BY <2>1, <2>2
<1>6. CASE ~respond /\ ~sendBody /\ ~bodyWriteError /\ ~\E v : Request(v)
  BY <1>6, ZenonT(60) DEF ClientStep, Dial, NewClient, Connect, greeting, ehlo,
     ehloReply, heloReply, Mail, Rcpt, Data, Bdat, Reset, Noop, Call,
     Begin, Exchange, Expect, dataReply, StartTLS,
     startTLSReply, Auth, authReply, respondError, authCancelled, SubmitMessage,
     SendMail, Close, writeError, readError, malformedReply, Expire
<1> QED BY <1>1, <1>4, <1>5, <1>6

----------------------------------------------------------------------------
(* What a step of a call does to the stream *)

\* A call begins, or nothing is said.
Pauses ==
    /\ UNCHANGED <<rbuf, wire, exts>>
    /\ \/ UNCHANGED <<at, todo>>
       \/ at = "idle" /\ at' = "send"
       \/ at = "none" /\ at' = "reply" /\ Doing("greeting")'

\* The command of a step is sent.
Commands ==
    /\ at = "send" /\ at' = "reply" /\ todo # <<>> /\ ~Doing("greeting")
    /\ Write(Sent(step)) /\ UNCHANGED <<todo, wire, exts>>

\* Replies after which the step is not over.
GoesOn(code) == /\ at = "reply"
                /\ \/ Doing("DATA") /\ code = 354
                   \/ Doing("STARTTLS") /\ code = 220
                   \/ Doing("AUTH") /\ code = 334

\* The reply that ends in line n is read.
Hears(n) ==
    /\ at \in {"reply", "final", "cancel"} /\ ReadReply(n) /\ UNCHANGED rbuf
    /\ IF GoesOn(wire[n].code)
       THEN /\ at' = IF Doing("DATA") THEN "body"
                     ELSE IF Doing("STARTTLS") THEN "handshake" ELSE "respond"
       ELSE at' \in {"idle", "send", "gone"}
    /\ exts' = IF at = "reply" /\ Doing("EHLO") /\ wire[n].code = 250
               THEN ParseEHLOResponse(n)
               ELSE IF at = "reply" /\ Doing("HELO") /\ wire[n].code = 250
               THEN {} ELSE exts
    /\ at = "reply" /\ Doing("BDAT") /\ step.n > 0 => wire[n].code = 250

\* A body is sent, or a response to a challenge.
SendsBody == /\ at = "body" /\ at' = "final" /\ Write(Terminated(step.n))
             /\ UNCHANGED <<todo, wire, exts>>
Responds == /\ at = "respond" /\ UNCHANGED <<todo, wire, exts>>
            /\ \E s \in Steps : /\ Write(<<s>>)
                                /\ \/ at' = "cancel" /\ s.verb = "*"
                                   \/ at' = "reply" /\ s.verb = "b64"

Talks == \/ Pauses \/ Commands \/ SendsBody \/ Responds
         \/ \E n \in 1..Len(wire) : Hears(n)

\* An exchange whose reply ends the step.
LEMMA ExpectTalks ==
    ASSUME NEW p, NEW v, p = "final" \/ v \notin {"DATA", "STARTTLS", "AUTH", "EHLO", "HELO"},
           p \in {"reply", "final"}, Expect(p, v, 250), clean'
    PROVE  Talks
<1>1. PICK n \in 1..Len(wire) :
          /\ ReadReply(n)
          /\ IF Wanted(wire[n].code, 250) THEN Advance /\ UNCHANGED clean
             ELSE Return("smtp") /\ clean' = (clean /\ InStepAfterRefusal)
  BY DEF Expect
<1>2. at = p /\ Doing(v) /\ UNCHANGED <<exts, rbuf>>
  BY DEF Expect, fields
<1>3. \A w \in {"DATA", "STARTTLS", "AUTH", "EHLO", "HELO"} : at = "reply" => ~Doing(w)
  BY <1>2 DEF Doing
<1>4. ~GoesOn(wire[n].code)
  BY <1>3 DEF GoesOn
<1>5. at' \in {"idle", "send", "gone"}
  BY <1>1 DEF Advance, Return, ReturnAnd
<1>6. at = "reply" /\ Doing("BDAT") /\ step.n > 0 => wire[n].code = 250
  BY <1>1 DEF Wanted, InStepAfterRefusal
<1>7. Hears(n)
  BY <1>1, <1>2, <1>3, <1>4, <1>5, <1>6 DEF Hears
<1> QED BY <1>7 DEF Talks

\* The replies that are read by a handler of their own.
LEMMA ReplyTalks ==
    ASSUME greeting \/ ehloReply \/ heloReply \/ dataReply \/ startTLSReply
           \/ authReply \/ authCancelled, clean'
    PROVE  Talks
<1> DEFINE Over == at' \in {"idle", "send", "gone"}
<1>1. Advance => Over
  BY DEF Advance, Return, ReturnAnd
<1>2. \A err : Return(err) => Over
  BY DEF Return, ReturnAnd
<1> HIDE DEF Over
<1>3. \A v, w : Doing(v) /\ Doing(w) => v = w
  BY DEF Doing
<1>4. CASE greeting
  <2>1. PICK n \in 1..Len(wire) : ReadReply(n) /\ (Advance \/ Return("smtp"))
    BY <1>4 DEF greeting
  <2>2. at = "reply" /\ Doing("greeting") /\ UNCHANGED <<exts, rbuf>>
    BY <1>4 DEF greeting, fields
  <2>3. Hears(n)
    BY <1>1, <1>2, <1>3, <2>1, <2>2 DEF Hears, GoesOn, Over
  <2> QED BY <2>3 DEF Talks
<1>5. CASE ehloReply
  <2>1. PICK n \in 1..Len(wire) :
            /\ ReadReply(n)
            /\ \/ wire[n].code = 250 /\ Advance /\ SetExts(n)
               \/ wire[n].code # 250 /\ at' = "send" /\ exts' = exts
               \/ wire[n].code # 250 /\ Return("smtp") /\ exts' = exts
    BY <1>5 DEF ehloReply
  <2>2. at = "reply" /\ Doing("EHLO") /\ UNCHANGED rbuf
    BY <1>5 DEF ehloReply
  <2>3. Over
    BY <1>1, <1>2, <2>1 DEF Over
  <2>4. exts' = IF wire[n].code = 250 THEN ParseEHLOResponse(n) ELSE exts
    BY <2>1 DEF SetExts
  <2>5. Hears(n)
    BY <1>3, <2>1, <2>2, <2>3, <2>4 DEF Hears, GoesOn, Over
  <2> QED BY <2>5 DEF Talks
<1>6. CASE heloReply
  <2>1. PICK n \in 1..Len(wire) :
            /\ ReadReply(n)
            /\ IF wire[n].code = 250 THEN Advance /\ exts' = {}
               ELSE Return("smtp") /\ exts' = exts
    BY <1>6 DEF heloReply
  <2>2. at = "reply" /\ Doing("HELO") /\ UNCHANGED rbuf
    BY <1>6 DEF heloReply
  <2>3. Over
    BY <1>1, <1>2, <2>1
  <2>4. Hears(n)
    BY <1>3, <2>1, <2>2, <2>3 DEF Hears, GoesOn, Over
  <2> QED BY <2>4 DEF Talks
<1>7. CASE dataReply
  <2>1. PICK n \in 1..Len(wire) :
            /\ ReadReply(n)
            /\ IF wire[n].code = 354 THEN at' = "body" ELSE Return("smtp")
    BY <1>7 DEF dataReply
  <2>2. at = "reply" /\ Doing("DATA") /\ UNCHANGED <<exts, rbuf>>
    BY <1>7 DEF dataReply, fields
  <2>3. Hears(n)
    BY <1>2, <1>3, <2>1, <2>2 DEF Hears, GoesOn, Over
  <2> QED BY <2>3 DEF Talks
<1>8. CASE startTLSReply
  <2>1. PICK n \in 1..Len(wire) :
            /\ ReadReply(n)
            /\ IF wire[n].code = 220 THEN at' = "handshake" ELSE Return("smtp")
    BY <1>8 DEF startTLSReply
  <2>2. at = "reply" /\ Doing("STARTTLS") /\ UNCHANGED <<exts, rbuf>>
    BY <1>8 DEF startTLSReply, fields
  <2>3. Hears(n)
    BY <1>2, <1>3, <2>1, <2>2 DEF Hears, GoesOn, Over
  <2> QED BY <2>3 DEF Talks
<1>9. CASE authReply
  <2>1. PICK n \in 1..Len(wire) :
            /\ ReadReply(n)
            /\ \/ wire[n].code = 235 /\ Advance /\ UNCHANGED clean
               \/ wire[n].code \notin {235, 334} /\ Return("smtp")
                  /\ UNCHANGED clean
               \/ /\ wire[n].code = 334
                  /\ "not base64" \in wire[n].exts /\ Break
               \/ /\ wire[n].code = 334 /\ "not base64" \notin wire[n].exts
                  /\ at' = "respond"
                  /\ todo' = [todo EXCEPT ![1].n = Count(@)]
                  /\ UNCHANGED <<api, result, open, clean>>
    BY <1>9, Zenon DEF authReply
  <2>2. at = "reply" /\ Doing("AUTH") /\ UNCHANGED <<exts, rbuf>>
    BY <1>9 DEF authReply, fields
  <2>3. ReadReply(n)
    BY <2>1
  <2>4. ~Break
    BY DEF Break
  <2>5. CASE wire[n].code = 334
    <3>1. wire[n].code # 235 /\ wire[n].code \in {235, 334}
      BY <2>5
    <3>2. at' = "respond"
      BY <2>1, <2>4, <3>1, Zenon
    <3> QED BY <1>3, <2>2, <2>3, <2>5, <3>2 DEF Hears, GoesOn, Over, Talks
  <2>6. CASE wire[n].code # 334
    <3>1. Advance \/ Return("smtp")
      BY <2>1, <2>6, Zenon
    <3>2. Over
      BY <1>1, <1>2, <3>1
    <3>3. Hears(n)
      BY <1>3, <2>2, <2>3, <2>6, <3>2 DEF Hears, GoesOn, Over
    <3> QED BY <3>3 DEF Talks
  <2> QED BY <2>5, <2>6
<1>10. CASE authCancelled
  <2>1. PICK n \in 1..Len(wire) : ReadReply(n)
    BY <1>10 DEF authCancelled, ReadCancelReply
  <2>2. at = "cancel" /\ Return("mech") /\ UNCHANGED <<exts, rbuf>>
    BY <1>10 DEF authCancelled, fields
  <2>3. Hears(n)
    BY <1>2, <2>1, <2>2 DEF Hears, GoesOn, Over
  <2> QED BY <2>3 DEF Talks
<1> QED BY <1>4, <1>5, <1>6, <1>7, <1>8, <1>9, <1>10

\* Every step that leaves nothing unread and nothing unfinished.
LEMMA ClientTalks ==
    ASSUME ClientStep \/ Expire, clean'
    PROVE  Talks
<1>1. ASSUME NEW name, NEW steps, Begin(name, steps) PROVE Talks
  BY <1>1 DEF Begin, fields, Talks, Pauses
<1>2. ASSUME NEW v, v # "greeting", Request(v) PROVE Talks
  <2>1. todo # <<>> /\ ~Doing("greeting")
    BY <1>2 DEF Request, Doing
  <2> QED BY <1>2, <2>1 DEF Request, fields, Talks, Commands
<1>3. ASSUME NEW v, v \notin {"DATA", "STARTTLS", "AUTH", "EHLO", "HELO", "greeting"},
             Exchange(v, 250)
      PROVE  Talks
  BY <1>2, <1>3, ExpectTalks DEF Exchange
<1>4. CASE Dial \/ NewClient
  <2>1. /\ at = "none" /\ at' = "reply" /\ UNCHANGED <<rbuf, wire, exts>>
        /\ todo' = <<Bare("greeting"), With("EHLO", "h")>>
    BY <1>4 DEF Dial, NewClient, Connect, fields
  <2>2. Bare("greeting").verb = "greeting"
    BY DEF Bare
  <2> HIDE DEF Bare, With
  <2>3. Doing("greeting")'
    BY <2>1, <2>2 DEF Doing
  <2> QED BY <2>1, <2>3 DEF Talks, Pauses
<1>5. CASE ehlo
  BY <1>2, <1>5, ReplyTalks DEF ehlo
<1>6. CASE Mail \/ Rcpt \/ Bdat \/ Reset \/ Noop
  <2>1. CASE Exchange("MAIL", 250) \/ Exchange("RCPT", 250)
             \/ Exchange("BDAT", 250) \/ Exchange("RSET", 250)
             \/ Exchange("NOOP", 250)
    BY <1>3, <2>1
  <2>2. CASE \E name, steps : Begin(name, steps)
    BY <1>1, <2>2
  <2>3. CASE Mail
    BY <2>1, <2>2, <2>3 DEF Mail, Call
  <2>4. CASE Rcpt
    BY <2>1, <2>2, <2>4 DEF Rcpt, Call
  <2>5. CASE Bdat
    BY <2>1, <2>2, <2>5 DEF Bdat, Call
  <2>6. CASE Reset \/ Noop
    BY <2>1, <2>2, <2>6 DEF Reset, Noop, Call
  <2> QED BY <1>6, <2>3, <2>4, <2>5, <2>6
<1>7. CASE SendMail \/ SubmitMessage
  BY <1>1, <1>7 DEF SendMail, SubmitMessage, Call
<1>8. CASE Data
  <2>1. CASE sendBody
    BY <2>1 DEF sendBody, Break, fields, Talks, SendsBody
  <2>2. ~bodyWriteError
    BY DEF bodyWriteError, Break
  <2>3. CASE Expect("final", "DATA", 250)
    BY <2>3, ExpectTalks
  <2> QED BY <1>1, <1>2, <1>8, <2>1, <2>2, <2>3, ReplyTalks DEF Data, Call
<1>9. CASE StartTLS
  BY <1>1, <1>2, <1>9, ReplyTalks DEF StartTLS, Call
<1>10. CASE Auth
  <2>1. ~respondError
    BY DEF respondError, Break
  <2>2. CASE respond
    <3> DEFINE answer == [With("b64", "good") EXCEPT
                            !.opt = IF step.arg # "LOGIN" THEN Empty
                                    ELSE IF mech.step = 0 THEN "user" ELSE "pass"]
    <3>1. /\ answer \in Steps /\ answer.verb = "b64"
          /\ Bare("*") \in Steps /\ Bare("*").verb = "*"
      <4>1. With("b64", "good") \in Steps /\ Bare("*") \in Steps
        BY StepTypes DEF StepVerbs, Args
      <4>2. \A o \in Opts : [With("b64", "good") EXCEPT !.opt = o] \in Steps
        BY <4>1 DEF Steps
      <4>3. answer.verb = "b64" /\ Bare("*").verb = "*"
        BY DEF With, Bare
      <4> QED BY <4>1, <4>2, <4>3 DEF Opts
    <3> HIDE DEF answer
    <3>2. /\ at = "respond" /\ UNCHANGED <<todo, wire, exts>>
          /\ \/ Write(<<Bare("*")>>) /\ at' = "cancel"
             \/ Write(<<answer>>) /\ at' = "reply"
      BY <2>2 DEF respond, answer, fields
    <3> HIDE DEF Bare
    <3> QED BY <3>1, <3>2 DEF Talks, Responds
  <2> QED BY <1>1, <1>2, <1>10, <2>1, <2>2, ReplyTalks DEF Auth
<1>11. CASE Close
  <2>1. CASE Request("QUIT")
    BY <1>2, <2>1
  <2>2. CASE at = "idle" /\ at' = "send" /\ UNCHANGED <<rbuf, wire, exts>>
    BY <2>2 DEF Talks, Pauses
  <2>3. CASE /\ at = "reply" /\ Doing("QUIT") /\ Return("nil")
             /\ \E n \in 1..Len(wire) : ReadReply(n)
             /\ UNCHANGED <<exts, rbuf>>
    <3>1. PICK n \in 1..Len(wire) : ReadReply(n)
      BY <2>3
    <3>2. at' \in {"idle", "send", "gone"}
      BY <2>3 DEF Return, ReturnAnd
    <3>3. \A w \in {"DATA", "STARTTLS", "AUTH", "EHLO", "HELO", "BDAT"} : ~Doing(w)
      BY <2>3 DEF Doing
    <3>4. Hears(n)
      BY <2>3, <3>1, <3>2, <3>3 DEF Hears, GoesOn
    <3> QED BY <3>4 DEF Talks
  <2> QED BY <1>11, <2>1, <2>2, <2>3 DEF Close, fields
<1>12. CASE Expire
  BY <1>12 DEF Expire, control, fields, Talks, Pauses
<1>13. ~writeError /\ ~readError /\ ~malformedReply
  BY DEF writeError, readError, malformedReply, Break
<1>14. CASE greeting
  BY <1>14, ReplyTalks
<1> QED BY <1>4, <1>5, <1>6, <1>7, <1>8, <1>9, <1>10, <1>11, <1>12, <1>13, <1>14
        DEF ClientStep

\* What has been left unread or unfinished stays so, and only a client that is
\* given up closes its connection.
LEMMA Undisturbed ==
    ASSUME ClientStep \/ Expire
    PROVE  (clean' => clean) /\ (open /\ at' # "gone" => open')
<1>1. \A err : Return(err) => (open /\ at' # "gone" => open')
  BY DEF Return, ReturnAnd, Closes
<1>2. Advance => (open /\ at' # "gone" => open')
  BY <1>1 DEF Advance
<1>3. clean' => clean
  BY DEF ClientStep, Dial, NewClient, Connect, greeting, ehlo, Request,
     ehloReply, heloReply, Mail, Rcpt, Data, Bdat, Reset, Noop, Call, Begin,
     Exchange, Expect, dataReply, sendBody, bodyWriteError, Break, StartTLS,
     startTLSReply, Auth, authReply, respond, respondError, authCancelled,
     SubmitMessage, SendMail, Close, writeError, readError, malformedReply, Expire
<1>4. open /\ at' # "gone" => open'
  <2>1. Break => (open /\ at' # "gone" => open')
    BY <1>1 DEF Break
  <2>2. /\ \A name, steps : Begin(name, steps) => open' = open
        /\ \A v : Request(v) => open' = open
    BY DEF Begin, Request
  <2>3. \A p, v, want : Expect(p, v, want) => (open /\ at' # "gone" => open')
    BY <1>1, <1>2 DEF Expect
  <2>4. CASE Dial \/ NewClient \/ greeting \/ ehlo \/ Close \/ Expire
    BY <1>1, <1>2, <2>2, <2>4 DEF Dial, NewClient, Connect, greeting, ehlo,
       ehloReply, heloReply, Close, Expire, control
  <2>5. CASE Mail \/ Rcpt \/ Bdat \/ Reset \/ Noop
    <3>1. ASSUME NEW name, NEW steps, Call(name, steps)
          PROVE  open /\ at' # "gone" => open'
      BY <2>2, <3>1 DEF Call
    <3>2. ASSUME NEW v, NEW want, Exchange(v, want)
          PROVE  open /\ at' # "gone" => open'
      BY <2>2, <2>3, <3>2 DEF Exchange
    <3> QED BY <2>5, <3>1, <3>2 DEF Mail, Rcpt, Bdat, Reset, Noop
  <2>6. CASE Data
    BY <1>1, <2>1, <2>2, <2>3, <2>6 DEF Data, Call, dataReply, sendBody,
       bodyWriteError
  <2>7. CASE StartTLS \/ Auth
    BY <1>1, <1>2, <2>1, <2>2, <2>7 DEF StartTLS, startTLSReply, Auth, Call,
       authReply, respond, respondError, authCancelled
  <2>8. CASE SubmitMessage \/ SendMail
    BY <2>2, <2>8 DEF SubmitMessage, SendMail, Call
  <2>9. CASE writeError \/ readError \/ malformedReply
    BY <2>1, <2>9 DEF writeError, readError, malformedReply
  <2> QED BY <2>4, <2>5, <2>6, <2>7, <2>8, <2>9 DEF ClientStep
<1> QED BY <1>3, <1>4

\* Reset returns nil when it has read a 250.
LEMMA ResetReturns ==
    ASSUME TypeOK, PlaceInv, StepsInv, ClientStep \/ Expire, result' # result,
           result' = [api |-> "Reset", err |-> "nil"]
    PROVE  /\ at = "reply" /\ Doing("RSET")
           /\ \E n \in 1..Len(wire) : ReadReply(n) /\ wire[n].code = 250
<1>1. \A a, err : result' = [api |-> a, err |-> err] => a = "Reset" /\ err = "nil"
  OBVIOUS
<1>2. result' # NoResult
  BY DEF NoResult
<1>3. ASSUME NEW v, api = "Reset", Doing(v) PROVE v = "RSET"
  <2>1. Len(todo) \in Nat \ {0} /\ Head(todo) = todo[1]
    BY <1>3 DEF TypeOK, Doing
  <2> QED BY <1>3, <2>1 DEF StepsInv, StepOK, Doing
<1>4. ASSUME NEW err, Return(err) PROVE api = "Reset" /\ err = "nil"
  BY <1>1, <1>4 DEF Return, ReturnAnd
<1>5. ~Break
  BY <1>4 DEF Break, Failure
<1>6. Advance => api = "Reset"
  BY <1>4 DEF Advance
<1>7. \A name, steps : ~Begin(name, steps)
  BY <1>2 DEF Begin
<1>8. \A v : ~Request(v)
  BY DEF Request
<1>9. ASSUME NEW p, NEW v, Expect(p, v, 250)
      PROVE  /\ at = p /\ Doing(v) /\ v = "RSET"
             /\ \E n \in 1..Len(wire) : ReadReply(n) /\ wire[n].code = 250
  <2>1. PICK n \in 1..Len(wire) :
            /\ ReadReply(n)
            /\ IF Wanted(wire[n].code, 250) THEN Advance ELSE Return("smtp")
    BY <1>9 DEF Expect
  <2>2. Advance /\ wire[n].code = 250
    BY <1>4, <2>1 DEF Wanted
  <2> QED BY <1>3, <1>6, <1>9, <2>1, <2>2 DEF Expect
<1>10. ~(greeting \/ ehloReply \/ heloReply \/ authReply \/ dataReply
         \/ startTLSReply \/ authCancelled)
  <2>1. \A v \in {"greeting", "EHLO", "HELO", "AUTH"} : Doing(v) => ~Advance
    BY <1>3, <1>6
  <2>2. ~Return("smtp") /\ ~Return("mech")
    BY <1>4
  <2>3. ~greeting
    BY <2>1, <2>2 DEF greeting
  <2>4. ~ehloReply
    BY <2>1, <2>2 DEF ehloReply
  <2>5. ~heloReply
    BY <2>1, <2>2 DEF heloReply
  <2>6. ~authReply
    BY <1>5, <2>1, <2>2 DEF authReply
  <2>7. ~dataReply /\ ~startTLSReply /\ ~authCancelled
    BY <2>2 DEF dataReply, startTLSReply, authCancelled
  <2> QED BY <2>3, <2>4, <2>5, <2>6, <2>7
<1>11. CASE Mail \/ Rcpt \/ Bdat \/ Reset \/ Noop
  <2>1. \A name, steps : ~Call(name, steps)
    BY <1>7 DEF Call
  <2>2. ASSUME NEW v, Exchange(v, 250) PROVE v = "RSET" /\ Expect("reply", v, 250)
    BY <1>8, <1>9, <2>2 DEF Exchange
  <2>3. ~Mail
    <3>1. ~Exchange("MAIL", 250)
      BY <2>2
    <3> QED BY <2>1, <3>1, Zenon DEF Mail
  <2>4. ~Rcpt
    <3>1. ~Exchange("RCPT", 250)
      BY <2>2
    <3> QED BY <2>1, <3>1, Zenon DEF Rcpt
  <2>5. ~Bdat
    <3> DEFINE s(c) == <<[With("BDAT", "size") EXCEPT !.n = c.n,
                           !.opt = IF c.last THEN "LAST" ELSE Empty]>>
    <3>1. ~Exchange("BDAT", 250)
      BY <2>2
    <3>2. Bdat => (\E c \in BdatArgs : Call("Bdat", s(c))) \/ Exchange("BDAT", 250)
      BY DEF Bdat
    <3> HIDE DEF s
    <3> QED BY <2>1, <3>1, <3>2, Zenon
  <2>6. ~Noop
    BY <2>1, <2>2 DEF Noop
  <2>7. CASE Reset
    <3>1. Expect("reply", "RSET", 250)
      BY <2>1, <2>2, <2>7 DEF Reset
    <3> QED BY <1>9, <3>1
  <2> QED BY <1>11, <2>3, <2>4, <2>5, <2>6, <2>7
<1>12. ~Data
  <2>1. ~Expect("final", "DATA", 250)
    BY <1>9
  <2>2. ~sendBody /\ ~bodyWriteError
    BY <1>5 DEF sendBody, bodyWriteError
  <2>3. \A b \in MessageReaders : ~Call("Data", <<DataStep(b)>>)
    BY <1>7 DEF Call
  <2> QED BY <1>8, <1>10, <2>1, <2>2, <2>3 DEF Data
<1>13. ~(Dial \/ NewClient \/ ehlo)
  BY <1>8, <1>10 DEF Dial, NewClient, Connect, ehlo
<1>14. ~(StartTLS \/ Auth \/ SubmitMessage \/ SendMail)
  BY <1>5, <1>7, <1>8, <1>10 DEF StartTLS, Auth, SubmitMessage, SendMail, Call,
     respond, respondError
<1>15. ~Close
  <2>1. Doing("QUIT") => ~Return("nil")
    BY <1>3, <1>4
  <2> QED BY <1>2, <1>8, <2>1 DEF Close
<1>16. ~(writeError \/ readError \/ malformedReply \/ Expire)
  BY <1>5 DEF writeError, readError, malformedReply, Expire, control
<1> QED BY <1>10, <1>11, <1>12, <1>13, <1>14, <1>15, <1>16 DEF ClientStep

----------------------------------------------------------------------------
(* The calls that send a message *)

\* The steps of SendMail from the last one back: DATA, the recipients, MAIL.
LEMMA SendStepsBack ==
    ASSUME NEW f \in From, NEW to \in To, NEW b \in MessageReaders,
           NEW ss, ss = SendSteps(f, to, b)
    PROVE  /\ ss \in Seq(Steps) /\ Len(to) \in Nat /\ Len(ss) = Len(to) + 2
           /\ ss[1].verb = "MAIL" /\ ss[1].arg = f
           /\ \A i \in 1..Len(to) : ss[i + 1].verb = "RCPT" /\ ss[i + 1].arg = to[i]
           /\ ss[Len(to) + 2].verb = "DATA" /\ ss[Len(to) + 2].n = b.n
<1> DEFINE mail == <<With("MAIL", f)>>
           rcpts == [i \in 1..Len(to) |-> With("RCPT", to[i])]
           data == <<DataStep(b)>>
<1>1. to \in Seq(STRING) /\ Len(to) \in Nat
  BY CallAssumption
<1>2. f \in Args /\ \A i \in 1..Len(to) : to[i] \in Args
  BY <1>1 DEF Args, Addressees
<1>3. /\ With("MAIL", f).verb = "MAIL" /\ With("MAIL", f).arg = f
      /\ \A i \in 1..Len(to) : /\ With("RCPT", to[i]).verb = "RCPT"
                               /\ With("RCPT", to[i]).arg = to[i]
      /\ DataStep(b).verb = "DATA" /\ DataStep(b).n = b.n
  BY DEF With, Bare, DataStep
<1>4. /\ With("MAIL", f) \in Steps /\ DataStep(b) \in Steps
      /\ \A i \in 1..Len(to) : With("RCPT", to[i]) \in Steps
  BY <1>2, StepTypes DEF StepVerbs
<1>5. ss = (mail \o rcpts) \o data
  BY DEF SendSteps
<1> HIDE DEF With, DataStep
<1>6. mail \in Seq(Steps) /\ Len(mail) = 1 /\ mail[1] = With("MAIL", f)
  BY <1>4
<1>7. data \in Seq(Steps) /\ Len(data) = 1 /\ data[1] = DataStep(b)
  BY <1>4
<1>8. /\ rcpts \in Seq(Steps) /\ Len(rcpts) = Len(to)
      /\ \A i \in 1..Len(to) : rcpts[i] = With("RCPT", to[i])
  BY <1>1, <1>4
<1> HIDE DEF mail, data, rcpts
<1> DEFINE h == mail \o rcpts
<1>9. /\ h \in Seq(Steps) /\ Len(h) = 1 + Len(to) /\ h[1] = With("MAIL", f)
      /\ \A i \in 1..Len(to) : h[i + 1] = With("RCPT", to[i])
  <2>1. /\ h \in Seq(Steps) /\ Len(h) = Len(mail) + Len(rcpts)
        /\ \A i \in 1..Len(mail) : h[i] = mail[i]
        /\ \A i \in 1..Len(rcpts) : h[Len(mail) + i] = rcpts[i]
    <3>1. mail \in Seq(Steps) /\ rcpts \in Seq(Steps)
      BY <1>6, <1>8
    <3> QED BY <3>1, Joined
  <2> HIDE DEF h
  <2>2. \A i \in 1..Len(to) : h[1 + i] = rcpts[i] /\ 1 + i = i + 1
    BY <1>1, <1>6, <1>8, <2>1
  <2>3. h[1] = mail[1]
    BY <1>6, <2>1
  <2> QED BY <1>1, <1>6, <1>8, <2>1, <2>2, <2>3
<1> HIDE DEF h
<1>10. /\ h \o data \in Seq(Steps) /\ Len(h \o data) = Len(to) + 2
       /\ (h \o data)[1] = h[1]
       /\ \A i \in 1..Len(to) : (h \o data)[i + 1] = h[i + 1]
       /\ (h \o data)[Len(to) + 2] = DataStep(b)
  <2> DEFINE g == h \o data
  <2>1. /\ g \in Seq(Steps) /\ Len(g) = Len(h) + Len(data)
        /\ \A i \in 1..Len(h) : g[i] = h[i]
        /\ \A i \in 1..Len(data) : g[Len(h) + i] = data[i]
    <3>1. h \in Seq(Steps) /\ data \in Seq(Steps)
      BY <1>7, <1>9
    <3> QED BY <3>1, Joined
  <2> HIDE DEF g
  <2>2. Len(g) = Len(to) + 2 /\ Len(h) + 1 = Len(to) + 2
    BY <1>1, <1>7, <1>9, <2>1
  <2>3. g[1] = h[1] /\ \A i \in 1..Len(to) : g[i + 1] = h[i + 1]
    BY <1>1, <1>9, <2>1
  <2>4. g[Len(to) + 2] = DataStep(b)
    BY <1>7, <2>1, <2>2
  <2> QED BY <2>1, <2>2, <2>3, <2>4 DEF g
<1>11. ss = h \o data
  BY <1>5 DEF h
<1> QED BY <1>1, <1>3, <1>9, <1>10, <1>11

\* SendMail's steps, or SubmitMessage's.
Sends(ss, f, to, b) ==
    \/ ss = SendSteps(f, to, b)
    \/ \E a \in Mechanisms :
          ss = UpgradeFirst \o <<AuthStep(a)>> \o SendSteps(f, to, b)

\* What comes before the message, if anything, is STARTTLS and AUTH.
LEMMA SendsBack ==
    ASSUME NEW f \in From, NEW to \in To, NEW b \in MessageReaders,
           NEW ss, Sends(ss, f, to, b)
    PROVE  /\ ss \in Seq(Steps) /\ Len(to) \in Nat
           /\ \E k \in 0..2 :
                 /\ Len(ss) = k + Len(to) + 2
                 /\ \A i \in 1..k : ss[i].verb \in {"STARTTLS", "AUTH"}
                 /\ ss[k + 1].verb = "MAIL" /\ ss[k + 1].arg = f
                 /\ \A i \in 1..Len(to) :
                       ss[k + 1 + i].verb = "RCPT" /\ ss[k + 1 + i].arg = to[i]
                 /\ ss[Len(ss)].verb = "DATA" /\ ss[Len(ss)].n = b.n
<1> DEFINE d == SendSteps(f, to, b)
<1>1. /\ d \in Seq(Steps) /\ Len(to) \in Nat /\ Len(d) = Len(to) + 2
      /\ d[1].verb = "MAIL" /\ d[1].arg = f
      /\ \A i \in 1..Len(to) : d[i + 1].verb = "RCPT" /\ d[i + 1].arg = to[i]
      /\ d[Len(to) + 2].verb = "DATA" /\ d[Len(to) + 2].n = b.n
  BY SendStepsBack
<1> HIDE DEF d
<1> DEFINE Back(k) == /\ Len(ss) = k + Len(to) + 2
                      /\ \A i \in 1..k : ss[i].verb \in {"STARTTLS", "AUTH"}
                      /\ ss[k + 1].verb = "MAIL" /\ ss[k + 1].arg = f
                      /\ \A i \in 1..Len(to) :
                            ss[k + 1 + i].verb = "RCPT" /\ ss[k + 1 + i].arg = to[i]
                      /\ ss[Len(ss)].verb = "DATA" /\ ss[Len(ss)].n = b.n
<1>2. CASE ss = SendSteps(f, to, b)
  <2>1. ss = d
    BY <1>2 DEF d
  <2>2. Back(0)
    BY <1>1, <2>1
  <2> HIDE DEF Back
  <2>3. 0 \in 0..2 /\ ss \in Seq(Steps)
    BY <1>1, <2>1
  <2> QED BY <1>1, <2>2, <2>3 DEF Back
<1>3. CASE \E a \in Mechanisms : ss = UpgradeFirst \o <<AuthStep(a)>> \o d
  <2>1. PICK a \in Mechanisms : ss = (UpgradeFirst \o <<AuthStep(a)>>) \o d
    BY <1>3
  <2> DEFINE h == UpgradeFirst \o <<AuthStep(a)>>
  <2>2. /\ Bare("STARTTLS") \in Steps /\ AuthStep(a) \in Steps
        /\ Bare("STARTTLS").verb = "STARTTLS" /\ AuthStep(a).verb = "AUTH"
    BY StepTypes DEF StepVerbs, AuthStep, Bare, With
  <2>3. UpgradeFirst \in {<<>>, <<Bare("STARTTLS")>>}
    BY DEF UpgradeFirst
  <2> HIDE DEF Bare, AuthStep
  <2>4. /\ h \in Seq(Steps) /\ Len(h) \in 1..2
        /\ \A i \in 1..Len(h) : h[i].verb \in {"STARTTLS", "AUTH"}
    <3>1. CASE UpgradeFirst = <<>>
      BY <2>2, <3>1
    <3>2. CASE UpgradeFirst = <<Bare("STARTTLS")>>
      <4> DEFINE p == <<Bare("STARTTLS")>>
                 q == <<AuthStep(a)>>
      <4>1. /\ p \in Seq(Steps) /\ Len(p) = 1 /\ p[1].verb = "STARTTLS"
            /\ q \in Seq(Steps) /\ Len(q) = 1 /\ q[1].verb = "AUTH"
        BY <2>2, Singles
      <4>2. h = p \o q
        BY <3>2
      <4> HIDE DEF h, p, q
      <4>3. /\ h \in Seq(Steps) /\ Len(h) = Len(p) + Len(q)
            /\ \A i \in 1..Len(p) : h[i] = p[i]
            /\ \A i \in 1..Len(q) : h[Len(p) + i] = q[i]
        <5>1. p \in Seq(Steps) /\ q \in Seq(Steps)
          BY <4>1
        <5> QED BY <4>2, <5>1, Joined
      <4>4. /\ h[1] = p[1] /\ h[2] = q[1] /\ Len(h) = 2
        BY <4>1, <4>3
      <4> QED BY <4>1, <4>3, <4>4
    <3> QED BY <2>3, <3>1, <3>2
  <2>5. ss = h \o d
    BY <2>1
  <2> HIDE DEF h
  <2>6. /\ ss \in Seq(Steps) /\ Len(ss) = Len(h) + Len(d)
        /\ \A i \in 1..Len(h) : ss[i] = h[i]
        /\ \A i \in 1..Len(d) : ss[Len(h) + i] = d[i]
    <3>1. h \in Seq(Steps) /\ d \in Seq(Steps)
      BY <1>1, <2>4
    <3> QED BY <2>5, <3>1, Joined
  <2>7. ss[Len(h) + 1] = d[1] /\ ss[Len(ss)] = d[Len(to) + 2]
    BY <1>1, <2>4, <2>6
  <2>8. \A i \in 1..Len(to) : ss[Len(h) + 1 + i] = d[i + 1]
    <3> SUFFICES ASSUME NEW i \in 1..Len(to) PROVE ss[Len(h) + 1 + i] = d[i + 1]
      OBVIOUS
    <3>1. i + 1 \in 1..Len(d) /\ Len(h) + (i + 1) = Len(h) + 1 + i
      BY <1>1, <2>4
    <3> QED BY <2>6, <3>1
  <2>9. Back(Len(h))
    <3>1. Len(ss) = Len(h) + Len(to) + 2
      BY <1>1, <2>4, <2>6
    <3>2. \A i \in 1..Len(h) : ss[i].verb \in {"STARTTLS", "AUTH"}
      BY <2>4, <2>6
    <3>3. \A i \in 1..Len(to) : /\ ss[Len(h) + 1 + i].verb = "RCPT"
                                /\ ss[Len(h) + 1 + i].arg = to[i]
      BY <1>1, <2>8
    <3> QED BY <1>1, <2>7, <3>1, <3>2, <3>3
  <2> HIDE DEF Back
  <2>10. Len(h) \in 0..2
    BY <2>4
  <2> QED BY <1>1, <2>6, <2>9, <2>10 DEF Back
<1> QED BY <1>2, <1>3 DEF Sends, d

\* SendMail or SubmitMessage begins.
LEMMA MailBegins ==
    ASSUME PlaceInv, ClientStep \/ Expire, at = "idle",
           api' \in {"SendMail", "SubmitMessage"}
    PROVE  /\ at' = "send" /\ result' = NoResult /\ UNCHANGED <<rbuf, wire, clean>>
           /\ \E f \in From, to \in To, b \in MessageReaders : Sends(todo', f, to, b)
<1>1. api = "none"
  BY DEF PlaceInv, Busy
<1>2. \A name, steps : Begin(name, steps) => api' = name
  BY DEF Begin
<1>3. SendMail \/ SubmitMessage
  <2>1. ~(Dial \/ NewClient \/ greeting \/ ehlo \/ StartTLS \/ Auth \/ Close)
    BY <1>2 DEF Dial, NewClient, Connect, greeting, ehlo, Request, ehloReply,
       heloReply, StartTLS, startTLSReply, Auth, authReply, respond,
       respondError, authCancelled, Close, Call
  <2>2. \A p, v, want : ~Request(v) /\ ~(p # "idle" /\ Expect(p, v, want))
    BY DEF Request, Expect
  <2>3. \A v, want : ~Exchange(v, want)
    BY <2>2 DEF Exchange
  <2>4. \A name, steps : Call(name, steps) => api' = name
    BY <1>2 DEF Call
  <2>5. ~(Mail \/ Rcpt \/ Reset \/ Noop)
    BY <2>3, <2>4 DEF Mail, Rcpt, Reset, Noop
  <2>6. ~Bdat
    <3> DEFINE s(c) == <<[With("BDAT", "size") EXCEPT !.n = c.n,
                           !.opt = IF c.last THEN "LAST" ELSE Empty]>>
    <3>1. Bdat => (\E c \in BdatArgs : Call("Bdat", s(c))) \/ Exchange("BDAT", 250)
      BY DEF Bdat
    <3> HIDE DEF s
    <3>2. \A c : ~Call("Bdat", s(c))
      BY <2>4
    <3> QED BY <2>3, <3>1, <3>2, Zenon
  <2>7. ~Data
    BY <2>2, <2>4 DEF Data, dataReply, sendBody, bodyWriteError
  <2>8. ~(writeError \/ readError \/ malformedReply \/ Expire)
    BY <1>1 DEF writeError, readError, malformedReply, Expire, control
  <2> QED BY <2>1, <2>5, <2>6, <2>7, <2>8 DEF ClientStep
<1>4. \A name, steps : Begin(name, steps) =>
          /\ at' = "send" /\ result' = NoResult /\ UNCHANGED <<rbuf, wire, clean>>
          /\ todo' = steps
  BY DEF Begin
<1>5. CASE SendMail
  <2>1. PICK f \in From, to \in To, b \in MessageReaders :
            Begin("SendMail", SendSteps(f, to, b))
    BY <1>5 DEF SendMail, Call
  <2> HIDE DEF SendSteps
  <2>2. todo' = SendSteps(f, to, b)
    BY <1>4, <2>1
  <2> QED BY <1>4, <2>1, <2>2 DEF Sends
<1>6. CASE SubmitMessage
  <2>1. PICK a \in Mechanisms, f \in From, to \in To, b \in MessageReaders :
            Begin("SubmitMessage", UpgradeFirst \o <<AuthStep(a)>> \o SendSteps(f, to, b))
    BY <1>6 DEF SubmitMessage
  <2>2. todo' = UpgradeFirst \o <<AuthStep(a)>> \o SendSteps(f, to, b)
    BY <1>4, <2>1
  <2> QED BY <1>4, <2>1, <2>2 DEF Sends
<1> QED BY <1>3, <1>5, <1>6

\* What a call makes of the reply to MAIL, RCPT or DATA, and to the body.
LEMMA MailHears ==
    ASSUME PlaceInv, ClientStep \/ Expire, clean',
           \/ at = "final"
           \/ at = "reply" /\ todo # <<>> /\ step.verb \in {"MAIL", "RCPT", "DATA"}
    PROVE  \/ UNCHANGED <<at, api, todo, result, rbuf, wire>>
           \/ \E n \in 1..Len(wire) :
                 /\ ReadReply(n) /\ UNCHANGED rbuf
                 /\ IF at = "reply" /\ Doing("DATA")
                    THEN IF wire[n].code = 354
                         THEN at' = "body" /\ UNCHANGED <<api, todo, result>>
                         ELSE Return("smtp")
                    ELSE IF wire[n].code = 250 THEN Advance ELSE Return("smtp")
<1> DEFINE Goal == \E n \in 1..Len(wire) :
                     /\ ReadReply(n) /\ UNCHANGED rbuf
                     /\ IF at = "reply" /\ Doing("DATA")
                        THEN IF wire[n].code = 354
                             THEN at' = "body" /\ UNCHANGED <<api, todo, result>>
                             ELSE Return("smtp")
                        ELSE IF wire[n].code = 250 THEN Advance ELSE Return("smtp")
<1>1. /\ at = "final" \/ (at = "reply" /\ (Doing("MAIL") \/ Doing("RCPT") \/ Doing("DATA")))
      /\ \A v, w : Doing(v) /\ Doing(w) => v = w
      /\ at = "final" => Doing("DATA")
  BY DEF Doing, step, PlaceInv
<1>2. ASSUME NEW p, NEW v, Expect(p, v, 250), p = "final" \/ v # "DATA" PROVE Goal
  <2>1. /\ at = p /\ Doing(v) /\ UNCHANGED rbuf
        /\ \E n \in 1..Len(wire) :
              /\ ReadReply(n)
              /\ IF wire[n].code = 250 THEN Advance ELSE Return("smtp")
    BY <1>2 DEF Expect, Wanted
  <2>2. ~(at = "reply" /\ Doing("DATA"))
    BY <1>1, <1>2, <2>1
  <2> QED BY <2>1, <2>2
<1>3. CASE dataReply
  BY <1>3 DEF dataReply
<1>4. CASE Expire
  BY <1>4 DEF Expire, control
<1> HIDE DEF Goal
<1>5. \A v : ~Request(v)
  BY <1>1 DEF Request
<1>6. \A name, steps : ~Call(name, steps) /\ ~Begin(name, steps)
  BY <1>1 DEF Call, Begin
<1>7. ~Dial /\ ~NewClient /\ ~greeting /\ ~ehlo /\ ~StartTLS /\ ~Close
  <2>1. ~Dial /\ ~NewClient /\ ~greeting /\ ~StartTLS
    BY <1>1, <1>5, <1>6 DEF Dial, NewClient, Connect, greeting, StartTLS, startTLSReply
  <2>2. ~ehlo
    <3>1. ~(at = "reply" /\ Doing("EHLO")) /\ ~(at = "reply" /\ Doing("HELO"))
      BY <1>1
    <3> QED BY <1>5, <3>1 DEF ehlo, ehloReply, heloReply
  <2>3. ~Close
    BY <1>1, <1>5, <1>6 DEF Close
  <2> QED BY <2>1, <2>2, <2>3
<1>8. ~Auth
  BY <1>1, <1>5, <1>6 DEF Auth, authReply, respond, respondError, authCancelled
<1>9. ~writeError /\ ~readError /\ ~malformedReply
  BY DEF writeError, readError, malformedReply, Break
<1>10. ~SendMail /\ ~SubmitMessage
  BY <1>6 DEF SendMail, SubmitMessage
<1>11. CASE Mail \/ Rcpt \/ Reset \/ Noop
  <2>1. \E v \in {"MAIL", "RCPT", "RSET", "NOOP"} : Exchange(v, 250)
    BY <1>6, <1>11 DEF Mail, Rcpt, Reset, Noop
  <2>2. PICK v \in {"MAIL", "RCPT", "RSET", "NOOP"} : Expect("reply", v, 250)
    BY <1>5, <2>1 DEF Exchange
  <2>3. v # "DATA"
    OBVIOUS
  <2> QED BY <1>2, <2>2, <2>3 DEF Goal
<1>12. CASE Bdat
  <2> DEFINE s(c) == <<[With("BDAT", "size") EXCEPT !.n = c.n,
                         !.opt = IF c.last THEN "LAST" ELSE Empty]>>
  <2>1. (\E c \in BdatArgs : Call("Bdat", s(c))) \/ Exchange("BDAT", 250)
    BY <1>12 DEF Bdat
  <2> HIDE DEF s
  <2>2. Expect("reply", "BDAT", 250)
    BY <1>5, <1>6, <2>1, Zenon DEF Exchange
  <2>3. "BDAT" # "DATA"
    OBVIOUS
  <2> QED BY <1>2, <2>2, <2>3 DEF Goal
<1>13. CASE Data
  <2>1. ~sendBody /\ ~bodyWriteError
    BY <1>1 DEF sendBody, bodyWriteError
  <2>2. \A b \in MessageReaders : ~Call("Data", <<DataStep(b)>>)
    BY <1>6
  <2>3. dataReply \/ Expect("final", "DATA", 250)
    BY <1>5, <1>13, <2>1, <2>2, Zenon DEF Data
  <2> QED BY <1>2, <1>3, <2>3 DEF Goal
<1> QED BY <1>3, <1>4, <1>7, <1>8, <1>9, <1>10, <1>11, <1>12, <1>13
        DEF ClientStep, Goal

----------------------------------------------------------------------------
(* Theorems *)

\* Every variable of the client keeps its type, for any calls and any answers:
\* in particular LOGIN's step stays within what auth.go switches on, and a call
\* ends in one of four ways.
THEOREM ClientTyped == Spec => []TypeOK
<1>1. CallInv => TypeOK
  BY DEF CallInv
<1> QED BY <1>1, CallSafety, PTL

\* A StartTLS that has returned nil has read the extensions anew over TLS.
THEOREM TLSRefreshes == Spec => []RefreshedByTLS
<1>1. CallInv => RefreshedByTLS
  BY DEF CallInv
<1> QED BY <1>1, CallSafety, PTL

\* No answer of the server makes SubmitMessage go on to AUTH in plaintext where
\* STARTTLS was offered and configured.
THEOREM SubmitsOverTLS == Spec => []SubmitUpgrades
<1>1. CallInv => SubmitUpgrades
  BY DEF CallInv
<1> QED BY <1>1, CallSafety, PTL

\* However many challenges the server makes, LOGIN sends the user name to the
\* first and the password to the second, if its value is not used again.
THEOREM LoginOrdered == Spec => []LoginOrder
<1>1. CallInv => LoginOrder
  <2> SUFFICES ASSUME CallInv, at = "respond", step.arg = "LOGIN", ~mech.used
               PROVE  mech.step = step.n - 1
    BY DEF LoginOrder
  <2>1. TypeOK /\ PlaceInv /\ MechInv
    BY DEF CallInv
  <2>2. todo # <<>> /\ step.verb = "AUTH"
    BY <2>1 DEF PlaceInv, Doing, step
  <2>3. step = todo[1] /\ Len(todo) \in Nat \ {0}
    BY <2>1, <2>2, StepType, TypeParts
  <2>4. MechOK(1)
    BY <2>1, <2>3 DEF MechInv
  <2> QED BY <2>2, <2>3, <2>4 DEF MechOK
<1> QED BY <1>1, CallSafety, PTL

\* A Dial that fails at any of its steps, and a Close, close the connection.
THEOREM NothingLeaks == Spec => []ConnectionReleased
<1>1. CallInv => ConnectionReleased
  BY DEF CallInv
<1> QED BY <1>1, CallSafety, PTL
=============================================================================
