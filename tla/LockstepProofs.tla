--------------------------- MODULE LockstepProofs ---------------------------
(***************************************************************************)
(* The client and a server that answers each command never get out of step *)
(* unless a call has left a reply unread or a command unfinished.          *)
(***************************************************************************)
EXTENDS ClientProofs

\* Both ends at rest, and the stream empty.
Quiet == rbuf = <<>> /\ wire = <<>> /\ srv = "read"

\* The greeting has not been read.
Greeting == /\ rbuf = <<>>
            /\ \/ srv = "start" /\ wire = <<>>
               \/ srv = "read" /\ wire \in {Reply(220), Reply(554)}

\* The command is on its way, or its answer is.
Awaiting ==
    \/ /\ wire = <<>> /\ srv = "read" /\ rbuf # <<>>
       /\ command.verb = step.verb
       /\ Len(rbuf) = IF step.verb = "BDAT" THEN 1 + command.n ELSE 1
    \/ /\ step.verb = "AUTH" /\ srv = "auth"
       /\ wire = <<>> /\ Len(rbuf) = 1 /\ command.verb = "b64"
    \/ /\ rbuf = <<>> /\ wire \in Answers(step.verb)
       /\ srv = After(step.verb, wire)

\* The end of the body is on its way, or the reply to it is.
AwaitingFinal ==
    \/ /\ wire = <<>> /\ srv = "data" /\ rbuf # <<>>
       /\ \A i \in 1..Len(rbuf) : rbuf[i].line.verb = "." <=> i = Len(rbuf)
    \/ rbuf = <<>> /\ wire \in {Reply(250), Reply(550)} /\ srv = "read"

AwaitingCancel ==
    \/ wire = <<>> /\ srv = "auth" /\ Len(rbuf) = 1 /\ command.verb = "*"
    \/ rbuf = <<>> /\ wire = Reply(501) /\ srv = "read"

\* Client and server in lockstep: for every place of the client, what the
\* stream holds and where the server is.
Lock ==
    /\ at \in {"idle", "send"} => Quiet
    /\ at = "none" \/ (at = "reply" /\ Doing("greeting")) => Greeting
    /\ at = "reply" /\ ~Doing("greeting") => Awaiting
    /\ at = "body" => rbuf = <<>> /\ wire = <<>> /\ srv = "data"
    /\ at = "final" => AwaitingFinal
    /\ at = "handshake" => rbuf = <<>> /\ wire = <<>> /\ srv = "tls"
    /\ at = "respond" => rbuf = <<>> /\ wire = <<>> /\ srv = "auth"
    /\ at = "cancel" => AwaitingCancel

Lockstep == clean /\ ~ServerGone => Lock

----------------------------------------------------------------------------
(* Replies *)

\* A whole reply and nothing behind it: one line, or two of which the first
\* announces the second.
Whole(w) == /\ w \in Seq(ReplyLines)
            /\ Len(w) = 1 \/ (Len(w) = 2 /\ w[1].sep = "-")

\* Reading a whole answer empties the stream.
LEMMA ReadWhole ==
    ASSUME Whole(wire), NEW n \in 1..Len(wire), EndsReply(n), Consume(n)
    PROVE  n = Len(wire) /\ wire' = <<>>
<1>1. n = Len(wire)
  <2>1. CASE Len(wire) = 1
    BY <2>1
  <2>2. CASE Len(wire) = 2 /\ wire[1].sep = "-"
    <3>1. n = 1 \/ n = 2
      BY <2>2
    <3>2. n # 1
      BY <2>2 DEF EndsReply
    <3> QED BY <2>2, <3>1, <3>2
  <2> QED BY <2>1, <2>2 DEF Whole
<1> QED BY <1>1 DEF Consume, Whole

\* A reply of one line.
LEMMA ReplyFields ==
    /\ \A c : Len(Reply(c)) = 1 /\ Reply(c)[1].code = c
    /\ \A c \in 0..599 : Whole(Reply(c))
<1>1. ASSUME NEW c PROVE Len(Reply(c)) = 1 /\ Reply(c)[1].code = c
  <2> DEFINE x == [code |-> c, sep |-> " ", exts |-> {}]
  <2>1. x.code = c /\ Reply(c) = <<x>>
    BY DEF Reply
  <2> HIDE DEF x
  <2> QED BY <2>1
<1>2. ASSUME NEW c \in 0..599 PROVE Whole(Reply(c))
  BY <1>1, AnswerTypes DEF Whole
<1> QED BY <1>1, <1>2

\* The replies of one line are whole answers.
LEMMA WholeReplies ==
    /\ Whole(Reply(220)) /\ Whole(Reply(554))
    /\ Whole(Reply(250)) /\ Whole(Reply(550)) /\ Whole(Reply(501))
<1>1. /\ 220 \in 0..599 /\ 554 \in 0..599
      /\ 250 \in 0..599 /\ 550 \in 0..599 /\ 501 \in 0..599
  OBVIOUS
<1>2. \A c \in 0..599 : Whole(Reply(c))
  BY ReplyFields, ZenonT(30)
<1> QED BY <1>1, <1>2, SMTT(30)

\* Every answer is a whole reply.
LEMMA AnswersWhole ==
    ASSUME NEW v, NEW r \in Answers(v)
    PROVE  Whole(r)
<1>1. \A c \in 0..599 : Whole(Reply(c))
  BY ReplyFields
<1>2. Whole(Garbage) /\ Whole(Undecodable)
  <2>1. Len(Garbage) = 1 /\ Len(Undecodable) = 1
    BY DEF Garbage, Undecodable
  <2>2. Garbage \in Answers("DATA") /\ Undecodable \in Answers("AUTH")
    BY DEF Answers
  <2>3. Garbage \in Seq(ReplyLines) /\ Undecodable \in Seq(ReplyLines)
    BY <2>2, AnswerTypes
  <2> HIDE DEF Garbage, Undecodable
  <2> QED BY <2>1, <2>3 DEF Whole
<1>3. Whole(Offer({"STARTTLS"}))
  <2> DEFINE x == [code |-> 250, sep |-> "-", exts |-> {}]
             y == [code |-> 250, sep |-> " ", exts |-> {"STARTTLS"}]
  <2>1. x.sep = "-" /\ Offer({"STARTTLS"}) = <<x, y>>
    BY DEF Offer
  <2>2. Offer({"STARTTLS"}) \in Answers("EHLO")
    BY DEF Answers
  <2>3. Offer({"STARTTLS"}) \in Seq(ReplyLines)
    BY <2>2, AnswerTypes
  <2> HIDE DEF x, y
  <2> QED BY <2>1, <2>3 DEF Whole
<1>4. \/ \E c \in 0..599 : r = Reply(c)
      \/ r \in {Garbage, Offer({"STARTTLS"}), Undecodable}
  BY AnswerKinds
<1> QED BY <1>1, <1>2, <1>3, <1>4

\* Where the server goes after an answer that ends the command.
LEMMA AfterAnswer ==
    /\ \A v : \A r : v \notin {"DATA", "STARTTLS", "AUTH", "QUIT"} =>
                        After(v, r) = "read"
    /\ After("DATA", Reply(354)) = "data"
    /\ \A r : r # Reply(354) => After("DATA", r) = "read"
    /\ After("STARTTLS", Reply(220)) = "tls"
    /\ \A r : r # Reply(220) => After("STARTTLS", r) = "read"
    /\ \A r : After("AUTH", r) = IF r[1].code = 334 THEN "auth" ELSE "read"
    /\ \A r : After("QUIT", r) = "closed"
<1> HIDE DEF Reply
<1> QED BY DEF After

\* The server does not begin again.
LEMMA AfterStart == \A v : \A r : After(v, r) # "start"
  BY DEF After

\* ReadReply of the answer to the command of the step in progress.
LEMMA AnswerRead ==
    ASSUME TypeOK, Lock, at = "reply", NEW v, Doing(v), v # "greeting",
           NEW n \in 1..Len(wire), ReadReply(n)
    PROVE  /\ wire' = <<>> /\ rbuf = <<>> /\ n = Len(wire)
           /\ wire \in Answers(v) /\ srv = After(v, wire)
<1>1. ~Doing("greeting") /\ step.verb = v
  BY DEF Doing, step
<1>2. Awaiting /\ wire # <<>>
  BY <1>1 DEF Lock
<1>3. rbuf = <<>> /\ wire \in Answers(v) /\ srv = After(v, wire)
  BY <1>1, <1>2 DEF Awaiting
<1>4. Whole(wire)
  BY <1>3, AnswersWhole
<1> QED BY <1>3, <1>4, ReadWhole DEF ReadReply

\* Nothing is in flight where the call goes on to its next step or returns.
LEMMA AtRest ==
    ASSUME at' \in {"idle", "send", "gone"},
           rbuf' = <<>>, wire' = <<>>, srv' = "read"
    PROVE  Lock'
  BY DEF Lock, Quiet

\* Where a client is that has gone on to its next step.
LEMMA AdvancePlace == Advance => at' \in {"idle", "send", "gone"}
  BY DEF Advance, Return, ReturnAnd

\* Where a client is that has returned.
LEMMA ReturnPlace == \A err : Return(err) => at' \in {"idle", "send", "gone"}
  BY DEF Return, ReturnAnd

\* A server that has gone stays away, and what has been left unread or
\* unfinished stays so.
LEMMA LockHolds ==
    ASSUME TypeOK, Lockstep, [Next]_vars, clean', ~ServerGone'
    PROVE  clean /\ ~ServerGone /\ Lock
<1>1. clean
  <2>1. CASE ClientStep
    BY <2>1 DEF ClientStep, Dial, NewClient, Connect, greeting, ehlo, Request,
       ehloReply, heloReply, Mail, Rcpt, Data, Bdat, Reset, Noop, Call, Begin,
       Exchange, Expect, dataReply, sendBody, bodyWriteError, Break, StartTLS,
       startTLSReply, Auth, authReply, respond, respondError, authCancelled,
       SubmitMessage, SendMail, Close, writeError, readError, malformedReply
  <2>2. CASE ServerStep
    BY <2>2 DEF ServerStep, serverGreets, serverAnswers, serverReadsBody,
       serverAuthenticates, serverCloses, atRest
  <2>3. CASE Expire \/ handshake \/ UNCHANGED vars
    BY <2>3 DEF Expire, handshake, upgraded, handshakeError, vars
  <2> QED BY <2>1, <2>2, <2>3 DEF Next, Ended
<1>2. ~ServerGone
  <2>1. SUFFICES ASSUME srv = "closed" PROVE srv' = "closed"
    BY DEF ServerGone
  <2>2. CASE ClientStep
    BY <2>1, <2>2 DEF ClientStep, Dial, NewClient, Connect, greeting, ehlo,
       Request, ehloReply, heloReply, Mail, Rcpt, Data, Bdat, Reset, Noop, Call,
       Begin, Exchange, Expect, dataReply, sendBody, bodyWriteError, StartTLS,
       startTLSReply, Auth, authReply, respond, respondError, authCancelled,
       SubmitMessage, SendMail, Close, writeError, readError, malformedReply
  <2>3. CASE ServerStep
    BY <2>1, <2>3 DEF ServerStep, serverGreets, serverAnswers, serverReadsBody,
       serverAuthenticates, serverCloses
  <2>4. CASE Expire \/ handshake \/ UNCHANGED vars
    BY <2>1, <2>4 DEF Expire, handshake, handshakeError, vars
  <2> QED BY <2>2, <2>3, <2>4 DEF Next, Ended
<1> QED BY <1>1, <1>2 DEF Lockstep

----------------------------------------------------------------------------
(* The client's steps *)

\* A call that begins finds the stream quiet and leaves it so.
LEMMA BeginLock ==
    ASSUME Lock, at = "idle", at' = "send", UNCHANGED <<rbuf, wire, srv>>
    PROVE  Lock'
  BY AtRest DEF Lock, Quiet

\* Dial, NewClient and their reading of the greeting keep the lockstep.
LEMMA ConnectLock ==
    ASSUME TypeOK, Lock, Dial \/ NewClient \/ greeting
    PROVE  Lock'
<1>1. CASE Dial \/ NewClient
  <2>1. /\ at = "none" /\ at' = "reply" /\ UNCHANGED <<rbuf, wire, srv>>
        /\ todo' = <<Bare("greeting"), With("EHLO", "h")>>
    BY <1>1 DEF Dial, NewClient, Connect
  <2>2. Bare("greeting").verb = "greeting"
    BY DEF Bare
  <2> HIDE DEF Bare, With
  <2>3. Doing("greeting")'
    BY <2>1, <2>2 DEF Doing
  <2>4. Greeting'
    BY <2>1 DEF Lock, Greeting
  <2> QED BY <2>1, <2>3, <2>4 DEF Lock
<1>2. CASE greeting
  <2>1. PICK n \in 1..Len(wire) : ReadReply(n) /\ (Advance \/ Return("smtp"))
    BY <1>2 DEF greeting
  <2>2. Greeting /\ wire # <<>> /\ UNCHANGED <<rbuf, srv>>
    BY <1>2, <2>1 DEF greeting, Lock
  <2>3. Whole(wire)
    BY <2>2, WholeReplies DEF Greeting
  <2>4. wire' = <<>>
    BY <2>1, <2>3, ReadWhole DEF ReadReply
  <2>5. srv' = "read" /\ rbuf' = <<>>
    BY <2>2 DEF Greeting
  <2> QED BY <2>1, <2>4, <2>5, AtRest, AdvancePlace, ReturnPlace
<1> QED BY <1>1, <1>2

\* The command of the step is on its way.
LEMMA RequestLock ==
    ASSUME TypeOK, Lock, NEW v, v # "greeting", Request(v)
    PROVE  Lock'
<1>1. /\ at = "send" /\ at' = "reply" /\ Doing(v) /\ Write(Sent(step))
      /\ UNCHANGED <<todo, wire, srv>> /\ todo # <<>>
  BY DEF Request, Doing
<1>2. rbuf = <<>> /\ wire = <<>> /\ srv = "read"
  BY <1>1 DEF Lock, Quiet
<1>3. step \in Steps /\ step.verb = v
  BY <1>1, StepType, TypeParts DEF Doing, step
<1>4. /\ Sent(step) \in Seq(Steps) /\ Len(Sent(step)) >= 1
      /\ Sent(step)[1].verb = step.verb
      /\ step.verb = "BDAT" => Len(Sent(step)) = 1 + step.n /\ Sent(step)[1] = step
      /\ step.verb # "BDAT" => Len(Sent(step)) = 1
  BY <1>3, SentType
<1>5. rbuf \in Seq(Queued) /\ tls \in BOOLEAN
  BY TypeParts DEF StreamsOK, RestOK
<1>6. /\ rbuf' \in Seq(Queued) /\ Len(rbuf') = Len(rbuf) + Len(Sent(step))
      /\ \A i \in 1..Len(Sent(step)) :
            rbuf'[Len(rbuf) + i].line = Sent(step)[i]
  BY <1>1, <1>4, <1>5, WriteAppends
<1>7. Len(rbuf) = 0 /\ Len(Sent(step)) \in Nat /\ 1 \in 1..Len(Sent(step))
  BY <1>2, <1>4
<1>8. Len(rbuf') = Len(Sent(step)) /\ rbuf'[1].line = Sent(step)[1]
  BY <1>6, <1>7
<1>9. rbuf' # <<>> /\ Head(rbuf') = rbuf'[1]
  BY <1>4, <1>6, <1>8
<1>10. command' = Sent(step)[1] /\ step' = step
  BY <1>1, <1>8, <1>9 DEF command, step
<1>11. Awaiting'
  BY <1>1, <1>2, <1>4, <1>8, <1>9, <1>10 DEF Awaiting
<1>12. ~Doing("greeting")'
  BY <1>1, <1>3, <1>10 DEF Doing, step
<1> QED BY <1>1, <1>11, <1>12 DEF Lock

\* Reading the reply that ends a step keeps the lockstep.
LEMMA ExpectLock ==
    ASSUME TypeOK, Lock,
           \/ Expect("final", "DATA", 250)
           \/ \E v \in Mailing \ {"DATA"} : Expect("reply", v, 250)
    PROVE  Lock'
<1>1. CASE Expect("final", "DATA", 250)
  <2>1. PICK n \in 1..Len(wire) : ReadReply(n) /\ (Advance \/ Return("smtp"))
    BY <1>1 DEF Expect
  <2>2. AwaitingFinal /\ wire # <<>> /\ UNCHANGED <<rbuf, srv>>
    BY <1>1, <2>1 DEF Expect, Lock
  <2>3. rbuf = <<>> /\ srv = "read" /\ Whole(wire)
    BY <2>2, WholeReplies DEF AwaitingFinal
  <2>4. wire' = <<>>
    BY <2>1, <2>3, ReadWhole DEF ReadReply
  <2> QED BY <2>1, <2>2, <2>3, <2>4, AtRest, AdvancePlace, ReturnPlace
<1>2. ASSUME NEW v \in Mailing \ {"DATA"}, Expect("reply", v, 250)
      PROVE  Lock'
  <2>1. PICK n \in 1..Len(wire) : ReadReply(n) /\ (Advance \/ Return("smtp"))
    BY <1>2 DEF Expect
  <2>2. at = "reply" /\ Doing(v) /\ UNCHANGED <<rbuf, srv>>
    BY <1>2 DEF Expect
  <2>3. wire' = <<>> /\ rbuf = <<>> /\ srv = After(v, wire)
    BY <2>1, <2>2, AnswerRead DEF Mailing
  <2>4. srv = "read"
    BY <2>3, AfterAnswer DEF Mailing
  <2> QED BY <2>1, <2>2, <2>3, <2>4, AtRest, AdvancePlace, ReturnPlace
<1> QED BY <1>1, <1>2

\* Reading the reply to EHLO or HELO keeps the lockstep.
LEMMA EhloLock ==
    ASSUME TypeOK, Lock, ehloReply \/ heloReply
    PROVE  Lock'
<1>1. PICK n \in 1..Len(wire) :
          ReadReply(n) /\ (Advance \/ Return("smtp") \/ at' = "send")
  BY DEF ehloReply, heloReply
<1>2. PICK v \in {"EHLO", "HELO"} : Doing(v)
  BY DEF ehloReply, heloReply
<1>3. at = "reply" /\ UNCHANGED <<rbuf, srv>>
  BY DEF ehloReply, heloReply
<1>4. wire' = <<>> /\ rbuf = <<>> /\ srv = After(v, wire)
  BY <1>1, <1>2, <1>3, AnswerRead
<1>5. srv = "read"
  BY <1>4, AfterAnswer
<1> QED BY <1>1, <1>3, <1>4, <1>5, AtRest, AdvancePlace, ReturnPlace

\* The code tells the answers to DATA, STARTTLS and AUTH apart.
LEMMA AnswerCodes ==
    /\ \A r \in Answers("DATA") : r[Len(r)].code = 354 <=> r = Reply(354)
    /\ \A r \in Answers("STARTTLS") : r[Len(r)].code = 220 <=> r = Reply(220)
    /\ \A r \in Answers("AUTH") : Len(r) = 1
<1>3. /\ Len(Reply(354)) = 1 /\ Reply(354)[1].code = 354
      /\ Len(Reply(554)) = 1 /\ Reply(554)[1].code = 554
  BY ReplyFields
<1>4. /\ Len(Reply(220)) = 1 /\ Reply(220)[1].code = 220
      /\ Len(Reply(454)) = 1 /\ Reply(454)[1].code = 454
  BY ReplyFields
<1>5. Len(Reply(235)) = 1 /\ Len(Reply(334)) = 1 /\ Len(Reply(535)) = 1
  BY ReplyFields
<1>6. Len(Garbage) = 1 /\ Garbage[1].code = 0 /\ Len(Undecodable) = 1
  <2> DEFINE x == [code |-> 0, sep |-> "bad", exts |-> {}]
             y == [code |-> 334, sep |-> " ", exts |-> {"not base64"}]
  <2>1. x.code = 0 /\ Garbage = <<x>> /\ Undecodable = <<y>>
    BY DEF Garbage, Undecodable
  <2> HIDE DEF x, y
  <2> QED BY <2>1
<1>7. /\ Answers("DATA") = {Reply(354), Reply(554), Garbage}
      /\ Answers("STARTTLS") = {Reply(220), Reply(454)}
      /\ Answers("AUTH") = {Reply(235), Reply(334), Reply(535), Undecodable}
  BY DEF Answers
<1> HIDE DEF Reply, Garbage, Undecodable
<1> QED BY <1>3, <1>4, <1>5, <1>6, <1>7

\* The 354 and the body after it keep the lockstep.
LEMMA DataLock ==
    ASSUME TypeOK, PlaceInv, Lock, dataReply \/ sendBody, clean'
    PROVE  Lock'
<1>1. CASE dataReply
  <2>1. PICK n \in 1..Len(wire) :
            /\ ReadReply(n)
            /\ IF wire[n].code = 354 THEN at' = "body" ELSE Return("smtp")
    BY <1>1 DEF dataReply
  <2>2. at = "reply" /\ Doing("DATA") /\ UNCHANGED <<rbuf, srv>>
    BY <1>1 DEF dataReply
  <2>3. /\ wire' = <<>> /\ rbuf = <<>> /\ n = Len(wire)
        /\ wire \in Answers("DATA") /\ srv = After("DATA", wire)
    BY <2>1, <2>2, AnswerRead
  <2>4. CASE wire[n].code = 354
    <3>1. srv = "data"
      BY <2>3, <2>4, AnswerCodes, AfterAnswer
    <3> QED BY <2>1, <2>2, <2>3, <2>4, <3>1 DEF Lock
  <2>5. CASE wire[n].code # 354
    <3>1. wire # Reply(354)
      BY <2>3, <2>5, AnswerCodes
    <3>2. srv = "read"
      BY <2>3, <3>1, AfterAnswer
    <3> QED BY <2>1, <2>2, <2>3, <2>5, <3>2, AtRest, ReturnPlace
  <2> QED BY <2>4, <2>5
<1>2. CASE sendBody
  <2>1. /\ at = "body" /\ at' = "final" /\ Write(Terminated(step.n))
        /\ UNCHANGED <<wire, srv>>
    BY <1>2 DEF sendBody, Break
  <2>2. rbuf = <<>> /\ wire = <<>> /\ srv = "data" /\ todo # <<>>
    BY <2>1 DEF Lock, PlaceInv, Doing
  <2>3. step.n \in Nat
    BY <2>2, StepType, TypeParts DEF Steps
  <2> DEFINE k == step.n
             ls == Terminated(k)
  <2>4. /\ ls \in Seq(Steps) /\ Len(ls) = k + 1 /\ k \in Nat
        /\ \A i \in 1..k : ls[i].verb # "."
        /\ ls[k + 1].verb = "."
    <3>1. /\ ls \in Seq(Steps) /\ Len(ls) = k + 1 /\ k \in Nat
          /\ \A i \in 1..k : ls[i] = Bare("TEXT")
          /\ ls[k + 1] = Bare(".")
      BY <2>3, TextType
    <3>2. Bare("TEXT").verb # "." /\ Bare(".").verb = "."
      BY DEF Bare
    <3> HIDE DEF Bare, ls
    <3> QED BY <3>1, <3>2
  <2>5. rbuf \in Seq(Queued) /\ tls \in BOOLEAN /\ Write(ls)
    BY <2>1, TypeParts DEF StreamsOK, RestOK
  <2> HIDE DEF ls, k
  <2>6. /\ rbuf' \in Seq(Queued) /\ Len(rbuf') = Len(rbuf) + Len(ls)
        /\ \A i \in 1..Len(ls) : rbuf'[Len(rbuf) + i].line = ls[i]
    BY <2>4, <2>5, WriteAppends
  <2>7. Len(rbuf) = 0
    BY <2>2
  <2>8. Len(rbuf') = k + 1 /\ \A i \in 1..(k + 1) : rbuf'[i].line = ls[i]
    BY <2>4, <2>6, <2>7
  <2>9. \A i \in 1..Len(rbuf') : rbuf'[i].line.verb = "." <=> i = Len(rbuf')
    BY <2>4, <2>8
  <2>10. rbuf' # <<>>
    BY <2>4, <2>6, <2>8
  <2>11. AwaitingFinal'
    BY <2>1, <2>2, <2>9, <2>10 DEF AwaitingFinal
  <2> QED BY <2>1, <2>11 DEF Lock
<1> QED BY <1>1, <1>2

\* The reply to STARTTLS and the handshake keep the lockstep.
LEMMA TLSLock ==
    ASSUME TypeOK, Lock, startTLSReply \/ handshake, clean'
    PROVE  Lock'
<1>1. CASE startTLSReply
  <2>1. PICK n \in 1..Len(wire) :
            /\ ReadReply(n)
            /\ IF wire[n].code = 220 THEN at' = "handshake" ELSE Return("smtp")
    BY <1>1 DEF startTLSReply
  <2>2. at = "reply" /\ Doing("STARTTLS") /\ UNCHANGED <<rbuf, srv>>
    BY <1>1 DEF startTLSReply
  <2>3. /\ wire' = <<>> /\ rbuf = <<>> /\ n = Len(wire)
        /\ wire \in Answers("STARTTLS") /\ srv = After("STARTTLS", wire)
    BY <2>1, <2>2, AnswerRead
  <2>4. CASE wire[n].code = 220
    <3>1. srv = "tls"
      BY <2>3, <2>4, AnswerCodes, AfterAnswer
    <3> QED BY <2>1, <2>2, <2>3, <2>4, <3>1 DEF Lock
  <2>5. CASE wire[n].code # 220
    <3>1. wire # Reply(220)
      BY <2>3, <2>5, AnswerCodes
    <3>2. srv = "read"
      BY <2>3, <3>1, AfterAnswer
    <3> QED BY <2>1, <2>2, <2>3, <2>5, <3>2, AtRest, ReturnPlace
  <2> QED BY <2>4, <2>5
<1>2. CASE upgraded /\ srv' = "read" /\ rbuf' = <<>>
  BY <1>2, AtRest DEF upgraded, Reissue
<1>3. CASE handshakeError
  BY <1>3 DEF handshakeError
<1> QED BY <1>1, <1>2, <1>3 DEF handshake

\* One line written to an empty stream.
LEMMA WriteOne ==
    ASSUME TypeOK, rbuf = <<>>, NEW s \in Steps, Write(<<s>>)
    PROVE  Len(rbuf') = 1 /\ command' = s
<1>1. <<s>> \in Seq(Steps) /\ Len(<<s>>) = 1 /\ <<s>>[1] = s
  BY Singles
<1>2. rbuf \in Seq(Queued) /\ tls \in BOOLEAN /\ Len(rbuf) = 0
  BY TypeParts DEF StreamsOK, RestOK
<1> DEFINE ls == <<s>>
<1>3. ls \in Seq(Steps) /\ Len(ls) = 1 /\ ls[1] = s /\ Write(ls)
  BY <1>1
<1> HIDE DEF ls
<1>4. /\ rbuf' \in Seq(Queued) /\ Len(rbuf') = Len(rbuf) + Len(ls)
      /\ \A i \in 1..Len(ls) : rbuf'[Len(rbuf) + i].line = ls[i]
  BY <1>2, <1>3, WriteAppends
<1>5. Len(rbuf') = 1 /\ rbuf'[1].line = s
  BY <1>2, <1>3, <1>4
<1>6. Head(rbuf') = rbuf'[1]
  BY <1>4, <1>5
<1> QED BY <1>5, <1>6 DEF command

\* Challenges, responses and a cancelled AUTH keep the lockstep.
LEMMA AuthLock ==
    ASSUME TypeOK, PlaceInv, Lock,
           authReply \/ respond \/ respondError \/ authCancelled, clean'
    PROVE  Lock'
<1>1. CASE authReply
  <2>1. PICK n \in 1..Len(wire) :
            /\ ReadReply(n)
            /\ \/ wire[n].code = 235 /\ Advance /\ UNCHANGED clean
               \/ wire[n].code \notin {235, 334} /\ Return("smtp")
                  /\ UNCHANGED clean
               \/ /\ wire[n].code = 334
                  /\ "not base64" \in wire[n].exts /\ Break
               \/ /\ wire[n].code = 334 /\ "not base64" \notin wire[n].exts
                  /\ at' = "respond"
                  /\ todo' = [todo EXCEPT ![1].n = Count(@)]
                  /\ UNCHANGED <<api, result, open, clean>>
    BY <1>1, Zenon DEF authReply
  <2>2. at = "reply" /\ Doing("AUTH") /\ UNCHANGED <<rbuf, srv>>
    BY <1>1 DEF authReply
  <2>3. /\ wire' = <<>> /\ rbuf = <<>> /\ n = Len(wire)
        /\ wire \in Answers("AUTH") /\ srv = After("AUTH", wire)
    BY <2>1, <2>2, AnswerRead
  <2>4. n = 1 /\ ~Break
    BY <2>3, AnswerCodes DEF Break
  <2>5. srv = IF wire[n].code = 334 THEN "auth" ELSE "read"
    BY <2>3, <2>4, AfterAnswer
  <2>6. CASE wire[n].code = 334
    <3>1. at' = "respond" /\ srv = "auth"
      <4>1. wire[n].code # 235 /\ wire[n].code \in {235, 334}
        BY <2>6
      <4>2. at' = "respond"
        BY <2>1, <2>4, <4>1, Zenon
      <4> QED BY <2>5, <2>6, <4>2
    <3> QED BY <2>2, <2>3, <3>1 DEF Lock
  <2>7. CASE wire[n].code # 334
    <3>1. srv = "read" /\ at' \in {"idle", "send", "gone"}
      BY <2>1, <2>4, <2>5, <2>7, AdvancePlace, ReturnPlace
    <3> QED BY <2>2, <2>3, <3>1, AtRest
  <2> QED BY <2>6, <2>7
<1>2. CASE respond
  <2> DEFINE answer == [With("b64", "good") EXCEPT
                          !.opt = IF step.arg # "LOGIN" THEN Empty
                                  ELSE IF mech.step = 0 THEN "user" ELSE "pass"]
  <2>1. /\ answer \in Steps /\ answer.verb = "b64"
        /\ Bare("*") \in Steps /\ Bare("*").verb = "*"
    <3>1. With("b64", "good") \in Steps /\ Bare("*") \in Steps
      BY StepTypes DEF StepVerbs, Args
    <3>2. \A o \in Opts : [With("b64", "good") EXCEPT !.opt = o] \in Steps
      BY <3>1 DEF Steps
    <3>3. answer.verb = "b64" /\ Bare("*").verb = "*"
      BY DEF With, Bare
    <3> QED BY <3>1, <3>2, <3>3 DEF Opts
  <2> HIDE DEF answer
  <2>2. /\ at = "respond" /\ UNCHANGED <<todo, wire, srv>>
        /\ \/ Write(<<Bare("*")>>) /\ at' = "cancel"
           \/ Write(<<answer>>) /\ at' = "reply"
    BY <1>2 DEF respond, answer
  <2>3. rbuf = <<>> /\ wire = <<>> /\ srv = "auth" /\ Doing("AUTH")
    BY <2>2 DEF Lock, PlaceInv
  <2>4. CASE Write(<<Bare("*")>>) /\ at' = "cancel"
    <3>1. Len(rbuf') = 1 /\ command'.verb = "*"
      BY <2>1, <2>3, <2>4, WriteOne
    <3>2. AwaitingCancel'
      BY <2>2, <2>3, <3>1 DEF AwaitingCancel
    <3> QED BY <2>4, <3>2 DEF Lock
  <2>5. CASE Write(<<answer>>) /\ at' = "reply"
    <3>1. Len(rbuf') = 1 /\ command'.verb = "b64"
      BY <2>1, <2>3, <2>5, WriteOne
    <3>2. step'.verb = "AUTH" /\ ~Doing("greeting")'
      BY <2>2, <2>3 DEF Doing, step
    <3>3. Awaiting'
      BY <2>2, <2>3, <3>1, <3>2 DEF Awaiting
    <3> QED BY <2>5, <3>2, <3>3 DEF Lock
  <2> QED BY <2>2, <2>4, <2>5
<1>3. CASE respondError
  BY <1>3 DEF respondError, Break
<1>4. CASE authCancelled
  <2>1. PICK n \in 1..Len(wire) : ReadReply(n)
    BY <1>4 DEF authCancelled, ReadCancelReply
  <2>2. AwaitingCancel /\ wire # <<>> /\ UNCHANGED <<rbuf, srv>>
    BY <1>4, <2>1 DEF authCancelled, Lock
  <2>3. rbuf = <<>> /\ srv = "read" /\ Whole(wire)
    BY <2>2, WholeReplies DEF AwaitingCancel
  <2>4. wire' = <<>>
    BY <2>1, <2>3, ReadWhole DEF ReadReply
  <2>5. at' \in {"idle", "send", "gone"}
    BY <1>4, ReturnPlace DEF authCancelled
  <2> QED BY <2>2, <2>3, <2>4, <2>5, AtRest
<1> QED BY <1>1, <1>2, <1>3, <1>4

\* The reply to QUIT is read from a server that has gone.
LEMMA CloseLock ==
    ASSUME TypeOK, Lock, Close, ~ServerGone
    PROVE  Lock'
<1>1. CASE at = "idle" /\ at' = "send" /\ UNCHANGED <<rbuf, wire, srv>>
  BY <1>1, BeginLock
<1>2. CASE Request("QUIT")
  BY <1>2, RequestLock
<1>3. CASE /\ at = "reply" /\ Doing("QUIT")
           /\ \E n \in 1..Len(wire) : ReadReply(n)
  <2>1. srv = After("QUIT", wire)
    BY <1>3, AnswerRead
  <2> QED BY <2>1, AfterAnswer DEF ServerGone
<1> QED BY <1>1, <1>2, <1>3 DEF Close

\* Every step of the client that leaves the stream clean keeps the lockstep.
LEMMA ClientLock ==
    ASSUME TypeOK, PlaceInv, Lock, ~ServerGone, ClientStep, clean'
    PROVE  Lock'
<1>1. CASE Dial \/ NewClient \/ greeting \/ ehlo
  BY <1>1, ConnectLock, EhloLock, RequestLock DEF ehlo
<1>2. ASSUME NEW name, NEW steps, Begin(name, steps) PROVE Lock'
  BY <1>2, BeginLock DEF Begin
<1>3. ASSUME NEW v \in Mailing \ {"DATA"}, Exchange(v, 250) PROVE Lock'
  BY <1>3, RequestLock, ExpectLock DEF Exchange, Mailing
<1>4. CASE Mail \/ Rcpt \/ Bdat \/ Reset \/ Noop \/ SendMail
  <2>1. Mailing \ {"DATA"} = {"MAIL", "RCPT", "BDAT", "RSET", "NOOP"}
    BY DEF Mailing
  <2>2. CASE Mail
    BY <1>2, <1>3, <2>1, <2>2 DEF Mail, Call
  <2>3. CASE Rcpt
    BY <1>2, <1>3, <2>1, <2>3 DEF Rcpt, Call
  <2>4. CASE Bdat
    BY <1>2, <1>3, <2>1, <2>4 DEF Bdat, Call
  <2>5. CASE Reset \/ Noop
    BY <1>2, <1>3, <2>1, <2>5 DEF Reset, Noop, Call
  <2>6. CASE SendMail
    BY <1>2, <2>6 DEF SendMail, Call
  <2> QED BY <1>4, <2>2, <2>3, <2>4, <2>5, <2>6
<1>5. CASE Data
  <2>1. ~bodyWriteError
    BY DEF bodyWriteError, Break
  <2> QED BY <1>2, <1>5, <2>1, RequestLock, DataLock, ExpectLock DEF Data, Call
<1>6. CASE StartTLS
  BY <1>2, <1>6, RequestLock, TLSLock DEF StartTLS, Call
<1>7. CASE Auth \/ SubmitMessage
  BY <1>2, <1>7, RequestLock, AuthLock DEF Auth, SubmitMessage
<1>8. CASE Close
  BY <1>8, CloseLock
<1>9. ~(writeError \/ readError \/ malformedReply)
  BY DEF writeError, readError, malformedReply, Break
<1> QED BY <1>1, <1>4, <1>5, <1>6, <1>7, <1>8, <1>9 DEF ClientStep

----------------------------------------------------------------------------
(* The server's steps *)

\* Every step of a server that has not gone keeps the lockstep.
LEMMA ServerLock ==
    ASSUME TypeOK, Lock, ServerStep, ~ServerGone'
    PROVE  Lock'
<1>1. UNCHANGED <<at, todo>> /\ step' = step /\ \A v : Doing(v)' <=> Doing(v)
  BY DEF ServerStep, serverGreets, serverAnswers, serverReadsBody,
     serverAuthenticates, serverCloses, atRest, control, step, Doing
<1>2. rbuf \in Seq(Queued) /\ wire \in Seq(ReplyLines)
  BY TypeParts DEF StreamsOK
<1>3. \A r \in Seq(ReplyLines) : <<>> \o r = r
  OBVIOUS
<1>4. CASE serverGreets
  <2>1. srv = "start" /\ srv' = "read" /\ rbuf' = rbuf
    BY <1>4 DEF serverGreets
  <2>2. at = "gone" \/ (at = "none" \/ (at = "reply" /\ Doing("greeting")))
    <3>1. at # "reply" \/ Doing("greeting")
      BY <2>1, AfterStart DEF Lock, Awaiting
    <3> QED BY <2>1, <3>1 DEF Lock, Quiet, AwaitingFinal, AwaitingCancel, TypeOK
  <2>3. CASE at = "gone"
    BY <1>1, <2>3 DEF Lock
  <2>4. CASE at = "none" \/ (at = "reply" /\ Doing("greeting"))
    <3>1. rbuf = <<>> /\ wire = <<>>
      BY <2>1, <2>4 DEF Lock, Greeting
    <3>2. PICK c \in {220, 554} : wire' = wire \o Reply(c)
      BY <1>4 DEF serverGreets
    <3>3. wire' = Reply(c)
      BY <1>3, <3>1, <3>2, WholeReplies DEF Whole
    <3>4. Greeting'
      BY <2>1, <3>1, <3>3 DEF Greeting
    <3> QED BY <1>1, <2>4, <3>4 DEF Lock
  <2> QED BY <2>2, <2>3, <2>4
<1>5. CASE serverAnswers
  <2>1. srv = "read" /\ rbuf # <<>>
    BY <1>5 DEF serverAnswers
  <2>2. at = "gone" \/ (at = "reply" /\ ~Doing("greeting"))
    BY <2>1 DEF Lock, Quiet, Greeting, AwaitingFinal, AwaitingCancel, TypeOK
  <2>3. CASE at = "gone"
    BY <1>1, <2>3 DEF Lock
  <2>4. CASE at = "reply" /\ ~Doing("greeting")
    <3>1. /\ wire = <<>> /\ command.verb = step.verb
          /\ Len(rbuf) = IF step.verb = "BDAT" THEN 1 + command.n ELSE 1
      BY <2>1, <2>4 DEF Lock, Awaiting
    <3>2. command \in Steps /\ command.n \in Nat
      BY <1>2, <2>1, CommandType DEF Steps
    <3>3. rbuf' = SubSeq(rbuf, Len(rbuf) + 1, Len(rbuf))
      BY <1>5, <3>1 DEF serverAnswers
    <3>4. rbuf' = <<>>
      BY <1>2, <3>3
    <3>5. PICK r \in Answers(step.verb) :
              wire' = wire \o r /\ srv' = After(step.verb, r)
      BY <1>5, <3>1 DEF serverAnswers
    <3>6. wire' = r
      BY <1>3, <3>1, <3>5, AnswerTypes
    <3>7. Awaiting'
      BY <1>1, <3>4, <3>5, <3>6 DEF Awaiting
    <3> QED BY <1>1, <2>4, <3>7 DEF Lock
  <2> QED BY <2>2, <2>3, <2>4
<1>6. CASE serverReadsBody
  <2>1. srv = "data" /\ rbuf # <<>> /\ rbuf' = Tail(rbuf)
    BY <1>6 DEF serverReadsBody
  <2>2. at \in {"gone", "final"}
    BY <2>1 DEF Lock, Quiet, Greeting, Awaiting, AwaitingCancel, TypeOK
  <2>3. CASE at = "gone"
    BY <1>1, <2>3 DEF Lock
  <2>4. CASE at = "final"
    <3>1. /\ wire = <<>>
          /\ \A i \in 1..Len(rbuf) : rbuf[i].line.verb = "." <=> i = Len(rbuf)
      BY <2>1, <2>4 DEF Lock, AwaitingFinal
    <3>2. command = rbuf[1].line /\ Len(rbuf) \in Nat \ {0}
      BY <1>2, <2>1, CommandType
    <3>3. CASE command.verb = "."
      <4>1. Len(rbuf) = 1
        <5>1. 1 \in 1..Len(rbuf) /\ rbuf[1].line.verb = "."
          BY <3>2, <3>3
        <5> QED BY <3>1, <5>1
      <4>2. rbuf' = <<>>
        BY <1>2, <2>1, <4>1
      <4>3. PICK c \in {250, 550} : wire' = wire \o Reply(c) /\ srv' = "read"
        BY <1>6, <3>3 DEF serverReadsBody
      <4>4. wire' = Reply(c)
        BY <1>3, <3>1, <4>3, WholeReplies DEF Whole
      <4>5. AwaitingFinal'
        BY <4>2, <4>3, <4>4 DEF AwaitingFinal
      <4> QED BY <1>1, <2>4, <4>5 DEF Lock
    <3>4. CASE command.verb # "."
      <4>1. Len(rbuf) # 1
        BY <3>1, <3>2, <3>4
      <4>2. /\ rbuf' \in Seq(Queued) /\ Len(rbuf') = Len(rbuf) - 1
            /\ \A i \in 1..(Len(rbuf) - 1) : rbuf'[i] = rbuf[i + 1]
        BY <1>2, <2>1
      <4>3. Len(rbuf') # 0 /\ Len(<<>>) = 0
        BY <3>2, <4>1, <4>2
      <4>4. \A i \in 1..Len(rbuf') :
                rbuf'[i].line.verb = "." <=> i = Len(rbuf')
        <5>1. SUFFICES ASSUME NEW i \in 1..Len(rbuf')
                       PROVE  rbuf'[i].line.verb = "." <=> i = Len(rbuf')
          OBVIOUS
        <5>2. i + 1 \in 1..Len(rbuf) /\ (i + 1 = Len(rbuf) <=> i = Len(rbuf'))
          BY <3>2, <4>2
        <5>3. rbuf'[i] = rbuf[i + 1]
          BY <3>2, <4>2
        <5> QED BY <3>1, <5>2, <5>3
      <4>5. rbuf' # <<>> /\ UNCHANGED <<wire, srv>>
        BY <1>6, <3>4, <4>3 DEF serverReadsBody
      <4>6. AwaitingFinal'
        BY <2>1, <3>1, <4>4, <4>5 DEF AwaitingFinal
      <4> QED BY <1>1, <2>4, <4>6 DEF Lock
    <3> QED BY <3>3, <3>4
  <2> QED BY <2>2, <2>3, <2>4
<1>7. CASE serverAuthenticates
  <2>1. srv = "auth" /\ rbuf # <<>> /\ rbuf' = Tail(rbuf)
    BY <1>7 DEF serverAuthenticates
  <2>2. at = "gone" \/ at = "cancel" \/ (at = "reply" /\ ~Doing("greeting"))
    BY <2>1 DEF Lock, Quiet, Greeting, AwaitingFinal, TypeOK
  <2>3. CASE at = "gone"
    BY <1>1, <2>3 DEF Lock
  <2>4. CASE at = "cancel"
    <3>1. wire = <<>> /\ Len(rbuf) = 1 /\ command.verb = "*"
      BY <2>1, <2>4 DEF Lock, AwaitingCancel
    <3>2. rbuf' = <<>>
      BY <1>2, <2>1, <3>1
    <3>3. wire' = wire \o Reply(501) /\ srv' = After("AUTH", Reply(501))
      BY <1>7, <3>1 DEF serverAuthenticates
    <3>4. wire' = Reply(501)
      BY <1>3, <3>1, <3>3, WholeReplies DEF Whole
    <3>5. srv' = "read"
      <4>1. Reply(501)[1].code = 501
        BY ReplyFields
      <4> QED BY <3>3, <4>1, AfterAnswer
    <3>6. AwaitingCancel'
      BY <3>2, <3>4, <3>5 DEF AwaitingCancel
    <3> QED BY <1>1, <2>4, <3>6 DEF Lock
  <2>5. CASE at = "reply" /\ ~Doing("greeting")
    <3>1. /\ step.verb = "AUTH" /\ wire = <<>> /\ Len(rbuf) = 1
          /\ command.verb = "b64"
      BY <2>1, <2>5 DEF Lock, Awaiting
    <3>2. rbuf' = <<>>
      BY <1>2, <2>1, <3>1
    <3>3. PICK r \in Answers("AUTH") : wire' = wire \o r /\ srv' = After("AUTH", r)
      BY <1>7, <3>1 DEF serverAuthenticates
    <3>4. wire' = r
      BY <1>3, <3>1, <3>3, AnswerTypes
    <3>5. Awaiting'
      BY <1>1, <3>1, <3>2, <3>3, <3>4 DEF Awaiting
    <3> QED BY <1>1, <2>5, <3>5 DEF Lock
  <2> QED BY <2>2, <2>3, <2>4, <2>5
<1>8. ~serverCloses
  BY DEF serverCloses, ServerGone
<1> QED BY <1>4, <1>5, <1>6, <1>7, <1>8 DEF ServerStep

----------------------------------------------------------------------------
(* Theorems *)

\* Every step preserves the lockstep.
LEMMA LockstepStep ==
    TypeOK /\ PlaceInv /\ Lockstep /\ [Next]_vars => Lockstep'
<1> SUFFICES ASSUME TypeOK, PlaceInv, Lockstep, [Next]_vars, clean', ~ServerGone'
             PROVE  Lock'
  BY DEF Lockstep
<1>1. clean /\ ~ServerGone /\ Lock
  BY LockHolds
<1>2. CASE ClientStep
  BY <1>1, <1>2, ClientLock
<1>3. CASE ServerStep
  BY <1>1, <1>3, ServerLock
<1>4. CASE handshake
  BY <1>1, <1>4, TLSLock
<1>5. CASE Expire \/ UNCHANGED vars
  <2>1. UNCHANGED <<at, todo, rbuf, wire, srv>>
    BY <1>5 DEF Expire, vars, control
  <2> QED BY <1>1, <2>1 DEF Lock, Quiet, Greeting, Awaiting, AwaitingFinal,
          AwaitingCancel, Doing, step, command
<1> QED BY <1>2, <1>3, <1>4, <1>5 DEF Next, Ended

\* Between calls nothing is in flight, whatever the calls were, whatever the
\* server answered to them and at whichever step it refused.
THEOREM StaysInStep == Spec => []InStep
<1>1. Init => CallInv /\ Lockstep
  <2>1. Init => Lockstep
    BY DEF Init, Lockstep, Lock, Greeting
  <2> QED BY <2>1, InitCallInv
<1>2. CallInv /\ Lockstep /\ [Next]_vars => (CallInv /\ Lockstep)'
  BY CallInvStep, LockstepStep DEF CallInv
<1>3. Lockstep => InStep
  BY DEF Lockstep, Lock, Quiet, InStep
<1> QED BY <1>1, <1>2, <1>3, PTL DEF Spec
=============================================================================
