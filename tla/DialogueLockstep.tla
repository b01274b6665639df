-------------------------- MODULE DialogueLockstep --------------------------
(***************************************************************************)
(* The library's client and session in lockstep: unless a call has left a  *)
(* reply unread or a command unfinished, each knows where the other is.    *)
(* The session's reads do not time out here: a handler that gives up on a  *)
(* timeout answers nothing, and the client would wait for it.              *)
(***************************************************************************)
EXTENDS DialogueProofs

Ready == pc \in {"loop", "read"}
Dead == down = "ncClosed"

\* The connection was closed by the shutdown before a reply was written.
Lost == Dead /\ wire = <<>>

\* A chunk was refused, and its data is being read as commands.
Spoiled(s) == /\ s.verb = "BDAT" /\ s.n > 0 /\ wire # <<>>
              /\ wire[1].sep = " " /\ wire[1].code # 250

\* Replies that ask the client to go on, and a session that waits for it to.
Continues(v, c) == \/ v = "DATA" /\ c = 354
                   \/ v = "STARTTLS" /\ c = 220
                   \/ v = "AUTH" /\ c = 334
Waiting(v) == \/ v = "DATA" /\ pc = "data" /\ body.rd = "open"
              \/ v = "STARTTLS" /\ pc = "tls"
              \/ v = "AUTH" /\ pc \in SP!authPcs

\* Both ends at rest, and the stream empty.
Quiet == rbuf = <<>> /\ wire = <<>> /\ Ready

\* The greeting has not been read.
Greeting == /\ rbuf = <<>>
            /\ \/ pc = "start" /\ wire = <<>>
               \/ Ready /\ wire = C!Reply(220)
               \/ Ready /\ Lost

\* The command s is on its way, with its chunk if it has one.
OnItsWay(s) == /\ wire = <<>> /\ Ready /\ rbuf # <<>>
               /\ Head(rbuf).line.verb = s.verb
               /\ s.verb = "BDAT" => Head(rbuf).line.n = s.n
               /\ Len(rbuf) = IF s.verb = "BDAT" THEN 1 + s.n ELSE 1

\* The session is reading its chunk, or has a response to read.
InChunk(s) == s.verb = "BDAT" /\ pc = "bdat" /\ wire = <<>> /\ Len(rbuf) = chunk.left
InAuth(s, r) == /\ s.verb = "AUTH" /\ pc \in SP!authPcs /\ wire = <<>>
                /\ Len(rbuf) = 1 /\ Head(rbuf).line.verb = r

\* The reply is on its way: one that ends the command, the reply to EHLO, or
\* one that asks for more.
Concluded(s) ==
    /\ rbuf = <<>> /\ Ready
    /\ \E c \in 1..599 : /\ wire = C!Reply(c) /\ ~Continues(s.verb, c)
                         /\ ~(s.verb = "EHLO" /\ c = 250)
Offered(s) == s.verb = "EHLO" /\ rbuf = <<>> /\ Ready /\ wire = C!Offer(offered)
Invited(s) ==
    /\ rbuf = <<>> /\ (Dead \/ Waiting(s.verb))
    /\ \E c \in 1..599 : wire = C!Reply(c) /\ Continues(s.verb, c)

Awaiting(s) == \/ OnItsWay(s) \/ InChunk(s) \/ InAuth(s, "b64")
               \/ Concluded(s) \/ Offered(s) \/ Invited(s)

\* The body is on its way, has been read, or has been answered.
Answered == rbuf = <<>> /\ Ready /\ \E c \in 1..599 : wire = C!Reply(c)
AwaitingFinal ==
    \/ /\ wire = <<>> /\ pc = "data" /\ body.rd = "open" /\ rbuf # <<>>
       /\ \A i \in 1..Len(rbuf) : rbuf[i].line.verb = "." <=> i = Len(rbuf)
    \/ wire = <<>> /\ pc = "data" /\ body.rd = "dot" /\ rbuf = <<>>
    \/ Answered

AwaitingCancel(s) == InAuth(s, "*") \/ Answered

\* The client waits for a session that has nothing more to say to it, or
\* will end the call with an error.
Astray(s) == \/ /\ Lost
                /\ at \in {"reply", "body", "final", "handshake", "respond", "cancel"}
             \/ at = "reply" /\ Spoiled(s)

\* For every place of the client, what the stream holds and where the session
\* is.
Places(s) ==
    /\ at \in {"idle", "send"} => Quiet
    /\ at = "none" \/ (at = "reply" /\ s.verb = "greeting") => Greeting
    /\ at = "reply" /\ s.verb # "greeting" => Awaiting(s)
    /\ at \in {"body", "handshake", "respond"} =>
          rbuf = <<>> /\ wire = <<>> /\ Waiting(s.verb)
    /\ at = "final" => AwaitingFinal
    /\ at = "cancel" => AwaitingCancel(s)

\* The client goes by what the last EHLO offered, or is about to read it.
Agree(s) ==
    /\ (esmtp => exts = offered) \/ (at = "reply" /\ Offered(s))
    /\ at = "reply" /\ s.verb = "HELO" /\ wire = C!Reply(250) => ~esmtp

Lock(s) == Astray(s) \/ (Places(s) /\ Agree(s))

\* What the session has last said in the command it is in.
ReplyInv ==
    /\ pc \in {"start", "read", "bdat"} => reply = 0
    /\ pc = "data" => reply = 354
    /\ pc \in SP!authPcs => reply = 334

InLock == clean /\ pc # "closed" /\ at # "gone" => open /\ Lock(CP!step)

----------------------------------------------------------------------------
(* Replies *)

\* A reply of one line: its length, code and separator.
LEMMA ReplyFields ==
    ASSUME NEW c
    PROVE  /\ Len(C!Reply(c)) = 1 /\ C!Reply(c) # <<>>
           /\ C!Reply(c)[1].code = c /\ C!Reply(c)[1].sep = " "
<1> DEFINE x == [code |-> c, sep |-> " ", exts |-> {}]
<1>1. x.code = c /\ x.sep = " " /\ C!Reply(c) = <<x>>
  BY DEF C!Reply
<1> HIDE DEF x
<1>2. Len(<<x>>) = 1 /\ <<x>>[1] = x /\ <<x>> # <<>>
  OBVIOUS
<1> QED BY <1>1, <1>2, Zenon

\* Replies of different codes differ.
LEMMA ReplyCodes == \A c, d : C!Reply(c) = C!Reply(d) => c = d
  BY ReplyFields, Zenon

\* The reply to EHLO: two lines, the second with the extensions.
LEMMA OfferFields ==
    ASSUME NEW e
    PROVE  /\ Len(C!Offer(e)) = 2 /\ C!Offer(e) # <<>>
           /\ C!Offer(e)[1].sep = "-" /\ C!Offer(e)[2].sep = " "
           /\ C!Offer(e)[2].code = 250 /\ C!Offer(e)[2].exts = e
<1> DEFINE x == [code |-> 250, sep |-> "-", exts |-> {}]
           y == [code |-> 250, sep |-> " ", exts |-> e]
<1>1. x.sep = "-" /\ y.sep = " " /\ y.code = 250 /\ y.exts = e
      /\ C!Offer(e) = <<x, y>>
  BY DEF C!Offer
<1> HIDE DEF x, y
<1>2. Len(<<x, y>>) = 2 /\ <<x, y>>[1] = x /\ <<x, y>>[2] = y /\ <<x, y>> # <<>>
  OBVIOUS
<1>3. /\ Len(C!Offer(e)) = 2 /\ C!Offer(e) # <<>>
      /\ C!Offer(e)[1] = x /\ C!Offer(e)[2] = y
  BY <1>1, <1>2, Zenon
<1> QED BY <1>1, <1>3

\* What a step of the session puts on the wire.
Says(r) == wire' = IF Dead THEN wire ELSE wire \o r

\* What each kind of server step writes to a connection that is open.
LEMMA Written ==
    ASSUME Parts, ReplyInv, ServerStep, open, pc' # "closed"
    PROVE  /\ Dead => wire' = wire
           /\ SP!Greets => Says(C!Reply(220))
           /\ SP!Turns \/ SP!Reads \/ SP!Takes \/ SP!GivesUp \/ SP!handshakeError
                 => wire' = wire
           /\ SP!Concludes =>
                 Says(IF pc = "read" /\ SP!line.verb = "EHLO" /\ reply' = 250
                      THEN C!Offer(offered') ELSE C!Reply(reply'))
           /\ SP!Enters => IF pc' = "bdat" THEN wire' = wire
                           ELSE Says(C!Reply(reply'))
           /\ SP!Asks => Says(C!Reply(334))
           /\ SP!Completes => Says(C!Reply(reply'))
<1>1. wire' = IF Wrote THEN wire \o ReplyLines ELSE wire
  BY DEF ServerStep
<1>2. Dead => ~Wrote
  BY DEF Dead, Wrote
<1>3. ASSUME reply' = reply \/ reply' = 0, pc # "authUser" \/ pc' # "authPass"
      PROVE  wire' = wire
  BY <1>1, <1>3 DEF Wrote
<1>4. ASSUME reply' # 0, reply' # reply \/ (pc = "authUser" /\ pc' = "authPass")
      PROVE  Says(ReplyLines)
  BY <1>1, <1>2, <1>4, Zenon DEF Wrote, Says, Dead
<1>5. ASSUME answered' # 2,
             ~(pc = "read" /\ SP!line.verb = "EHLO" /\ reply' = 250)
      PROVE  ReplyLines = C!Reply(reply')
  BY <1>5, Zenon DEF ReplyLines, SP!line
<1>6. ASSUME pc = "read" /\ SP!line.verb = "EHLO" /\ reply' = 250
      PROVE  ReplyLines = C!Offer(offered')
  BY <1>6, Zenon DEF ReplyLines, SP!line
<1> HIDE DEF ReplyLines, Wrote, Says
<1>7. Dead => wire' = wire
  BY <1>1, <1>2
<1>8. SP!Greets => Says(C!Reply(220))
  BY <1>4, <1>5 DEF SP!Greets, ReplyInv
<1>9. SP!Turns \/ SP!Reads \/ SP!Takes \/ SP!GivesUp \/ SP!handshakeError
         => wire' = wire
  BY <1>3 DEF SP!Turns, SP!Reads, SP!Takes, SP!GivesUp, SP!handshakeError, SP!out
<1>10. ASSUME reply' \in SP!FinalCodes, pc \in {"read", "bdat", "data"} \cup SP!authPcs
       PROVE  Says(ReplyLines)
  BY <1>4, <1>10 DEF SP!FinalCodes, ReplyInv
<1>11. SP!Concludes =>
         Says(IF pc = "read" /\ SP!line.verb = "EHLO" /\ reply' = 250
              THEN C!Offer(offered') ELSE C!Reply(reply'))
  BY <1>5, <1>6, <1>10 DEF SP!Concludes
<1>12. SP!Enters => IF pc' = "bdat" THEN wire' = wire ELSE Says(C!Reply(reply'))
  BY <1>3, <1>4, <1>5 DEF SP!Enters, ReplyInv
<1>13. SP!Asks => Says(C!Reply(334))
  BY <1>4, <1>5 DEF SP!Asks, ReplyInv
<1>14. SP!Completes => Says(C!Reply(reply'))
  BY <1>5, <1>10 DEF SP!Completes
<1> QED BY <1>7, <1>8, <1>9, <1>11, <1>12, <1>13, <1>14

\* A reply written to an empty wire.
LEMMA Alone ==
    ASSUME wire = <<>>, down' = down
    PROVE  /\ \A c : Says(C!Reply(c)) => Lost' \/ wire' = C!Reply(c)
           /\ \A e : Says(C!Offer(e)) => Lost' \/ wire' = C!Offer(e)
<1>1. ASSUME NEW c PROVE <<>> \o C!Reply(c) = C!Reply(c)
  <2> DEFINE x == [code |-> c, sep |-> " ", exts |-> {}]
  <2>1. C!Reply(c) = <<x>>
    BY DEF C!Reply
  <2> HIDE DEF x
  <2> QED BY <2>1
<1>2. ASSUME NEW e PROVE <<>> \o C!Offer(e) = C!Offer(e)
  <2> DEFINE x == [code |-> 250, sep |-> "-", exts |-> {}]
             y == [code |-> 250, sep |-> " ", exts |-> e]
  <2>1. C!Offer(e) = <<x, y>>
    BY DEF C!Offer
  <2> HIDE DEF x, y
  <2> QED BY <2>1
<1> QED BY <1>1, <1>2 DEF Says, Lost, Dead

\* What is to be read first is what was.
LEMMA FirstStays ==
    ASSUME Parts, ServerStep, wire # <<>>
    PROVE  wire' # <<>> /\ wire'[1] = wire[1]
<1>1. wire \in Seq(CP!ReplyLines) /\ wire' \in {wire, wire \o ReplyLines}
  BY PartTypes DEF ServerStep
<1>2. SP!TypeOK'
  BY SessionParts DEF Parts
<1>3. ReplyLines \in Seq(CP!ReplyLines)
  BY <1>2, ReplyLinesType
<1> HIDE DEF ReplyLines
<1>4. Len(wire) >= 1 /\ Len(wire) \in Nat /\ Len(<<>>) = 0
  BY <1>1
<1>5. CASE wire' = wire \o ReplyLines
  <2>1. Len(wire') = Len(wire) + Len(ReplyLines) /\ Len(ReplyLines) \in Nat
    BY <1>1, <1>3, <1>5
  <2>2. wire' # <<>>
    BY <1>4, <2>1
  <2>3. wire'[1] = wire[1]
    BY <1>1, <1>3, <1>4, <1>5
  <2> QED BY <2>2, <2>3
<1> QED BY <1>1, <1>5

----------------------------------------------------------------------------
(* The session's steps *)

\* A step of the session, while the client has its end open.
Moves == /\ SP!Seen \/ (SP!handshakeError /\ (rbuf # <<>> \/ Dead))
         /\ down' = down /\ (SP!ReadFails <=> Dead)
         /\ rbuf # <<>> => ~SP!TooLong

\* A server step is one of the things a peer can see, and leaves the client.
LEMMA ServerSeen ==
    ASSUME Parts, ServerStep
    PROVE  (SP!Seen \/ SP!handshakeError) /\ pc # "closed" /\ UNCHANGED client
<1>1. SP!SessionStep /\ (pc # "tls" \/ SP!handshakeError)
  BY SameSession DEF ServerStep, SP!SessionStep
<1>2. SP!TypeOK
  BY DEF Parts
<1>3. (SP!Seen \/ SP!handshakeOk \/ SP!handshakeError) /\ pc # "closed"
  BY <1>1, <1>2, SP!SeenSteps, Assumptions
<1>4. SP!handshakeOk => pc = "tls"
  BY DEF SP!handshakeOk
<1> QED BY <1>1, <1>3, <1>4 DEF ServerStep

\* Without read timeouts, a read fails only on a connection that is dead.
LEMMA ServerMoves ==
    ASSUME Parts, ~ReadTimeouts, ServerStep, open
    PROVE  Moves
<1>1. SP!ReadFails <=> Dead
  BY DEF SP!ReadFails, Dead
<1>2. S!ReadFails <=> Dead
  BY DEF S!ReadFails, Dead
<1>4. SP!SessionStep /\ (pc # "tls" \/ (SP!handshakeError /\ (rbuf # <<>> \/ Dead)))
  BY <1>2, SameSession DEF ServerStep, SP!SessionStep
<1>5. SP!TypeOK
  BY DEF Parts
<1>6. (SP!Seen \/ SP!handshakeOk \/ SP!handshakeError) /\ down' = down
  BY <1>4, <1>5, SP!SeenSteps, Assumptions
<1>7. SP!handshakeOk \/ SP!handshakeError => pc = "tls"
  BY DEF SP!handshakeOk, SP!handshakeError
<1>8. SP!Seen => pc # "tls"
  BY DEF SP!Seen, SP!Greets, SP!Turns, SP!Drops, SP!Concludes, SP!Enters,
     SP!Asks, SP!Reads, SP!Takes, SP!Completes, SP!GivesUp, SP!authPcs
<1>9. rbuf # <<>> => ~SP!TooLong
  <2> SUFFICES ASSUME rbuf # <<>> PROVE ~SP!TooLong
    OBVIOUS
  <2>1. rbuf \in Seq(CP!Queued)
    BY PartTypes
  <2>2. Head(rbuf) \in CP!Queued
    BY <2>1
  <2>3. Head(rbuf).line.verb \in CP!StepVerbs
    BY <2>2 DEF CP!Queued, CP!Steps
  <2> QED BY <2>3 DEF SP!TooLong, SP!line, CP!StepVerbs
<1>10. SP!Seen \/ (SP!handshakeError /\ (rbuf # <<>> \/ Dead))
  BY <1>4, <1>6, <1>7, <1>8
<1> QED BY <1>1, <1>6, <1>9, <1>10 DEF Moves

\* ReplyInv is preserved by the session's steps and by a handshake.
LEMMA ReplyStep ==
    ASSUME ReplyInv, SP!Seen \/ SP!handshakeError \/ SP!handshakeOk
    PROVE  ReplyInv'
<1>1. "loop" \notin {"start", "read", "bdat", "data"} \cup SP!authPcs
      /\ "tls" \notin {"start", "read", "bdat", "data"} \cup SP!authPcs
      /\ "closed" \notin {"start", "read", "bdat", "data"} \cup SP!authPcs
  BY DEF SP!authPcs
<1>2. CASE pc' \in {"loop", "tls", "closed"}
  BY <1>1, <1>2 DEF ReplyInv
<1>3. CASE SP!Greets \/ SP!Drops \/ SP!Concludes \/ SP!Completes \/ SP!GivesUp
           \/ SP!handshakeError \/ SP!handshakeOk
  BY <1>2, <1>3 DEF SP!Greets, SP!Drops, SP!Concludes, SP!Completes, SP!GivesUp,
     SP!handshakeError, SP!handshakeOk
<1>4. CASE SP!Turns
  BY <1>2, <1>4 DEF SP!Turns, ReplyInv, SP!authPcs
<1>5. CASE SP!Enters
  BY <1>2, <1>5 DEF SP!Enters, ReplyInv, SP!authPcs
<1>6. CASE SP!Asks
  BY <1>6 DEF SP!Asks, ReplyInv, SP!authPcs
<1>7. CASE SP!Reads \/ SP!Takes
  BY <1>7 DEF SP!Reads, SP!Takes, SP!out, ReplyInv, SP!authPcs
<1> QED BY <1>3, <1>4, <1>5, <1>6, <1>7 DEF SP!Seen

\* With nothing to read, a session at the top of its loop only turns.
LEMMA Rests ==
    ASSUME Moves, rbuf = <<>>, Ready, pc' # "closed"
    PROVE  SP!Turns /\ rbuf' = <<>> /\ Ready' /\ SP!Settled
<1>1. ~SP!Recv
  BY DEF SP!Recv
<1>2. pc \in {"loop", "read"} /\ pc \notin SP!authPcs
  BY DEF Ready, SP!authPcs
<1>3. SP!Turns
  BY <1>1, <1>2 DEF Moves, SP!handshakeError, SP!Seen, SP!Greets, SP!Drops,
     SP!Concludes, SP!Enters, SP!Asks, SP!Reads, SP!Takes, SP!Completes,
     SP!GivesUp
<1> QED BY <1>3 DEF SP!Turns, Ready

\* With nothing to read, nothing is read.
LEMMA ReadsNothing ==
    ASSUME Moves, rbuf = <<>>, pc' # "closed"
    PROVE  rbuf' = <<>> /\ SP!Standing
<1>1. ~SP!Recv
  BY DEF SP!Recv
<1>2. CASE SP!handshakeError
  <2>1. PICK i \in 0..Len(rbuf), j \in 0..Len(rbuf) :
            rbuf' = SubSeq(rbuf, 1, i) \o SubSeq(rbuf, j + 1, Len(rbuf))
    BY <1>2 DEF SP!handshakeError
  <2>2. i = 0 /\ j = 0 /\ Len(rbuf) = 0
    BY <2>1
  <2>3. rbuf' = <<>>
    BY <2>1, <2>2
  <2> QED BY <1>2, <2>3 DEF SP!handshakeError, SP!session, SP!history, SP!Standing
<1>3. CASE SP!Seen
  BY <1>1, <1>3 DEF SP!Seen, SP!Greets, SP!Turns, SP!Drops, SP!Concludes,
     SP!Enters, SP!Asks, SP!Reads, SP!Takes, SP!Completes, SP!GivesUp, SP!Settled,
     SP!RecvErr
<1> QED BY <1>2, <1>3 DEF Moves

\* A session that waits for the client goes on waiting.
LEMMA Waits ==
    ASSUME Moves, rbuf = <<>>, NEW v, Waiting(v), pc' # "closed"
    PROVE  Dead \/ (Waiting(v)' /\ SP!Reads)
<1>1. ~SP!Recv
  BY DEF SP!Recv
<1> SUFFICES ASSUME ~Dead PROVE Waiting(v)' /\ SP!Reads
  OBVIOUS
<1>2. ~SP!ReadFails /\ SP!Seen
  BY DEF Moves
<1>3. ~SP!GivesUp
  BY <1>1, <1>2 DEF SP!GivesUp, SP!RecvErr
<1>4. pc = "data" /\ body.rd = "open" /\ v = "DATA"
  BY <1>1, <1>2, <1>3 DEF Waiting, SP!Seen, SP!Greets, SP!Turns, SP!Drops,
     SP!Concludes, SP!Enters, SP!Asks, SP!Reads, SP!Takes, SP!Completes, SP!authPcs
<1>5. SP!Reads
  BY <1>1, <1>2, <1>3, <1>4 DEF SP!Seen, SP!Greets, SP!Turns, SP!Drops,
     SP!Concludes, SP!Enters, SP!Asks, SP!Takes, SP!Completes, SP!authPcs
<1> QED BY <1>1, <1>2, <1>4, <1>5 DEF SP!Reads, Waiting

\* Agreement is kept: nothing of it changes, or the session forgets its EHLO.
Agrees(s) ==
    /\ SP!Standing \/ ~esmtp'
    /\ s.verb = "HELO" /\ wire' = C!Reply(250) =>
          ~esmtp' \/ (UNCHANGED wire /\ SP!Standing)

\* The command is read and answered, or its handler goes on.
LEMMA CommandStep ==
    ASSUME Parts, ReplyInv, ServerStep, Moves, open, pc' # "closed",
           NEW s, s.n \in Nat, OnItsWay(s)
    PROVE  \/ (Lost \/ Spoiled(s) \/ Offered(s))'
           \/ Awaiting(s)' /\ Agrees(s)
<1>1. /\ wire = <<>> /\ pc \in {"loop", "read"} /\ rbuf # <<>> /\ SP!line.verb = s.verb
      /\ rbuf \in Seq(CP!Queued) /\ pc \notin SP!authPcs
      /\ s.verb = "BDAT" => SP!line.n = s.n
      /\ Len(rbuf) = IF s.verb = "BDAT" THEN 1 + s.n ELSE 1
  BY PartTypes DEF OnItsWay, Ready, SP!line, SP!authPcs
<1>2. Len(rbuf) = 1 \/ (s.verb = "BDAT" /\ s.n > 0)
  BY <1>1
<1>3. ASSUME SP!Recv PROVE /\ Len(rbuf') = Len(rbuf) - 1
                           /\ Len(rbuf) = 1 => rbuf' = <<>>
  BY <1>1, <1>3 DEF SP!Recv
<1>4. CASE SP!Turns
  <2>1. wire' = wire /\ rbuf' = rbuf /\ Ready' /\ SP!Standing
    BY <1>4, Written DEF SP!Turns, Ready, SP!Settled
  <2>2. OnItsWay(s)'
    BY <1>1, <2>1 DEF OnItsWay, SP!line
  <2> QED BY <2>1, <2>2 DEF Awaiting, Agrees
<1>5. CASE SP!Concludes
  <2>1. /\ pc = "read" /\ SP!Recv /\ pc' = "loop" /\ reply' \in SP!FinalCodes
        /\ SP!Standing \/ (s.verb \in {"EHLO", "HELO"} /\ reply' = 250)
        /\ s.verb = "BDAT" => reply' # 250
        /\ s.verb = "HELO" /\ reply' = 250 => ~esmtp'
    BY <1>1, <1>5 DEF SP!Concludes
  <2>2. Says(IF s.verb = "EHLO" /\ reply' = 250 THEN C!Offer(offered')
             ELSE C!Reply(reply'))
    BY <1>1, <1>5, <2>1, Written
  <2>3. CASE s.verb = "EHLO" /\ reply' = 250
    <3>1. Says(C!Offer(offered')) /\ rbuf' = <<>> /\ Ready'
      BY <1>2, <1>3, <2>1, <2>2, <2>3 DEF Ready
    <3>2. Lost' \/ wire' = C!Offer(offered')
      BY <1>1, <3>1, Alone DEF Moves
    <3> QED BY <2>3, <3>1, <3>2 DEF Offered
  <2>4. CASE ~(s.verb = "EHLO" /\ reply' = 250)
    <3>1. Lost' \/ wire' = C!Reply(reply')
      BY <1>1, <2>2, <2>4, Alone DEF Moves
    <3>2. CASE s.verb = "BDAT" /\ s.n > 0 /\ wire' = C!Reply(reply')
      BY <2>1, <3>2, ReplyFields DEF Spoiled
    <3>3. CASE ~(s.verb = "BDAT" /\ s.n > 0) /\ wire' = C!Reply(reply')
      <4>1. rbuf' = <<>> /\ Ready'
        BY <1>2, <1>3, <2>1, <3>3 DEF Ready
      <4>2. reply' \in 1..599 /\ ~Continues(s.verb, reply')
        BY <2>1 DEF SP!FinalCodes, Continues
      <4>3. Concluded(s)'
        BY <2>4, <3>3, <4>1, <4>2 DEF Concluded
      <4>4. Agrees(s)
        BY <2>1, <2>4, <3>3, ReplyCodes DEF Agrees
      <4> QED BY <4>3, <4>4 DEF Awaiting
    <3> QED BY <3>1, <3>2, <3>3
  <2> QED BY <2>3, <2>4
<1>6. CASE SP!Enters
  <2>1. SP!Recv /\ SP!Standing
    BY <1>6 DEF SP!Enters
  <2>2. CASE s.verb = "BDAT" /\ pc' = "bdat" /\ chunk'.left = s.n
    <3>1. wire' = <<>> /\ Len(rbuf') = chunk'.left
      BY <1>1, <1>3, <1>6, <2>1, <2>2, Written
    <3>2. InChunk(s)'
      BY <2>2, <3>1 DEF InChunk
    <3> QED BY <2>1, <2>2, <3>2 DEF Awaiting, Agrees
  <2>3. CASE \/ s.verb = "DATA" /\ pc' = "data" /\ reply' = 354 /\ body'.rd = "open"
             \/ s.verb = "STARTTLS" /\ pc' = "tls" /\ reply' = 220
    <3>1. Says(C!Reply(reply')) /\ rbuf' = <<>>
      BY <1>2, <1>3, <1>6, <2>1, <2>3, Written
    <3>2. Lost' \/ wire' = C!Reply(reply')
      BY <1>1, <3>1, Alone DEF Moves
    <3>3. Waiting(s.verb)' /\ reply' \in 1..599 /\ Continues(s.verb, reply')
      BY <2>3 DEF Waiting, Continues
    <3>4. wire' = C!Reply(reply') => Invited(s)'
      BY <3>1, <3>3 DEF Invited
    <3> QED BY <2>1, <2>3, <3>2, <3>4 DEF Awaiting, Agrees
  <2> QED BY <1>1, <1>6, <2>2, <2>3 DEF SP!Enters
<1>7. CASE SP!Asks
  <2>1. /\ SP!Recv /\ SP!Standing /\ s.verb = "AUTH" /\ pc' \in SP!authPcs
        /\ Says(C!Reply(334))
    BY <1>1, <1>7, Written DEF SP!Asks, SP!authPcs
  <2>2. rbuf' = <<>>
    BY <1>2, <1>3, <2>1
  <2>3. Lost' \/ wire' = C!Reply(334)
    BY <1>1, <2>1, Alone DEF Moves
  <2>4. Waiting(s.verb)' /\ 334 \in 1..599 /\ Continues(s.verb, 334)
    BY <2>1 DEF Waiting, Continues
  <2>5. wire' = C!Reply(334) => Invited(s)'
    BY <2>2, <2>4 DEF Invited
  <2> QED BY <2>1, <2>3, <2>5 DEF Awaiting, Agrees
<1>8. SP!Turns \/ SP!Concludes \/ SP!Enters \/ SP!Asks
  BY <1>1 DEF Moves, SP!handshakeError, SP!Seen, SP!Greets, SP!Drops, SP!Reads,
     SP!Takes, SP!Completes, SP!GivesUp
<1> QED BY <1>4, <1>5, <1>6, <1>7, <1>8

\* A session that is reading a chunk.
LEMMA ChunkStep ==
    ASSUME Parts, ReplyInv, ServerStep, Moves, open, pc' # "closed",
           NEW s, InChunk(s)
    PROVE  Lost' \/ (Awaiting(s)' /\ SP!Standing)
<1>1. /\ wire = <<>> /\ pc = "bdat" /\ s.verb = "BDAT" /\ Len(rbuf) = chunk.left
      /\ rbuf \in Seq(CP!Queued) /\ pc \notin {"read", "loop"} \cup SP!authPcs
  BY PartTypes DEF InChunk, SP!authPcs
<1>2. CASE SP!Takes
  <2>1. wire' = <<>> /\ Len(rbuf') = chunk'.left /\ pc' = "bdat" /\ SP!Standing
    BY <1>1, <1>2, Written DEF SP!Takes, SP!Recv
  <2> QED BY <1>1, <2>1 DEF Awaiting, InChunk
<1>3. CASE SP!Completes
  <2>1. /\ rbuf' = <<>> /\ Ready' /\ reply' \in SP!FinalCodes /\ SP!Standing
        /\ Says(C!Reply(reply'))
    BY <1>1, <1>3, Written DEF SP!Completes, Ready
  <2>2. Lost' \/ wire' = C!Reply(reply')
    BY <1>1, <2>1, Alone DEF Moves
  <2>3. reply' \in 1..599 /\ ~Continues(s.verb, reply')
    BY <2>1 DEF SP!FinalCodes, Continues
  <2>4. wire' = C!Reply(reply') => Concluded(s)'
    BY <1>1, <2>1, <2>3 DEF Concluded
  <2> QED BY <2>1, <2>2, <2>4 DEF Awaiting
<1>4. CASE SP!GivesUp
  <2>1. Dead /\ wire' = <<>>
    BY <1>1, <1>4, Written DEF SP!GivesUp, Moves
  <2> QED BY <2>1 DEF Lost, Dead, Moves
<1> QED BY <1>1, <1>2, <1>3, <1>4 DEF Moves, SP!handshakeError, SP!Seen,
        SP!Greets, SP!Turns, SP!Drops, SP!Concludes, SP!Enters, SP!Asks, SP!Reads

\* A session that reads a response: to the end of the exchange, or to the
\* next challenge, which "*" does not get.
LEMMA ResponseStep ==
    ASSUME Parts, ReplyInv, ServerStep, Moves, open, pc' # "closed",
           NEW s, NEW r, InAuth(s, r)
    PROVE  \/ Lost'
           \/ Concluded(s)' /\ SP!Standing
           \/ Invited(s)' /\ SP!Standing /\ r # "*"
<1>1. /\ wire = <<>> /\ pc \in SP!authPcs /\ s.verb = "AUTH" /\ Len(rbuf) = 1
      /\ SP!line.verb = r /\ rbuf \in Seq(CP!Queued)
      /\ pc \notin {"start", "read", "loop", "data", "bdat", "tls"}
  <2>1. pc \in SP!authPcs
    BY DEF InAuth
  <2>2. pc \notin {"start", "read", "loop", "data", "bdat", "tls"}
    BY <2>1 DEF SP!authPcs
  <2> QED BY <2>1, <2>2, PartTypes DEF InAuth, SP!line
<1>2. ASSUME SP!Recv PROVE rbuf' = <<>>
  BY <1>1, <1>2 DEF SP!Recv
<1>3. CASE SP!Concludes
  <2>1. /\ SP!Recv /\ Ready' /\ reply' \in SP!FinalCodes /\ SP!Standing
        /\ Says(C!Reply(reply'))
    BY <1>1, <1>3, Written DEF SP!Concludes, Ready
  <2>2. Lost' \/ wire' = C!Reply(reply')
    BY <1>1, <2>1, Alone DEF Moves
  <2>3. reply' \in 1..599 /\ ~Continues(s.verb, reply')
    BY <2>1 DEF SP!FinalCodes, Continues
  <2>4. wire' = C!Reply(reply') => Concluded(s)'
    BY <1>1, <1>2, <2>1, <2>3 DEF Concluded
  <2> QED BY <2>1, <2>2, <2>4
<1>4. CASE SP!Asks
  <2>1. /\ SP!Recv /\ pc' \in SP!authPcs /\ SP!Standing /\ r # "*"
        /\ Says(C!Reply(334))
    BY <1>1, <1>4, Written DEF SP!Asks, SP!authPcs
  <2>2. Lost' \/ wire' = C!Reply(334)
    BY <1>1, <2>1, Alone DEF Moves
  <2>3. Waiting(s.verb)' /\ 334 \in 1..599 /\ Continues(s.verb, 334)
    BY <1>1, <2>1 DEF Waiting, Continues
  <2>4. wire' = C!Reply(334) => Invited(s)'
    BY <1>2, <2>1, <2>3 DEF Invited
  <2> QED BY <2>1, <2>2, <2>4
<1>5. CASE SP!GivesUp
  <2>1. Dead /\ wire' = <<>>
    BY <1>1, <1>5, Written DEF SP!GivesUp, SP!RecvErr, SP!Recv, Moves
  <2> QED BY <2>1 DEF Lost, Dead, Moves
<1> QED BY <1>1, <1>3, <1>4, <1>5 DEF Moves, SP!handshakeError, SP!Seen,
        SP!Greets, SP!Turns, SP!Drops, SP!Enters, SP!Reads, SP!Takes, SP!Completes

\* What awaits the client stays as it is until it is read.
LEMMA RepliedStep ==
    ASSUME Parts, ReplyInv, ServerStep, Moves, open, pc' # "closed", NEW s
    PROVE  /\ Concluded(s) => Concluded(s)' /\ UNCHANGED wire /\ SP!Standing
           /\ Offered(s) => Offered(s)' /\ UNCHANGED wire /\ SP!Standing
           /\ Invited(s) => Invited(s)' /\ UNCHANGED wire /\ SP!Standing
           /\ Answered => Answered' /\ UNCHANGED wire /\ SP!Standing
           /\ Quiet => Quiet' /\ SP!Standing
<1>1. ASSUME rbuf = <<>>, Ready
      PROVE  rbuf' = <<>> /\ Ready' /\ wire' = wire /\ SP!Standing
  BY <1>1, Rests, Written DEF SP!Settled
<1>2. Concluded(s) => Concluded(s)' /\ UNCHANGED wire /\ SP!Standing
  BY <1>1 DEF Concluded
<1>3. Offered(s) => Offered(s)' /\ UNCHANGED wire /\ SP!Standing
  BY <1>1 DEF Offered, SP!Standing
<1>4. Answered => Answered' /\ UNCHANGED wire /\ SP!Standing
  BY <1>1 DEF Answered
<1>5. Quiet => Quiet' /\ SP!Standing
  BY <1>1 DEF Quiet
<1>6. ASSUME Invited(s) PROVE Invited(s)' /\ UNCHANGED wire /\ SP!Standing
  <2>1. rbuf = <<>> /\ rbuf' = <<>> /\ SP!Standing
    BY <1>6, ReadsNothing DEF Invited
  <2>2. Dead \/ (Waiting(s.verb)' /\ SP!Reads)
    BY <1>6, Waits DEF Invited
  <2>3. wire' = wire /\ (Dead' \/ Waiting(s.verb)')
    BY <2>2, Written DEF Dead, Moves
  <2> QED BY <1>6, <2>1, <2>3 DEF Invited
<1> QED BY <1>2, <1>3, <1>4, <1>5, <1>6

\* The session goes on with the command the client awaits the reply of.
LEMMA AwaitingStep ==
    ASSUME Parts, ReplyInv, ServerStep, Moves, open, pc' # "closed",
           NEW s, s.n \in Nat, Awaiting(s)
    PROVE  \/ (Lost \/ Spoiled(s) \/ Offered(s))'
           \/ Awaiting(s)' /\ Agrees(s)
<1>1. CASE OnItsWay(s)
  BY <1>1, CommandStep
<1>2. CASE InChunk(s)
  BY <1>2, ChunkStep DEF InChunk, Agrees
<1>3. CASE InAuth(s, "b64")
  BY <1>3, ResponseStep DEF InAuth, Agrees, Awaiting
<1>4. CASE Concluded(s) \/ Offered(s) \/ Invited(s)
  BY <1>4, RepliedStep DEF Agrees, Awaiting
<1> QED BY <1>1, <1>2, <1>3, <1>4 DEF Awaiting

\* Until the greeting has been written and read nothing else is.
LEMMA GreetingStep ==
    ASSUME Parts, ReplyInv, ServerStep, Moves, open, pc' # "closed", Greeting
    PROVE  Greeting' /\ SP!Standing
<1>1. rbuf = <<>> /\ rbuf' = <<>> /\ SP!Standing
  BY ReadsNothing DEF Greeting
<1>2. CASE pc = "start" /\ wire = <<>>
  <2>1. SP!Greets
    BY <1>2 DEF Moves, SP!handshakeError, SP!Seen, SP!Turns, SP!Drops,
       SP!Concludes, SP!Enters, SP!Asks, SP!Reads, SP!Takes, SP!Completes,
       SP!GivesUp, SP!authPcs
  <2>2. Ready' /\ Says(C!Reply(220))
    BY <2>1, Written DEF SP!Greets, Ready
  <2>3. Lost' \/ wire' = C!Reply(220)
    BY <1>2, <2>2, Alone DEF Moves
  <2> QED BY <1>1, <2>2, <2>3 DEF Greeting
<1>3. CASE Ready
  <2>1. wire' = wire /\ Ready'
    BY <1>1, <1>3, Rests, Written
  <2> QED BY <1>1, <1>3, <2>1 DEF Greeting, Lost, Dead, Moves, Ready
<1> QED BY <1>2, <1>3 DEF Greeting

\* The body is read up to its dot, and answered.
LEMMA FinalStep ==
    ASSUME Parts, ReplyInv, ServerStep, Moves, open, pc' # "closed", AwaitingFinal
    PROVE  (Lost' \/ AwaitingFinal') /\ SP!Standing
<1>1. CASE Answered
  BY <1>1, RepliedStep DEF AwaitingFinal
<1>2. CASE pc = "data" /\ wire = <<>>
  <2>1. SP!Reads \/ SP!Completes
    BY <1>2 DEF Moves, SP!handshakeError, SP!Seen, SP!Greets, SP!Turns, SP!Drops,
       SP!Concludes, SP!Enters, SP!Asks, SP!Takes, SP!GivesUp, SP!authPcs
  <2>2. CASE SP!Completes
    <3>1. /\ body.rd # "open" /\ rbuf' = rbuf /\ Ready' /\ SP!Standing
          /\ reply' \in 1..599 /\ Says(C!Reply(reply'))
      BY <1>2, <2>2, Written DEF SP!Completes, Ready, SP!FinalCodes
    <3>2. rbuf = <<>>
      BY <3>1 DEF AwaitingFinal, Answered
    <3>3. Lost' \/ wire' = C!Reply(reply')
      BY <1>2, <3>1, Alone DEF Moves
    <3>4. wire' = C!Reply(reply') => Answered'
      BY <3>1, <3>2 DEF Answered
    <3> QED BY <3>1, <3>3, <3>4 DEF AwaitingFinal
  <2>3. CASE SP!Reads
    <3>1. wire' = <<>> /\ pc' = "data" /\ SP!Standing
      BY <1>2, <2>3, Written DEF SP!Reads
    <3>2. CASE SP!ReadFails
      BY <3>1, <3>2 DEF Lost, Dead, Moves
    <3>3. CASE body'.rd = body.rd /\ UNCHANGED rbuf
      BY <1>2, <3>1, <3>3 DEF AwaitingFinal, Answered, Ready
    <3>4. CASE /\ body.rd = "open" /\ SP!Recv
               /\ body'.rd = IF SP!line.verb = "." THEN "dot" ELSE "open"
      <4>1. /\ rbuf # <<>> /\ rbuf \in Seq(CP!Queued) /\ rbuf' = Tail(rbuf)
            /\ \A i \in 1..Len(rbuf) : rbuf[i].line.verb = "." <=> i = Len(rbuf)
        BY <1>2, <3>4, PartTypes DEF SP!Recv, AwaitingFinal, Answered, Ready
      <4>2. /\ Len(rbuf) \in Nat /\ Len(rbuf) >= 1 /\ SP!line = rbuf[1].line
            /\ Len(rbuf') = Len(rbuf) - 1
            /\ \A i \in 1..Len(rbuf') : rbuf'[i] = rbuf[i + 1]
        BY <4>1 DEF SP!line
      <4>3. rbuf[1].line.verb = "." <=> 1 = Len(rbuf)
        <5>1. 1 \in 1..Len(rbuf)
          BY <4>2
        <5> QED BY <4>1, <5>1, Zenon
      <4>4. CASE Len(rbuf) = 1
        <5>1. rbuf' = <<>>
          BY <4>1, <4>4
        <5>2. body'.rd = "dot"
          BY <3>4, <4>2, <4>3, <4>4
        <5> QED BY <3>1, <5>1, <5>2 DEF AwaitingFinal
      <4>5. CASE Len(rbuf) # 1
        <5>1. Len(rbuf') # 0 /\ Len(<<>>) = 0
          BY <4>2, <4>5
        <5>2. rbuf' # <<>>
          BY <5>1, Zenon
        <5>3. body'.rd = "open"
          BY <3>4, <4>2, <4>3, <4>5
        <5>4. ASSUME NEW i \in 1..Len(rbuf')
              PROVE  rbuf'[i].line.verb = "." <=> i = Len(rbuf')
          <6>1. i + 1 \in 1..Len(rbuf) /\ (i + 1 = Len(rbuf) <=> i = Len(rbuf'))
            BY <4>2
          <6>2. rbuf'[i] = rbuf[i + 1]
            BY <4>2
          <6> QED BY <4>1, <6>1, <6>2
        <5> QED BY <3>1, <5>2, <5>3, <5>4 DEF AwaitingFinal
      <4> QED BY <4>4, <4>5
    <3> QED BY <2>3, <3>2, <3>3, <3>4, <3>1 DEF SP!Reads
  <2> QED BY <2>1, <2>2, <2>3
<1> QED BY <1>1, <1>2 DEF AwaitingFinal

\* The session answers the cancelled AUTH.
LEMMA CancelStep ==
    ASSUME Parts, ReplyInv, ServerStep, Moves, open, pc' # "closed",
           NEW s, AwaitingCancel(s)
    PROVE  (Lost' \/ AwaitingCancel(s)') /\ SP!Standing
<1>1. CASE Answered
  BY <1>1, RepliedStep DEF AwaitingCancel
<1>2. CASE InAuth(s, "*")
  <2>1. SP!Standing
    BY <1>2 DEF InAuth, Moves, SP!handshakeError, SP!Seen, SP!Greets, SP!Turns,
       SP!Drops, SP!Concludes, SP!Enters, SP!Asks, SP!Reads, SP!Takes,
       SP!Completes, SP!GivesUp, SP!Settled, SP!authPcs, SP!Standing, SP!session,
       SP!history
  <2>2. Lost' \/ Concluded(s)'
    BY <1>2, ResponseStep
  <2> QED BY <2>1, <2>2 DEF AwaitingCancel, Concluded, Answered
<1> QED BY <1>1, <1>2 DEF AwaitingCancel

\* The session moves.
LEMMA ServerLock ==
    ASSUME Parts, ~ReadTimeouts, ReplyInv, InLock, ServerStep
    PROVE  InLock' /\ ReplyInv'
<1>1. (SP!Seen \/ SP!handshakeError) /\ pc # "closed" /\ UNCHANGED client
  BY ServerSeen
<1>2. ReplyInv'
  BY <1>1, ReplyStep
<1> SUFFICES ASSUME clean', pc' # "closed", at' # "gone"
             PROVE  open' /\ Lock(CP!step)'
  BY <1>2 DEF InLock
<1>3. /\ UNCHANGED <<at, todo, exts>> /\ open /\ open' /\ Lock(CP!step)
      /\ Moves
  BY <1>1, ServerMoves DEF client, InLock
<1>4. PICK s : s = CP!step /\ s = CP!step'
  BY <1>3 DEF CP!step
<1>5. Lock(s) => Lock(CP!step) /\ (Lock(s)' => Lock(CP!step)')
  BY <1>4
<1> SUFFICES Lock(s)'
  BY <1>3, <1>4
<1>6. Lock(s)
  BY <1>3, <1>4
<1>7. Dead' <=> Dead
  BY <1>3 DEF Moves, Dead
<1>8. CASE Astray(s)
  <2>1. CASE Lost
    <3>1. Lost'
      BY <1>3, <1>7, <2>1, Written DEF Lost
    <3> QED BY <1>3, <1>8, <2>1, <3>1 DEF Astray, Spoiled, Lock, Lost
  <2>2. CASE at = "reply" /\ Spoiled(s)
    <3>1. wire' # <<>> /\ wire'[1] = wire[1]
      BY <2>2, FirstStays DEF Spoiled
    <3>2. at' = "reply" /\ Spoiled(s)'
      BY <1>3, <2>2, <3>1 DEF Spoiled
    <3> QED BY <3>2 DEF Astray, Lock
  <2> QED BY <1>8, <2>1, <2>2 DEF Astray
<1>9. CASE Places(s) /\ Agree(s)
  <2>1. ASSUME SP!Standing, at # "reply" \/ s.verb \notin {"EHLO", "HELO"}
        PROVE  Agree(s)'
    BY <1>3, <1>9, <2>1 DEF Agree, SP!Standing, Offered
  <2>2. CASE at \in {"idle", "send"}
    <3>1. Quiet' /\ SP!Standing
      BY <1>3, <1>9, <2>2, RepliedStep DEF Places
    <3> QED BY <1>3, <2>1, <2>2, <3>1 DEF Places, Lock
  <2>3. CASE at = "none" \/ (at = "reply" /\ s.verb = "greeting")
    <3>1. Greeting' /\ SP!Standing
      BY <1>3, <1>9, <2>3, GreetingStep DEF Places
    <3> QED BY <1>3, <2>1, <2>3, <3>1 DEF Places, Lock
  <2>4. CASE at = "reply" /\ s.verb # "greeting"
    <3>1. Awaiting(s)
      BY <1>9, <2>4 DEF Places
    <3>2. s.n \in Nat
      <4>1. todo # <<>> /\ todo \in Seq(CP!Steps)
        BY <2>4, PartTypes DEF CP!PlaceInv, CP!Busy
      <4>2. Head(todo) \in CP!Steps
        BY <4>1
      <4> QED BY <1>4, <4>2 DEF CP!step, CP!Steps
    <3>3. CASE (Lost \/ Spoiled(s))'
      BY <1>3, <2>4, <3>3 DEF Astray, Lock
    <3>4. ASSUME Awaiting(s)', Agree(s)' PROVE Lock(s)'
      BY <1>3, <2>4, <3>4 DEF Places, Lock
    <3>5. CASE Offered(s)'
      BY <1>3, <2>4, <3>4, <3>5 DEF Agree, Offered, Awaiting
    <3>6. CASE Awaiting(s)' /\ Agrees(s)
      <4>1. CASE Offered(s)
        BY <1>3, <3>5, <4>1, RepliedStep
      <4>2. CASE ~Offered(s)
        <5>1. esmtp => exts = offered
          BY <1>9, <4>2 DEF Agree
        <5>2. esmtp' => exts' = offered'
          BY <1>3, <3>6, <5>1 DEF Agrees, SP!Standing
        <5>3. s.verb = "HELO" /\ wire' = C!Reply(250) => ~esmtp'
          BY <1>9, <2>4, <3>6 DEF Agrees, Agree, SP!Standing
        <5>4. Agree(s)'
          BY <5>2, <5>3 DEF Agree
        <5> QED BY <3>4, <3>6, <5>4
      <4> QED BY <4>1, <4>2
    <3> QED BY <1>3, <3>1, <3>2, <3>3, <3>5, <3>6, AwaitingStep
  <2>5. CASE at \in {"body", "handshake", "respond"}
    <3>1. rbuf = <<>> /\ wire = <<>> /\ Waiting(s.verb)
      BY <1>9, <2>5 DEF Places
    <3>2. rbuf' = <<>> /\ SP!Standing /\ (Dead \/ (Waiting(s.verb)' /\ SP!Reads))
      BY <1>3, <3>1, ReadsNothing, Waits
    <3>3. wire' = <<>>
      BY <1>3, <3>1, <3>2, Written
    <3>4. CASE Dead
      BY <1>3, <1>7, <2>5, <3>3, <3>4 DEF Lost, Astray, Lock
    <3>5. CASE Waiting(s.verb)'
      <4>1. Agree(s)'
        BY <2>1, <2>5, <3>2
      <4> QED BY <1>3, <2>5, <3>2, <3>3, <3>5, <4>1 DEF Places, Lock
    <3> QED BY <3>2, <3>4, <3>5
  <2>6. CASE at = "final"
    <3>1. (Lost' \/ AwaitingFinal') /\ SP!Standing
      BY <1>3, <1>9, <2>6, FinalStep DEF Places
    <3> QED BY <1>3, <2>1, <2>6, <3>1 DEF Places, Astray, Lock
  <2>7. CASE at = "cancel"
    <3>1. (Lost' \/ AwaitingCancel(s)') /\ SP!Standing
      BY <1>3, <1>9, <2>7, CancelStep DEF Places
    <3> QED BY <1>3, <2>1, <2>7, <3>1 DEF Places, Astray, Lock
  <2>8. at \in CP!Places /\ at # "gone"
    BY <1>3, PartTypes
  <2> QED BY <2>2, <2>3, <2>4, <2>5, <2>6, <2>7, <2>8 DEF CP!Places
<1> QED BY <1>6, <1>8, <1>9 DEF Lock

\* Both stay as they are, and so does what they have agreed on.
LEMMA LockStays ==
    ASSUME NEW s, Lock(s), Dead => Dead',
           UNCHANGED <<at, exts, wire, rbuf, pc, esmtp, offered, body, chunk>>
    PROVE  Lock(s)'
<1>1. Lost => Lost'
  BY DEF Lost
<1>2. Astray(s) => Astray(s)'
  BY <1>1 DEF Astray, Spoiled
<1>3. Agree(s) => Agree(s)'
  BY DEF Agree, Offered, Ready
<1>4. Waiting(s.verb) => Waiting(s.verb)'
  BY DEF Waiting
<1>5. Awaiting(s) => Awaiting(s)'
  <2>1. /\ OnItsWay(s) => OnItsWay(s)'
        /\ InChunk(s) => InChunk(s)'
        /\ InAuth(s, "b64") => InAuth(s, "b64")'
    BY DEF OnItsWay, InChunk, InAuth, Ready
  <2>2. /\ Concluded(s) => Concluded(s)'
        /\ Offered(s) => Offered(s)'
    BY DEF Concluded, Offered, Ready
  <2>3. Invited(s) => Invited(s)'
    BY <1>4 DEF Invited
  <2> QED BY <2>1, <2>2, <2>3 DEF Awaiting
<1>6. /\ Quiet => Quiet'
      /\ Greeting => Greeting'
      /\ AwaitingFinal => AwaitingFinal'
      /\ AwaitingCancel(s) => AwaitingCancel(s)'
  BY <1>1 DEF Quiet, Greeting, AwaitingFinal, AwaitingCancel, InAuth, Answered,
     Ready
<1>7. Places(s) => Places(s)'
  BY <1>4, <1>5, <1>6 DEF Places
<1> QED BY <1>2, <1>3, <1>7 DEF Lock

\* The shutdown, and the watcher, at most close the connection.
LEMMA ShutdownLock ==
    ASSUME Parts, ReplyInv, InLock, Shutdown \/ Watcher
    PROVE  InLock' /\ ReplyInv'
<1>1. UNCHANGED <<client, wire>> /\ (SP!Quit \/ SP!WatcherStep)
  BY SameSession DEF Shutdown, Watcher
<1>2. UNCHANGED <<pc, rbuf, reply, esmtp, offered, body, chunk>> /\ (Dead => Dead')
  BY <1>1 DEF SP!Quit, SP!WatcherStep, SP!watcherCancel, SP!watcherClose,
     SP!session, SP!progress, SP!out, SP!history, Dead
<1>3. ReplyInv'
  BY <1>2 DEF ReplyInv
<1>4. UNCHANGED <<at, todo, exts, open, clean>>
  BY <1>1 DEF client
<1> SUFFICES ASSUME clean, pc # "closed", at # "gone"
             PROVE  open' /\ Lock(CP!step)'
  BY <1>2, <1>3, <1>4 DEF InLock
<1>5. open' /\ Lock(CP!step)
  BY <1>4 DEF InLock
<1>6. PICK s : s = CP!step /\ s = CP!step'
  BY <1>4 DEF CP!step
<1>7. Lock(s)'
  BY <1>1, <1>2, <1>4, <1>5, <1>6, LockStays
<1> QED BY <1>5, <1>6, <1>7

----------------------------------------------------------------------------
(* The client's steps *)

\* A reply is read to its end.
LEMMA ReadLast ==
    ASSUME wire \in Seq(CP!ReplyLines), NEW n, n = Len(wire), CP!ReadReply(n)
    PROVE  wire' = <<>>
<1>1. wire' = SubSeq(wire, Len(wire) + 1, Len(wire))
  BY DEF CP!ReadReply, CP!Consume
<1> QED BY <1>1

\* Reading a reply of one line empties the stream.
LEMMA ReadOne ==
    ASSUME wire \in Seq(CP!ReplyLines), NEW c, wire = C!Reply(c),
           NEW n \in 1..Len(wire), CP!ReadReply(n)
    PROVE  wire[n].code = c /\ wire' = <<>>
<1>1. Len(wire) = 1 /\ wire[1].code = c
  BY ReplyFields
<1>2. n = 1
  BY <1>1
<1>3. wire' = <<>>
  BY <1>1, <1>2, ReadLast
<1> QED BY <1>1, <1>2, <1>3

\* Reading the reply to EHLO empties the stream and gives the extensions.
LEMMA ReadOffer ==
    ASSUME wire \in Seq(CP!ReplyLines), NEW e, wire = C!Offer(e),
           NEW n \in 1..Len(wire), CP!ReadReply(n)
    PROVE  wire[n].code = 250 /\ wire' = <<>> /\ CP!ParseEHLOResponse(n) = e
<1>1. /\ Len(wire) = 2 /\ wire[1].sep = "-" /\ wire[2].code = 250 /\ wire[2].exts = e
  <2>1. /\ Len(C!Offer(e)) = 2 /\ C!Offer(e)[1].sep = "-"
        /\ C!Offer(e)[2].code = 250 /\ C!Offer(e)[2].exts = e
    BY OfferFields, ZenonT(60)
  <2> QED BY <2>1
<1>2. wire[n].sep = " "
  BY DEF CP!ReadReply
<1>3. n = 2
  <2>1. n = 1 \/ n = 2
    BY <1>1
  <2>2. n # 1
    BY <1>1, <1>2
  <2> QED BY <2>1, <2>2
<1>4. wire' = <<>>
  BY <1>1, <1>3, ReadLast
<1>5. CP!ParseEHLOResponse(n) = e
  <2>1. 2..n = {2}
    BY <1>3
  <2>2. {wire[i].exts : i \in 2..n} = {e}
    BY <1>1, <2>1
  <2> QED BY <2>2 DEF CP!ParseEHLOResponse
<1> QED BY <1>1, <1>3, <1>4, <1>5

\* Lines written to an empty stream.
LEMMA WrittenAlone ==
    ASSUME Parts, rbuf = <<>>, NEW ls \in Seq(CP!Steps), CP!Write(ls)
    PROVE  /\ Len(rbuf') = Len(ls)
           /\ \A i \in 1..Len(ls) : rbuf'[i].line = ls[i]
           /\ Len(ls) > 0 => rbuf' # <<>> /\ Head(rbuf').line = ls[1]
<1>1. rbuf \in Seq(CP!Queued) /\ ctls \in BOOLEAN /\ Len(rbuf) = 0 /\ Len(ls) \in Nat
  BY PartTypes
<1>2. /\ rbuf' \in Seq(CP!Queued) /\ Len(rbuf') = Len(rbuf) + Len(ls)
      /\ \A i \in 1..Len(ls) : rbuf'[Len(rbuf) + i].line = ls[i]
  BY <1>1, CP!WriteAppends, Assumptions
<1>3. Len(rbuf') = Len(ls) /\ \A i \in 1..Len(ls) : rbuf'[i].line = ls[i]
  BY <1>1, <1>2
<1>4. ASSUME Len(ls) > 0 PROVE rbuf' # <<>> /\ Head(rbuf').line = ls[1]
  <2>1. rbuf' # <<>> /\ Head(rbuf') = rbuf'[1] /\ 1 \in 1..Len(ls)
    BY <1>1, <1>2, <1>3, <1>4
  <2> QED BY <1>3, <2>1
<1> QED BY <1>3, <1>4

\* Nothing is in flight where the call goes on to its next step or returns.
LEMMA AtRest ==
    ASSUME NEW s, at' \in {"idle", "send"}, Quiet', esmtp' => exts' = offered'
    PROVE  Lock(s)'
  BY DEF Lock, Places, Agree

\* A command is sent to a session that is in its command loop.
LEMMA CommandLock ==
    ASSUME Parts, Places(CP!step), Agree(CP!step), CP!Commands,
           UNCHANGED server, NEW s, s = CP!step, s = CP!step'
    PROVE  Lock(s)'
<1>1. /\ at = "send" /\ at' = "reply" /\ CP!Write(CP!Sent(s)) /\ Quiet
      /\ UNCHANGED <<wire, exts>> /\ (esmtp => exts = offered)
  BY DEF CP!Commands, Places, Agree
<1>2. s \in CP!Steps /\ s.verb # "greeting"
  <2>1. Head(todo) \in CP!Steps
    BY PartTypes DEF CP!Commands
  <2> QED BY <2>1 DEF CP!Commands, CP!Doing, CP!step
<1>3. /\ CP!Sent(s) \in Seq(CP!Steps) /\ Len(CP!Sent(s)) > 0
      /\ CP!Sent(s)[1].verb = s.verb
      /\ s.verb = "BDAT" => Len(CP!Sent(s)) = 1 + s.n /\ CP!Sent(s)[1] = s
      /\ s.verb # "BDAT" => Len(CP!Sent(s)) = 1
  BY <1>2, CP!SentType, Assumptions
<1>4. rbuf' # <<>> /\ Head(rbuf').line = CP!Sent(s)[1] /\ Len(rbuf') = Len(CP!Sent(s))
  BY <1>1, <1>3, WrittenAlone DEF Quiet
<1>5. OnItsWay(s)'
  BY <1>1, <1>3, <1>4 DEF OnItsWay, Quiet, Ready, server
<1>6. Agree(s)'
  <2>1. wire' # C!Reply(250)
    BY <1>1, ReplyFields DEF Quiet
  <2> QED BY <1>1, <2>1 DEF Agree, server
<1> QED BY <1>1, <1>2, <1>5, <1>6 DEF Lock, Places, Awaiting

\* A body is sent to a session that reads it.
LEMMA BodyLock ==
    ASSUME Parts, Places(CP!step), Agree(CP!step), CP!SendsBody,
           UNCHANGED server, NEW s, s = CP!step, s = CP!step'
    PROVE  Lock(s)'
<1>1. /\ at = "body" /\ at' = "final" /\ CP!Write(CP!Terminated(s.n))
      /\ UNCHANGED <<wire, exts>>
  BY DEF CP!SendsBody
<1>2. todo # <<>> /\ todo \in Seq(CP!Steps) /\ s.verb = "DATA"
  BY <1>1, PartTypes DEF CP!PlaceInv, CP!Doing, CP!step
<1>3. s.n \in Nat
  <2>1. Head(todo) \in CP!Steps
    BY <1>2
  <2> QED BY <2>1 DEF CP!step, CP!Steps
<1>4. rbuf = <<>> /\ wire = <<>> /\ pc = "data" /\ body.rd = "open"
  BY <1>1, <1>2 DEF Places, Waiting
<1> DEFINE ls == CP!Terminated(s.n)
<1>5. /\ ls \in Seq(CP!Steps) /\ Len(ls) = s.n + 1
      /\ \A i \in 1..s.n : ls[i] = CP!Bare("TEXT")
      /\ ls[s.n + 1] = CP!Bare(".")
  <2>1. \A n \in Nat :
           /\ CP!Terminated(n) \in Seq(CP!Steps) /\ Len(CP!Terminated(n)) = n + 1
           /\ \A i \in 1..n : CP!Terminated(n)[i] = CP!Bare("TEXT")
           /\ CP!Terminated(n)[n + 1] = CP!Bare(".")
    BY CP!TextType, Assumptions, ZenonT(60)
  <2> QED BY <1>3, <2>1
<1>6. CP!Write(ls)
  BY <1>1
<1>7. CP!Bare("TEXT").verb # "." /\ CP!Bare(".").verb = "."
  BY DEF CP!Bare
<1> HIDE DEF ls
<1>8. /\ Len(rbuf') = Len(ls) /\ rbuf' # <<>>
      /\ \A i \in 1..Len(ls) : rbuf'[i].line = ls[i]
  BY <1>3, <1>4, <1>5, <1>6, WrittenAlone
<1>9. ASSUME NEW i \in 1..Len(rbuf')
      PROVE  rbuf'[i].line.verb = "." <=> i = Len(rbuf')
  <2>1. i \in 1..Len(ls) /\ rbuf'[i].line = ls[i]
    BY <1>8
  <2>2. CASE i = s.n + 1
    BY <1>3, <1>5, <1>7, <1>8, <2>1, <2>2
  <2>3. CASE i # s.n + 1
    <3>1. i \in 1..s.n
      BY <1>3, <1>5, <2>1, <2>3
    <3> QED BY <1>3, <1>5, <1>7, <1>8, <2>1, <2>3, <3>1
  <2> QED BY <2>2, <2>3
<1>10. AwaitingFinal'
  BY <1>1, <1>4, <1>8, <1>9 DEF AwaitingFinal, server
<1> QED BY <1>1, <1>10 DEF Lock, Places, Agree, server

\* A response, or "*", is sent to a session that reads it.
LEMMA RespondLock ==
    ASSUME Parts, Places(CP!step), Agree(CP!step), CP!Responds,
           UNCHANGED server, NEW s, s = CP!step, s = CP!step'
    PROVE  Lock(s)'
<1>1. at = "respond" /\ UNCHANGED <<wire, exts>>
  BY DEF CP!Responds
<1>2. PICK r \in CP!Steps : /\ CP!Write(<<r>>)
                            /\ \/ at' = "cancel" /\ r.verb = "*"
                               \/ at' = "reply" /\ r.verb = "b64"
  BY DEF CP!Responds
<1>3. s.verb = "AUTH"
  BY <1>1, PartTypes DEF CP!PlaceInv, CP!Doing, CP!step
<1>4. rbuf = <<>> /\ wire = <<>> /\ pc \in SP!authPcs /\ (esmtp => exts = offered)
  BY <1>1, <1>3 DEF Places, Waiting, Agree
<1> DEFINE ls == <<r>>
<1>5. ls \in Seq(CP!Steps) /\ Len(ls) = 1 /\ ls[1] = r /\ CP!Write(ls)
  BY <1>2
<1> HIDE DEF ls
<1>6. Len(rbuf') = 1 /\ Head(rbuf').line = r
  BY <1>4, <1>5, WrittenAlone
<1>7. InAuth(s, r.verb)'
  BY <1>1, <1>3, <1>4, <1>6 DEF InAuth, server
<1>8. Agree(s)'
  BY <1>1, <1>3, <1>4 DEF Agree, server
<1> QED BY <1>2, <1>3, <1>7, <1>8 DEF Lock, Places, Awaiting, AwaitingCancel

\* The refusal of a chunk leaves the stream unclean.
LEMMA SpoiledUnheard ==
    ASSUME Parts, NEW s, s = CP!step, at = "reply", Spoiled(s),
           NEW n \in 1..Len(wire), CP!Hears(n)
    PROVE  FALSE
<1>1. todo # <<>>
  BY PartTypes DEF CP!PlaceInv, CP!Busy
<1>2. wire[n].code = 250
  BY <1>1 DEF CP!Hears, CP!Doing, CP!step, Spoiled
<1>3. n # 1 => 1 \in 1..(n - 1)
  OBVIOUS
<1>4. n = 1
  BY <1>3 DEF CP!Hears, CP!ReadReply, CP!EndsReply, Spoiled
<1> QED BY <1>2, <1>4 DEF Spoiled

\* A client that has gone astray hears nothing it goes on from.
LEMMA HearsInStep ==
    ASSUME Parts, NEW s, s = CP!step, Lock(s), NEW n \in 1..Len(wire), CP!Hears(n)
    PROVE  /\ Places(s) /\ Agree(s) /\ wire # <<>> /\ wire \in Seq(CP!ReplyLines)
           /\ todo # <<>> /\ (\A v : CP!Doing(v) <=> s.verb = v)
<1>1. wire \in Seq(CP!ReplyLines) /\ CP!PlaceInv
  BY PartTypes
<1>2. wire # <<>>
  BY <1>1
<1>3. todo # <<>>
  BY <1>1 DEF CP!Hears, CP!PlaceInv, CP!Busy
<1>4. \A v : CP!Doing(v) <=> s.verb = v
  BY <1>3 DEF CP!Doing, CP!step
<1>5. ~Astray(s)
  BY <1>2, SpoiledUnheard DEF Astray, Lost
<1> QED BY <1>1, <1>2, <1>3, <1>4, <1>5 DEF Lock

\* A reply is read: the call is at rest, or the session waits for what it
\* asked for.
LEMMA HearsLock ==
    ASSUME Parts, Parts', NEW s, s = CP!step, Lock(s), NEW n \in 1..Len(wire),
           CP!Hears(n), UNCHANGED server, at' # "gone", NEW t, t = CP!step'
    PROVE  Lock(t)'
<1>1. /\ Places(s) /\ Agree(s) /\ wire # <<>> /\ wire \in Seq(CP!ReplyLines)
      /\ \A v : CP!Doing(v) <=> s.verb = v
  BY HearsInStep
<1>2. at \in {"reply", "final", "cancel"} /\ CP!ReadReply(n) /\ rbuf' = rbuf
  BY DEF CP!Hears
<1>3. UNCHANGED <<pc, body, down, esmtp, offered>>
  BY DEF server
<1>4. ASSUME rbuf = <<>>, Ready, wire' = <<>>, esmtp => exts' = offered,
             ~CP!GoesOn(wire[n].code)
      PROVE  Lock(t)'
  <2>1. at' \in {"idle", "send"}
    BY <1>4 DEF CP!Hears
  <2>2. Quiet' /\ (esmtp' => exts' = offered')
    BY <1>2, <1>3, <1>4 DEF Quiet, Ready
  <2> QED BY <2>1, <2>2, AtRest
<1>5. ASSUME NEW c, wire = C!Reply(c)
      PROVE  wire[n].code = c /\ wire' = <<>> /\ ~Offered(s)
  <2>1. wire[n].code = c /\ wire' = <<>>
    BY <1>1, <1>2, <1>5, ReadOne
  <2>2. Len(wire) = 1
    BY <1>5, ReplyFields
  <2>3. ~Offered(s)
    <3>1. Len(C!Offer(offered)) = 2
      BY OfferFields
    <3> QED BY <2>2, <3>1 DEF Offered
  <2> QED BY <2>1, <2>3
<1>6. CASE at = "reply" /\ s.verb = "greeting"
  <2>1. rbuf = <<>> /\ Ready /\ wire = C!Reply(220)
    BY <1>1, <1>6 DEF Places, Greeting, Lost
  <2>2. wire' = <<>> /\ (esmtp => exts = offered)
    BY <1>1, <1>5, <2>1 DEF Agree
  <2>3. exts' = exts /\ ~CP!GoesOn(wire[n].code)
    BY <1>1, <1>6 DEF CP!Hears, CP!GoesOn
  <2> QED BY <1>4, <2>1, <2>2, <2>3
<1>7. CASE at = "reply" /\ s.verb # "greeting"
  <2>1. Concluded(s) \/ Offered(s) \/ Invited(s)
    BY <1>1, <1>7 DEF Places, Awaiting, OnItsWay, InChunk, InAuth
  <2>2. CASE Concluded(s)
    <3>1. PICK c \in 1..599 : /\ wire = C!Reply(c) /\ ~Continues(s.verb, c)
                              /\ ~(s.verb = "EHLO" /\ c = 250)
      BY <2>2 DEF Concluded
    <3>2. wire[n].code = c /\ wire' = <<>> /\ (esmtp => exts = offered)
      BY <1>1, <1>5, <3>1 DEF Agree
    <3>3. ~CP!GoesOn(wire[n].code)
      BY <1>1, <3>1, <3>2 DEF CP!GoesOn, Continues
    <3>4. s.verb = "HELO" /\ c = 250 => ~esmtp
      BY <1>1, <1>7, <3>1 DEF Agree
    <3>5. exts' = exts \/ (s.verb = "HELO" /\ c = 250)
      BY <1>1, <1>7, <3>1, <3>2 DEF CP!Hears
    <3> QED BY <1>4, <2>2, <3>2, <3>3, <3>4, <3>5 DEF Concluded
  <2>3. CASE Offered(s)
    <3>1. wire[n].code = 250 /\ wire' = <<>> /\ CP!ParseEHLOResponse(n) = offered
      BY <1>1, <1>2, <2>3, ReadOffer DEF Offered
    <3>2. s.verb = "EHLO"
      BY <2>3 DEF Offered
    <3>3. exts' = offered /\ ~CP!GoesOn(wire[n].code)
      BY <1>1, <1>7, <3>1, <3>2 DEF CP!Hears, CP!GoesOn
    <3> QED BY <1>4, <2>3, <3>1, <3>3 DEF Offered
  <2>4. CASE Invited(s)
    <3>1. PICK c \in 1..599 : wire = C!Reply(c) /\ Continues(s.verb, c)
      BY <2>4 DEF Invited
    <3>2. wire[n].code = c /\ wire' = <<>> /\ (esmtp => exts = offered)
      BY <1>1, <1>5, <3>1 DEF Agree
    <3>3. CP!GoesOn(wire[n].code)
      BY <1>1, <1>7, <3>1, <3>2 DEF CP!GoesOn, Continues
    <3>4. /\ s.verb \in {"DATA", "STARTTLS", "AUTH"}
          /\ at' = IF s.verb = "DATA" THEN "body"
                   ELSE IF s.verb = "STARTTLS" THEN "handshake" ELSE "respond"
      BY <1>1, <3>1, <3>3 DEF CP!Hears, Continues
    <3>5. exts' = exts
      BY <1>1, <3>4 DEF CP!Hears
    <3>6. t.verb = s.verb
      <4>1. CP!PlaceInv'
        BY PartTypes DEF Parts, CP!CallInv
      <4> QED BY <3>4, <4>1 DEF CP!PlaceInv, CP!Doing, CP!step
    <3>7. CASE Dead
      BY <1>3, <3>2, <3>4, <3>7 DEF Lock, Astray, Lost, Dead
    <3>8. CASE Waiting(s.verb)
      <4>1. rbuf' = <<>> /\ Waiting(t.verb)'
        BY <1>2, <1>3, <2>4, <3>6, <3>8 DEF Invited, Waiting
      <4>2. Agree(t)'
        BY <1>3, <3>2, <3>4, <3>5 DEF Agree
      <4> QED BY <3>2, <3>4, <4>1, <4>2 DEF Lock, Places
    <3> QED BY <2>4, <3>7, <3>8 DEF Invited
  <2> QED BY <2>1, <2>2, <2>3, <2>4
<1>8. CASE at \in {"final", "cancel"}
  <2>1. Answered
    BY <1>1, <1>8 DEF Places, AwaitingFinal, AwaitingCancel, InAuth
  <2>2. PICK c \in 1..599 : wire = C!Reply(c)
    BY <2>1 DEF Answered
  <2>3. wire' = <<>> /\ exts' = exts /\ (esmtp => exts = offered)
    BY <1>1, <1>5, <1>8, <2>2 DEF CP!Hears, Agree
  <2>4. ~CP!GoesOn(wire[n].code)
    BY <1>8 DEF CP!GoesOn
  <2> QED BY <1>4, <2>1, <2>3, <2>4 DEF Answered
<1> QED BY <1>2, <1>6, <1>7, <1>8

\* The client moves.
LEMMA ClientLock ==
    ASSUME Parts, ReplyInv, InLock, ClientStep
    PROVE  InLock' /\ ReplyInv'
<1>1. Parts' /\ (CP!ClientStep \/ CP!Expire) /\ UNCHANGED server
  BY ClientParts DEF ClientStep
<1>2. UNCHANGED <<pc, reply, esmtp, offered, body, chunk, down>>
  BY <1>1 DEF server
<1>3. ReplyInv'
  BY <1>2 DEF ReplyInv
<1> SUFFICES ASSUME clean', pc' # "closed", at' # "gone"
             PROVE  open' /\ Lock(CP!step)'
  BY <1>3 DEF InLock
<1>4. CP!Talks
  BY <1>1, CP!ClientTalks, Assumptions
<1>5. at # "gone"
  BY <1>4 DEF CP!Talks, CP!Pauses, CP!Commands, CP!SendsBody, CP!Responds, CP!Hears
<1>6. clean /\ (open /\ at' # "gone" => open')
  BY <1>1, CP!Undisturbed, Assumptions
<1>7. open' /\ Lock(CP!step)
  BY <1>2, <1>5, <1>6 DEF InLock
<1>8. PICK s : s = CP!step
  OBVIOUS
<1>9. PICK t : t = CP!step'
  OBVIOUS
<1>10. Lock(s)
  BY <1>7, <1>8
<1>11. CP!Doing("greeting")' => t.verb = "greeting"
  BY <1>9 DEF CP!Doing, CP!step
<1>12. todo' = todo => t = s
  BY <1>8, <1>9 DEF CP!step
<1>13. CASE CP!Pauses
  <2>1. UNCHANGED <<rbuf, wire, exts>>
    BY <1>13 DEF CP!Pauses
  <2>2. CASE UNCHANGED <<at, todo>>
    <3>1. Lock(s)'
      BY <1>2, <1>10, <2>1, <2>2, LockStays DEF Dead
    <3> QED BY <1>7, <1>9, <1>12, <2>2, <3>1
  <2>3. CASE at = "idle" /\ at' = "send"
    <3>1. Quiet /\ (esmtp => exts = offered)
      BY <1>10, <2>3 DEF Lock, Astray, Places, Agree
    <3>2. Lock(t)'
      BY <1>2, <2>1, <2>3, <3>1, AtRest DEF Quiet, Ready
    <3> QED BY <1>7, <1>9, <3>2
  <2>4. CASE at = "none" /\ at' = "reply" /\ CP!Doing("greeting")'
    <3>1. Greeting /\ (esmtp => exts = offered) /\ t.verb = "greeting"
      BY <1>10, <1>11, <2>4 DEF Lock, Astray, Places, Agree
    <3>2. Greeting'
      BY <1>2, <2>1, <3>1 DEF Greeting, Ready, Lost, Dead
    <3>3. Agree(t)'
      BY <1>2, <2>1, <3>1 DEF Agree
    <3>4. Lock(t)'
      BY <2>4, <3>1, <3>2, <3>3 DEF Lock, Places
    <3> QED BY <1>7, <1>9, <3>4
  <2> QED BY <1>13, <2>2, <2>3, <2>4 DEF CP!Pauses
<1>14. CASE CP!Commands
  <2>1. at = "send" /\ todo' = todo
    BY <1>14 DEF CP!Commands
  <2>2. Places(s) /\ Agree(s)
    BY <1>10, <2>1 DEF Lock, Astray
  <2>3. Lock(t)'
    BY <1>1, <1>8, <1>9, <1>12, <1>14, <2>1, <2>2, CommandLock
  <2> QED BY <1>7, <1>9, <2>3
<1>15. CASE CP!SendsBody \/ CP!Responds
  <2>1. /\ at \in {"body", "respond"} /\ UNCHANGED <<todo, wire>>
        /\ at' \in {"final", "cancel", "reply"}
    BY <1>15 DEF CP!SendsBody, CP!Responds
  <2>2. CASE Astray(s)
    <3>1. Lost'
      BY <1>2, <2>1, <2>2 DEF Astray, Lost, Dead
    <3>2. Lock(t)'
      BY <2>1, <3>1 DEF Lock, Astray
    <3> QED BY <1>7, <1>9, <3>2
  <2>3. CASE Places(s) /\ Agree(s)
    <3>1. Lock(t)'
      BY <1>1, <1>8, <1>9, <1>12, <1>15, <2>1, <2>3, BodyLock, RespondLock
    <3> QED BY <1>7, <1>9, <3>1
  <2> QED BY <1>10, <2>2, <2>3 DEF Lock
<1>16. CASE \E n \in 1..Len(wire) : CP!Hears(n)
  <2>1. PICK n \in 1..Len(wire) : CP!Hears(n)
    BY <1>16
  <2>2. Lock(t)'
    BY <1>1, <1>8, <1>9, <1>10, <2>1, HearsLock
  <2> QED BY <1>7, <1>9, <2>2
<1> QED BY <1>4, <1>13, <1>14, <1>15, <1>16 DEF CP!Talks

\* The two shake hands: both come back with empty buffers, and the session has
\* forgotten the EHLO that the client is about to repeat.
LEMMA HandshakeLock ==
    ASSUME Parts, ReplyInv, InLock, Handshake
    PROVE  InLock' /\ ReplyInv'
<1>1. \/ CP!upgraded /\ SP!handshakeOk
      \/ CP!handshakeError /\ SP!handshakeError
      \/ CP!handshakeError /\ UNCHANGED <<server, rbuf>>
  BY HandshakeParts
<1>2. ReplyInv'
  BY <1>1, ReplyStep DEF ReplyInv, server
<1>3. CASE CP!handshakeError
  BY <1>2, <1>3 DEF CP!handshakeError, InLock
<1>4. CASE CP!upgraded /\ SP!handshakeOk
  <2>1. /\ at' = "send" /\ wire' = <<>> /\ open /\ open' = open
    BY <1>4 DEF CP!upgraded, CP!Reissue
  <2>2. rbuf' = <<>> /\ pc' = "loop" /\ esmtp' = FALSE
    BY <1>4 DEF SP!handshakeOk, SP!ReplaceConn, SP!ForgetGreeting
  <2>3. Quiet'
    BY <2>1, <2>2 DEF Quiet, Ready
  <2>4. PICK t : t = CP!step'
    OBVIOUS
  <2>5. Lock(t)'
    BY <2>1, <2>2, <2>3, AtRest
  <2> QED BY <1>2, <2>1, <2>4, <2>5 DEF InLock
<1> QED BY <1>1, <1>3, <1>4

----------------------------------------------------------------------------
(* The inductive invariant *)

LockInv == Parts /\ ReplyInv /\ InLock

\* The lockstep holds before the client connects.
LEMMA InitLock == Init => LockInv
<1> SUFFICES ASSUME Init PROVE LockInv
  OBVIOUS
<1>1. /\ at = "none" /\ rbuf = <<>> /\ wire = <<>> /\ pc = "start" /\ reply = 0
      /\ open = TRUE /\ esmtp = FALSE
  BY DEF Init, C!Init, S!Init
<1>2. ReplyInv
  BY <1>1 DEF ReplyInv, SP!authPcs
<1>3. PICK s : s = CP!step
  OBVIOUS
<1>4. Lock(s)
  BY <1>1 DEF Lock, Places, Agree, Greeting
<1> QED BY <1>1, <1>2, <1>3, <1>4, InitParts DEF LockInv, InLock

\* Every step preserves the lockstep.
LEMMA LockStep ==
    ASSUME ~ReadTimeouts, LockInv, [Next]_vars
    PROVE  LockInv'
<1>1. Parts'
  BY PartsStep DEF LockInv
<1>2. CASE UNCHANGED vars
  <2>1. UNCHANGED <<at, todo, exts, open, clean, wire, rbuf, pc, reply, esmtp,
                    offered, body, chunk, down>>
    BY <1>2 DEF vars, client, server
  <2>2. ReplyInv'
    BY <2>1 DEF LockInv, ReplyInv
  <2>3. PICK s : s = CP!step /\ s = CP!step'
    BY <2>1 DEF CP!step
  <2>4. Lock(s) => Lock(s)'
    BY <2>1, LockStays DEF Dead
  <2>5. InLock'
    BY <2>1, <2>3, <2>4 DEF LockInv, InLock
  <2> QED BY <1>1, <2>2, <2>5 DEF LockInv
<1>3. CASE Next /\ ~UNCHANGED vars
  BY <1>1, <1>3, ServerLock, ShutdownLock, ClientLock, HandshakeLock
     DEF LockInv, Next, Ended
<1> QED BY <1>2, <1>3

\* The lockstep is an invariant of the dialogue.
LEMMA LockSafety == ASSUME ~ReadTimeouts PROVE Spec => []LockInv
  BY InitLock, LockStep, PTL DEF Spec

----------------------------------------------------------------------------
(* Behind a reply *)

\* A session that ends may leave replies behind the one the client waits for;
\* none of them can be taken for the success of a later command.
Hearing == at \in {"reply", "final", "cancel"}
Plain(l) == l.sep = " " /\ l.code # 250
AllPlain(w) == \A i \in 1..Len(w) : Plain(w[i])
Behind(w) == \A i \in 1..Len(w) :
                 Plain(w[i]) \/ \A j \in 1..(i - 1) : w[j].sep = "-"
Rest(s) == /\ Hearing => (at = "reply" /\ Spoiled(s)) \/ Behind(wire)
           /\ ~Hearing => AllPlain(wire)
RestInv == clean /\ at # "gone" /\ pc = "closed" => Rest(CP!step)

\* The transaction is gone when RSET has been answered with 250.
Fresh == state < SP!stateMail /\ forwardPaths = <<>>
Renewed(s) ==
    /\ at = "reply" /\ s.verb = "RSET" /\ wire # <<>> =>
          wire[1].sep = " " /\ (wire[1].code = 250 => Fresh)
    /\ result = [api |-> "Reset", err |-> "nil"] => Fresh
RenewInv == clean /\ at # "gone" => Renewed(CP!step)

\* Which replies may be left behind by a session that has ended.
LEMMA ReplyBehind ==
    /\ AllPlain(<<>>) /\ Behind(<<>>)
    /\ \A c : Behind(C!Reply(c)) /\ (c # 250 => AllPlain(C!Reply(c)))
    /\ \A e : Behind(C!Offer(e))
<1>1. AllPlain(<<>>) /\ Behind(<<>>)
  BY DEF AllPlain, Behind
<1>2. ASSUME NEW c PROVE Behind(C!Reply(c)) /\ (c # 250 => AllPlain(C!Reply(c)))
  <2> DEFINE w == C!Reply(c)
  <2>1. Len(w) = 1 /\ w[1].sep = " " /\ w[1].code = c
    BY ReplyFields
  <2> HIDE DEF w
  <2>2. \A i \in 1..Len(w) : i = 1
    <3>1. \A i \in 1..1 : i = 1
      OBVIOUS
    <3> QED BY <2>1, <3>1, Zenon
  <2>3. Behind(w)
    <3>1. \A j \in 1..(1 - 1) : w[j].sep = "-"
      OBVIOUS
    <3> QED BY <2>2, <3>1, Zenon DEF Behind
  <2>4. c # 250 => AllPlain(w)
    BY <2>1, <2>2, Zenon DEF AllPlain, Plain
  <2> QED BY <2>3, <2>4 DEF w
<1>3. ASSUME NEW e PROVE Behind(C!Offer(e))
  <2> DEFINE w == C!Offer(e)
  <2>1. Len(w) = 2 /\ w[1].sep = "-"
    BY OfferFields
  <2> HIDE DEF w
  <2>2. Behind(w)
    BY <2>1 DEF Behind
  <2> QED BY <2>2 DEF w
<1> QED BY <1>1, <1>2, <1>3

\* Appended replies without a 250 leave what was there plain, or behind.
LEMMA AppendPlain ==
    ASSUME NEW u \in Seq(CP!ReplyLines), NEW w \in Seq(CP!ReplyLines), AllPlain(w)
    PROVE  /\ AllPlain(u) => AllPlain(u \o w)
           /\ Behind(u) => Behind(u \o w)
<1> DEFINE x == u \o w
<1>1. /\ Len(x) = Len(u) + Len(w) /\ Len(u) \in Nat /\ Len(w) \in Nat
      /\ \A i \in 1..Len(u) : x[i] = u[i]
  OBVIOUS
<1>2. \A i \in 1..Len(w) : x[Len(u) + i] = w[i]
  OBVIOUS
<1> HIDE DEF x
<1>3. ASSUME NEW i \in 1..Len(x), i \notin 1..Len(u) PROVE Plain(x[i])
  <2>1. i - Len(u) \in 1..Len(w) /\ Len(u) + (i - Len(u)) = i
    BY <1>1, <1>3
  <2>2. x[i] = w[i - Len(u)]
    BY <1>2, <2>1
  <2> QED BY <2>1, <2>2 DEF AllPlain
<1>4. AllPlain(u) => AllPlain(x)
  BY <1>1, <1>3 DEF AllPlain
<1>5. ASSUME Behind(u), NEW i \in 1..Len(x)
      PROVE  Plain(x[i]) \/ \A j \in 1..(i - 1) : x[j].sep = "-"
  <2>1. CASE i \in 1..Len(u)
    <3>1. x[i] = u[i] /\ \A j \in 1..(i - 1) : j \in 1..Len(u) /\ x[j] = u[j]
      BY <1>1, <2>1
    <3> QED BY <1>5, <2>1, <3>1 DEF Behind
  <2> QED BY <1>3, <2>1
<1> QED BY <1>4, <1>5 DEF Behind, x

\* While the session is there, the reply is all there is.
LEMMA OpenRest ==
    ASSUME Parts, NEW s, Lock(s), at # "gone"
    PROVE  Rest(s)
<1>1. wire = <<>> => Rest(s)
  BY ReplyBehind DEF Rest
<1>2. CASE Astray(s)
  BY <1>1, <1>2 DEF Astray, Lost, Rest, Hearing
<1>3. CASE Places(s)
  <2>1. CASE Hearing
    <3>1. wire = <<>> \/ (\E c : wire = C!Reply(c)) \/ (\E e : wire = C!Offer(e))
      <4>1. Greeting => wire = <<>> \/ \E c : wire = C!Reply(c)
        BY DEF Greeting, Lost
      <4>2. Answered => \E c : wire = C!Reply(c)
        BY DEF Answered
      <4>3. AwaitingFinal \/ AwaitingCancel(s) => wire = <<>> \/ Answered
        BY DEF AwaitingFinal, AwaitingCancel, InAuth
      <4>4. Concluded(s) \/ Invited(s) => \E c : wire = C!Reply(c)
        BY DEF Concluded, Invited
      <4>5. Awaiting(s) => \/ wire = <<>> \/ Concluded(s) \/ Invited(s)
                           \/ \E e : wire = C!Offer(e)
        BY DEF Awaiting, OnItsWay, InChunk, InAuth, Offered
      <4> QED BY <1>3, <2>1, <4>1, <4>2, <4>3, <4>4, <4>5 DEF Places, Hearing
    <3>2. Behind(wire)
      BY <3>1, ReplyBehind
    <3> QED BY <2>1, <3>2 DEF Rest
  <2>2. CASE at = "none"
    <3>1. wire = <<>> \/ wire = C!Reply(220)
      BY <1>3, <2>2 DEF Places, Greeting, Lost
    <3>2. AllPlain(wire)
      BY <3>1, ReplyBehind
    <3> QED BY <2>2, <3>2 DEF Rest, Hearing
  <2>3. CASE at \in {"idle", "send", "body", "handshake", "respond"}
    BY <1>1, <1>3, <2>3 DEF Places, Quiet
  <2>4. at \in CP!Places
    BY PartTypes
  <2> QED BY <2>1, <2>2, <2>3, <2>4 DEF CP!Places, Hearing
<1> QED BY <1>2, <1>3 DEF Lock

\* What is on the stream, whether the session has ended or not.
LEMMA RestHolds ==
    ASSUME LockInv, RestInv, clean, at # "gone", NEW s, s = CP!step
    PROVE  Rest(s)
<1>1. CASE pc # "closed"
  <2>1. Lock(s)
    BY <1>1 DEF LockInv, InLock
  <2> QED BY <2>1, OpenRest DEF LockInv
<1> QED BY <1>1 DEF RestInv

\* What a session writes as it ends.
LEMMA Parting ==
    ASSUME Parts, ServerStep, pc' = "closed"
    PROVE  \E w \in Seq(CP!ReplyLines) : wire' = wire \o w /\ AllPlain(w)
<1>1. SP!Greets \/ SP!Turns \/ SP!Drops \/ SP!Enters
  BY ServerSeen DEF SP!Seen, SP!handshakeError, SP!Concludes, SP!Asks, SP!Reads,
     SP!Takes, SP!Completes, SP!GivesUp, SP!authPcs
<1>2. wire \in Seq(CP!ReplyLines) /\ SP!TypeOK'
  BY SessionParts, PartTypes DEF Parts
<1>3. wire' = IF Wrote THEN wire \o ReplyLines ELSE wire
  BY DEF ServerStep
<1>4. CASE ~Wrote
  <2>1. wire' = wire \o <<>> /\ <<>> \in Seq(CP!ReplyLines) /\ AllPlain(<<>>)
    BY <1>2, <1>3, <1>4, ReplyBehind
  <2> QED BY <2>1
<1>5. CASE Wrote
  <2>1. reply' # 250 /\ (answered' = 2 => reply' = 421)
    BY <1>1, <1>5 DEF Wrote, SP!Greets, SP!Turns, SP!Drops, SP!Enters, SP!out,
       SP!FinalCodes
  <2>2. ReplyLines = IF answered' = 2 THEN C!Reply(500) \o C!Reply(421)
                     ELSE C!Reply(reply')
    BY <2>1, ZenonT(60) DEF ReplyLines
  <2>3. ReplyLines \in Seq(CP!ReplyLines)
    BY <1>2, ReplyLinesType
  <2>4. AllPlain(C!Reply(reply'))
    BY <2>1, ReplyBehind
  <2>5. AllPlain(C!Reply(500) \o C!Reply(421))
    <3>1. AllPlain(C!Reply(500)) /\ AllPlain(C!Reply(421))
      BY ReplyBehind
    <3>2. C!Reply(500) \in Seq(CP!ReplyLines) /\ C!Reply(421) \in Seq(CP!ReplyLines)
      BY ReplyType
    <3> QED BY <3>1, <3>2, AppendPlain
  <2> HIDE DEF ReplyLines
  <2>6. AllPlain(ReplyLines)
    BY <2>2, <2>4, <2>5
  <2> QED BY <1>3, <1>5, <2>3, <2>6
<1> QED BY <1>4, <1>5

\* The session ends.
LEMMA ServerRest ==
    ASSUME Parts, ServerStep, pc' = "closed", NEW s, Rest(s)
    PROVE  Rest(s)'
<1>1. at' = at
  BY DEF ServerStep, client
<1>2. PICK w \in Seq(CP!ReplyLines) : wire' = wire \o w /\ AllPlain(w)
  BY Parting
<1>3. wire \in Seq(CP!ReplyLines)
  BY PartTypes
<1>4. /\ AllPlain(wire) => AllPlain(wire)'
      /\ Behind(wire) => Behind(wire)'
  BY <1>2, <1>3, AppendPlain DEF AllPlain, Behind
<1>5. Spoiled(s) => Spoiled(s)'
  BY FirstStays DEF Spoiled
<1> QED BY <1>1, <1>4, <1>5 DEF Rest, Hearing

\* The client moves: what it reads ends in front of the rest.
LEMMA ClientRest ==
    ASSUME Parts, NEW s, s = CP!step, Rest(s), CP!Talks, NEW t,
           todo' = todo => t = s
    PROVE  Rest(t)'
<1>1. AllPlain(wire) => Behind(wire)
  BY DEF AllPlain, Behind
<1>2. CASE /\ wire' = wire
           /\ \/ UNCHANGED <<at, todo>>
              \/ ~Hearing
    <2>1. AllPlain(wire)' <=> AllPlain(wire)
      BY <1>2 DEF AllPlain
    <2>2. Behind(wire)' <=> Behind(wire)
      BY <1>2 DEF Behind
    <2>3. CASE UNCHANGED <<at, todo>>
      BY <1>2, <2>1, <2>2, <2>3 DEF Rest, Hearing, Spoiled
    <2>4. CASE ~Hearing
      BY <1>1, <2>1, <2>2, <2>4 DEF Rest
    <2> QED BY <1>2, <2>3, <2>4
<1>3. CASE \E n \in 1..Len(wire) : CP!Hears(n)
  <2>1. PICK n \in 1..Len(wire) : CP!Hears(n)
    BY <1>3
  <2>2. /\ Hearing /\ wire[n].sep = " " /\ wire' = SubSeq(wire, n + 1, Len(wire))
        /\ at' \in {"body", "handshake", "respond", "idle", "send", "gone"}
    BY <2>1 DEF CP!Hears, CP!ReadReply, CP!Consume, Hearing
  <2>3. Behind(wire)
    <3> SUFFICES ASSUME at = "reply", Spoiled(s) PROVE FALSE
      BY <2>2 DEF Rest
    <3> QED BY <2>1, SpoiledUnheard
  <2>4. wire \in Seq(CP!ReplyLines) /\ Len(wire) \in Nat
    BY PartTypes
  <2>5. /\ Len(wire') = Len(wire) - n
        /\ \A i \in 1..Len(wire') : wire'[i] = wire[n + i]
    <3> DEFINE l == Len(wire)
               u == SubSeq(wire, n + 1, l)
    <3>1. l \in Nat /\ n \in 1..l
      BY <2>4
    <3>2. Len(u) = l - n
      BY <2>4, <3>1
    <3>3. ASSUME NEW i \in 1..Len(u) PROVE u[i] = wire[n + i]
      BY <2>4, <3>1, <3>2
    <3> HIDE DEF u
    <3>4. wire' = u
      BY <2>2 DEF u
    <3> QED BY <3>2, <3>3, <3>4, Zenon
  <2>6. ASSUME NEW i \in 1..Len(wire') PROVE Plain(wire'[i])
    <3>1. n + i \in 1..Len(wire) /\ n \in 1..((n + i) - 1) /\ wire'[i] = wire[n + i]
      BY <2>4, <2>5
    <3> QED BY <2>2, <2>3, <3>1 DEF Behind
  <2>7. AllPlain(wire)'
    BY <2>6 DEF AllPlain
  <2> QED BY <2>2, <2>7 DEF Rest, Hearing
<1> QED BY <1>2, <1>3 DEF CP!Talks, CP!Pauses, CP!Commands, CP!SendsBody,
        CP!Responds, Hearing

----------------------------------------------------------------------------
(* After a Reset *)

\* The session answers RSET, and leaves the envelope alone between commands.
LEMMA ServerRenews ==
    ASSUME ~ReadTimeouts, LockInv, ServerStep, clean, at # "gone",
           NEW s, s = CP!step, Renewed(s)
    PROVE  Renewed(s)'
<1>1. /\ Parts /\ ReplyInv /\ pc # "closed" /\ UNCHANGED <<at, result>>
  BY ServerSeen DEF LockInv, client
<1>2. open /\ Lock(s)
  BY <1>1 DEF LockInv, InLock
<1>3. Moves
  BY <1>1, <1>2, ServerMoves
<1>4. ASSUME rbuf = <<>>, Ready PROVE SP!Settled
  <2>1. ~SP!Recv
    BY <1>4 DEF SP!Recv
  <2>2. SP!Turns \/ SP!Drops
    BY <1>3, <1>4, <2>1 DEF Moves, Ready, SP!handshakeError, SP!Seen, SP!Greets,
       SP!Concludes, SP!Enters, SP!Asks, SP!Reads, SP!Takes, SP!Completes,
       SP!GivesUp, SP!authPcs
  <2> QED BY <2>2 DEF SP!Turns, SP!Drops
<1>5. ASSUME SP!Settled PROVE Fresh => Fresh'
  BY <1>5 DEF SP!Settled, Fresh
<1>6. ASSUME result' = [api |-> "Reset", err |-> "nil"] PROVE Fresh'
  <2>1. result # CP!NoResult
    BY <1>1, <1>6 DEF CP!NoResult
  <2>2. at = "idle"
    BY <1>1, <2>1, PartTypes DEF CP!PlaceInv, CP!Busy
  <2>3. Quiet
    BY <1>2, <2>2 DEF Lock, Astray, Places
  <2> QED BY <1>1, <1>4, <1>5, <1>6, <2>3 DEF Quiet, Renewed
<1>7. ASSUME at' = "reply", s.verb = "RSET", wire' # <<>>
      PROVE  wire'[1].sep = " " /\ (wire'[1].code = 250 => Fresh')
  <2>1. CASE wire # <<>>
    <3>1. wire'[1] = wire[1]
      BY <1>1, <2>1, FirstStays
    <3>2. Concluded(s)
      BY <1>1, <1>2, <1>7, <2>1 DEF Lock, Astray, Lost, Spoiled, Places, Awaiting,
         OnItsWay, InChunk, InAuth, Offered, Invited, Continues
    <3>3. wire[1].sep = " " /\ (wire[1].code = 250 => Fresh)
      BY <1>1, <1>7, <2>1 DEF Renewed
    <3>4. Fresh => Fresh'
      BY <1>4, <1>5, <3>2 DEF Concluded
    <3> QED BY <3>1, <3>3, <3>4
  <2>2. CASE wire = <<>>
    <3>1. ~Dead
      BY <1>7, <2>2 DEF ServerStep, Wrote, Dead
    <3>2. OnItsWay(s)
      <4>1. Awaiting(s)
        BY <1>1, <1>2, <1>7, <2>2, <3>1 DEF Lock, Astray, Lost, Spoiled, Places
      <4>2. \A c : C!Reply(c) # wire
        BY <2>2, ReplyFields
      <4> QED BY <1>7, <4>1, <4>2 DEF Awaiting, InChunk, InAuth, Concluded,
              Offered, Invited
    <3>3. Ready /\ SP!line.verb = "RSET"
      BY <1>7, <3>2 DEF OnItsWay, SP!line
    <3>4. CASE pc' = "closed"
      <4>1. PICK w \in Seq(CP!ReplyLines) : wire' = wire \o w /\ AllPlain(w)
        BY <1>1, <3>4, Parting
      <4>2. wire' = w
        BY <2>2, <4>1
      <4>3. 1 \in 1..Len(w)
        BY <1>7, <4>1, <4>2
      <4>4. Plain(w[1])
        BY <4>1, <4>3, Zenon DEF AllPlain
      <4> QED BY <4>2, <4>4 DEF Plain
    <3>5. CASE pc' # "closed"
      <4>1. SP!Turns \/ SP!Concludes
        BY <1>3, <3>3, <3>5 DEF Moves, Ready, SP!handshakeError, SP!Seen,
           SP!Greets, SP!Drops, SP!Enters, SP!Asks, SP!Reads, SP!Takes,
           SP!Completes, SP!GivesUp, SP!authPcs
      <4>2. ~SP!Turns
        BY <1>1, <1>2, <1>7, <2>2, <3>5, Written
      <4>3. /\ pc = "read" /\ Fresh' /\ Says(C!Reply(reply'))
        BY <1>1, <1>2, <3>3, <3>5, <4>1, <4>2, Written
           DEF SP!Concludes, Ready, Fresh, SP!authPcs
      <4>4. wire' = C!Reply(reply')
        BY <1>3, <1>7, <2>2, <4>3, Alone DEF Moves, Lost
      <4> QED BY <4>3, <4>4, ReplyFields
    <3> QED BY <3>4, <3>5
  <2> QED BY <2>1, <2>2
<1> QED BY <1>6, <1>7 DEF Renewed

\* The client reads the answer to RSET, and Reset returns.
LEMMA ClientRenews ==
    ASSUME Parts, NEW s, s = CP!step, Rest(s), Renewed(s), CP!Talks,
           CP!ClientStep \/ CP!Expire, UNCHANGED server,
           NEW t, t = CP!step', todo' = todo => t = s
    PROVE  Renewed(t)'
<1>1. Fresh' <=> Fresh
  BY DEF Fresh, server
<1>2. wire \in Seq(CP!ReplyLines) /\ CP!TypeOK /\ CP!PlaceInv /\ CP!StepsInv
  BY PartTypes
<1>3. ASSUME result' = [api |-> "Reset", err |-> "nil"] PROVE Fresh
  <2>1. CASE result' = result
    BY <1>3, <2>1 DEF Renewed
  <2>2. CASE result' # result
    <3>1. /\ at = "reply" /\ CP!Doing("RSET")
          /\ \E n \in 1..Len(wire) : CP!ReadReply(n) /\ wire[n].code = 250
      BY <1>2, <1>3, <2>2, CP!ResetReturns, Assumptions
    <3>2. PICK n \in 1..Len(wire) : CP!ReadReply(n) /\ wire[n].code = 250
      BY <3>1
    <3>3. s.verb = "RSET" /\ wire # <<>>
      BY <1>2, <3>1, <3>2 DEF CP!Doing, CP!step
    <3>4. wire[1].sep = " " /\ (wire[1].code = 250 => Fresh)
      BY <3>1, <3>3 DEF Renewed
    <3>5. n # 1 => 1 \in 1..(n - 1)
      OBVIOUS
    <3>6. n = 1
      BY <3>2, <3>4, <3>5 DEF CP!ReadReply, CP!EndsReply
    <3> QED BY <3>2, <3>4, <3>6
  <2> QED BY <2>1, <2>2
<1>4. ASSUME at' = "reply", t.verb = "RSET", wire' # <<>>
      PROVE  wire'[1].sep = " " /\ (wire'[1].code = 250 => Fresh)
  <2>1. CASE UNCHANGED <<at, todo, wire>>
    BY <1>4, <2>1 DEF Renewed
  <2>2. CASE at = "send" /\ wire' = wire
    <3>1. AllPlain(wire) /\ 1 \in 1..Len(wire)
      BY <1>2, <1>4, <2>2 DEF Rest, Hearing
    <3> QED BY <2>2, <3>1 DEF AllPlain, Plain
  <2>3. ~(at = "respond" /\ todo' = todo)
    BY <1>2, <1>4 DEF CP!PlaceInv, CP!Doing, CP!step
  <2>4. ~CP!Doing("greeting")'
    BY <1>4 DEF CP!Doing, CP!step
  <2> QED BY <1>4, <2>1, <2>2, <2>3, <2>4 DEF CP!Talks, CP!Pauses, CP!Commands,
          CP!SendsBody, CP!Responds, CP!Hears
<1> QED BY <1>1, <1>3, <1>4 DEF Renewed

\* A client that is given up has not just returned from Reset.
GoneInv == at = "gone" => result.api # "Reset"

ResetInv == LockInv /\ RestInv /\ RenewInv /\ GoneInv

\* GoneInv is preserved, shape by shape.
LEMMA GoneStep ==
    ASSUME GoneInv, CP!Shape
    PROVE  GoneInv'
<1>1. CASE CP!Stays
  BY <1>1 DEF CP!Stays, CP!control, GoneInv
<1>2. CASE CP!Connects \/ CP!Begins \/ CP!Goes \/ CP!Challenged \/ CP!Replaces
  BY <1>2 DEF CP!Connects, CP!Begins, CP!Goes, CP!Challenged, CP!Replaces, GoneInv
<1>3. ASSUME NEW o, NEW err, CP!ReturnAnd(o, err) PROVE GoneInv'
  BY <1>3 DEF CP!ReturnAnd, GoneInv
<1>4. CASE CP!Advances \/ CP!Returns
  BY <1>3, <1>4 DEF CP!Advances, CP!Advance, CP!Return, CP!Returns, GoneInv
<1> QED BY <1>1, <1>2, <1>4 DEF CP!Shape

\* The invariant of Reset holds before the client connects.
LEMMA InitReset == Init => ResetInv
<1> SUFFICES ASSUME Init PROVE ResetInv
  OBVIOUS
<1>1. at = "none" /\ pc = "start" /\ result = [api |-> "none", err |-> "nil"]
  BY DEF Init, C!Init, S!Init, C!NoResult
<1>2. PICK s : s = CP!step
  OBVIOUS
<1>3. Renewed(s)
  BY <1>1 DEF Renewed
<1> QED BY <1>1, <1>2, <1>3, InitLock DEF ResetInv, RestInv, RenewInv, GoneInv

\* Every step preserves the invariant of Reset.
LEMMA ResetStep ==
    ASSUME ~ReadTimeouts, ResetInv, [Next]_vars
    PROVE  ResetInv'
<1>1. LockInv' /\ LockInv /\ Parts
  BY LockStep DEF ResetInv, LockInv
<1>gone. GoneInv'
  <2>1. CASE UNCHANGED vars \/ Shutdown \/ Watcher \/ ServerStep
    BY <2>1 DEF vars, client, Shutdown, Watcher, ServerStep, ResetInv, GoneInv
  <2>2. CASE ClientStep \/ Handshake
    BY <1>1, <2>2, ClientParts, HandshakeParts, GoneStep DEF ResetInv
  <2> QED BY <2>1, <2>2 DEF Next, Ended
<1> SUFFICES ASSUME clean', at' # "gone"
             PROVE  /\ pc' = "closed" => Rest(CP!step)'
                    /\ Renewed(CP!step)'
  BY <1>1, <1>gone DEF ResetInv, RestInv, RenewInv
<1>2. PICK s : s = CP!step
  OBVIOUS
<1>3. PICK t : t = CP!step'
  OBVIOUS
<1>4. todo' = todo => t = s
  BY <1>2, <1>3 DEF CP!step
<1>5. ASSUME clean, at # "gone" PROVE Rest(s) /\ Renewed(s)
  BY <1>1, <1>2, <1>5, RestHolds DEF ResetInv, RenewInv
<1> SUFFICES (pc' = "closed" => Rest(t)') /\ Renewed(t)'
  BY <1>3
<1>6. CASE UNCHANGED vars \/ Shutdown \/ Watcher
  <2>1. UNCHANGED <<at, todo, result, clean, wire, pc, state, forwardPaths>>
    BY <1>6, SameSession DEF vars, client, server, Shutdown, Watcher, SP!Quit,
       SP!WatcherStep, SP!watcherCancel, SP!watcherClose, SP!session, SP!progress,
       SP!txnVars
  <2>2. Rest(s) /\ Renewed(s) /\ t = s
    BY <1>4, <1>5, <2>1
  <2>3. Rest(s)'
    BY <2>1, <2>2 DEF Rest, Hearing, Spoiled, AllPlain, Behind
  <2>4. Renewed(s)'
    BY <2>1, <2>2 DEF Renewed, Fresh
  <2> QED BY <2>2, <2>3, <2>4
<1>7. CASE ServerStep
  <2>1. UNCHANGED <<at, todo, clean>>
    BY <1>7 DEF ServerStep, client
  <2>2. Rest(s) /\ Renewed(s) /\ t = s
    BY <1>4, <1>5, <2>1
  <2>3. pc' = "closed" => Rest(s)'
    BY <1>1, <1>7, <2>2, ServerRest
  <2>4. Renewed(s)'
    BY <1>1, <1>2, <1>7, <2>1, <2>2, ServerRenews
  <2> QED BY <2>2, <2>3, <2>4
<1>8. CASE ClientStep
  <2>1. (CP!ClientStep \/ CP!Expire) /\ UNCHANGED server
    BY <1>1, <1>8, ClientParts DEF ClientStep
  <2>2. CP!Talks /\ clean
    BY <2>1, CP!ClientTalks, CP!Undisturbed, Assumptions
  <2>3. at # "gone"
    BY <2>2 DEF CP!Talks, CP!Pauses, CP!Commands, CP!SendsBody, CP!Responds, CP!Hears
  <2>4. Rest(t)'
    BY <1>1, <1>2, <1>4, <1>5, <2>2, <2>3, ClientRest
  <2>5. Renewed(t)'
    BY <1>1, <1>2, <1>3, <1>4, <1>5, <2>1, <2>2, <2>3, ClientRenews
  <2> QED BY <2>4, <2>5
<1>9. CASE Handshake
  <2>1. CP!upgraded /\ SP!handshakeOk
    BY <1>1, <1>9, HandshakeParts DEF CP!handshakeError
  <2>2. at = "handshake" /\ at' = "send" /\ result' = result /\ pc' = "loop"
    BY <2>1 DEF CP!upgraded, CP!Reissue, SP!handshakeOk
  <2>3. result = CP!NoResult
    BY <1>1, <2>2, PartTypes DEF CP!PlaceInv, CP!Busy
  <2>4. Renewed(t)'
    BY <2>2, <2>3 DEF Renewed, CP!NoResult
  <2> QED BY <2>2, <2>4
<1> QED BY <1>6, <1>7, <1>8, <1>9 DEF Next, Ended

\* The invariant of Reset is an invariant of the dialogue.
LEMMA ResetSafety == ASSUME ~ReadTimeouts PROVE Spec => []ResetInv
  BY InitReset, ResetStep, PTL DEF Spec

----------------------------------------------------------------------------
(* Theorems *)

\* Between calls nothing is in flight: whatever the application calls, whatever
\* the handler answers, whenever the server is shut down, a call that leaves
\* the stream in order has read its replies, and the session is back at the
\* top of its loop.
THEOREM DialogueStaysInStep ==
    ASSUME ~ReadTimeouts PROVE Spec => []DialogueInStep
<1>1. LockInv => DialogueInStep
  <2> SUFFICES ASSUME LockInv, at = "idle", clean, pc # "closed"
               PROVE  rbuf = <<>> /\ wire = <<>> /\ pc \in {"loop", "read"}
    BY DEF DialogueInStep
  <2>1. PICK s : s = CP!step
    OBVIOUS
  <2>2. Lock(s)
    BY <2>1 DEF LockInv, InLock
  <2> QED BY <2>2 DEF Lock, Astray, Places, Quiet, Ready
<1> QED BY <1>1, LockSafety, PTL

\* Between calls the client goes by the extensions the session last offered,
\* and both are on the same layer.
THEOREM LayersStayAgreed ==
    ASSUME ~ReadTimeouts PROVE Spec => []LayersAgree
<1>1. LockInv => LayersAgree
  <2> SUFFICES ASSUME LockInv, at = "idle", clean, pc # "closed"
               PROVE  ctls = tls /\ (esmtp => exts = offered)
    BY DEF LayersAgree
  <2>1. PICK s : s = CP!step
    OBVIOUS
  <2>2. Lock(s) /\ ctls = tls
    BY <2>1 DEF LockInv, InLock, Parts
  <2> QED BY <2>2 DEF Lock, Astray, Agree
<1> QED BY <1>1, LockSafety, PTL

\* A client that waits for a reply, with none on its way, waits for a session
\* that is not waiting for it.
THEOREM NeverBothWait ==
    ASSUME ~ReadTimeouts PROVE Spec => []NoMutualWait
<1>1. LockInv => NoMutualWait
  <2> SUFFICES ASSUME LockInv, clean, at \in {"reply", "final", "cancel"},
                      wire = <<>>, open, S!Blocked
               PROVE  FALSE
    BY DEF NoMutualWait
  <2>1. /\ rbuf = <<>> /\ ~Dead /\ pc \notin {"closed", "start"}
        /\ pc = "data" => body.rd = "open"
        /\ pc = "bdat" => chunk.left > 0
        /\ pc # "loop"
    BY DEF S!Blocked, S!authPcs, Dead
  <2>2. PICK s : s = CP!step
    OBVIOUS
  <2>3. Lock(s)
    BY <2>1, <2>2 DEF LockInv, InLock
  <2>4. Places(s)
    BY <2>1, <2>3 DEF Lock, Astray, Lost, Spoiled
  <2>5. ~Answered /\ ~Invited(s) /\ ~Concluded(s) /\ ~Offered(s)
    <3>1. \A c : wire # C!Reply(c)
      BY ReplyFields, Zenon
    <3>2. \A e : wire # C!Offer(e)
      BY OfferFields, Zenon
    <3> QED BY <3>1, <3>2, ZenonT(60) DEF Answered, Invited, Concluded, Offered
  <2>6. Len(rbuf) = 0
    BY <2>1
  <2>7. ~InAuth(s, "b64") /\ ~InAuth(s, "*") /\ ~OnItsWay(s)
    BY <2>1, <2>6 DEF InAuth, OnItsWay
  <2>8. ~InChunk(s)
    BY <2>1, <2>6 DEF InChunk
  <2>9. ~Greeting
    BY <2>1, ReplyFields DEF Greeting, Lost
  <2>10. ~AwaitingFinal
    BY <2>1, <2>5 DEF AwaitingFinal
  <2> QED BY <2>4, <2>5, <2>7, <2>8, <2>9, <2>10
          DEF Places, Awaiting, AwaitingCancel
<1> QED BY <1>1, LockSafety, PTL

\* When Reset has returned nil, the transaction a failed SendMail left open is
\* gone from the session, also when the session has ended meanwhile.
THEOREM ResetAlwaysRecovers ==
    ASSUME ~ReadTimeouts PROVE Spec => []ResetRecovers
<1>1. ResetInv => ResetRecovers
  <2> SUFFICES ASSUME ResetInv, result = [api |-> "Reset", err |-> "nil"], clean
               PROVE  state < S!stateMail /\ forwardPaths = <<>>
    BY DEF ResetRecovers
  <2>1. Parts
    BY DEF ResetInv, LockInv
  <2>2. at # "gone"
    BY DEF ResetInv, GoneInv
  <2>3. PICK s : s = CP!step
    OBVIOUS
  <2>4. Renewed(s)
    BY <2>2, <2>3 DEF ResetInv, RenewInv
  <2> QED BY <2>4 DEF Renewed, Fresh, S!stateMail, SP!stateMail
<1> QED BY <1>1, ResetSafety, PTL
=============================================================================
