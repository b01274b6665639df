---------------------------- MODULE MailerProofs ----------------------------
(***************************************************************************)
(* SendMail and SubmitMessage tell the truth about their message: the      *)
(* dialogue of client and session implements Mailer.  The invariant says   *)
(* that the steps a call has left, the envelope and the body the session   *)
(* holds, and what is on its way between them make up the message; it is   *)
(* preserved because the two ends are in lockstep (DialogueLockstep).      *)
(***************************************************************************)
EXTENDS DialogueLockstep

\* A step s of a call that sends m, with k more behind it: STARTTLS, EHLO and
\* AUTH, then MAIL, the recipients in their order, and DATA.
Fits(m, k, s) ==
    /\ k = 0 => s.verb = "DATA" /\ SP!Units(s.n) = m.size
    /\ k \in 1..Len(m.to) => s.verb = "RCPT" /\ s.arg = m.to[Len(m.to) + 1 - k]
    /\ k = Len(m.to) + 1 => s.verb = "MAIL" /\ s.arg = m.from
    /\ k > Len(m.to) + 1 => s.verb \in {"STARTTLS", "EHLO", "HELO", "AUTH"}
Plan(m) == \A i \in 1..Len(todo) : Fits(m, Len(todo) - i, todo[i])

\* The envelope the session holds when k steps are left.
Holds(m, k) ==
    k <= Len(m.to) + 1 =>
        /\ reversePath = m.from /\ m.from # SP!NoPath
        /\ Len(forwardPaths) = Len(m.to) + 1 - k
        /\ \A i \in 1..Len(forwardPaths) : forwardPaths[i] = m.to[i]

\* The client is to read a 250: the step is done.
Said250 == wire # <<>> /\ wire[1].code = 250
Left == IF at = "reply" /\ Said250 THEN Len(todo) - 1 ELSE Len(todo)

\* The lines of the body that are on their way, without the dot.
Unread == IF rbuf = <<>> THEN 0 ELSE Len(rbuf) - 1

\* The session holds as much of m as the client has been told, and the rest of
\* it is on its way.
Envelope(m) ==
    /\ at # "final" => Holds(m, Left)
    /\ at = "final" /\ wire = <<>> =>
          Holds(m, 1) /\ SP!Units(body.size + Unread) = m.size
    /\ at \in {"reply", "body"} /\ pc = "data" => body.size = 0
    /\ at = "reply" /\ rbuf # <<>> /\ CP!step.verb \in {"MAIL", "RCPT"} =>
          Head(rbuf).line.arg = CP!step.arg

\* m has landed when the body has been answered with 250, and only then.
Done == at = "final" /\ Said250
Outcome(m) ==
    /\ at = "final" /\ wire # <<>> => wire[1].sep = " "
    /\ IF Done THEN Len(landed) = mark + 1 /\ landed[mark + 1] = m
       ELSE Len(landed) = mark

Intact == clean /\ ~Dead
MailInv ==
    /\ pc \in {"read", "data"} => accepted = SP!NoMessage
    /\ mail # {} <=> api \in Mailing
    /\ mail # {} => \E m \in Mails : mail = {m}
    /\ mark \in Nat
    /\ Intact => \A m \in mail : /\ Plan(m) /\ Outcome(m)
                                 /\ pc # "closed" => Envelope(m)

----------------------------------------------------------------------------
(* The plan of a call *)

\* The recipients of a message are a sequence.
LEMMA MailTypes ==
    ASSUME NEW m \in Mails
    PROVE  /\ m.to \in Seq(STRING) /\ Len(m.to) \in Nat /\ m.to \in To
           /\ m.from \in From /\ m.size \in 0..MaxUnits /\ m.end = "dot"
           /\ m = [from |-> m.from, to |-> m.to, size |-> m.size, end |-> m.end]
  BY Assumptions DEF Mails, CP!CallAssumption

\* Which step is the next one tells how many are left, and the other way round.
LEMMA PlanHead ==
    ASSUME NEW m \in Mails, Parts, todo # <<>>, Plan(m), NEW s, s = CP!step
    PROVE  /\ Len(todo) \in Nat \ {0} /\ s \in CP!Steps
           /\ s.verb = "DATA" <=> Len(todo) = 1
           /\ \/ s.verb = "DATA" /\ Len(todo) = 1 /\ SP!Units(s.n) = m.size
              \/ /\ s.verb = "RCPT" /\ Len(todo) \in 2..(Len(m.to) + 1)
                 /\ s.arg = m.to[Len(m.to) + 2 - Len(todo)]
              \/ s.verb = "MAIL" /\ Len(todo) = Len(m.to) + 2 /\ s.arg = m.from
              \/ /\ s.verb \in {"STARTTLS", "EHLO", "HELO", "AUTH"}
                 /\ Len(todo) > Len(m.to) + 2
<1>1. todo \in Seq(CP!Steps) /\ Len(m.to) \in Nat
  BY PartTypes, MailTypes
<1>2. /\ Len(todo) \in Nat /\ Len(todo) >= 1 /\ s = todo[1] /\ s \in CP!Steps
  BY <1>1 DEF CP!step
<1>3. Fits(m, Len(todo) - 1, s)
  BY <1>2 DEF Plan
<1> DEFINE k == Len(todo) - 1
           n == Len(m.to)
<1>4. k \in Nat /\ n \in Nat /\ Len(todo) = k + 1
  BY <1>1, <1>2
<1>5. Fits(m, k, s)
  BY <1>3
<1> HIDE DEF k
<1>6. Len(todo) = 1 <=> k = 0
  BY <1>4
<1>7. CASE k = 0
  <2>1. s.verb = "DATA" /\ SP!Units(s.n) = m.size /\ Len(todo) = 1
    BY <1>4, <1>5, <1>7 DEF Fits
  <2> QED BY <1>2, <2>1
<1>8. CASE k \in 1..n
  <2>1. n + 1 - k = n + 2 - Len(todo) /\ Len(todo) \in 2..(n + 1) /\ k # 0
    BY <1>4, <1>8
  <2>2. s.verb = "RCPT" /\ s.arg = m.to[n + 1 - k]
    BY <1>5, <1>8 DEF Fits
  <2> QED BY <1>2, <1>6, <2>1, <2>2
<1>9. CASE k = n + 1
  <2>1. s.verb = "MAIL" /\ s.arg = m.from
    BY <1>5, <1>9 DEF Fits
  <2>2. Len(todo) = n + 2 /\ k # 0
    BY <1>4, <1>9
  <2> QED BY <1>2, <1>6, <2>1, <2>2
<1>10. CASE k > n + 1
  <2>1. s.verb \in {"STARTTLS", "EHLO", "HELO", "AUTH"}
    BY <1>5, <1>10 DEF Fits
  <2>2. Len(todo) > n + 2 /\ k # 0
    BY <1>4, <1>10
  <2> QED BY <1>2, <1>6, <2>1, <2>2
<1> QED BY <1>4, <1>7, <1>8, <1>9, <1>10

\* What is behind the next step stays planned, whatever takes its place.
LEMMA PlanTail ==
    ASSUME NEW m \in Mails, Parts, todo # <<>>, Plan(m)
    PROVE  /\ todo' = Tail(todo) => Plan(m)'
           /\ \A x : /\ x.verb \in {"STARTTLS", "EHLO", "HELO", "AUTH"}
                     /\ Len(todo) > Len(m.to) + 2
                     /\ todo' = <<x>> \o Tail(todo)
                     => Plan(m)' /\ Len(todo') = Len(todo)
<1>1. todo \in Seq(CP!Steps) /\ Len(m.to) \in Nat
  BY PartTypes, MailTypes
<1>2. /\ Len(todo) \in Nat /\ Len(todo) >= 1 /\ Len(Tail(todo)) = Len(todo) - 1
      /\ \A i \in 1..(Len(todo) - 1) : Tail(todo)[i] = todo[i + 1]
  BY <1>1
<1>3. ASSUME todo' = Tail(todo) PROVE Plan(m)'
  <2> SUFFICES ASSUME NEW i \in 1..Len(todo')
               PROVE  Fits(m, Len(todo') - i, todo'[i])
    BY DEF Plan, Fits
  <2>1. /\ i + 1 \in 1..Len(todo) /\ Len(todo) - (i + 1) = Len(todo') - i
        /\ todo'[i] = todo[i + 1]
    BY <1>2, <1>3
  <2>2. Fits(m, Len(todo) - (i + 1), todo[i + 1])
    BY <2>1, Zenon DEF Plan
  <2> QED BY <2>1, <2>2
<1>4. ASSUME NEW x, x.verb \in {"STARTTLS", "EHLO", "HELO", "AUTH"},
             Len(todo) > Len(m.to) + 2, todo' = <<x>> \o Tail(todo)
      PROVE  Plan(m)' /\ Len(todo') = Len(todo)
  <2>1. Len(todo') = Len(todo) /\ todo'[1] = x
        /\ \A i \in 2..Len(todo) : todo'[i] = todo[i]
    BY <1>1, <1>2, <1>4
  <2> SUFFICES ASSUME NEW i \in 1..Len(todo')
               PROVE  Fits(m, Len(todo') - i, todo'[i])
    BY <2>1 DEF Plan, Fits
  <2>2. CASE i = 1
    <3>1. /\ Len(todo') - i > Len(m.to) + 1 /\ Len(todo') - i # 0
          /\ Len(todo') - i \notin 1..Len(m.to) /\ Len(todo') - i # Len(m.to) + 1
      <4>1. PICK k, n : k = Len(todo') - i /\ n = Len(m.to)
        OBVIOUS
      <4>2. n \in Nat /\ k \in Int /\ k > n + 1
        BY <1>1, <1>2, <1>4, <2>1, <2>2, <4>1
      <4> QED BY <4>1, <4>2
    <3> QED BY <1>4, <2>1, <2>2, <3>1 DEF Fits
  <2>3. CASE i # 1
    <3>1. i \in 2..Len(todo) /\ i \in 1..Len(todo)
      BY <1>2, <2>1, <2>3
    <3>2. Fits(m, Len(todo) - i, todo[i])
      BY <3>1, Zenon DEF Plan
    <3> QED BY <2>1, <3>1, <3>2
  <2> QED BY <2>2, <2>3
<1> QED BY <1>3, <1>4

\* The message a call is to deliver is the one its arguments name, and its
\* steps are planned for it.
LEMMA MailOfSteps ==
    ASSUME NEW f \in From, NEW to \in To, NEW b \in MessageReaders,
           NEW ss, CP!Sends(ss, f, to, b)
    PROVE  /\ MailOf(ss) \in Mails /\ Len(ss) >= Len(MailOf(ss).to) + 2
           /\ \A i \in 1..Len(ss) : Fits(MailOf(ss), Len(ss) - i, ss[i])
<1> DEFINE n == Len(to)
<1>1. /\ ss \in Seq(CP!Steps) /\ n \in Nat
      /\ \E k \in 0..2 :
            /\ Len(ss) = k + n + 2
            /\ \A i \in 1..k : ss[i].verb \in {"STARTTLS", "AUTH"}
            /\ ss[k + 1].verb = "MAIL" /\ ss[k + 1].arg = f
            /\ \A i \in 1..n : ss[k + 1 + i].verb = "RCPT" /\ ss[k + 1 + i].arg = to[i]
            /\ ss[Len(ss)].verb = "DATA" /\ ss[Len(ss)].n = b.n
  BY CP!SendsBack, Assumptions
<1>2. PICK k \in 0..2 :
            /\ Len(ss) = k + n + 2
            /\ \A i \in 1..k : ss[i].verb \in {"STARTTLS", "AUTH"}
            /\ ss[k + 1].verb = "MAIL" /\ ss[k + 1].arg = f
            /\ \A i \in 1..n : ss[k + 1 + i].verb = "RCPT" /\ ss[k + 1 + i].arg = to[i]
            /\ ss[Len(ss)].verb = "DATA" /\ ss[Len(ss)].n = b.n
  BY <1>1
<1>3. to \in Seq(STRING) /\ b.n \in Nat /\ MaxUnits \in Nat
  BY Assumptions DEF CP!CallAssumption, SP!LimitAssumption
<1> HIDE DEF n
<1>4. ASSUME NEW i \in 1..Len(ss)
      PROVE  \/ i \in 1..k /\ ss[i].verb \in {"STARTTLS", "AUTH"}
             \/ i = k + 1
             \/ \E j \in 1..n : i = k + 1 + j /\ ss[i].verb = "RCPT" /\ ss[i].arg = to[j]
             \/ i = Len(ss)
  <2>1. CASE i \in 1..k
    BY <1>2, <2>1
  <2>2. CASE i > k + 1 /\ i # Len(ss)
    <3>1. i - k - 1 \in 1..n /\ i = k + 1 + (i - k - 1)
      BY <1>1, <1>2, <2>2
    <3> QED BY <1>2, <3>1
  <2> QED BY <1>1, <1>2, <2>1, <2>2
<1>5. DOMAIN ss = 1..Len(ss) /\ Len(ss) \in Nat
  BY <1>1
<1>6. \A j \in DOMAIN ss : ss[j].verb = "MAIL" <=> j = k + 1
  <2>1. ASSUME NEW j \in DOMAIN ss, ss[j].verb = "MAIL" PROVE j = k + 1
    BY <1>2, <1>4, <1>5, <2>1
  <2> QED BY <1>2, <2>1
<1>7. (CHOOSE j \in DOMAIN ss : ss[j].verb = "MAIL") = k + 1
  <2>1. k + 1 \in DOMAIN ss
    BY <1>1, <1>2, <1>5
  <2> QED BY <1>6, <2>1
<1> DEFINE m == MailOf(ss)
<1>8. m = [from |-> f, to |-> to, size |-> SP!Units(b.n), end |-> "dot"]
  <2>1. Len(ss) - (k + 1) - 1 = n
    BY <1>1, <1>2
  <2>2. [j \in 1..n |-> ss[k + 1 + j].arg] = to
    <3>1. to = [j \in 1..n |-> to[j]]
      BY <1>3 DEF n
    <3> QED BY <1>2, <3>1
  <2>3. ss[k + 1].arg = f /\ S!Units(ss[Len(ss)].n) = SP!Units(b.n)
    BY <1>2 DEF S!Units, SP!Units
  <2>4. m = [from |-> ss[k + 1].arg,
             to |-> [j \in 1..(Len(ss) - (k + 1) - 1) |-> ss[k + 1 + j].arg],
             size |-> S!Units(ss[Len(ss)].n), end |-> "dot"]
    <3> DEFINE c == CHOOSE j \in DOMAIN ss : ss[j].verb = "MAIL"
    <3>1. m = [from |-> ss[c].arg,
               to |-> [j \in 1..(Len(ss) - c - 1) |-> ss[c + j].arg],
               size |-> S!Units(ss[Len(ss)].n), end |-> "dot"]
      BY DEF MailOf
    <3>2. c = k + 1
      BY <1>7
    <3> HIDE DEF c, m
    <3> QED BY <3>1, <3>2, Zenon
  <2>5. [j \in 1..(Len(ss) - (k + 1) - 1) |-> ss[k + 1 + j].arg] = to
    BY <2>1, <2>2, Zenon
  <2> HIDE DEF m
  <2> QED BY <2>3, <2>4, <2>5, Zenon
<1> HIDE DEF m
<1>9. m \in Mails /\ m.from = f /\ m.to = to /\ m.size = SP!Units(b.n)
  <2>1. SP!Units(b.n) \in 0..MaxUnits
    BY <1>3 DEF SP!Units
  <2> HIDE DEF SP!Units
  <2> QED BY <1>8, <2>1 DEF Mails
<1>10. ASSUME NEW i \in 1..Len(ss) PROVE Fits(m, Len(ss) - i, ss[i])
  <2>1. CASE i \in 1..k
    <3>1. /\ Len(ss) - i > n + 1 /\ Len(ss) - i # 0 /\ Len(ss) - i \notin 1..n
          /\ Len(ss) - i # n + 1
      BY <1>1, <1>2, <2>1
    <3> QED BY <1>2, <1>9, <2>1, <3>1 DEF Fits, n
  <2>2. CASE i = k + 1
    <3>1. Len(ss) - i = n + 1 /\ n + 1 # 0 /\ n + 1 \notin 1..n /\ ~(n + 1 > n + 1)
      BY <1>1, <1>2, <2>2
    <3> QED BY <1>2, <1>9, <2>2, <3>1 DEF Fits, n
  <2>3. CASE \E j \in 1..n : i = k + 1 + j /\ ss[i].verb = "RCPT" /\ ss[i].arg = to[j]
    <3>1. PICK j \in 1..n : i = k + 1 + j /\ ss[i].verb = "RCPT" /\ ss[i].arg = to[j]
      BY <2>3
    <3>2. /\ Len(ss) - i \in 1..n /\ Len(ss) - i # 0 /\ Len(ss) - i # n + 1
          /\ ~(Len(ss) - i > n + 1) /\ n + 1 - (Len(ss) - i) = j
      BY <1>1, <1>2, <3>1
    <3> QED BY <1>9, <3>1, <3>2 DEF Fits, n
  <2>4. CASE i = Len(ss)
    <3>1. Len(ss) - i = 0 /\ 0 \notin 1..n /\ 0 # n + 1 /\ ~(0 > n + 1)
      BY <1>1, <1>5, <2>4
    <3> QED BY <1>2, <1>9, <2>4, <3>1 DEF Fits, n
  <2> QED BY <1>2, <1>4, <2>1, <2>2, <2>3, <2>4
<1>11. Len(ss) >= Len(m.to) + 2
  BY <1>1, <1>2, <1>9 DEF n
<1> QED BY <1>9, <1>10, <1>11 DEF m

\* SendMail or SubmitMessage begins, with its plan.
LEMMA MailPlanned ==
    ASSUME Parts, CP!ClientStep \/ CP!Expire, at = "idle", api' \in Mailing
    PROVE  /\ at' = "send" /\ result' = CP!NoResult /\ UNCHANGED <<rbuf, wire, clean>>
           /\ \E m \in Mails : /\ MailOf(todo') = m /\ Plan(m)'
                               /\ Len(todo') >= Len(m.to) + 2
<1>1. CP!PlaceInv
  BY PartTypes
<1>2. /\ at' = "send" /\ result' = CP!NoResult /\ UNCHANGED <<rbuf, wire, clean>>
      /\ \E f \in From, to \in To, b \in MessageReaders : CP!Sends(todo', f, to, b)
  BY <1>1, CP!MailBegins, Assumptions DEF Mailing
<1>3. PICK ss : ss = todo'
  OBVIOUS
<1>4. PICK f \in From, to \in To, b \in MessageReaders : CP!Sends(ss, f, to, b)
  BY <1>2, <1>3
<1>5. PICK m \in Mails : /\ m = MailOf(ss) /\ Len(ss) >= Len(m.to) + 2
                         /\ \A i \in 1..Len(ss) : Fits(m, Len(ss) - i, ss[i])
  BY <1>4, MailOfSteps
<1>6. Plan(m)'
  BY <1>3, <1>5 DEF Plan
<1> QED BY <1>2, <1>3, <1>5, <1>6

----------------------------------------------------------------------------
(* The session's steps *)

\* Where the session is in a call that sends a message, on a connection that is
\* intact.
LEMMA Located ==
    ASSUME LockInv, Intact, pc # "closed", NEW m \in Mails, Plan(m), todo # <<>>,
           NEW s, s = CP!step
    PROVE  open /\ Places(s) /\ at # "gone"
<1>1. at # "gone" /\ Parts
  BY PartTypes DEF LockInv, CP!PlaceInv, CP!Busy
<1>2. open /\ Lock(s)
  BY <1>1 DEF LockInv, InLock, Intact
<1>3. s.verb # "BDAT"
  BY <1>1, PlanHead
<1> QED BY <1>1, <1>2, <1>3 DEF Intact, Lock, Astray, Lost, Spoiled

\* What holds of a message goes on holding when nothing happens to it.
LEMMA MailStays ==
    ASSUME NEW m, Envelope(m),
           UNCHANGED <<at, todo, wire, rbuf, reversePath, forwardPaths>>,
           pc' = "data" => pc = "data",
           body'.size = body.size \/ (pc' # "data" /\ ~(at = "final" /\ wire = <<>>))
    PROVE  Envelope(m)'
<1>1. UNCHANGED <<Left, Unread, CP!step>>
  BY DEF Left, Said250, Unread, CP!step
<1>2. \A k : Holds(m, k) => Holds(m, k)'
  BY DEF Holds
<1>3. Holds(m, Left) => Holds(m, Left)'
  BY <1>1, <1>2 DEF Holds
<1> QED BY <1>1, <1>2, <1>3 DEF Envelope

\* The fate of a message goes on being what it was.
LEMMA OutcomeStays ==
    ASSUME NEW m, Outcome(m), UNCHANGED <<landed, mark>>,
           \/ at' = at /\ wire' = wire
           \/ at' = at /\ wire # <<>> /\ wire' # <<>> /\ wire'[1] = wire[1]
           \/ at # "final" /\ at' # "final"
    PROVE  Outcome(m)'
<1>1. Done' <=> Done
  BY DEF Done, Said250
<1>2. at' = "final" /\ wire' # <<>> => wire'[1].sep = " "
  BY DEF Outcome
<1>3. IF Done THEN Len(landed) = mark + 1 /\ landed[mark + 1] = m
      ELSE Len(landed) = mark
  BY DEF Outcome
<1>4. IF Done' THEN Len(landed') = mark' + 1 /\ landed'[mark' + 1] = m
      ELSE Len(landed') = mark'
  BY <1>1, <1>3
<1> QED BY <1>2, <1>4 DEF Outcome

\* A server step, but for the end of a handshake, is one of the session; a
\* message lands at the end of a body or of a chunk only.
LEMMA SessionMoves ==
    ASSUME Parts, ServerStep, pc # "tls"
    PROVE  /\ SP!SessionStep /\ SP!TypeOK
           /\ pc \notin {"data", "bdat"} => landed' = landed
           /\ landed' = IF accepted' \notin {accepted, SP!NoMessage}
                        THEN Append(landed, Landed(accepted')) ELSE landed
<1>1. SP!SessionStep
  <2>1. ~S!handshakeError
    BY DEF S!handshakeError
  <2> QED BY <2>1, SameSession DEF ServerStep
<1>2. SP!TypeOK
  BY PartTypes
<1>3. landed' = IF accepted' \notin {accepted, SP!NoMessage}
                THEN Append(landed, Landed(accepted')) ELSE landed
  BY DEF ServerStep, S!NoMessage, SP!NoMessage, S!NoPath, SP!NoPath
<1>4. pc \notin {"data", "bdat"} => accepted' \in {accepted, SP!NoMessage}
  BY <1>1, <1>2, SP!AcceptedSteps, Assumptions
<1> QED BY <1>1, <1>2, <1>3, <1>4

\* The loop comes round.
LEMMA Turning ==
    ASSUME Parts, ReplyInv, ServerStep, Moves, open, pc' # "closed",
           \/ pc = "loop"
           \/ rbuf = <<>> /\ Ready
    PROVE  /\ pc' = "read"
           /\ UNCHANGED <<wire, rbuf, landed, reversePath, forwardPaths>>
<1>1. SP!Turns
  <2>1. CASE pc = "loop"
    BY <2>1 DEF Moves, SP!handshakeError, SP!Seen, SP!Greets, SP!Drops,
       SP!Concludes, SP!Enters, SP!Asks, SP!Reads, SP!Takes, SP!Completes,
       SP!GivesUp, SP!authPcs
  <2>2. CASE rbuf = <<>> /\ Ready
    BY <2>2, Rests
  <2> QED BY <2>1, <2>2
<1>2. pc = "loop" /\ pc' = "read" /\ rbuf' = rbuf
  BY <1>1 DEF SP!Turns
<1>3. SP!SessionStep /\ SP!TypeOK /\ landed' = landed
  BY <1>2, SessionMoves
<1>4. wire' = wire
  BY <1>1, Written
<1>5. UNCHANGED <<reversePath, forwardPaths>>
  BY <1>2, <1>3, SP!EnvelopeSteps, Assumptions
<1> QED BY <1>2, <1>3, <1>4, <1>5

\* A recipient is added to the envelope.
LEMMA HoldsMore ==
    ASSUME NEW m \in Mails, forwardPaths \in Seq(Recipients),
           NEW k \in Nat, k \in 2..(Len(m.to) + 1), Holds(m, k),
           reversePath' = reversePath,
           forwardPaths' = Append(forwardPaths, m.to[Len(m.to) + 2 - k])
    PROVE  Holds(m, k - 1)'
<1>1. Len(m.to) \in Nat
  BY MailTypes
<1>2. /\ reversePath = m.from /\ m.from # SP!NoPath
      /\ Len(forwardPaths) = Len(m.to) + 1 - k
      /\ \A i \in 1..Len(forwardPaths) : forwardPaths[i] = m.to[i]
  BY <1>1 DEF Holds
<1> DEFINE n == Len(forwardPaths)
<1>3. n \in Nat /\ Len(m.to) + 2 - k = n + 1 /\ Len(m.to) + 1 - (k - 1) = n + 1
  BY <1>1, <1>2
<1>4. /\ Len(forwardPaths') = n + 1 /\ forwardPaths'[n + 1] = m.to[n + 1]
      /\ \A i \in 1..n : forwardPaths'[i] = forwardPaths[i]
  <2>1. forwardPaths' = Append(forwardPaths, m.to[n + 1])
    BY <1>3
  <2> QED BY <2>1
<1>5. \A i \in 1..Len(forwardPaths') : forwardPaths'[i] = m.to[i]
  <2> SUFFICES ASSUME NEW i \in 1..Len(forwardPaths') PROVE forwardPaths'[i] = m.to[i]
    OBVIOUS
  <2>1. i = n + 1 \/ i \in 1..n
    BY <1>3, <1>4
  <2> QED BY <1>2, <1>4, <2>1
<1> QED BY <1>2, <1>3, <1>4, <1>5 DEF Holds

\* MAIL, RCPT or DATA is read: what is answered 250 the session holds.
LEMMA CommandMail ==
    ASSUME Parts, ReplyInv, ServerStep, Moves, open, ~Dead, pc' # "closed",
           NEW m \in Mails, Plan(m), Envelope(m), at = "reply", todo # <<>>,
           NEW s, s = CP!step, s.verb \in {"MAIL", "RCPT", "DATA"},
           OnItsWay(s), pc = "read"
    PROVE  Envelope(m)' /\ landed' = landed
<1>1. SP!SessionStep /\ SP!TypeOK /\ landed' = landed
  BY SessionMoves
<1>2. UNCHANGED <<at, todo>> /\ rbuf \in Seq(CP!Queued) /\ wire = <<>>
  BY PartTypes DEF ServerStep, client, OnItsWay
<1>3. /\ SP!line.verb = s.verb /\ Len(rbuf) = 1 /\ rbuf # <<>>
      /\ s.verb \in {"MAIL", "RCPT"} => SP!line.arg = s.arg
  BY DEF OnItsWay, SP!line, Envelope
<1>4. CP!step' = CP!step
  BY <1>2 DEF CP!step
<1>5. SP!Concludes \/ SP!Enters
  BY <1>3 DEF Moves, SP!handshakeError, SP!Seen, SP!Greets, SP!Turns, SP!Drops,
     SP!Reads, SP!Takes, SP!Completes, SP!GivesUp, SP!Asks, SP!authPcs
<1>6. /\ s.verb = "MAIL" =>
            IF reply' = 250
            THEN /\ reversePath' = SP!line.arg /\ SP!line.arg \in Senders
                 /\ forwardPaths' = <<>>
            ELSE UNCHANGED <<reversePath, forwardPaths>>
      /\ s.verb = "RCPT" =>
            /\ reversePath' = reversePath
            /\ forwardPaths' = IF reply' = 250 THEN Append(forwardPaths, SP!line.arg)
                               ELSE forwardPaths
      /\ s.verb = "DATA" => /\ UNCHANGED <<reversePath, forwardPaths>> /\ reply' # 250
                            /\ pc' = "data" => body'.size = 0
  BY <1>1, <1>3, SP!EnvelopeSteps, Assumptions
<1>7. wire' = C!Reply(reply')
  <2>1. Says(C!Reply(reply'))
    BY <1>3, <1>5, Written DEF SP!Enters
  <2> QED BY <1>2, <2>1, Alone DEF Moves, Lost, Dead
<1>8. rbuf' = <<>>
  BY <1>2, <1>3, <1>5 DEF SP!Concludes, SP!Enters, SP!Recv
<1>9. (Said250' <=> reply' = 250) /\ ~Said250
  <2>1. PICK c : c = reply'
    OBVIOUS
  <2>2. wire' # <<>> /\ wire'[1].code = c
    BY <1>7, <2>1, ReplyFields
  <2> QED BY <1>2, <2>1, <2>2 DEF Said250
<1>10. /\ Left = Len(todo) /\ Len(todo) \in Nat \ {0}
       /\ Left' = IF reply' = 250 THEN Len(todo) - 1 ELSE Len(todo)
  BY <1>2, <1>9, PlanHead DEF Left
<1>11. Holds(m, Left)
  BY DEF Envelope
<1>12. Holds(m, Left)'
  <2>1. Len(m.to) \in Nat
    BY MailTypes
  <2>2. ASSUME UNCHANGED <<reversePath, forwardPaths>>, Left' = Left
        PROVE  Holds(m, Left)'
    BY <1>11, <2>2 DEF Holds
  <2>3. CASE s.verb = "MAIL" /\ reply' = 250
    <3>1. Left' = Len(m.to) + 1
      BY <1>10, <2>1, <2>3, PlanHead
    <3>2. reversePath' = m.from /\ m.from # SP!NoPath /\ forwardPaths' = <<>>
      <4>1. s.arg = m.from
        BY <2>3, PlanHead
      <4>2. SP!NoPath \notin Senders
        BY Assumptions DEF SP!PathAssumption
      <4> QED BY <1>3, <1>6, <2>3, <4>1, <4>2
    <3> QED BY <2>1, <3>1, <3>2 DEF Holds
  <2>4. CASE s.verb = "RCPT" /\ reply' = 250
    <3>1. /\ Len(todo) \in 2..(Len(m.to) + 1)
          /\ s.arg = m.to[Len(m.to) + 2 - Len(todo)]
      BY <2>4, PlanHead
    <3>2. forwardPaths \in Seq(Recipients)
      BY <1>1 DEF SP!TypeOK
    <3>3. PICK k \in Nat : k = Len(todo)
      BY <1>10
    <3>4. Holds(m, k - 1)'
      BY <1>3, <1>6, <1>10, <1>11, <2>4, <3>1, <3>2, <3>3, HoldsMore
    <3> QED BY <1>10, <2>4, <3>3, <3>4
  <2> QED BY <1>6, <1>10, <2>2, <2>3, <2>4
<1>13. at' = "reply" /\ pc' = "data" => body'.size = 0
  BY <1>3, <1>5, <1>6 DEF SP!Concludes, SP!Enters
<1> QED BY <1>1, <1>2, <1>8, <1>12, <1>13 DEF Envelope

\* Counting stops at the limit, whenever it is reached.
LEMMA UnitsAdd ==
    /\ \A a \in 0..MaxUnits : SP!Units(a) = a
    /\ \A a, r \in Nat : SP!Units(SP!Units(a + 1) + r) = SP!Units(a + (r + 1))
<1>1. MaxUnits \in Nat
  BY Assumptions DEF SP!LimitAssumption
<1> QED BY <1>1 DEF SP!Units

\* The body is read line by line, and answered; the message lands with the 250.
LEMMA FinalMail ==
    ASSUME Parts, ReplyInv, ServerStep, Moves, open, ~Dead, pc' # "closed",
           landed \in Seq(Arrivals), mark \in Nat, accepted = SP!NoMessage,
           NEW m \in Mails, Envelope(m), Outcome(m),
           at = "final", AwaitingFinal, wire = <<>>, pc = "data"
    PROVE  Envelope(m)' /\ Outcome(m)'
<1>1. /\ SP!SessionStep /\ SP!TypeOK
      /\ landed' = IF accepted' \notin {accepted, SP!NoMessage}
                   THEN Append(landed, Landed(accepted')) ELSE landed
  BY SessionMoves
<1>2. UNCHANGED <<at, todo, mark>>
  BY DEF ServerStep, client
<1>3. rbuf \in Seq(CP!Queued) /\ body.size \in 0..MaxUnits
  BY <1>1, PartTypes DEF SP!TypeOK, SP!Bodies
<1>4. Holds(m, 1) /\ SP!Units(body.size + Unread) = m.size
  BY DEF Envelope
<1>5. Len(landed) = mark
  BY DEF Outcome, Done, Said250
<1>6. CASE /\ pc' = "data" /\ UNCHANGED <<reversePath, forwardPaths, accepted>>
           /\ \/ UNCHANGED rbuf /\ body'.size = body.size
              \/ /\ SP!Recv /\ body.rd = "open"
                 /\ body'.size = IF SP!line.verb = "." THEN body.size
                                 ELSE SP!Units(body.size + 1)
  <2>1. landed' = landed
    BY <1>1, <1>6
  <2>2. wire' = wire
    <3>1. SP!Reads
      BY <1>6 DEF Moves, SP!handshakeError, SP!Seen, SP!Greets, SP!Turns, SP!Drops,
         SP!Concludes, SP!Enters, SP!Takes, SP!Completes, SP!GivesUp, SP!Asks,
         SP!authPcs
    <3> QED BY <3>1, Written
  <2>3. Outcome(m)'
    BY <1>2, <2>1, <2>2, OutcomeStays
  <2>4. Holds(m, 1)'
    BY <1>4, <1>6 DEF Holds
  <2>5. SP!Units(body'.size + Unread') = m.size
    <3>1. CASE UNCHANGED rbuf /\ body'.size = body.size
      BY <1>4, <3>1 DEF Unread
    <3>2. CASE /\ SP!Recv /\ body.rd = "open"
               /\ body'.size = IF SP!line.verb = "." THEN body.size
                               ELSE SP!Units(body.size + 1)
      <4>1. /\ rbuf # <<>> /\ rbuf' = Tail(rbuf) /\ SP!line = rbuf[1].line
            /\ Len(rbuf) \in Nat /\ Len(rbuf) >= 1 /\ Len(rbuf') = Len(rbuf) - 1
        BY <1>3, <3>2 DEF SP!Recv, SP!line
      <4>2. rbuf[1].line.verb = "." <=> 1 = Len(rbuf)
        <5>1. \A i \in 1..Len(rbuf) : rbuf[i].line.verb = "." <=> i = Len(rbuf)
          BY <4>1 DEF AwaitingFinal, Answered
        <5>2. 1 \in 1..Len(rbuf)
          BY <4>1
        <5> QED BY <5>1, <5>2, Zenon
      <4>3. CASE Len(rbuf) = 1
        <5>1. rbuf' = <<>> /\ body'.size = body.size
          BY <1>3, <3>2, <4>1, <4>2, <4>3
        <5> QED BY <1>4, <4>1, <4>3, <5>1 DEF Unread
      <4>4. CASE Len(rbuf) # 1
        <5>1. rbuf' # <<>> /\ body'.size = SP!Units(body.size + 1)
          <6>1. Len(rbuf') # 0 /\ Len(<<>>) = 0
            BY <4>1, <4>4
          <6>2. rbuf' # <<>>
            BY <6>1, Zenon
          <6> QED BY <3>2, <4>1, <4>2, <4>4, <6>2
        <5>2. PICK r \in Nat : r = Len(rbuf) - 2
          <6>1. Len(rbuf) - 2 \in Nat
            BY <4>1, <4>4
          <6> QED BY <6>1
        <5>3. Unread' = r /\ Unread = r + 1
          BY <4>1, <5>1, <5>2 DEF Unread
        <5>4. body.size \in Nat
          BY <1>3
        <5>5. SP!Units(SP!Units(body.size + 1) + r) = SP!Units(body.size + (r + 1))
          BY <5>4, UnitsAdd
        <5> QED BY <1>4, <5>1, <5>3, <5>5
      <4> QED BY <4>3, <4>4
    <3> QED BY <1>6, <3>1, <3>2
  <2> QED BY <1>2, <2>3, <2>4, <2>5 DEF Envelope
<1>7. CASE /\ pc' = "loop" /\ body.rd # "open" /\ UNCHANGED rbuf
           /\ accepted' = IF reply' = 250 THEN SP!Message(body.size, body.rd)
                          ELSE SP!NoMessage
  <2>1. wire' = C!Reply(reply')
    <3>1. SP!Completes
      BY <1>7 DEF Moves, SP!handshakeError, SP!Seen, SP!Greets, SP!Turns, SP!Drops,
         SP!Concludes, SP!Enters, SP!Takes, SP!Reads, SP!GivesUp, SP!Asks,
         SP!authPcs
    <3> QED BY <3>1, Written, Alone DEF Moves, Lost, Dead
  <2>2. PICK c : c = reply'
    OBVIOUS
  <2>3. wire' # <<>> /\ wire'[1].code = c /\ wire'[1].sep = " "
    BY <2>1, <2>2, ReplyFields
  <2>4. Envelope(m)'
    BY <1>2, <1>7, <2>3 DEF Envelope
  <2>5. CASE reply' # 250
    <3>1. landed' = landed
      BY <1>1, <1>7, <2>5
    <3> QED BY <1>2, <1>5, <2>2, <2>3, <2>4, <2>5, <3>1 DEF Outcome, Done, Said250
  <2>6. CASE reply' = 250
    <3>1. body.rd = "dot" /\ rbuf = <<>>
      BY <1>7 DEF AwaitingFinal, Answered, Ready
    <3>2. m.size = body.size
      BY <1>3, <1>4, <3>1, UnitsAdd DEF Unread
    <3>3. forwardPaths = m.to
      <4>1. /\ forwardPaths \in Seq(Recipients) /\ m.to \in Seq(STRING)
            /\ Len(forwardPaths) = Len(m.to) /\ Len(m.to) \in Nat
            /\ \A i \in 1..Len(forwardPaths) : forwardPaths[i] = m.to[i]
        BY <1>1, <1>4, MailTypes DEF Holds, SP!TypeOK
      <4> QED BY <4>1
    <3>4. accepted'.from = m.from /\ Landed(accepted') = m /\ m.from # SP!NoPath
      <4>1. reversePath = m.from /\ m.from # SP!NoPath
        BY <1>4, MailTypes DEF Holds
      <4>2. accepted' = SP!Message(body.size, "dot")
        BY <1>7, <2>6, <3>1
      <4>3. /\ accepted'.from = m.from /\ accepted'.to = m.to
            /\ accepted'.size = m.size /\ accepted'.end = m.end
        BY <3>2, <3>3, <4>1, <4>2, MailTypes DEF SP!Message
      <4>4. Landed(accepted') = [from |-> m.from, to |-> m.to, size |-> m.size,
                                 end |-> m.end]
        BY <4>3, Zenon DEF Landed
      <4>5. Landed(accepted') = m
        BY <4>4, MailTypes, Zenon
      <4> QED BY <4>1, <4>3, <4>5
    <3>5. accepted' # SP!NoMessage
      BY <3>4 DEF SP!NoMessage
    <3>6. landed' = Append(landed, m)
      BY <1>1, <3>4, <3>5
    <3>7. Len(landed') = mark + 1 /\ landed'[mark + 1] = m
      BY <1>5, <3>6
    <3> QED BY <1>2, <2>2, <2>3, <2>4, <2>6, <3>7 DEF Outcome, Done, Said250
  <2> QED BY <2>5, <2>6
<1> QED BY <1>1, <1>6, <1>7, SP!BodySteps, Assumptions

\* In a call that sends a message, where the session is in the body, or in a
\* handshake, the client knows.
LEMMA Whereabouts ==
    ASSUME Parts, ~Dead, todo # <<>>, NEW m \in Mails, Plan(m), NEW s, s = CP!step, Places(s)
    PROVE  /\ at \in {"send", "reply", "body", "handshake", "respond", "final", "cancel"}
           /\ pc # "bdat" /\ (pc = "tls" => rbuf = <<>>)
           /\ pc = "data" => s.verb = "DATA" /\ (body.rd = "open" \/ at = "final")
<1>1. at \in {"send", "reply", "body", "handshake", "respond", "final", "cancel"}
  BY PartTypes DEF CP!Places, CP!PlaceInv, CP!Busy
<1>2. s.verb \notin {"BDAT", "greeting"} /\ (at \in {"body", "final"} => s.verb = "DATA")
  BY <1>1, PlanHead, PartTypes DEF CP!PlaceInv, CP!Doing, CP!step
<1>3. CASE at \in {"send", "cancel"}
  BY <1>3 DEF Places, Quiet, Ready, AwaitingCancel, InAuth, Answered, SP!authPcs
<1>4. CASE at = "reply"
  BY <1>2, <1>4 DEF Places, Awaiting, OnItsWay, InChunk, InAuth, Concluded, Offered,
     Invited, Waiting, Ready, SP!authPcs
<1>5. CASE at \in {"body", "handshake", "respond"}
  BY <1>2, <1>5 DEF Places, Waiting, SP!authPcs
<1>6. CASE at = "final"
  BY <1>2, <1>6 DEF Places, AwaitingFinal, Answered, Ready
<1> QED BY <1>1, <1>3, <1>4, <1>5, <1>6

\* The session ends: what it writes then is not a 250.
LEMMA PartingMail ==
    ASSUME Parts, ServerStep, pc' = "closed", landed' = landed,
           NEW m \in Mails, Outcome(m)
    PROVE  Outcome(m)'
<1>1. UNCHANGED <<at, mark>>
  BY DEF ServerStep, client
<1>2. CASE at # "final"
  BY <1>1, <1>2, OutcomeStays
<1>3. CASE wire # <<>>
  BY <1>1, <1>3, FirstStays, OutcomeStays
<1>4. CASE at = "final" /\ wire = <<>>
  <2>1. PICK w \in Seq(CP!ReplyLines) : wire' = wire \o w /\ AllPlain(w)
    BY Parting
  <2>2. wire' = w
    BY <1>4, <2>1
  <2>3. wire' # <<>> => Plain(wire'[1])
    <3>1. ASSUME w # <<>> PROVE 1 \in 1..Len(w)
      BY <3>1
    <3> QED BY <2>1, <2>2, <3>1, Zenon DEF AllPlain
  <2> QED BY <1>1, <1>4, <2>3 DEF Outcome, Done, Said250, Plain
<1> QED BY <1>2, <1>3, <1>4

\* The session moves.
LEMMA ServerMail ==
    ASSUME ~ReadTimeouts, LockInv, ServerStep, Intact,
           landed \in Seq(Arrivals), mark \in Nat,
           pc \in {"read", "data"} => accepted = SP!NoMessage,
           NEW m \in Mails, Plan(m), Outcome(m), pc # "closed" => Envelope(m),
           todo # <<>>
    PROVE  Outcome(m)' /\ (pc' # "closed" => Envelope(m)')
<1>1. Parts /\ ReplyInv /\ ~Dead
  BY DEF LockInv, Intact
<1>2. pc # "closed" /\ UNCHANGED <<at, todo, mark>> /\ Envelope(m)
  BY <1>1, ServerSeen DEF client, ServerStep
<1>3. PICK s : s = CP!step
  OBVIOUS
<1>4. open /\ Places(s)
  BY <1>2, <1>3, Located
<1>5. Moves
  BY <1>1, <1>4, ServerMoves
<1>6. /\ at \in {"send", "reply", "body", "handshake", "respond", "final", "cancel"}
      /\ pc # "bdat" /\ (pc = "tls" => rbuf = <<>>)
      /\ pc = "data" => s.verb = "DATA" /\ (body.rd = "open" \/ at = "final")
  BY <1>1, <1>3, <1>4, Whereabouts
<1>7. pc # "tls"
  BY <1>1, <1>5, <1>6 DEF Moves, SP!Seen, SP!Greets, SP!Turns, SP!Drops,
     SP!Concludes, SP!Enters, SP!Asks, SP!Reads, SP!Takes, SP!Completes,
     SP!GivesUp, SP!authPcs
<1>8. SP!SessionStep /\ SP!TypeOK /\ (pc # "data" => landed' = landed)
  BY <1>1, <1>6, <1>7, SessionMoves
<1>9. CASE pc' = "closed"
  <2>1. pc # "data"
    BY <1>8, <1>9, SP!BodySteps, Assumptions
  <2> QED BY <1>1, <1>8, <1>9, <2>1, PartingMail
<1> SUFFICES ASSUME pc' # "closed" PROVE Outcome(m)' /\ Envelope(m)'
  BY <1>9
<1>10. ASSUME \/ pc = "loop"
              \/ rbuf = <<>> /\ Ready
       PROVE  Outcome(m)' /\ Envelope(m)'
  <2>1. pc' = "read" /\ UNCHANGED <<wire, rbuf, landed, reversePath, forwardPaths>>
    BY <1>1, <1>4, <1>5, <1>10, Turning
  <2>2. ~(at = "final" /\ wire = <<>>)
    BY <1>4, <1>10, ReplyFields DEF Places, AwaitingFinal, Answered, Ready
  <2> QED BY <1>2, <2>1, <2>2, MailStays, OutcomeStays
<1>11. ASSUME pc = "data", at # "final", rbuf = <<>>, wire' = wire
       PROVE  Outcome(m)' /\ Envelope(m)'
  <2>1. /\ pc' = "data" /\ UNCHANGED <<reversePath, forwardPaths, accepted>>
        /\ UNCHANGED rbuf /\ body'.size = body.size
    BY <1>6, <1>8, <1>11, SP!BodySteps, Assumptions DEF SP!Recv
  <2>2. landed' = landed
    BY <1>1, <1>11, <2>1, SessionMoves
  <2> QED BY <1>2, <1>11, <2>1, <2>2, MailStays, OutcomeStays
<1>12. CASE at = "send"
  BY <1>4, <1>10, <1>12 DEF Places, Quiet
<1>13. CASE at \in {"body", "handshake", "respond"}
  <2>1. rbuf = <<>> /\ wire = <<>> /\ Waiting(s.verb)
    BY <1>4, <1>13 DEF Places
  <2>2. SP!Reads
    BY <1>1, <1>5, <2>1, Waits
  <2>3. pc = "data" /\ wire' = wire
    BY <1>1, <1>4, <2>2, Written DEF SP!Reads
  <2> QED BY <1>11, <1>13, <2>1, <2>3
<1>14. CASE at = "final"
  <2>1. AwaitingFinal
    BY <1>4, <1>14 DEF Places
  <2>2. CASE Answered
    BY <1>10, <2>2 DEF Answered
  <2>3. CASE ~Answered
    <3>1. wire = <<>> /\ pc = "data"
      BY <2>1, <2>3 DEF AwaitingFinal
    <3> QED BY <1>1, <1>2, <1>4, <1>5, <1>14, <2>1, <3>1, FinalMail
  <2> QED BY <2>2, <2>3
<1>15. CASE at \in {"reply", "cancel"} /\ s.verb \notin {"MAIL", "RCPT", "DATA"}
  <2>1. landed' = landed /\ Outcome(m)'
    BY <1>2, <1>6, <1>8, <1>15, OutcomeStays
  <2>2. Len(todo) > Len(m.to) + 2 /\ Len(todo) \in Nat /\ Len(m.to) \in Nat
    BY <1>1, <1>3, <1>15, PlanHead, MailTypes
  <2>3. Left' \in {Len(todo), Len(todo) - 1}
    BY <1>2 DEF Left
  <2>4. Holds(m, Left)'
    BY <2>2, <2>3 DEF Holds
  <2>5. pc' # "data"
    <3>1. pc # "data"
      BY <1>6, <1>15
    <3>2. pc = "read" /\ rbuf # <<>> => SP!line.verb # "DATA"
      <4>1. s.verb # "greeting"
        BY <1>1, <1>3, PlanHead
      <4> QED BY <1>1, <1>4, <1>15, <4>1 DEF Places, Awaiting, OnItsWay, SP!line,
              InChunk, InAuth, Concluded, Offered, Invited, AwaitingCancel, Answered,
              SP!authPcs
    <3> QED BY <1>5, <3>1, <3>2 DEF Moves, SP!Seen, SP!Greets, SP!Turns, SP!Drops,
          SP!Concludes, SP!Enters, SP!Asks, SP!Reads, SP!Takes, SP!Completes,
          SP!GivesUp, SP!authPcs, SP!handshakeError, SP!Recv
  <2>6. CP!step' = s
    BY <1>2, <1>3 DEF CP!step
  <2> QED BY <1>2, <1>15, <2>1, <2>4, <2>5, <2>6 DEF Envelope
<1>16. CASE at = "reply" /\ s.verb \in {"MAIL", "RCPT", "DATA"}
  <2>1. OnItsWay(s) \/ Concluded(s) \/ Invited(s)
    BY <1>4, <1>16 DEF Places, Awaiting, InChunk, InAuth, Offered
  <2>2. CASE Concluded(s)
    BY <1>10, <2>2 DEF Concluded
  <2>3. CASE Invited(s)
    <3>1. rbuf = <<>> /\ pc = "data"
      BY <1>16, <2>3 DEF Invited, Waiting, Intact, Continues
    <3>2. wire' = wire
      BY <1>1, <1>4, <1>5, <1>16, <2>3, RepliedStep DEF Invited
    <3> QED BY <1>11, <1>16, <3>1, <3>2
  <2>4. CASE OnItsWay(s) /\ pc = "read"
    <3>1. Envelope(m)' /\ landed' = landed
      BY <1>1, <1>2, <1>3, <1>4, <1>5, <1>16, <2>4, CommandMail
    <3> QED BY <1>2, <1>16, <3>1, OutcomeStays
  <2> QED BY <1>10, <2>1, <2>2, <2>3, <2>4 DEF OnItsWay, Ready
<1>17. at = "cancel" => s.verb = "AUTH"
  BY <1>1, <1>3, PartTypes DEF CP!PlaceInv, CP!Doing, CP!step
<1> QED BY <1>6, <1>12, <1>13, <1>14, <1>15, <1>16, <1>17

----------------------------------------------------------------------------
(* The client's steps *)

\* While STARTTLS, EHLO, HELO or AUTH is ahead nothing is held of the message.
LEMMA PreludeMail ==
    ASSUME NEW m \in Mails, at' # "final", Len(todo') \in Nat,
           Len(todo') >= Len(m.to) + 2,
           at' = "reply" => Len(todo') > Len(m.to) + 2,
           at' \in {"reply", "body"} =>
               CP!step'.verb \in {"STARTTLS", "EHLO", "HELO", "AUTH"} /\ pc' # "data"
    PROVE  Envelope(m)'
<1>1. Len(m.to) \in Nat
  BY MailTypes
<1>2. Left' \in {Len(todo'), Len(todo') - 1} /\ (at' # "reply" => Left' = Len(todo'))
  BY DEF Left
<1>3. Left' > Len(m.to) + 1 /\ Left' \in Int
  BY <1>1, <1>2
<1>4. Holds(m, Left)'
  BY <1>1, <1>3 DEF Holds
<1> QED BY <1>4 DEF Envelope

\* MAIL, RCPT or DATA is sent, and arrives as it was written.
LEMMA SendsMail ==
    ASSUME Parts, Places(CP!step), CP!Commands, UNCHANGED server,
           UNCHANGED <<landed, mark>>, todo # <<>>,
           NEW m \in Mails, Outcome(m), Envelope(m)
    PROVE  Outcome(m)' /\ Envelope(m)'
<1>1. /\ at = "send" /\ at' = "reply" /\ UNCHANGED <<todo, wire>>
      /\ CP!Write(CP!Sent(CP!step)) /\ Quiet
  BY DEF CP!Commands, Places
<1>2. PICK s : s = CP!step /\ s = CP!step'
  BY <1>1 DEF CP!step
<1>3. s \in CP!Steps
  <2>1. todo \in Seq(CP!Steps)
    BY PartTypes
  <2> QED BY <1>2, <2>1 DEF CP!step
<1>4. /\ CP!Sent(s) \in Seq(CP!Steps) /\ Len(CP!Sent(s)) >= 1
  BY <1>3, CP!SentType, Assumptions
<1>5. s.verb \in {"MAIL", "RCPT"} => CP!Sent(s)[1] = s
  BY DEF CP!Sent
<1>6. rbuf' # <<>> /\ Head(rbuf').line = CP!Sent(s)[1]
  <2>1. PICK ls \in Seq(CP!Steps) : ls = CP!Sent(s)
    BY <1>4
  <2>2. Len(ls) > 0 /\ CP!Write(ls) /\ rbuf = <<>>
    BY <1>1, <1>2, <1>4, <2>1 DEF Quiet
  <2> QED BY <2>1, <2>2, WrittenAlone
<1>7. wire = <<>> /\ pc' # "data" /\ UNCHANGED <<reversePath, forwardPaths>>
  BY <1>1 DEF Quiet, Ready, server
<1>8. Left' = Left /\ Holds(m, Left)
  BY <1>1, <1>7 DEF Left, Said250, Envelope
<1>9. Holds(m, Left)'
  BY <1>7, <1>8 DEF Holds
<1>10. Outcome(m)'
  BY <1>1, OutcomeStays
<1> QED BY <1>1, <1>2, <1>5, <1>6, <1>7, <1>9, <1>10 DEF Envelope

\* The body is sent: as many lines as the message has, and the dot.
LEMMA SendsBodyMail ==
    ASSUME Parts, Places(CP!step), CP!SendsBody, UNCHANGED server,
           UNCHANGED <<landed, mark>>, todo # <<>>,
           NEW m \in Mails, Plan(m), Outcome(m), Envelope(m)
    PROVE  Outcome(m)' /\ Envelope(m)'
<1>1. PICK s : s = CP!step
  OBVIOUS
<1>2. /\ at = "body" /\ at' = "final" /\ UNCHANGED <<todo, wire>>
      /\ CP!Write(CP!Terminated(s.n)) /\ rbuf = <<>> /\ wire = <<>> /\ Waiting(s.verb)
  BY <1>1 DEF CP!SendsBody, Places
<1>3. s.verb = "DATA"
  BY <1>1, <1>2, PartTypes DEF CP!PlaceInv, CP!Doing, CP!step
<1>4. Len(todo) = 1 /\ SP!Units(s.n) = m.size /\ s \in CP!Steps
  BY <1>1, <1>3, PlanHead
<1>5. s.n \in Nat
  BY <1>4 DEF CP!Steps
<1>6. CP!Terminated(s.n) \in Seq(CP!Steps) /\ Len(CP!Terminated(s.n)) = s.n + 1
  BY <1>5, CP!TextType, Assumptions
<1>7. Len(rbuf') = s.n + 1 /\ rbuf' # <<>>
  <2>1. PICK ls \in Seq(CP!Steps) : ls = CP!Terminated(s.n) /\ Len(ls) = s.n + 1
    BY <1>6
  <2>2. Len(rbuf') = Len(ls) /\ (Len(ls) > 0 => rbuf' # <<>>)
    BY <1>2, <2>1, WrittenAlone
  <2> QED BY <1>5, <2>1, <2>2
<1>8. Unread' = s.n
  BY <1>5, <1>7 DEF Unread
<1>9. pc = "data" /\ body.size = 0 /\ body' = body
  BY <1>2, <1>3 DEF Waiting, Envelope, server
<1>10. Holds(m, 1)
  BY <1>2, <1>4 DEF Envelope, Left
<1>11. Holds(m, 1)'
  BY <1>10 DEF Holds, server
<1>12. SP!Units(body'.size + Unread') = m.size
  BY <1>4, <1>5, <1>8, <1>9
<1>13. Len(landed') = mark' /\ wire' = <<>>
  BY <1>2 DEF Outcome, Done
<1> QED BY <1>2, <1>11, <1>12, <1>13 DEF Envelope, Outcome, Done, Said250

\* The call goes on with its message as it should be, or returns: with nil if
\* the message has landed, and with an error if not.
Proceeds(m) ==
    \/ /\ UNCHANGED <<api, result>> /\ Plan(m)' /\ Outcome(m)'
       /\ pc' # "closed" => Envelope(m)'
    \/ /\ api' = "none"
       /\ \E err : result' = [api |-> api, err |-> err] /\ (err = "nil" <=> Done)

\* Nothing is said.
LEMMA GoesQuietly ==
    ASSUME NEW m, Plan(m), Outcome(m), pc # "closed" => Envelope(m),
           UNCHANGED <<at, api, todo, result, rbuf, wire, landed, mark, server>>
    PROVE  Proceeds(m)
<1>1. Plan(m)' /\ Outcome(m)'
  BY OutcomeStays DEF Plan
<1>2. UNCHANGED <<pc, body, reversePath, forwardPaths>>
  BY DEF server
<1>3. pc' # "closed" => Envelope(m)'
  BY <1>2, MailStays
<1> QED BY <1>1, <1>3 DEF Proceeds

\* The call returns.
LEMMA GoesBack ==
    ASSUME NEW m, NEW err, CP!Return(err), err = "nil" <=> Done
    PROVE  Proceeds(m)
  BY DEF Proceeds, CP!Return, CP!ReturnAnd

\* The reply to MAIL, RCPT or DATA is read, or the reply to the body.
LEMMA HearsMail ==
    ASSUME LockInv, Intact, clean', CP!ClientStep \/ CP!Expire,
           UNCHANGED <<server, landed, mark>>, todo # <<>>,
           NEW m \in Mails, Plan(m), Outcome(m), pc # "closed" => Envelope(m),
           NEW s, s = CP!step,
           at = "final" \/ (at = "reply" /\ s.verb \in {"MAIL", "RCPT", "DATA"})
    PROVE  Proceeds(m)
<1>1. /\ Parts /\ ~Dead /\ CP!PlaceInv /\ wire \in Seq(CP!ReplyLines)
      /\ UNCHANGED <<pc, body, reversePath, forwardPaths>>
  BY PartTypes DEF LockInv, Intact, server
<1>2. CASE UNCHANGED <<at, api, todo, result, rbuf, wire>>
  BY <1>2, GoesQuietly
<1>3. ASSUME NEW n \in 1..Len(wire), CP!ReadReply(n), UNCHANGED rbuf,
             IF at = "reply" /\ CP!Doing("DATA")
             THEN IF wire[n].code = 354
                  THEN at' = "body" /\ UNCHANGED <<api, todo, result>>
                  ELSE CP!Return("smtp")
             ELSE IF wire[n].code = 250 THEN CP!Advance ELSE CP!Return("smtp")
      PROVE  Proceeds(m)
  <2>1. /\ CP!Doing("DATA") <=> s.verb = "DATA"
        /\ at = "final" => s.verb = "DATA"
    BY <1>1 DEF CP!Doing, CP!step, CP!PlaceInv
  <2>2. ASSUME at = "reply" PROVE ~Done
    BY <2>2 DEF Done
  <2>3. ASSUME at = "reply", pc # "closed"
        PROVE  wire # <<>> /\ wire[1].code = wire[n].code /\ wire' = <<>>
    <3>1. Awaiting(s)
      BY <2>3, Located DEF Places
    <3>2. wire # <<>> /\ s.verb \in {"MAIL", "RCPT", "DATA"}
      BY <1>1, <2>3
    <3>3. PICK c : wire = C!Reply(c)
      BY <3>1, <3>2 DEF Awaiting, OnItsWay, InChunk, InAuth, Concluded, Offered, Invited
    <3>4. wire[n].code = c /\ wire' = <<>> /\ wire[1].code = c
      BY <1>1, <1>3, <3>3, ReadOne, ReplyFields
    <3> QED BY <3>2, <3>4
  <2>4. CASE at = "reply" /\ s.verb = "DATA" /\ wire[n].code = 354
    <3>1. at' = "body" /\ UNCHANGED <<api, todo, result>>
      BY <1>3, <2>1, <2>4
    <3>2. Plan(m)' /\ Outcome(m)'
      BY <2>4, <3>1, OutcomeStays DEF Plan
    <3>3. ASSUME pc # "closed" PROVE Envelope(m)'
      <4>1. Left' = Left
        BY <2>3, <2>4, <3>1, <3>3 DEF Left, Said250
      <4>2. Holds(m, Left)'
        BY <1>1, <2>4, <3>3, <4>1 DEF Envelope, Holds
      <4> QED BY <1>1, <2>4, <3>1, <3>3, <4>2 DEF Envelope
    <3> QED BY <1>1, <3>1, <3>2, <3>3 DEF Proceeds
  <2>5. CASE at = "reply" /\ s.verb # "DATA" /\ wire[n].code = 250
    <3>len. Len(todo) # 1
      BY <1>1, <2>5, PlanHead
    <3>1. CP!Advance
      BY <1>3, <2>1, <2>5
    <3>2. todo' = Tail(todo) /\ at' = "send" /\ UNCHANGED <<api, result>>
      BY <3>1, <3>len DEF CP!Advance
    <3>3. Plan(m)' /\ Outcome(m)'
      BY <1>1, <2>5, <3>2, PlanTail, OutcomeStays
    <3>4. ASSUME pc # "closed" PROVE Envelope(m)'
      <4>1. todo \in Seq(CP!Steps)
        BY <1>1, PartTypes
      <4>2. Left' = Len(todo) - 1
        BY <3>2, <4>1 DEF Left
      <4>3. Left = Len(todo) - 1
        BY <2>3, <2>5, <3>4 DEF Left, Said250
      <4>4. Holds(m, Left)'
        BY <1>1, <2>5, <3>4, <4>2, <4>3 DEF Envelope, Holds
      <4> QED BY <3>2, <4>4 DEF Envelope
    <3> QED BY <1>1, <3>2, <3>3, <3>4 DEF Proceeds
  <2>6. CASE at = "final"
    <3>1. Len(todo) = 1
      BY <1>1, <2>1, <2>6, PlanHead
    <3>2. wire # <<>> /\ n = 1
      <4>1. wire # <<>>
        BY <1>1
      <4>2. wire[1].sep = " "
        BY <2>6, <4>1 DEF Outcome
      <4>3. n # 1 => 1 \in 1..(n - 1)
        OBVIOUS
      <4> QED BY <1>3, <4>1, <4>2, <4>3 DEF CP!ReadReply, CP!EndsReply
    <3>3. Done <=> wire[n].code = 250
      BY <2>6, <3>2 DEF Done, Said250
    <3>4. CP!Return(IF Done THEN "nil" ELSE "smtp")
      BY <1>3, <2>6, <3>1, <3>3 DEF CP!Advance
    <3> QED BY <3>4, GoesBack
  <2>7. CASE at = "reply" /\ CP!Return("smtp")
    BY <2>2, <2>7, GoesBack
  <2> QED BY <1>3, <2>1, <2>4, <2>5, <2>6, <2>7
<1> QED BY <1>1, <1>2, <1>3, CP!MailHears, Assumptions

\* The client moves, in a call that sends m.
LEMMA ClientMail ==
    ASSUME LockInv, RestInv, CP!Shape, CP!ClientStep \/ CP!Expire, Intact, clean',
           UNCHANGED <<server, landed, mark>>, api \in Mailing,
           NEW m \in Mails, Plan(m), Outcome(m), pc # "closed" => Envelope(m)
    PROVE  Proceeds(m)
<1>1. /\ Parts /\ ~Dead /\ CP!PlaceInv /\ clean
      /\ UNCHANGED <<pc, body, reversePath, forwardPaths>>
  BY PartTypes DEF LockInv, Intact, server
<1>2. CP!Talks
  BY CP!ClientTalks, Assumptions
<1>3. todo # <<>> /\ at \notin {"none", "idle", "gone"}
  BY <1>1 DEF Mailing, CP!PlaceInv, CP!Busy
<1>4. PICK s : s = CP!step
  OBVIOUS
<1>5. s.verb \notin {"DATA", "RCPT", "MAIL"} =>
          s.verb \in {"STARTTLS", "EHLO", "HELO", "AUTH"} /\ Len(todo) > Len(m.to) + 2
  BY <1>1, <1>3, <1>4, PlanHead
<1>6. Len(todo) \in Nat /\ Len(m.to) \in Nat /\ todo \in Seq(CP!Steps)
  BY <1>1, PartTypes, MailTypes
<1>7. \A v : CP!Doing(v) <=> s.verb = v
  BY <1>3, <1>4 DEF CP!Doing, CP!step
<1>8. pc # "closed" => Places(s) /\ Envelope(m)
  BY <1>3, <1>4, Located
<1>9. pc = "data" => s.verb = "DATA"
  BY <1>1, <1>3, <1>4, <1>8, Whereabouts
<1>10. CASE at = "final" \/ (at = "reply" /\ s.verb \in {"MAIL", "RCPT", "DATA"})
  BY <1>3, <1>4, <1>10, HearsMail
<1> SUFFICES ASSUME at # "final", at = "reply" => s.verb \notin {"MAIL", "RCPT", "DATA"}
             PROVE  Proceeds(m)
  BY <1>10
<1>11. ASSUME UNCHANGED <<api, result>>, Plan(m)', at' # "final",
              Len(todo') \in Nat, Len(todo') >= Len(m.to) + 2,
              at' = "reply" => Len(todo') > Len(m.to) + 2 /\ pc # "data" /\
                    CP!step'.verb \in {"STARTTLS", "EHLO", "HELO", "AUTH"},
              at' # "body"
       PROVE  Proceeds(m)
  BY <1>1, <1>11, PreludeMail, OutcomeStays DEF Proceeds
<1>12. CASE CP!Stays
  <2>1. UNCHANGED <<at, api, todo, result>>
    BY <1>12 DEF CP!Stays, CP!control
  <2>2. UNCHANGED <<rbuf, wire>>
    BY <1>2, <2>1 DEF CP!Talks, CP!Pauses, CP!Commands, CP!SendsBody, CP!Responds,
       CP!Hears
  <2> QED BY <2>1, <2>2, GoesQuietly
<1>13. ~CP!Connects /\ ~CP!Begins
  BY <1>3 DEF CP!Connects, CP!Begins
<1>14. CASE CP!Goes
  <2>1. UNCHANGED <<api, todo, result>> /\ Plan(m)' /\ CP!step' = s
    BY <1>4, <1>14 DEF CP!Goes, Plan, CP!step
  <2>2. CASE at = "send" /\ at' = "reply"
    <3>1. CP!Commands
      BY <1>2, <2>2 DEF CP!Talks, CP!Pauses, CP!SendsBody, CP!Responds, CP!Hears
    <3>2. Outcome(m)'
      BY <2>2, OutcomeStays
    <3>3. pc # "closed" => Envelope(m)'
      BY <1>1, <1>3, <1>4, <1>8, <3>1, SendsMail
    <3> QED BY <1>1, <2>1, <3>2, <3>3 DEF Proceeds
  <2>3. CASE at = "body" /\ at' = "final"
    <3>1. CP!SendsBody
      BY <1>2, <2>3 DEF CP!Talks, CP!Pauses, CP!Commands, CP!Responds, CP!Hears
    <3>2. pc # "closed" => Outcome(m)' /\ Envelope(m)'
      BY <1>1, <1>3, <1>4, <1>8, <3>1, SendsBodyMail
    <3>3. ASSUME pc = "closed" PROVE Outcome(m)'
      <4>1. AllPlain(wire) /\ wire' = wire /\ wire \in Seq(CP!ReplyLines)
        BY <1>1, <1>3, <2>3, <3>1, <3>3, PartTypes
           DEF RestInv, Rest, Hearing, CP!SendsBody
      <4>2. wire # <<>> => Plain(wire[1])
        <5>1. ASSUME wire # <<>> PROVE 1 \in 1..Len(wire)
          BY <4>1, <5>1
        <5> QED BY <4>1, <5>1, Zenon DEF AllPlain
      <4>3. Len(landed) = mark
        BY <2>3 DEF Outcome, Done
      <4> QED BY <4>1, <4>2, <4>3 DEF Outcome, Done, Said250, Plain
    <3> QED BY <1>1, <2>1, <3>2, <3>3 DEF Proceeds
  <2>4. CASE at = "reply" /\ at' = "handshake" /\ CP!Doing("STARTTLS")
    BY <1>5, <1>6, <1>7, <1>11, <2>1, <2>4
  <2>5. CASE at = "respond"
    <3>1. s.verb = "AUTH" /\ at' \in {"cancel", "reply"}
      BY <1>1, <1>7, <1>14, <2>5 DEF CP!PlaceInv, CP!Goes
    <3> QED BY <1>5, <1>6, <1>9, <1>11, <2>1, <3>1
  <2> QED BY <1>7, <1>14, <2>2, <2>3, <2>4, <2>5 DEF CP!Goes
<1>15. CASE CP!Challenged
  <2>1. /\ at = "reply" /\ s.verb = "AUTH" /\ at' = "respond"
        /\ UNCHANGED <<api, result>>
        /\ todo' = [todo EXCEPT ![1].n = CP!Count(@)]
    BY <1>7, <1>15 DEF CP!Challenged
  <2>2. /\ Len(todo') = Len(todo) /\ todo'[1].verb = todo[1].verb
        /\ \A i \in 2..Len(todo) : todo'[i] = todo[i]
    <3>1. Len(todo) >= 1 /\ todo[1] \in CP!Steps
      BY <1>3, <1>6
    <3> QED BY <1>6, <2>1, <3>1 DEF CP!Steps
  <2>3. Plan(m)'
    <3>1. Len(todo) > Len(m.to) + 2 /\ todo[1].verb = "AUTH"
      BY <1>3, <1>4, <1>5, <1>6, <2>1 DEF CP!step
    <3> SUFFICES ASSUME NEW i \in 1..Len(todo')
                 PROVE  Fits(m, Len(todo') - i, todo'[i])
      BY DEF Plan, Fits
    <3>2. CASE i = 1
      <4>1. PICK k, n : k = Len(todo') - i /\ n = Len(m.to)
        OBVIOUS
      <4>2. n \in Nat /\ k \in Int /\ k > n + 1
        BY <1>6, <2>2, <3>1, <3>2, <4>1
      <4>3. k # 0 /\ k \notin 1..n /\ k # n + 1
        BY <4>2
      <4> QED BY <2>2, <3>1, <3>2, <4>1, <4>3 DEF Fits
    <3>3. CASE i # 1
      <4>1. i \in 2..Len(todo) /\ i \in 1..Len(todo)
        BY <1>6, <2>2, <3>3
      <4>2. Fits(m, Len(todo) - i, todo[i])
        BY <4>1, Zenon DEF Plan
      <4> QED BY <2>2, <4>1, <4>2
    <3> QED BY <3>2, <3>3
  <2> QED BY <1>5, <1>6, <1>11, <2>1, <2>2, <2>3
<1>16. CASE CP!Advances
  <2>1. Len(todo) > Len(m.to) + 2
    BY <1>4, <1>5, <1>16 DEF CP!Advances
  <2>2. Len(todo) # 1
    BY <1>1, <1>3, <1>4, <1>16, PlanHead DEF CP!Advances
  <2>adv. CP!Advance
    BY <1>16 DEF CP!Advances
  <2>3. todo' = Tail(todo) /\ at' = "send" /\ UNCHANGED <<api, result>>
    BY <2>2, <2>adv DEF CP!Advance
  <2>4. Plan(m)' /\ Len(todo') = Len(todo) - 1
    BY <1>1, <1>3, <1>6, <2>3, PlanTail
  <2> QED BY <1>6, <1>11, <2>1, <2>3, <2>4
<1>17. CASE CP!Replaces
  <2>1. PICK v \in {"HELO", "EHLO"} : todo' = <<CP!With(v, "h")>> \o Tail(todo)
    BY <1>17 DEF CP!Replaces
  <2>2. at' = "send" /\ UNCHANGED <<api, result>> /\ s.verb \in {"EHLO", "STARTTLS"}
    BY <1>1, <1>4, <1>7, <1>17 DEF CP!Replaces, CP!PlaceInv
  <2>3. CP!With(v, "h").verb = v
    BY DEF CP!With, CP!Bare
  <2>4. PICK x : x = CP!With(v, "h")
    OBVIOUS
  <2>5. /\ x.verb \in {"STARTTLS", "EHLO", "HELO", "AUTH"}
        /\ todo' = <<x>> \o Tail(todo) /\ Len(todo) > Len(m.to) + 2
    BY <1>5, <2>1, <2>2, <2>3, <2>4
  <2>6. Plan(m)' /\ Len(todo') = Len(todo)
    BY <1>1, <1>3, <2>5, PlanTail
  <2> QED BY <1>6, <1>11, <2>2, <2>5, <2>6
<1>18. CASE CP!Returns
  <2>1. PICK o, err : CP!ReturnAnd(o, err) /\ (err = "nil" => api = "Close")
    BY <1>18 DEF CP!Returns
  <2>2. ~Done /\ err # "nil"
    BY <2>1 DEF Done, Mailing
  <2> QED BY <2>1, <2>2 DEF Proceeds, CP!ReturnAnd
<1> QED BY <1>12, <1>13, <1>14, <1>15, <1>16, <1>17, <1>18 DEF CP!Shape

----------------------------------------------------------------------------
(* The inductive invariant *)

TruthInv == ResetInv /\ CountInv /\ MailInv

\* Nothing has been sent before the client connects.
LEMMA InitTruth == Init => TruthInv
<1> SUFFICES ASSUME Init PROVE TruthInv
  OBVIOUS
<1>1. ResetInv /\ CountInv
  BY InitReset, InitCount
<1>2. mail = {} /\ api = "none" /\ mark = 0 /\ pc = "start"
  BY DEF Init, C!Init, S!Init
<1> QED BY <1>1, <1>2 DEF TruthInv, MailInv, Mailing

\* What is broken stays so.
LEMMA StaysBroken ==
    ASSUME Parts, [Next]_vars, Intact'
    PROVE  Intact
<1>1. CASE UNCHANGED vars \/ ServerStep \/ Shutdown \/ Watcher
  <2>1. clean' = clean
    BY <1>1 DEF vars, client, ServerStep, Shutdown, Watcher
  <2>2. Dead => Dead'
    <3>1. CASE UNCHANGED vars
      BY <3>1 DEF vars, server, Dead
    <3>2. CASE ServerStep
      <4>1. CASE S!SessionStep
        BY <4>1, SameSession, SP!SeenSteps, Assumptions, PartTypes DEF Dead
      <4>2. CASE S!handshakeError
        <5>1. SP!handshakeError
          BY <4>2, SameSession
        <5> QED BY <5>1 DEF SP!handshakeError, SP!net, Dead
      <4> QED BY <3>2, <4>1, <4>2 DEF ServerStep
    <3>3. CASE Shutdown \/ Watcher
      BY <3>3, SameSession DEF Shutdown, Watcher, SP!Quit, SP!WatcherStep,
         SP!watcherCancel, SP!watcherClose, Dead
    <3> QED BY <1>1, <3>1, <3>2, <3>3
  <2> QED BY <2>1, <2>2 DEF Intact
<1>2. CASE ClientStep
  <2>1. (CP!ClientStep \/ CP!Expire) /\ down' = down
    BY <1>2, ClientParts DEF ClientStep, server
  <2> QED BY <2>1, CP!Undisturbed, Assumptions DEF Intact, Dead
<1>3. CASE Handshake
  <2>1. CP!upgraded /\ SP!handshakeOk
    BY <1>3, HandshakeParts DEF CP!handshakeError, Intact
  <2> QED BY <2>1 DEF CP!upgraded, SP!handshakeOk, Intact, Dead
<1> QED BY <1>1, <1>2, <1>3 DEF Next, Ended

\* A call begins when none is in progress, and a call that returns names itself.
LEMMA Otherwise ==
    ASSUME CP!Shape, api \notin Mailing
    PROVE  /\ api' \in Mailing => at = "idle"
           /\ result' = result \/ result'.api \notin Mailing
<1>1. ASSUME NEW o, NEW err, CP!ReturnAnd(o, err)
      PROVE  api' = "none" /\ result'.api = api
  BY <1>1 DEF CP!ReturnAnd
<1>2. CASE CP!Returns
  BY <1>1, <1>2 DEF CP!Returns, Mailing
<1>3. CASE CP!Advances
  <2>1. CP!Return("nil") \/ UNCHANGED <<api, result>>
    BY <1>3 DEF CP!Advances, CP!Advance
  <2> QED BY <1>1, <2>1 DEF CP!Return, Mailing
<1>4. CASE CP!Begins
  BY <1>4 DEF CP!Begins, CP!NoResult, Mailing
<1>5. CASE CP!Connects
  BY <1>5 DEF CP!Connects, CP!Constructors, Mailing
<1>6. CASE CP!Stays \/ CP!Goes \/ CP!Challenged \/ CP!Replaces
  BY <1>6 DEF CP!Stays, CP!control, CP!Goes, CP!Challenged, CP!Replaces
<1> QED BY <1>2, <1>3, <1>4, <1>5, <1>6 DEF CP!Shape

\* A message is accepted after the command loop has come round.
LEMMA AcceptedStep ==
    ASSUME Parts, [Next]_vars, pc \in {"read", "data"} => accepted = SP!NoMessage
    PROVE  (pc \in {"read", "data"} => accepted = SP!NoMessage)'
<1>1. CASE UNCHANGED vars \/ ClientStep
  BY <1>1 DEF vars, server, ClientStep
<1>2. CASE Shutdown \/ Watcher
  <2>1. UNCHANGED <<pc, accepted>>
    BY <1>2, SameSession DEF Shutdown, Watcher, SP!Quit, SP!WatcherStep,
       SP!watcherCancel, SP!watcherClose, SP!session, SP!progress, SP!history
  <2> QED BY <2>1
<1>3. CASE ServerStep
  <2>1. CASE SP!SessionStep
    BY <2>1, SP!AcceptedSteps, Assumptions, PartTypes
  <2>2. CASE SP!handshakeError
    BY <2>2 DEF SP!handshakeError
  <2> QED BY <1>3, <2>1, <2>2, SameSession DEF ServerStep
<1>4. CASE Handshake
  <2>1. SP!handshakeOk \/ SP!handshakeError \/ UNCHANGED server
    BY <1>4, HandshakeParts
  <2> QED BY <2>1 DEF SP!handshakeOk, SP!handshakeError, server
<1> QED BY <1>1, <1>2, <1>3, <1>4 DEF Next, Ended

\* The handshake comes before the message.
LEMMA HandshakeMail ==
    ASSUME Parts, CP!upgraded, UNCHANGED <<landed, mark>>,
           NEW m \in Mails, Plan(m), Outcome(m)
    PROVE  Plan(m)' /\ Outcome(m)' /\ Envelope(m)'
<1>1. /\ at = "handshake" /\ at' = "send"
      /\ todo' = <<CP!With("EHLO", "h")>> \o Tail(todo)
  BY DEF CP!upgraded, CP!Reissue
<1>2. PICK s : s = CP!step
  OBVIOUS
<1>3. todo # <<>> /\ s.verb = "STARTTLS"
  BY <1>1, <1>2, PartTypes DEF CP!PlaceInv, CP!Doing, CP!step
<1>4. Len(todo) > Len(m.to) + 2
  BY <1>2, <1>3, PlanHead
<1>5. PICK x : x = CP!With("EHLO", "h")
  OBVIOUS
<1>6. x.verb = "EHLO" /\ todo' = <<x>> \o Tail(todo)
  BY <1>1, <1>5 DEF CP!With, CP!Bare
<1>7. Plan(m)' /\ Len(todo') = Len(todo)
  BY <1>3, <1>4, <1>6, PlanTail
<1>8. Len(todo) \in Nat /\ Len(m.to) \in Nat
  BY PartTypes, MailTypes
<1>9. Envelope(m)'
  BY <1>1, <1>4, <1>7, <1>8, PreludeMail
<1>10. Outcome(m)'
  BY <1>1, OutcomeStays
<1> QED BY <1>7, <1>9, <1>10

\* A call begins, with nothing landed since.
LEMMA BeginMail ==
    ASSUME Parts, CP!ClientStep \/ CP!Expire, at = "idle", api' \in Mailing, Track,
           landed' = landed
    PROVE  /\ result' = CP!NoResult
           /\ \E m \in Mails : mail' = {m} /\ Plan(m)' /\ Outcome(m)' /\ Envelope(m)'
<1>1. at' = "send" /\ result' = CP!NoResult /\ Parts
  BY MailPlanned
<1>2. PICK m \in Mails : MailOf(todo') = m /\ Plan(m)' /\ Len(todo') >= Len(m.to) + 2
  BY MailPlanned
<1>3. mail' = {m} /\ Len(landed') = mark'
  BY <1>2 DEF Track
<1>4. Outcome(m)'
  BY <1>1, <1>3 DEF Outcome, Done
<1>5. Len(m.to) \in Nat
  BY MailTypes
<1>6. Left' = Len(todo')
  BY <1>1 DEF Left
<1>7. Holds(m, Left)'
  <2>1. ~(Len(todo') <= Len(m.to) + 1)
    <3>1. PICK n \in Nat : n = Len(m.to)
      BY <1>5
    <3>2. Len(todo') >= n + 2 => ~(Len(todo') <= n + 1)
      OBVIOUS
    <3> QED BY <1>2, <3>1, <3>2
  <2> QED BY <1>6, <2>1 DEF Holds
<1> QED BY <1>1, <1>2, <1>3, <1>4, <1>7 DEF Envelope

\* The parts of MailInv that a step of the client, or a handshake, sets anew.
LEMMA TrackedMail ==
    ASSUME Parts, MailInv, landed \in Seq(Arrivals), ClientStep \/ Handshake
    PROVE  /\ mail' # {} <=> api' \in Mailing
           /\ mail' # {} => \E m \in Mails : mail' = {m}
           /\ mark' \in Nat /\ landed' = landed
           /\ mail # {} => at # "idle" /\ mark' = mark
<1>1. Track /\ landed' = landed /\ CP!Shape
  BY ClientParts, HandshakeParts DEF ClientStep, Handshake
<1>2. mark' \in Nat
  BY <1>1 DEF Track, MailInv
<1>3. api \notin Mailing /\ api' \in Mailing => at = "idle"
  BY <1>1, Otherwise
<1>4. mail' # {} <=> api' \in Mailing
  BY <1>1, <1>3 DEF Track, MailInv
<1>5. mail # {} => at # "idle" /\ mark' = mark
  BY <1>1, PartTypes DEF Track, MailInv, Mailing, CP!PlaceInv, CP!Busy
<1>6. ASSUME mail' # {} PROVE \E m \in Mails : mail' = {m}
  <2>1. CASE at # "idle"
    BY <1>1, <1>4, <1>6, <2>1 DEF Track, MailInv
  <2>2. CASE at = "idle"
    <3>1. CP!ClientStep \/ CP!Expire
      BY <2>2, ClientParts, HandshakeParts DEF CP!upgraded, CP!handshakeError
    <3> QED BY <1>1, <1>4, <1>6, <2>2, <3>1, BeginMail
  <2> QED BY <2>1, <2>2
<1> QED BY <1>1, <1>2, <1>4, <1>5, <1>6

\* Every step preserves what holds of a message.
LEMMA MailStep ==
    ASSUME ~ReadTimeouts, TruthInv, [Next]_vars
    PROVE  MailInv'
<1>1. /\ Parts /\ LockInv /\ RestInv /\ MailInv /\ landed \in Seq(Arrivals)
      /\ mark \in Nat
  BY DEF TruthInv, ResetInv, LockInv, CountInv, MailInv
<1>2. (pc \in {"read", "data"} => accepted = SP!NoMessage)'
  BY <1>1, AcceptedStep DEF MailInv
<1>3. ASSUME mail # {}
      PROVE  \E m \in Mails :
                /\ mail = {m} /\ todo # <<>> /\ api \in Mailing
                /\ Intact => Plan(m) /\ Outcome(m) /\ (pc # "closed" => Envelope(m))
  BY <1>1, <1>3, PartTypes DEF MailInv, Mailing, CP!PlaceInv
<1>4. Intact' => Intact
  BY <1>1, StaysBroken
<1>5. CASE UNCHANGED vars \/ Shutdown \/ Watcher \/ ServerStep
  <2>1. UNCHANGED <<mail, mark, api, todo, at>>
    BY <1>5 DEF vars, client, ghosts, Shutdown, Watcher, ServerStep
  <2> SUFFICES ASSUME Intact', NEW m \in mail
               PROVE  /\ Plan(m)' /\ Outcome(m)'
                      /\ pc' # "closed" => Envelope(m)'
    BY <1>1, <1>2, <2>1 DEF MailInv
  <2>2. /\ m \in Mails /\ todo # <<>> /\ Intact
        /\ Plan(m) /\ Outcome(m) /\ (pc # "closed" => Envelope(m))
    BY <1>3, <1>4
  <2>3. Plan(m)'
    BY <2>1, <2>2 DEF Plan
  <2>4. CASE ServerStep
    BY <1>1, <2>2, <2>3, <2>4, ServerMail DEF MailInv
  <2>5. CASE UNCHANGED vars \/ Shutdown \/ Watcher
    <3>1. UNCHANGED <<pc, wire, rbuf, landed, body, reversePath, forwardPaths>>
      BY <2>5, SameSession DEF vars, server, ghosts, Shutdown, Watcher, SP!Quit,
         SP!WatcherStep, SP!watcherCancel, SP!watcherClose, SP!session,
         SP!progress, SP!txnVars
    <3> QED BY <2>1, <2>2, <2>3, <3>1, MailStays, OutcomeStays
  <2> QED BY <1>5, <2>4, <2>5
<1>6. CASE ClientStep \/ Handshake
  <2>1. /\ mail' # {} <=> api' \in Mailing
        /\ mail' # {} => \E m \in Mails : mail' = {m}
        /\ mark' \in Nat /\ landed' = landed
        /\ mail # {} => at # "idle" /\ mark' = mark
    BY <1>1, <1>6, TrackedMail
  <2> SUFFICES ASSUME Intact', NEW m \in mail'
               PROVE  /\ Plan(m)' /\ Outcome(m)'
                      /\ pc' # "closed" => Envelope(m)'
    BY <1>2, <2>1 DEF MailInv
  <2>2. Track /\ CP!Shape /\ api' \in Mailing /\ clean' /\ Intact
    BY <1>1, <1>4, <1>6, <2>1, ClientParts, HandshakeParts
       DEF ClientStep, Handshake, Intact
  <2>3. CASE at = "idle"
    <3>1. CP!ClientStep \/ CP!Expire
      BY <1>1, <1>6, <2>3, ClientParts, HandshakeParts
         DEF CP!upgraded, CP!handshakeError
    <3> QED BY <1>1, <2>1, <2>2, <2>3, <3>1, BeginMail
  <2>4. CASE at # "idle"
    <3>1. mail' = mail
      BY <2>2, <2>4 DEF Track
    <3>2. /\ m \in Mails /\ todo # <<>> /\ api \in Mailing /\ mark' = mark
          /\ Plan(m) /\ Outcome(m) /\ (pc # "closed" => Envelope(m))
      BY <1>3, <2>1, <2>2, <3>1
    <3>3. CASE ClientStep
      <4>1. UNCHANGED server /\ (CP!ClientStep \/ CP!Expire)
        BY <1>1, <3>3, ClientParts DEF ClientStep
      <4>2. Proceeds(m)
        BY <1>1, <2>1, <2>2, <3>2, <4>1, ClientMail
      <4> QED BY <2>2, <4>2 DEF Proceeds, Mailing
    <3>4. CASE Handshake
      <4>1. CP!upgraded
        BY <1>1, <2>2, <3>4, HandshakeParts DEF CP!handshakeError
      <4> QED BY <1>1, <2>1, <3>2, <4>1, HandshakeMail
    <3> QED BY <1>6, <3>3, <3>4
  <2> QED BY <2>3, <2>4
<1> QED BY <1>5, <1>6 DEF Next, Ended

\* The truth is an invariant of the dialogue.
LEMMA TruthStep ==
    ASSUME ~ReadTimeouts, TruthInv, [Next]_vars
    PROVE  TruthInv'
<1>1. Parts /\ ResetInv /\ CountInv
  BY DEF TruthInv, ResetInv, LockInv
<1> QED BY <1>1, ResetStep, CountStep, MailStep DEF TruthInv

----------------------------------------------------------------------------
(* The refinement *)

\* What Mailer sees.
Delivered == IF mail = {} THEN <<>> ELSE SubSeq(landed, mark + 1, Len(landed))
Told == IF mail # {} \/ result.api \notin Mailing THEN "none"
        ELSE IF result.err = "nil" THEN "nil" ELSE "error"

\* What a history q holds behind its first k items.
LEMMA Since ==
    ASSUME NEW q \in Seq(Arrivals), NEW k \in Nat
    PROVE  /\ Len(q) = k => SubSeq(q, k + 1, Len(q)) = <<>>
           /\ Len(q) = k + 1 => SubSeq(q, k + 1, Len(q)) = <<q[k + 1]>>
<1> DEFINE r == SubSeq(q, k + 1, Len(q))
<1>1. CASE Len(q) = k
  <2>1. r \in Seq(Arrivals) /\ Len(r) = 0
    BY <1>1
  <2> HIDE DEF r
  <2>2. r = <<>>
    BY <2>1
  <2> QED BY <1>1, <2>2 DEF r
<1>2. CASE Len(q) = k + 1
  <2>1. r \in Seq(Arrivals) /\ Len(r) = 1 /\ r[1] = q[k + 1]
    BY <1>2
  <2> HIDE DEF r
  <2>2. r = <<q[k + 1]>>
    BY <2>1
  <2> QED BY <1>2, <2>2 DEF r
<1> QED BY <1>1, <1>2

\* What has been delivered since the call began.
LEMMA DeliveredSoFar ==
    ASSUME TruthInv, Intact, NEW m, mail = {m}
    PROVE  Delivered = (IF Done THEN <<m>> ELSE <<>>) /\ m \in Mails /\ Told = "none"
<1>1. landed \in Seq(Arrivals) /\ mark \in Nat /\ Outcome(m) /\ m \in Mails
  BY DEF TruthInv, CountInv, MailInv
<1>2. Delivered = SubSeq(landed, mark + 1, Len(landed)) /\ Told = "none"
  BY DEF Delivered, Told
<1>3. PICK b \in BOOLEAN : b <=> Done
  OBVIOUS
<1>4. IF b THEN Len(landed) = mark + 1 /\ landed[mark + 1] = m ELSE Len(landed) = mark
  BY <1>1, <1>3 DEF Outcome
<1>5. SubSeq(landed, mark + 1, Len(landed)) = IF b THEN <<m>> ELSE <<>>
  BY <1>1, <1>4, Since
<1> QED BY <1>1, <1>2, <1>3, <1>5

\* A step of the session is a delivery, or is not seen.
LEMMA ServerRefines ==
    ASSUME ~ReadTimeouts, TruthInv, TruthInv', Intact, Intact',
           ServerStep \/ Shutdown \/ Watcher \/ UNCHANGED vars
    PROVE  /\ UNCHANGED <<mail, Told>>
           /\ \/ UNCHANGED Delivered
              \/ \E m \in Mails : mail = {m} /\ Delivered = <<>> /\ Delivered' = <<m>>
<1>1. UNCHANGED <<mail, mark, result, at>>
  BY DEF vars, client, ghosts, ServerStep, Shutdown, Watcher
<1>2. Told' = Told
  BY <1>1 DEF Told
<1>3. CASE mail = {}
  BY <1>1, <1>2, <1>3 DEF Delivered
<1>4. CASE mail # {}
  <2>1. PICK m \in Mails : mail = {m}
    BY <1>4 DEF TruthInv, MailInv
  <2>2. Delivered = IF Done THEN <<m>> ELSE <<>>
    BY <2>1, DeliveredSoFar
  <2>3. Delivered' = IF Done' THEN <<m>> ELSE <<>>
    <3>1. mail' = {m} /\ Outcome(m)' /\ landed' \in Seq(Arrivals) /\ mark' \in Nat
      BY <1>1, <2>1 DEF TruthInv, CountInv, MailInv
    <3>2. PICK b \in BOOLEAN : b <=> Done'
      OBVIOUS
    <3>3. IF b THEN Len(landed') = mark' + 1 /\ landed'[mark' + 1] = m
          ELSE Len(landed') = mark'
      BY <3>1, <3>2 DEF Outcome
    <3>4. PICK q \in Seq(Arrivals), k \in Nat : q = landed' /\ k = mark'
      BY <3>1
    <3>5. IF b THEN Len(q) = k + 1 /\ q[k + 1] = m ELSE Len(q) = k
      BY <3>3, <3>4
    <3>6. SubSeq(q, k + 1, Len(q)) = IF b THEN <<m>> ELSE <<>>
      BY <3>5, Since
    <3> QED BY <3>1, <3>2, <3>4, <3>6 DEF Delivered
  <2>4. Done => Done'
    <3>1. CASE wire' = wire
      BY <1>1, <3>1 DEF Done, Said250
    <3>2. CASE ServerStep
      BY <1>1, <3>2, FirstStays DEF TruthInv, ResetInv, LockInv, Done, Said250
    <3> QED BY <3>1, <3>2 DEF vars, Shutdown, Watcher
  <2> QED BY <1>2, <1>1, <2>1, <2>2, <2>3, <2>4
<1> QED BY <1>3, <1>4

\* A step of the client begins a call, ends one, or is not seen.
LEMMA ClientRefines ==
    ASSUME ~ReadTimeouts, TruthInv, Intact, Intact', ClientStep \/ Handshake
    PROVE  \/ UNCHANGED <<mail, Told, Delivered>>
           \/ \E m \in Mails : /\ mail = {} /\ mail' = {m} /\ Told' = "none"
                               /\ UNCHANGED Delivered
           \/ \E m \in Mails : /\ mail = {m} /\ Delivered = <<m>> /\ Told' = "nil"
                               /\ mail' = {} /\ Delivered' = <<>>
           \/ /\ mail # {} /\ Delivered = <<>> /\ Told' = "error"
              /\ mail' = {} /\ Delivered' = <<>>
           \/ mail = {} /\ Told' = "none" /\ UNCHANGED <<mail, Delivered>>
<1>1. /\ Parts /\ LockInv /\ RestInv /\ MailInv /\ landed \in Seq(Arrivals)
  BY DEF TruthInv, ResetInv, LockInv, CountInv
<1>2. /\ mail' # {} <=> api' \in Mailing
      /\ mail' # {} => \E m \in Mails : mail' = {m}
      /\ mark' \in Nat /\ landed' = landed
      /\ mail # {} => at # "idle" /\ mark' = mark
  BY <1>1, TrackedMail
<1>3. Track /\ CP!Shape /\ clean'
  BY <1>1, ClientParts, HandshakeParts DEF ClientStep, Handshake, Intact
<1>4. mail # {} <=> api \in Mailing
  BY <1>1 DEF MailInv
<1>5. CASE mail = {}
  <2>1. result' = result \/ result'.api \notin Mailing
    BY <1>3, <1>4, <1>5, Otherwise
  <2>2. CASE mail' = {}
    <3>1. Told' = Told \/ Told' = "none"
      BY <1>5, <2>1, <2>2 DEF Told
    <3> QED BY <1>5, <2>2, <3>1 DEF Delivered
  <2>3. CASE mail' # {}
    <3>1. at = "idle" /\ api' \in Mailing
      BY <1>2, <1>3, <1>4, <1>5, <2>3, Otherwise
    <3>2. PICK m \in Mails : mail' = {m}
      BY <1>2, <2>3
    <3>3. mark' = Len(landed') /\ Len(landed') \in Nat /\ landed' \in Seq(Arrivals)
      BY <1>1, <1>2, <1>3, <3>1 DEF Track
    <3>4. SubSeq(landed', mark' + 1, Len(landed')) = <<>>
      <4>1. PICK q \in Seq(Arrivals), k \in Nat : q = landed' /\ k = mark'
        BY <3>3
      <4> QED BY <3>3, <4>1, Since
    <3>5. Delivered = <<>> /\ Delivered' = <<>> /\ Told' = "none"
      BY <1>5, <2>3, <3>4 DEF Delivered, Told
    <3> QED BY <1>5, <3>2, <3>5
  <2> QED BY <2>2, <2>3
<1>6. CASE mail # {}
  <2>1. PICK m \in Mails : mail = {m}
    BY <1>1, <1>6 DEF MailInv
  <2>2. Delivered = (IF Done THEN <<m>> ELSE <<>>) /\ Told = "none"
    BY <2>1, DeliveredSoFar
  <2>3. ASSUME api' = api PROVE UNCHANGED <<mail, Told, Delivered>>
    <3>1. mail' = mail /\ mark' = mark /\ landed' = landed
      BY <1>2, <1>3, <1>4, <1>6, <2>3 DEF Track
    <3> QED BY <1>6, <3>1 DEF Told, Delivered
  <2>4. CASE ClientStep
    <3>1. /\ UNCHANGED <<server, landed, mark>> /\ (CP!ClientStep \/ CP!Expire)
      BY <1>1, <1>2, <1>6, <2>4, ClientParts DEF ClientStep
    <3>2. Plan(m) /\ Outcome(m) /\ (pc # "closed" => Envelope(m))
      BY <1>1, <2>1 DEF MailInv
    <3>3. Proceeds(m)
      BY <1>1, <1>3, <1>4, <1>6, <3>1, <3>2, ClientMail
    <3>4. ASSUME NEW err, api' = "none", result' = [api |-> api, err |-> err],
                 err = "nil" <=> Done
          PROVE  /\ mail' = {} /\ Delivered' = <<>>
                 /\ Told' = IF Done THEN "nil" ELSE "error"
      <4>1. mail' = {}
        BY <1>2, <3>4 DEF Mailing
      <4>2. result'.api = api /\ result'.err = err
        BY <3>4
      <4> QED BY <1>4, <1>6, <3>4, <4>1, <4>2 DEF Told, Delivered
    <3>5. CASE api' = "none" /\ \E err : /\ result' = [api |-> api, err |-> err]
                                         /\ err = "nil" <=> Done
      BY <2>1, <2>2, <3>4, <3>5
    <3> QED BY <2>3, <3>3, <3>5 DEF Proceeds
  <2>5. CASE Handshake
    <3>1. CP!upgraded
      BY <1>1, <1>3, <2>5, HandshakeParts DEF CP!handshakeError
    <3> QED BY <2>3, <3>1 DEF CP!upgraded, CP!Reissue
  <2> QED BY <2>4, <2>5
<1> QED BY <1>5, <1>6

\* A step of the dialogue is a step of Mailer, or is not seen by it.
LEMMA MailerStep ==
    ASSUME ~ReadTimeouts, TruthInv, TruthInv', [Next]_vars
    PROVE  [M!Next]_(M!vars)
<1>1. Intact' => Intact
  BY StaysBroken DEF TruthInv, ResetInv, LockInv
<1>2. CASE ~Intact
  BY <1>1, <1>2 DEF Intact, Dead, M!Next, M!Broken
<1>3. CASE Intact /\ ~Intact'
  BY <1>3 DEF Intact, Dead, M!Next, M!Break
<1>4. CASE Intact /\ Intact'
  <2>1. CASE ServerStep \/ Shutdown \/ Watcher \/ UNCHANGED vars
    <3>1. UNCHANGED <<mail, Told>>
      BY <1>4, <2>1, ServerRefines
    <3>2. CASE UNCHANGED Delivered
      BY <1>4, <3>1, <3>2 DEF Intact, Dead, Delivered, Told, M!vars
    <3>3. CASE \E m \in Mails : mail = {m} /\ Delivered = <<>> /\ Delivered' = <<m>>
      BY <1>4, <3>1, <3>3 DEF Intact, Dead, Delivered, Told, M!Next, M!Deliver
    <3> QED BY <1>4, <2>1, <3>2, <3>3, ServerRefines
  <2>2. CASE ClientStep \/ Handshake
    <3>1. CASE UNCHANGED <<mail, Told, Delivered>>
      BY <1>4, <3>1 DEF Intact, Dead, Delivered, Told, M!vars
    <3>2. CASE \E m \in Mails : /\ mail = {} /\ mail' = {m} /\ Told' = "none"
                                 /\ UNCHANGED Delivered
      BY <1>4, <3>2 DEF Intact, Dead, Delivered, Told, M!Next, M!Submit
    <3>3. CASE \E m \in Mails : /\ mail = {m} /\ Delivered = <<m>> /\ Told' = "nil"
                                 /\ mail' = {} /\ Delivered' = <<>>
      BY <1>4, <3>3 DEF Intact, Dead, Delivered, Told, M!Next, M!Succeed
    <3>4. CASE /\ mail # {} /\ Delivered = <<>> /\ Told' = "error"
               /\ mail' = {} /\ Delivered' = <<>>
      BY <1>4, <3>4 DEF Intact, Dead, Delivered, Told, M!Next, M!Fail
    <3>5. CASE mail = {} /\ Told' = "none" /\ UNCHANGED <<mail, Delivered>>
      BY <1>4, <3>5 DEF Intact, Dead, Delivered, Told, M!Next, M!Other
    <3> QED BY <1>4, <2>2, <3>1, <3>2, <3>3, <3>4, <3>5, ClientRefines
  <2> QED BY <2>1, <2>2 DEF Next, Ended
<1> QED BY <1>1, <1>2, <1>3, <1>4

\* SendMail and SubmitMessage tell the truth: over a connection that no I/O
\* error has broken, a call returns nil when the session has handed its message
\* to the handler, once, whole and for its own recipients, and an error only
\* when it has not.  The read deadline of the server is the one exception: a DATA
\* it cuts short is delivered as if it were complete (BodyWhole).
THEOREM DialogueImplementsMailer ==
    ASSUME ~ReadTimeouts PROVE Spec => MailerSpec
<1>1. Init => M!Init
  <2> SUFFICES ASSUME Init PROVE M!Init
    OBVIOUS
  <2>1. mail = {} /\ clean = TRUE /\ down = "up" /\ result.api = "none"
    BY DEF Init, C!Init, S!Init, C!NoResult
  <2>2. (clean /\ down # "ncClosed") = TRUE
    BY <2>1
  <2> QED BY <2>1, <2>2 DEF M!Init, Mailing
<1> QED BY <1>1, InitTruth, TruthStep, MailerStep, PTL DEF Spec, MailerSpec, M!Spec

=============================================================================
