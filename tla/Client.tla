------------------------------- MODULE Client -------------------------------
(***************************************************************************)
(* One smtpclient.Client on one connection: the calls an application makes *)
(* (Dial, Mail, Data, StartTLS, SubmitMessage...), the replies it reads,   *)
(* the deadline its contexts put on the connection, and a server that may  *)
(* answer anything, stay silent or go away.                                *)
(* Source: smtpclient/client.go, auth.go, internal/textproto/conn.go.      *)
(*                                                                         *)
(* A call is a sequence of steps, todo, of which the head is in progress;  *)
(* a step is the command it sends.  A step is split at its reads, for      *)
(* there the server, the deadline and the network act.  Lines to the       *)
(* server are those of Session; a reply is a sequence of reply lines, of   *)
(* which sep "-" announces another one, and "bad" does not parse.          *)
(***************************************************************************)
EXTENDS Integers, Sequences

CONSTANTS
    Calls,           \* the calls the application makes
    From,            \* senders
    To,              \* recipient lists of SendMail and SubmitMessage
    MessageReaders,  \* message readers: [n: lines, fails: BOOLEAN]
    BdatArgs,        \* BDAT chunks: [n: lines, last: BOOLEAN]
    Mechanisms,      \* "PLAIN", "LOGIN", "CRAM-MD5"
    TlsConfigured,   \* SubmitMessage's tlsConfig # nil
    Contexts,        \* "set", "none": does a context have a deadline
    MaxCalls         \* bound: calls after the constructor, Close not counted

ASSUME CallAssumption ==
    /\ MaxCalls \in Nat /\ TlsConfigured \in BOOLEAN
    /\ Contexts \subseteq {"set", "none"}
    /\ MessageReaders \subseteq [n: Nat, fails: BOOLEAN]
    /\ BdatArgs \subseteq [n: Nat, last: BOOLEAN]
    /\ To \subseteq Seq(STRING)

VARIABLES
    at,              \* where the client's goroutine is
    api,             \* the call in progress, or "none"
    todo,            \* its steps from the current one on
    result,          \* the call that has just returned, and its error
    open,            \* netConn has not been closed by the client
    exts, tls,       \* the Client struct
    mech,            \* the application's LoginAuth: its step, and whether used
    deadline,        \* the connection's deadline: "none", "set", "expired"
    werr,            \* the bufio.Writer has failed, which is for good
    rbuf,            \* lines on their way to the server
    wire,            \* reply lines on their way to the client
    srv,             \* where the server is
    calls,           \* calls made
    extsTls,         \* history: was the EHLO that gave exts sent over TLS
    clean            \* history: no call has left a reply unread or a command
                     \* unfinished

control == <<at, api, todo, result, open>>
fields == <<exts, tls, extsTls>>
vars == <<control, fields, mech, deadline, werr, rbuf, wire, srv, calls, clean>>

Empty == "empty"
Bare(v) == [verb |-> v, arg |-> Empty, opt |-> Empty, n |-> 0]
With(v, a) == [Bare(v) EXCEPT !.arg = a]
Text(n) == [i \in 1..n |-> Bare("TEXT")]

----------------------------------------------------------------------------
(* textproto.Conn *)

Busy == at \notin {"none", "idle", "gone"}
ServerGone == srv = "closed"
CanWrite == open /\ ~werr /\ deadline # "expired"
CannotWrite == ~CanWrite \/ ServerGone
MutNoReadDeadline == ~open \/ ServerGone
CannotRead == ~open \/ deadline = "expired" \/ ServerGone

\* WriteLine, and what follows it up to the Flush.
Write(lines) ==
    rbuf' = rbuf \o [i \in 1..Len(lines) |-> [line |-> lines[i], secure |-> tls]]

\* ReadReply stops at reply line n.
EndsReply(n) == /\ n \in 1..Len(wire) /\ wire[n].sep # "-"
                /\ \A i \in 1..(n - 1) : wire[i].sep = "-"
Consume(n) == wire' = SubSeq(wire, n + 1, Len(wire))

\* ReadReply returns the reply that ends in line n.
ReadReply(n) == EndsReply(n) /\ wire[n].sep = " " /\ Consume(n)

----------------------------------------------------------------------------
(* Calls and their steps *)

NoResult == [api |-> "none", err |-> "nil"]
Doing(v) == todo # <<>> /\ Head(todo).verb = v
step == Head(todo)

\* The call returns.  Dial closes the connection when it fails, NewClient
\* does not; either way there is no Client then.
MutLeak(err) == api = "Close"
Closes(err) == api = "Close" \/ (api = "Dial" /\ err # "nil")

ReturnAnd(stillOpen, err) ==
    /\ result' = [api |-> api, err |-> err]
    /\ api' = "none" /\ todo' = <<>> /\ open' = stillOpen
    /\ at' = IF api = "Close" \/ (api \in {"Dial", "NewClient"} /\ err # "nil")
             THEN "gone" ELSE "idle"
Return(err) == ReturnAnd(open /\ ~Closes(err), err)

\* The step has succeeded.
Advance ==
    IF Len(todo) = 1 THEN Return("nil")
    ELSE /\ todo' = Tail(todo) /\ at' = "send"
         /\ UNCHANGED <<api, result, open>>

\* The application makes a call, with a context; SetDeadlineFromContext sets
\* or clears the connection's deadline.
Begin(name, steps) ==
    /\ at = "idle" /\ name \in Calls /\ calls < MaxCalls
    /\ calls' = calls + 1
    /\ api' = name /\ todo' = steps /\ at' = "send"
    /\ deadline' \in Contexts /\ result' = NoResult
    /\ UNCHANGED <<open, fields, werr, rbuf, wire, srv, clean>>
Call(name, steps) == Begin(name, steps) /\ UNCHANGED mech

\* What a step sends: a BDAT command is followed by its chunk.
Sent(s) == IF s.verb = "BDAT" THEN <<s>> \o Text(s.n)
           ELSE IF s.verb = "DATA" THEN <<Bare("DATA")>> ELSE <<s>>

Request(v) ==
    /\ at = "send" /\ Doing(v) /\ CanWrite
    /\ Write(Sent(step)) /\ at' = "reply"
    /\ UNCHANGED <<api, todo, result, open, fields, mech, deadline, werr, wire,
                   srv, calls, clean>>

\* The data of a refused chunk may be taken for commands.
InStepAfterRefusal == ~(Doing("BDAT") /\ step.n > 0)

MutPermanentOnly(code, want) == code < 500
Wanted(code, want) == code = want

\* The step's reply: replyToError unless it has the code wanted.
Expect(p, v, want) ==
    /\ at = p /\ Doing(v)
    /\ \E n \in 1..Len(wire) :
          /\ ReadReply(n)
          /\ IF Wanted(wire[n].code, want) THEN Advance /\ UNCHANGED clean
             ELSE Return("smtp") /\ clean' = (clean /\ InStepAfterRefusal)
    /\ UNCHANGED <<fields, mech, deadline, werr, rbuf, srv, calls>>

Exchange(v, want) == Request(v) \/ Expect("reply", v, want)

\* The call ends on an I/O error; nothing is done about the stream.  Close and
\* the end of a cancelled AUTH ignore it.
Failure == IF api = "Close" THEN "nil" ELSE IF at = "cancel" THEN "mech" ELSE "io"
Break == Return(Failure) /\ clean' = FALSE

writeError ==
    /\ at = "send" /\ CannotWrite
    /\ werr' = TRUE /\ Break
    /\ UNCHANGED <<fields, mech, deadline, rbuf, wire, srv, calls>>

\* ReadLine fails, perhaps after some lines of a reply.
readError ==
    /\ at \in {"reply", "final", "cancel"} /\ CannotRead
    /\ \E n \in 0..Len(wire) :
          (\A i \in 1..n : wire[i].sep = "-") /\ Consume(n)
    /\ Break
    /\ UNCHANGED <<fields, mech, deadline, werr, rbuf, srv, calls>>

malformedReply ==
    /\ at \in {"reply", "final", "cancel"}
    /\ \E n \in 1..Len(wire) : EndsReply(n) /\ wire[n].sep = "bad" /\ Consume(n)
    /\ Break
    /\ UNCHANGED <<fields, mech, deadline, werr, rbuf, srv, calls>>

----------------------------------------------------------------------------
(* Connecting *)

Connect(name) ==
    /\ at = "none"
    /\ api' = name /\ todo' = <<Bare("greeting"), With("EHLO", "h")>>
    /\ at' = "reply"
    /\ UNCHANGED <<result, open, fields, mech, werr, rbuf, wire, srv, calls, clean>>

\* Dial's timeout is the deadline of the whole sequence.
Dial == Connect("Dial") /\ deadline' = "set"

\* NewClient reads the greeting under the deadline its caller may have set,
\* and ehlo(context.Background()) clears it.
NewClient == Connect("NewClient") /\ deadline' \in Contexts

greeting ==
    /\ at = "reply" /\ Doing("greeting")
    /\ \E n \in 1..Len(wire) :
          /\ ReadReply(n)
          /\ IF wire[n].code = 220 THEN Advance ELSE Return("smtp")
          /\ deadline' = IF api = "NewClient" /\ wire[n].code = 220
                         THEN "none" ELSE deadline
    /\ UNCHANGED <<fields, mech, werr, rbuf, srv, calls, clean>>

\* ParseEHLOResponse skips the first line.
ParseEHLOResponse(n) == UNION {wire[i].exts : i \in 2..n}

MutKeepExts(n) == exts' = exts \cup ParseEHLOResponse(n)
SetExts(n) == exts' = ParseEHLOResponse(n)

ehloReply ==
    /\ at = "reply" /\ Doing("EHLO")
    /\ \E n \in 1..Len(wire) :
          /\ ReadReply(n)
          /\ \/ /\ wire[n].code = 250 /\ Advance
                /\ SetExts(n) /\ extsTls' = tls
             \/ /\ wire[n].code \in {500, 502}       \* try HELO
                /\ todo' = <<With("HELO", "h")>> \o Tail(todo) /\ at' = "send"
                /\ UNCHANGED <<api, result, open, exts, extsTls>>
             \/ /\ wire[n].code \notin {250, 500, 502}
                /\ Return("smtp") /\ UNCHANGED <<exts, extsTls>>
    /\ UNCHANGED <<tls, mech, deadline, werr, rbuf, srv, calls, clean>>

heloReply ==
    /\ at = "reply" /\ Doing("HELO")
    /\ \E n \in 1..Len(wire) :
          /\ ReadReply(n)
          /\ IF wire[n].code = 250
             THEN Advance /\ exts' = {} /\ extsTls' = tls
             ELSE Return("smtp") /\ UNCHANGED <<exts, extsTls>>
    /\ UNCHANGED <<tls, mech, deadline, werr, rbuf, srv, calls, clean>>

ehlo == Request("EHLO") \/ ehloReply \/ Request("HELO") \/ heloReply

----------------------------------------------------------------------------
(* The mail transaction *)

DataStep(b) == [Bare("DATA") EXCEPT !.n = b.n,
                                    !.opt = IF b.fails THEN "fails" ELSE Empty]
MutPerRecipient(from, to, b) ==
    <<With("MAIL", from), With("RCPT", to[1]), DataStep(b),
      With("MAIL", from), With("RCPT", to[Len(to)]), DataStep(b)>>
SendSteps(from, to, b) ==
    <<With("MAIL", from)>> \o [i \in 1..Len(to) |-> With("RCPT", to[i])]
        \o <<DataStep(b)>>

Mail == \/ \E f \in From : Call("Mail", <<With("MAIL", f)>>)
        \/ Exchange("MAIL", 250)

Rcpt == \/ \E to \in To : \E i \in DOMAIN to :
              Call("Rcpt", <<With("RCPT", to[i])>>)
        \/ Exchange("RCPT", 250)

dataReply ==
    /\ at = "reply" /\ Doing("DATA")
    /\ \E n \in 1..Len(wire) :
          /\ ReadReply(n)
          /\ IF wire[n].code = 354
             THEN at' = "body" /\ UNCHANGED <<api, todo, result, open>>
             ELSE Return("smtp")
    /\ UNCHANGED <<fields, mech, deadline, werr, rbuf, srv, calls, clean>>

MutNoDot(n) == Text(n)
Terminated(n) == Append(Text(n), Bare("."))

\* io.Copy to the dotWriter, then its Close.  When the reader fails, Close
\* still sends the terminating dot, and Data returns without the reply.
sendBody ==
    /\ at = "body" /\ CanWrite
    /\ IF step.opt = "fails"
       THEN (\E k \in 0..step.n : Write(Terminated(k))) /\ Break
       ELSE /\ Write(Terminated(step.n)) /\ at' = "final"
            /\ UNCHANGED <<api, todo, result, open, clean>>
    /\ UNCHANGED <<fields, mech, deadline, werr, wire, srv, calls>>

\* A write fails; the writer's error is sticky, and the dot is not sent.
bodyWriteError ==
    /\ at = "body" /\ CannotWrite
    /\ (\E k \in 0..step.n : Write(Text(k)))
    /\ werr' = TRUE /\ Break
    /\ UNCHANGED <<fields, mech, deadline, wire, srv, calls>>

Data == \/ \E b \in MessageReaders : Call("Data", <<DataStep(b)>>)
        \/ Request("DATA") \/ dataReply \/ sendBody \/ bodyWriteError
        \/ Expect("final", "DATA", 250)

Bdat == \/ \E c \in BdatArgs :
              Call("Bdat", <<[With("BDAT", "size") EXCEPT !.n = c.n,
                              !.opt = IF c.last THEN "LAST" ELSE Empty]>>)
        \/ Exchange("BDAT", 250)

Reset == Call("Reset", <<Bare("RSET")>>) \/ Exchange("RSET", 250)
Noop == Call("Noop", <<Bare("NOOP")>>) \/ Exchange("NOOP", 250)

SendMail == \E f \in From, to \in To, b \in MessageReaders :
                Call("SendMail", SendSteps(f, to, b))

----------------------------------------------------------------------------
(* STARTTLS *)

startTLSReply ==
    /\ at = "reply" /\ Doing("STARTTLS")
    /\ \E n \in 1..Len(wire) :
          /\ ReadReply(n)
          /\ IF wire[n].code = 220
             THEN at' = "handshake" /\ UNCHANGED <<api, todo, result, open>>
             ELSE Return("smtp")
    /\ UNCHANGED <<fields, mech, deadline, werr, rbuf, srv, calls, clean>>

MutNoEhlo == Advance
Reissue == /\ todo' = <<With("EHLO", "h")>> \o Tail(todo) /\ at' = "send"
           /\ UNCHANGED <<api, result, open>>

\* The client's part of a handshake that succeeds.  ReplaceConn discards what
\* the old reader holds.
upgraded ==
    /\ at = "handshake" /\ open /\ deadline # "expired"
    /\ tls' = TRUE /\ wire' = <<>> /\ Reissue
    /\ UNCHANGED <<exts, extsTls, mech, deadline, werr, calls, clean>>

\* The handshake fails and the Client stays on the plaintext connection, of
\* which bytes of the handshake may remain; an expired context has closed it.
MutCarryOn == Advance
HandshakeFailed == \E closed \in {FALSE, deadline = "expired"} :
                       ReturnAnd(open /\ ~closed, "io")

handshakeError ==
    /\ at = "handshake" /\ HandshakeFailed /\ clean' = FALSE
    /\ \/ UNCHANGED wire
       \/ wire' = Append(wire, [code |-> 0, sep |-> "bad", exts |-> {}])
    /\ UNCHANGED <<fields, mech, deadline, werr, calls>>

StartTLS == Call("StartTLS", <<Bare("STARTTLS")>>)
            \/ Request("STARTTLS") \/ startTLSReply

----------------------------------------------------------------------------
(* AUTH and the SASL mechanisms of auth.go *)

\* Bound: the challenges of one exchange are counted up to here.
MaxChallenges == 3
Count(n) == IF n < MaxChallenges THEN n + 1 ELSE n

\* Start: PLAIN has an initial response.  n counts the challenges.
AuthStep(m) == [With("AUTH", m) EXCEPT !.opt = IF m = "PLAIN" THEN "good"
                                               ELSE Empty]

\* Next: PLAIN expects no challenge, and LOGIN two.
MutOneMore == step.arg = "LOGIN" /\ mech.step >= 3
NextFails == \/ step.arg = "PLAIN"
             \/ step.arg = "LOGIN" /\ mech.step >= 2

MutStuck == UNCHANGED mech
LoginNext == mech' = IF step.arg = "LOGIN" THEN [mech EXCEPT !.step = @ + 1]
                     ELSE mech

authReply ==
    /\ at = "reply" /\ Doing("AUTH")
    /\ \E n \in 1..Len(wire) :
          /\ ReadReply(n)
          /\ \/ wire[n].code = 235 /\ Advance /\ UNCHANGED clean
             \/ wire[n].code \notin {235, 334} /\ Return("smtp") /\ UNCHANGED clean
             \/ /\ wire[n].code = 334
                /\ "not base64" \in wire[n].exts /\ Break
             \/ /\ wire[n].code = 334 /\ "not base64" \notin wire[n].exts
                /\ at' = "respond"
                /\ todo' = [todo EXCEPT ![1].n = Count(@)]
                /\ UNCHANGED <<api, result, open, clean>>
    /\ UNCHANGED <<fields, mech, deadline, werr, rbuf, srv, calls>>

\* The response, or "*" when the mechanism gives up.
respond ==
    /\ at = "respond" /\ CanWrite
    /\ IF NextFails
       THEN Write(<<Bare("*")>>) /\ at' = "cancel" /\ UNCHANGED mech
       ELSE /\ Write(<<[With("b64", "good") EXCEPT
                          !.opt = IF step.arg # "LOGIN" THEN Empty
                                  ELSE IF mech.step = 0 THEN "user" ELSE "pass"]>>)
            /\ at' = "reply" /\ LoginNext
    /\ UNCHANGED <<api, todo, result, open, fields, deadline, werr, wire, srv,
                   calls, clean>>

\* By then the mechanism has made its step, and a "*" that cannot be sent does
\* not keep Auth from reading on.
respondError ==
    /\ at = "respond" /\ CannotWrite /\ werr' = TRUE
    /\ IF NextFails
       THEN /\ at' = "cancel" /\ clean' = FALSE
            /\ UNCHANGED <<api, todo, result, open, mech>>
       ELSE Break /\ LoginNext
    /\ UNCHANGED <<fields, deadline, rbuf, wire, srv, calls>>

\* The reply to "*" is read and ignored.
MutNoCancelReply == UNCHANGED wire
ReadCancelReply == \E n \in 1..Len(wire) : ReadReply(n)

authCancelled ==
    /\ at = "cancel" /\ ReadCancelReply /\ Return("mech")
    /\ UNCHANGED <<fields, mech, deadline, werr, rbuf, srv, calls, clean>>

\* The application passes a new mechanism, or the LoginAuth it already has.
UseMechanism(m) ==
    IF m = "LOGIN"
    THEN mech' \in {[step |-> 0, used |-> FALSE],
                    [mech EXCEPT !.used = mech.step > 0]}
    ELSE UNCHANGED mech

Auth == \/ \E m \in Mechanisms : Begin("Auth", <<AuthStep(m)>>) /\ UseMechanism(m)
        \/ Request("AUTH") \/ authReply \/ respond \/ respondError
        \/ authCancelled

UpgradeFirst == IF ~tls /\ "STARTTLS" \in exts /\ TlsConfigured
                THEN <<Bare("STARTTLS")>> ELSE <<>>

SubmitMessage ==
    \E m \in Mechanisms, f \in From, to \in To, b \in MessageReaders :
        /\ Begin("SubmitMessage",
                 UpgradeFirst \o <<AuthStep(m)>> \o SendSteps(f, to, b))
        /\ UseMechanism(m)

----------------------------------------------------------------------------
(* Close and the deadline *)

\* QUIT is best effort, under whatever deadline the last call left.
Close ==
    \/ /\ at = "idle" /\ api' = "Close" /\ todo' = <<Bare("QUIT")>>
       /\ at' = "send" /\ result' = NoResult
       /\ UNCHANGED <<open, fields, mech, deadline, werr, rbuf, wire, srv,
                      calls, clean>>
    \/ Request("QUIT")
    \/ /\ at = "reply" /\ Doing("QUIT")
       /\ (\E n \in 1..Len(wire) : ReadReply(n)) /\ Return("nil")
       /\ UNCHANGED <<fields, mech, deadline, werr, rbuf, srv, calls, clean>>

Expire ==
    /\ deadline = "set" /\ at \notin {"none", "gone"}
    /\ deadline' = "expired"
    /\ UNCHANGED <<control, fields, mech, werr, rbuf, wire, srv, calls, clean>>
----------------------------------------------------------------------------
(* A server that answers each command as it likes, may fall silent, and may *)
(* close the connection, with a last 421 or without.                        *)

Reply(c) == <<[code |-> c, sep |-> " ", exts |-> {}]>>
Garbage == <<[code |-> 0, sep |-> "bad", exts |-> {}]>>
Undecodable == <<[code |-> 334, sep |-> " ", exts |-> {"not base64"}]>>
Offer(e) == <<[code |-> 250, sep |-> "-", exts |-> {}],
              [code |-> 250, sep |-> " ", exts |-> e]>>

Answers(v) ==
    CASE v = "EHLO" -> {Offer({"STARTTLS"}), Reply(500), Reply(550)}
      [] v = "AUTH" -> {Reply(235), Reply(334), Reply(535), Undecodable}
      [] v = "STARTTLS" -> {Reply(220), Reply(454)}
      [] v = "DATA" -> {Reply(354), Reply(554), Garbage}
      [] v = "QUIT" -> {Reply(221)}
      [] OTHER -> {Reply(250), Reply(550)}

\* Where the server goes after answer r to verb v.
After(v, r) ==
    CASE v = "DATA" /\ r = Reply(354) -> "data"
      [] v = "STARTTLS" /\ r = Reply(220) -> "tls"
      [] v = "AUTH" /\ r[1].code = 334 -> "auth"
      [] v = "QUIT" -> "closed"
      [] OTHER -> "read"

command == Head(rbuf).line
atRest == <<control, fields, mech, deadline, werr, calls, clean>>

serverGreets ==
    /\ srv = "start" /\ srv' = "read"
    /\ \E c \in {220, 554} : wire' = wire \o Reply(c)
    /\ UNCHANGED <<atRest, rbuf>>

\* A BDAT is read with its chunk, whatever the answer.
serverAnswers ==
    /\ srv = "read" /\ rbuf # <<>>
    /\ LET k == IF command.verb = "BDAT" THEN 1 + command.n ELSE 1
       IN rbuf' = SubSeq(rbuf, k + 1, Len(rbuf))
    /\ \E r \in Answers(command.verb) :
          wire' = wire \o r /\ srv' = After(command.verb, r)
    /\ UNCHANGED atRest

serverReadsBody ==
    /\ srv = "data" /\ rbuf # <<>> /\ rbuf' = Tail(rbuf)
    /\ IF command.verb = "."
       THEN srv' = "read" /\ \E c \in {250, 550} : wire' = wire \o Reply(c)
       ELSE UNCHANGED <<srv, wire>>
    /\ UNCHANGED atRest

serverAuthenticates ==
    /\ srv = "auth" /\ rbuf # <<>> /\ rbuf' = Tail(rbuf)
    /\ \E r \in IF command.verb = "*" THEN {Reply(501)} ELSE Answers("AUTH") :
          wire' = wire \o r /\ srv' = After("AUTH", r)
    /\ UNCHANGED atRest

\* Both ends of the handshake: it succeeds, or fails for both.
handshake ==
    \/ srv = "tls" /\ upgraded /\ srv' = "read" /\ rbuf' = <<>>
    \/ /\ handshakeError /\ srv' = IF srv = "tls" THEN "read" ELSE srv
       /\ UNCHANGED rbuf

serverCloses ==
    /\ srv # "closed" /\ srv' = "closed"
    /\ \E last \in {<<>>, Reply(421)} : wire' = wire \o last
    /\ UNCHANGED <<atRest, rbuf>>

----------------------------------------------------------------------------
Init ==
    /\ at = "none" /\ api = "none" /\ todo = <<>>
    /\ result = NoResult /\ open = TRUE
    /\ exts = {} /\ tls = FALSE /\ extsTls = FALSE
    /\ mech = [step |-> 0, used |-> FALSE]
    /\ deadline = "none" /\ werr = FALSE
    /\ rbuf = <<>> /\ wire = <<>> /\ srv = "start"
    /\ calls = 0 /\ clean = TRUE

\* The application's calls, and the client's steps in them, the handshake
\* excepted.
ClientStep ==
    \/ Dial \/ NewClient \/ greeting \/ ehlo
    \/ Mail \/ Rcpt \/ Data \/ Bdat \/ Reset \/ Noop
    \/ StartTLS \/ Auth \/ SubmitMessage \/ SendMail \/ Close
    \/ writeError \/ readError \/ malformedReply

ServerStep == serverGreets \/ serverAnswers \/ serverReadsBody
              \/ serverAuthenticates \/ serverCloses

\* Nothing more will happen: no Client, or one that the application keeps.
Ended == ~Busy /\ UNCHANGED vars

Next == ClientStep \/ Expire \/ handshake \/ ServerStep \/ Ended

\* A call that is not blocked goes on, and deadlines expire.  The
\* application owes no call, the server no answer.
Fairness == WF_vars(Busy /\ (ClientStep \/ handshake)) /\ WF_vars(Expire)

Spec == Init /\ [][Next]_vars /\ Fairness
----------------------------------------------------------------------------
(* Properties *)

Names == {"none", "Dial", "NewClient", "Mail", "Rcpt", "Data", "Bdat", "Reset",
          "Noop", "SendMail", "StartTLS", "Auth", "SubmitMessage", "Close"}
StepVerbs == {"greeting", "EHLO", "HELO", "MAIL", "RCPT", "DATA", "BDAT", "RSET",
              "NOOP", "STARTTLS", "AUTH", "QUIT", "TEXT", ".", "*", "b64"}
Addressees == UNION {{to[i] : i \in DOMAIN to} : to \in To}
Args == Addressees \cup From \cup Mechanisms \cup {Empty, "h", "size", "good"}
Opts == {Empty, "fails", "LAST", "good", "user", "pass"}
Steps == [verb: StepVerbs, arg: Args, opt: Opts, n: Nat]
\* srv is where Session is when Dialogue puts it in the server's place.
ServerPlaces == {"start", "read", "data", "tls", "auth", "closed", "loop", "bdat",
                 "authPLAIN", "authUser", "authPass", "authCRAM"}
Words == {"STARTTLS", "SIZE", "AUTH", "not base64"}
ReplyLines == [code: 0..599, sep: {" ", "-", "bad"}, exts: SUBSET Words]

\* Every variable of the client and of the connection has its type.
TypeOK ==
    /\ at \in {"none", "idle", "gone", "send", "reply", "body", "final",
              "handshake", "respond", "cancel"}
    /\ api \in Names /\ todo \in Seq(Steps)
    /\ result \in [api: Names, err: {"nil", "smtp", "io", "mech"}]
    /\ open \in BOOLEAN /\ tls \in BOOLEAN /\ extsTls \in BOOLEAN
    /\ exts \in SUBSET Words
    /\ mech \in [step: 0..2, used: BOOLEAN]
    /\ deadline \in {"none", "set", "expired"} /\ werr \in BOOLEAN
    /\ rbuf \in Seq([line: Steps, secure: BOOLEAN])
    /\ wire \in Seq(ReplyLines)
    /\ srv \in ServerPlaces /\ calls \in Nat /\ clean \in BOOLEAN

\* Between calls nothing is in flight: every command sent has had its reply
\* read, by the call that sent it, also when the call was refused half way or
\* its mechanism gave up.  Excepted (clean) are the calls that end on an I/O
\* error, a failed body reader, a challenge that does not decode or a refused
\* chunk: the code leaves the stream as it is then, and the next call would
\* take the old reply for its own.
InStep ==
    at = "idle" /\ clean /\ ~ServerGone =>
        rbuf = <<>> /\ wire = <<>> /\ srv = "read"

\* When StartTLS has returned nil, the connection is on TLS and the extensions
\* the client goes by were announced over it.  (When the EHLO after the
\* handshake fails, the client is left on TLS with the plaintext ones.)
RefreshedByTLS ==
    result = [api |-> "StartTLS", err |-> "nil"] => tls /\ extsTls

\* SubmitMessage is past STARTTLS without TLS only if the server did not offer
\* it or there is no TLS configuration: a refused STARTTLS or a failed
\* handshake never lets it go on to AUTH in plaintext.
SubmitUpgrades ==
    api = "SubmitMessage" /\ ~tls /\ ~Doing("STARTTLS") => UpgradeFirst = <<>>

\* LOGIN answers the first challenge with the user name and the second with
\* the password, as long as the mechanism value is not used for two calls.
LoginOrder ==
    at = "respond" /\ step.arg = "LOGIN" /\ ~mech.used => mech.step = step.n - 1

\* A Dial that fails, at the greeting, at EHLO or at HELO, and a Close leave no
\* connection behind.
ConnectionReleased == at = "gone" /\ result.api # "NewClient" => ~open

\* A call whose context has a deadline returns, whatever the server does: stay
\* silent, challenge for ever, go away.  (NewClient clears its deadline.)
CallReturns ==
    Busy /\ deadline # "none" /\ api # "NewClient" ~> ~Busy
=============================================================================
