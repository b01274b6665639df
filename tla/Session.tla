------------------------------ MODULE Session ------------------------------
(***************************************************************************)
(* One SMTP connection of the server: the goroutine that runs handleConn,  *)
(* its command handlers, the watcher goroutine that closes the connection  *)
(* on shutdown, the peer, and the application's callbacks.                 *)
(* Source: smtpserver/session.go over internal/textproto/{conn,dot}.go.    *)
(*                                                                         *)
(* Only the session goroutine touches the session struct, so a command     *)
(* whose handler reads nothing more from the connection is one step.  A    *)
(* handler that reads again (AUTH, DATA, BDAT, STARTTLS) is split at every *)
(* read, because the peer and the watcher act there.                       *)
(*                                                                         *)
(* The byte stream is a queue of lines.  A line is what the code tells     *)
(* apart: verb, arg (a class of argument), opt (AUTH's initial response,   *)
(* BDAT's LAST) and n (the size of a BDAT chunk, in lines of the stream).  *)
(*                                                                         *)
(* The definitions named Mut* are plausible slips in the definition that   *)
(* follows them; no behaviour uses them (README, "Mutants").               *)
(***************************************************************************)
EXTENDS Integers, Sequences

CONSTANTS
    Input,           \* the lines the peer may send
    Senders,         \* args ParseReversePath accepts (the null path is one)
    Recipients,      \* args ParseForwardPath accepts
    Refusals,        \* reply codes of the SMTPErrors callbacks return
    MaxRecipients,   \* Server.maxRecipients
    MaxInvalidCmds,  \* Server.maxInvalidCmds; 0 is unlimited
    MaxMessageSize,  \* Server.maxMessageSize, in lines; 0 is unlimited
    SubmissionMode,  \* Server.submissionMode
    TLSConfig,       \* Server.tlsConfig # nil
    AuthHandler,     \* Server.authHandler # nil
    VrfyHandler,     \* Server.vrfyHandler # nil
    ReadTimeouts,    \* a read deadline may expire
    Window,          \* bound: lines sent by the peer and not read yet
    MaxUnits         \* bound: sizes are counted up to here, then saturate

NoPath == "none"     \* smtp.ReversePath{}: not the null path "<>"
Empty == "empty"     \* the empty string

ASSUME InputAssumption == \A l \in Input : l.n \in Nat
ASSUME PathAssumption == NoPath \notin Senders
ASSUME LimitAssumption ==
    /\ MaxRecipients \in Nat /\ MaxInvalidCmds \in Nat
    /\ MaxMessageSize \in Nat /\ Window \in Nat /\ MaxUnits \in Nat
ASSUME SwitchAssumption ==
    {SubmissionMode, TLSConfig, AuthHandler, VrfyHandler, ReadTimeouts}
        \subseteq BOOLEAN
ASSUME RefusalAssumption == Refusals \subseteq 400..599

VARIABLES
    pc,              \* where the session goroutine is
    state, clientHostname, esmtp, tls, authenticated, invalidCmds,
    reversePath, forwardPaths, bdatBuffer,      \* the session struct
    body,            \* handleDATA: the dotReader and OnData's result
    chunk,           \* handleBDAT: the chunk being read
    rbuf,            \* lines received and not read: bufio and the socket
    peerClosed,      \* the peer has closed or lost the connection
    down,            \* shutdown: s.quit closed, ctx cancelled, nc closed
    reply,           \* the last reply to the current command, 0 if none
    answered,        \* final replies to the current command
    offered,         \* history: extensions of the last EHLO reply
    acked,           \* history: chunk lines answered 250 since MAIL
    mailTls,         \* history: tls when the last MAIL was accepted
    accepted         \* history: the message the last command delivered

txnVars == <<reversePath, forwardPaths, bdatBuffer>>
session == <<state, clientHostname, esmtp, tls, authenticated, invalidCmds,
             txnVars>>
progress == <<body, chunk>>
net == <<peerClosed, down>>
out == <<reply, answered>>
history == <<offered, acked, mailTls, accepted>>
vars == <<pc, session, progress, rbuf, net, out, history>>

stateNew == 0
stateGreeted == 1
stateMail == 2
stateRcpt == 3
stateData == 4

----------------------------------------------------------------------------
(* Reading and replying *)

MutNoDeadline == peerClosed \/ down = "ncClosed"

\* The reads that may fail: deadline, peer gone, or nc closed by the watcher.
ReadFails == ReadTimeouts \/ peerClosed \/ down = "ncClosed"

line == Head(rbuf).line

\* ReadLine: it consumes a line, and errors on an over-long one.
Recv == rbuf # <<>> /\ rbuf' = Tail(rbuf)
TooLong == line.verb = "LONG"

\* ReadLine returns an error.
RecvErr == \/ ReadFails /\ UNCHANGED rbuf
           \/ Recv /\ TooLong

\* The session goroutine has read the command v at the top of its loop.
Cmd(v) == pc = "read" /\ Recv /\ line.verb = v /\ UNCHANGED net

\* The handler writes its reply and returns to the command loop.
Answer(c) == pc' = "loop" /\ reply' = c /\ answered' = 1

\* The handler replies and changes nothing else.
Refuse(c) == Answer(c) /\ UNCHANGED <<session, progress, history>>

\* A callback's outcome: 0 for nil, an SMTPError's code, or dflt for any
\* other error.
Outcomes(dflt) == {0, dflt} \cup Refusals
Errors(dflt) == {dflt} \cup Refusals

MutNoRcptReset == reversePath' = NoPath /\ bdatBuffer' = 0
                  /\ UNCHANGED forwardPaths

resetTransaction == reversePath' = NoPath /\ forwardPaths' = <<>>
                    /\ bdatBuffer' = 0

\* The reader and the chunk are locals of their handlers.
NoBody == [rd |-> "dot", onData |-> 0, size |-> 0]
NoMessage == [from |-> NoPath, to |-> <<>>, size |-> 0, end |-> "dot",
              authenticated |-> FALSE]
NoChunk == [left |-> 0, size |-> 0, last |-> FALSE]

Units(n) == IF n > MaxUnits THEN MaxUnits ELSE n

----------------------------------------------------------------------------
(* handleConn *)

\* OnConnect refuses, or the greeting is written, or writing it fails.
start ==
    /\ pc = "start"
    /\ \/ \E c \in Errors(421) : pc' = "closed" /\ reply' = c
       \/ pc' = "loop" /\ reply' = 220
       \/ (peerClosed \/ down = "ncClosed") /\ pc' = "closed" /\ reply' = reply
    /\ answered' = 1
    /\ UNCHANGED <<session, progress, rbuf, net, history>>

\* The top of the command loop: ctx.Done() is polled, then the read begins.
loopTop ==
    /\ pc = "loop"
    /\ IF down \in {"cancelled", "ncClosed"}
       THEN pc' = "closed" /\ reply' = 421
       ELSE pc' = "read" /\ reply' = 0
    /\ answered' = 0 /\ accepted' = NoMessage
    /\ UNCHANGED <<session, progress, rbuf, net, offered, acked, mailTls>>

\* ReadLine fails at the top of the loop: handleConn returns, with no reply.
readError ==
    /\ pc = "read" /\ RecvErr
    /\ pc' = "closed"
    /\ UNCHANGED <<session, progress, net, out, history>>

MutLimitLate(n) == MaxInvalidCmds > 0 /\ n > MaxInvalidCmds
AtLimit(n) == MaxInvalidCmds > 0 /\ n >= MaxInvalidCmds

Verbs == {"EHLO", "HELO", "MAIL", "RCPT", "DATA", "RSET", "NOOP", "QUIT",
          "VRFY", "EXPN", "STARTTLS", "AUTH", "BDAT"}

\* A line with a NUL, or a verb outside the switch.
unrecognized ==
    /\ pc = "read" /\ Recv /\ line.verb \notin Verbs /\ ~TooLong
    /\ invalidCmds' = invalidCmds + 1
    /\ IF AtLimit(invalidCmds + 1)
       THEN pc' = "closed" /\ reply' = 421 /\ answered' = 2
       ELSE Answer(500)
    /\ UNCHANGED <<state, clientHostname, esmtp, tls, authenticated, txnVars,
                   net, progress, history>>

----------------------------------------------------------------------------
(* Greeting *)

Exts == (IF MaxMessageSize > 0 THEN {"SIZE"} ELSE {})
        \cup (IF TLSConfig /\ ~tls THEN {"STARTTLS"} ELSE {})
        \cup (IF AuthHandler /\ ~authenticated THEN {"AUTH"} ELSE {})

\* The part handleEHLO and handleHELO share once OnHelo has agreed.
greet(host, ext) ==
    /\ Answer(250) /\ resetTransaction
    /\ clientHostname' = host /\ esmtp' = ext
    /\ state' = stateGreeted
    /\ UNCHANGED <<tls, authenticated, invalidCmds, progress>>

handleEHLO ==
    /\ Cmd("EHLO")
    /\ \/ line.arg = Empty /\ Refuse(501)
       \/ line.arg # Empty /\ \E c \in Errors(451) : Refuse(c)
       \/ /\ line.arg # Empty /\ greet(line.arg, TRUE)
          /\ offered' = Exts
          /\ UNCHANGED <<acked, mailTls, accepted>>

handleHELO ==
    /\ Cmd("HELO")
    /\ \/ line.arg = Empty /\ Refuse(501)
       \/ line.arg # Empty /\ \E c \in Errors(451) : Refuse(c)
       \/ line.arg # Empty /\ greet(line.arg, FALSE) /\ UNCHANGED history

----------------------------------------------------------------------------
(* The mail transaction *)

MutNoGate == TRUE
MaySubmit == SubmissionMode => authenticated

\* OnMail has agreed: the transaction begins.
openTransaction ==
    /\ line.arg \in Senders /\ Answer(250)
    /\ reversePath' = line.arg /\ forwardPaths' = <<>>
    /\ state' = stateMail
    /\ acked' = 0 /\ mailTls' = tls
    /\ UNCHANGED <<clientHostname, esmtp, tls, authenticated, invalidCmds,
                   bdatBuffer, progress, offered, accepted>>

handleMAIL ==
    /\ Cmd("MAIL")
    /\ \/ state # stateGreeted /\ Refuse(503)
       \/ state = stateGreeted /\ ~MaySubmit /\ Refuse(530)
       \/ /\ state = stateGreeted /\ MaySubmit
          /\ \/ line.arg \notin Senders /\ Refuse(501)
             \/ line.arg \in Senders /\ \E c \in Errors(451) : Refuse(c)
             \/ openTransaction

MutRoomForOneMore == Len(forwardPaths) <= MaxRecipients
RoomForRecipient == Len(forwardPaths) < MaxRecipients

MutUnparsedRcpt == TRUE
ForwardPathOk == line.arg \in Recipients

\* OnRcpt has agreed.
addRecipient ==
    /\ ForwardPathOk /\ Answer(250)
    /\ forwardPaths' = Append(forwardPaths, line.arg)
    /\ state' = IF state < stateRcpt THEN stateRcpt ELSE state
    /\ UNCHANGED <<clientHostname, esmtp, tls, authenticated, invalidCmds,
                   reversePath, bdatBuffer, progress, history>>

handleRCPT ==
    /\ Cmd("RCPT")
    /\ \/ state < stateMail /\ Refuse(503)
       \/ state >= stateMail /\ ~RoomForRecipient /\ Refuse(452)
       \/ /\ state >= stateMail /\ RoomForRecipient
          /\ \/ ~ForwardPathOk /\ Refuse(501)
             \/ ForwardPathOk /\ \E c \in Errors(451) : Refuse(c)
             \/ addRecipient

Message(size, end) ==
    [from |-> reversePath, to |-> forwardPaths, size |-> size, end |-> end,
     authenticated |-> authenticated]

MutFallThrough(c) == /\ pc' = "loop" /\ reply' = 250
                     /\ answered' = IF c = 0 THEN 1 ELSE 2
AnswerData(c) == Answer(IF c = 0 THEN 250 ELSE c)

\* OnData has returned c for message m, and the handler writes its final
\* reply and resets; m.end is how the body ended.
finish(c, m) ==
    /\ AnswerData(c)
    /\ resetTransaction
    /\ state' = stateGreeted
    /\ acked' = 0
    /\ accepted' = IF c = 0 THEN m ELSE NoMessage
    /\ UNCHANGED <<clientHostname, esmtp, tls, authenticated, invalidCmds,
                   offered, mailTls>>

Running == -1        \* OnData has not returned

MutDataWithoutRcpt == state < stateMail
DataRefused == state < stateRcpt

\* 354, and OnData is called with a new dotReader.
startData ==
    /\ pc' = "data" /\ reply' = 354 /\ answered' = 0
    /\ state' = stateData
    /\ body' = [rd |-> "open", onData |-> Running, size |-> 0]
    /\ UNCHANGED <<clientHostname, esmtp, tls, authenticated, invalidCmds,
                   txnVars, chunk, history>>

handleDATA ==
    /\ Cmd("DATA")
    /\ \/ DataRefused /\ Refuse(503)
       \/ ~DataRefused /\ startData

\* The dotReader takes one line for OnData or, after it, for the drain.
dataRead ==
    /\ pc = "data" /\ body.rd = "open" /\ Recv
    /\ body' = IF line.verb = "." THEN [body EXCEPT !.rd = "dot"]
               ELSE [body EXCEPT !.size = Units(@ + 1)]
    /\ UNCHANGED <<pc, session, chunk, net, out, history>>

\* The dotReader meets a read error and goes to dotStateEOF.  OnData sees the
\* error ("err") only if no byte was read in the same call and the error is
\* not io.EOF; otherwise it sees a normal end of the body ("cut").
dataReadError ==
    /\ pc = "data" /\ body.rd = "open" /\ ReadFails
    /\ \E e \in {"cut", "err"} : body' = [body EXCEPT !.rd = e]
    /\ UNCHANGED <<pc, session, chunk, rbuf, net, out, history>>

\* OnData returns, possibly before it has read the whole body.
dataReturns ==
    /\ pc = "data" /\ body.onData = Running
    /\ \E c \in Outcomes(451) : body' = [body EXCEPT !.onData = c]
    /\ UNCHANGED <<pc, session, chunk, rbuf, net, out, history>>

MutNoDrain == body.onData # Running
DataDrained == body.onData # Running /\ body.rd # "open"

\* The drain has ended: the final reply and the reset.
dataDone ==
    /\ pc = "data" /\ DataDrained
    /\ finish(body.onData, Message(body.size, body.rd))
    /\ body' = NoBody
    /\ UNCHANGED <<chunk, rbuf, net>>

startChunk ==
    /\ pc' = "bdat" /\ answered' = 0
    /\ chunk' = [left |-> line.n, size |-> line.n, last |-> line.opt = "LAST"]
    /\ UNCHANGED <<session, body, reply, history>>

handleBDAT ==
    /\ Cmd("BDAT")
    /\ \/ state < stateRcpt /\ Refuse(503)
       \/ state >= stateRcpt /\ line.arg # "size" /\ Refuse(501)
       \/ state >= stateRcpt /\ line.arg = "size" /\ startChunk

bdatRead ==
    /\ pc = "bdat" /\ chunk.left > 0 /\ Recv
    /\ chunk' = [chunk EXCEPT !.left = @ - 1]
    /\ UNCHANGED <<pc, session, body, net, out, history>>

MutKeepPartialChunk == bdatBuffer' = Units(bdatBuffer + chunk.size)
DropChunk == UNCHANGED bdatBuffer

\* io.ReadFull fails: handleBDAT returns without a reply and drops the chunk.
bdatReadError ==
    /\ pc = "bdat" /\ chunk.left > 0 /\ ReadFails
    /\ pc' = "loop" /\ DropChunk /\ chunk' = NoChunk
    /\ UNCHANGED <<state, clientHostname, esmtp, tls, authenticated,
                   invalidCmds, reversePath, forwardPaths, body, rbuf,
                   net, out, history>>

\* A chunk that is not the last is buffered and answered.
keepChunk ==
    /\ Answer(250)
    /\ bdatBuffer' = Units(bdatBuffer + chunk.size)
    /\ acked' = Units(acked + chunk.size)
    /\ UNCHANGED <<state, clientHostname, esmtp, tls, authenticated,
                   invalidCmds, reversePath, forwardPaths, offered, mailTls,
                   accepted>>

\* The chunk is complete; after LAST, the whole buffer goes to OnData.
bdatDone ==
    /\ pc = "bdat" /\ chunk.left = 0
    /\ \/ ~chunk.last /\ keepChunk
       \/ /\ chunk.last
          /\ \E c \in Outcomes(451) :
                finish(c, Message(Units(bdatBuffer + chunk.size), "dot"))
    /\ chunk' = NoChunk
    /\ UNCHANGED <<body, rbuf, net>>

handleRSET ==
    /\ Cmd("RSET") /\ Answer(250) /\ resetTransaction
    /\ state' = IF state > stateGreeted THEN stateGreeted ELSE state
    /\ UNCHANGED <<clientHostname, esmtp, tls, authenticated, invalidCmds,
                   progress, history>>

----------------------------------------------------------------------------
(* Commands that change no state *)

handleNOOP == Cmd("NOOP") /\ Refuse(250)
handleEXPN == Cmd("EXPN") /\ Refuse(502)
handleVRFY ==
    /\ Cmd("VRFY")
    /\ \/ ~VrfyHandler /\ Refuse(252)
       \/ VrfyHandler /\ \E c \in Outcomes(451) :
                              Refuse(IF c = 0 THEN 250 ELSE c)
handleQUIT ==
    /\ Cmd("QUIT")
    /\ pc' = "closed" /\ reply' = 221 /\ answered' = 1
    /\ UNCHANGED <<session, progress, history>>

----------------------------------------------------------------------------
(* AUTH *)

\* What base64Decode makes of a line read as a SASL response: "good" is well
\* formed for the mechanism, "malformed" decodes to something else, "invalid"
\* does not decode.  A bare verb of 4 or 8 letters is itself valid base64.
Response(l) == IF l.verb = "b64" THEN l.arg
               ELSE IF l.verb \in Verbs /\ l.arg = Empty THEN "malformed"
               ELSE "invalid"

MutAuthUngreeted == ~authenticated
AuthAllowed == state = stateGreeted /\ ~authenticated

\* A 334 challenge, after which the handler reads again.
Challenge(p) ==
    /\ pc' = p /\ reply' = 334 /\ answered' = 0
    /\ UNCHANGED <<session, progress, history>>

login ==
    /\ Answer(235) /\ authenticated' = TRUE
    /\ UNCHANGED <<state, clientHostname, esmtp, tls, invalidCmds, txnVars,
                   progress, history>>

\* authHandler.Authenticate is called.
Authenticate == login \/ \E c \in Errors(535) : Refuse(c)

\* PLAIN and CRAM-MD5 need a well-formed response.
Check(resp) == IF resp = "good" THEN Authenticate ELSE Refuse(501)

handleAUTH ==
    /\ Cmd("AUTH")
    /\ \/ ~AuthHandler /\ Refuse(502)
       \/ AuthHandler /\ ~AuthAllowed /\ Refuse(503)
       \/ /\ AuthHandler /\ AuthAllowed
          /\ \/ /\ line.arg \notin {"PLAIN", "LOGIN", "CRAM-MD5"}
                /\ Refuse(501)
             \/ line.arg = "PLAIN" /\ line.opt # Empty /\ Check(line.opt)
             \/ line.arg = "PLAIN" /\ line.opt = Empty /\ Challenge("authPLAIN")
             \/ line.arg = "LOGIN" /\ Challenge("authUser")
             \/ line.arg = "CRAM-MD5" /\ Challenge("authCRAM")

authPcs == {"authPLAIN", "authUser", "authPass", "authCRAM"}

\* The response of authPLAIN or authCRAMMD5; "*" cancels with 501, and does
\* not decode either.
authResponse ==
    /\ pc \in {"authPLAIN", "authCRAM"} /\ Recv /\ ~TooLong
    /\ Check(Response(line))
    /\ UNCHANGED net

\* authLOGIN's two responses: any base64 will do.
authLOGIN ==
    /\ pc \in {"authUser", "authPass"} /\ Recv /\ ~TooLong
    /\ IF Response(line) = "invalid" THEN Refuse(501)
       ELSE IF pc = "authUser" THEN Challenge("authPass")
       ELSE Authenticate
    /\ UNCHANGED net

\* The read of a SASL response fails: the handler returns without a reply.
authReadError ==
    /\ pc \in authPcs /\ RecvErr
    /\ pc' = "loop"
    /\ UNCHANGED <<session, progress, net, out, history>>

----------------------------------------------------------------------------
(* STARTTLS *)

startTLS ==
    /\ pc' = "tls" /\ reply' = 220 /\ answered' = 1
    /\ UNCHANGED <<session, progress, history>>

handleSTARTTLS ==
    /\ Cmd("STARTTLS")
    /\ \/ ~TLSConfig /\ Refuse(502)
       \/ TLSConfig /\ tls /\ Refuse(503)
       \/ TLSConfig /\ ~tls /\ startTLS

MutKeepBuffer == UNCHANGED rbuf
ReplaceConn == rbuf' = <<>>

MutKeepGreeting == UNCHANGED <<state, clientHostname, esmtp>>
ForgetGreeting == state' = stateNew /\ clientHostname' = Empty /\ esmtp' = FALSE

\* tls.Server(...).Handshake() succeeds: what bufio still held is discarded.
handshakeOk ==
    /\ pc = "tls" /\ ~peerClosed /\ down # "ncClosed"
    /\ pc' = "loop" /\ tls' = TRUE
    /\ ReplaceConn /\ resetTransaction /\ ForgetGreeting
    /\ UNCHANGED <<authenticated, invalidCmds, progress, net, out, history>>

\* The handshake fails, having consumed bytes of the socket past those bufio
\* holds; the command loop goes on over the plaintext connection.
handshakeError ==
    /\ pc = "tls" /\ pc' = "loop"
    /\ \E i \in 0..Len(rbuf) : \E j \in i..Len(rbuf) :
          rbuf' = SubSeq(rbuf, 1, i) \o SubSeq(rbuf, j + 1, Len(rbuf))
    /\ UNCHANGED <<session, progress, net, out, history>>

----------------------------------------------------------------------------
(* The peer, Server.Shutdown and the watcher goroutine *)

\* A line reaches the server.  During the handshake the peer speaks TLS.
PeerSend ==
    /\ pc \notin {"tls", "closed"} /\ ~peerClosed /\ down # "ncClosed"
    /\ Len(rbuf) < Window
    /\ \E l \in Input : rbuf' = Append(rbuf, [line |-> l, secure |-> tls])
    /\ UNCHANGED <<pc, session, progress, net, out, history>>

PeerClose ==
    /\ pc # "closed" /\ ~peerClosed /\ peerClosed' = TRUE
    /\ UNCHANGED <<pc, session, progress, rbuf, down, out, history>>

\* close(s.quit), then the watcher's cancel(), then its nc.Close().
Quit ==
    /\ pc # "closed" /\ down = "up" /\ down' = "quit"
    /\ UNCHANGED <<pc, session, progress, rbuf, peerClosed, out, history>>

watcherCancel ==
    /\ pc # "closed" /\ down = "quit" /\ down' = "cancelled"
    /\ UNCHANGED <<pc, session, progress, rbuf, peerClosed, out, history>>

MutNoClose == down' = "cancelled"
CloseConn == down' = "ncClosed"

watcherClose ==
    /\ pc # "closed" /\ down = "cancelled" /\ CloseConn
    /\ UNCHANGED <<pc, session, progress, rbuf, peerClosed, out, history>>

----------------------------------------------------------------------------
Init ==
    /\ pc = "start"
    /\ state = stateNew /\ clientHostname = Empty /\ esmtp = FALSE
    /\ tls = FALSE /\ authenticated = FALSE /\ invalidCmds = 0
    /\ reversePath = NoPath /\ forwardPaths = <<>> /\ bdatBuffer = 0
    /\ body = NoBody /\ chunk = NoChunk
    /\ rbuf = <<>> /\ peerClosed = FALSE /\ down = "up"
    /\ reply = 0 /\ answered = 0
    /\ offered = {} /\ acked = 0 /\ mailTls = FALSE
    /\ accepted = NoMessage

\* The session goroutine, its callbacks included.
SessionStep ==
    \/ start \/ loopTop \/ readError \/ unrecognized
    \/ handleEHLO \/ handleHELO \/ handleMAIL \/ handleRCPT
    \/ handleDATA \/ dataRead \/ dataReadError \/ dataReturns \/ dataDone
    \/ handleBDAT \/ bdatRead \/ bdatReadError \/ bdatDone
    \/ handleRSET \/ handleNOOP \/ handleQUIT \/ handleVRFY \/ handleEXPN
    \/ handleAUTH \/ authResponse \/ authLOGIN \/ authReadError
    \/ handleSTARTTLS \/ handshakeOk \/ handshakeError

WatcherStep == watcherCancel \/ watcherClose

\* handleConn has returned.
Ended == pc = "closed" /\ UNCHANGED vars

Next == SessionStep \/ WatcherStep \/ PeerSend \/ PeerClose \/ Quit \/ Ended

\* The session is in a read that only a deadline can end.
Blocked ==
    /\ rbuf = <<>> /\ ~peerClosed /\ down # "ncClosed"
    /\ \/ pc \in {"read", "tls"} \cup authPcs
       \/ pc = "data" /\ body.rd = "open"
       \/ pc = "bdat" /\ chunk.left > 0

\* The Go scheduler runs both goroutines, and callbacks that are not reading
\* return; the peer owes nothing.
Fairness == WF_vars(~Blocked /\ SessionStep) /\ WF_vars(WatcherStep)

\* A read deadline expires in the end.
Deadlines == WF_vars(SessionStep)

Spec == Init /\ [][Next]_vars /\ Fairness
----------------------------------------------------------------------------
(* Properties *)

pcs == {"start", "loop", "read", "data", "bdat", "tls", "closed"}
       \cup authPcs

Hosts == {l.arg : l \in Input}
Lines == [line: Input, secure: BOOLEAN]
Bodies == [rd: {"open", "dot", "cut", "err"},
           onData: {Running} \cup Outcomes(451), size: 0..MaxUnits]
Chunks == [left: Nat, size: Nat, last: BOOLEAN]
Messages == [from: Senders \cup {NoPath}, to: Seq(Recipients), size: 0..MaxUnits,
             end: {"dot", "cut", "err"}, authenticated: BOOLEAN]

\* Every field of the session struct, the reader and the wire has its type.
TypeOK ==
    /\ pc \in pcs
    /\ state \in stateNew..stateData
    /\ clientHostname \in Hosts \cup {Empty}
    /\ esmtp \in BOOLEAN /\ tls \in BOOLEAN /\ authenticated \in BOOLEAN
    /\ invalidCmds \in Nat
    /\ reversePath \in Senders \cup {NoPath}
    /\ forwardPaths \in Seq(Recipients)
    /\ bdatBuffer \in 0..MaxUnits
    /\ body \in Bodies
    /\ chunk \in Chunks
    /\ rbuf \in Seq(Lines)
    /\ peerClosed \in BOOLEAN
    /\ down \in {"up", "quit", "cancelled", "ncClosed"}
    /\ reply \in 0..599 /\ answered \in 0..2
    /\ offered \subseteq {"SIZE", "STARTTLS", "AUTH"}
    /\ acked \in 0..MaxUnits
    /\ mailTls \in BOOLEAN
    /\ accepted \in Messages

\* The state says exactly what the envelope holds, whatever mix of EHLO, RSET,
\* STARTTLS, refused commands, chunks and failed reads came before: a sender
\* from stateMail on, recipients (never over the limit) from stateRcpt on, and
\* buffered chunks in no earlier state.
EnvelopeInv ==
    /\ state >= stateMail <=> reversePath # NoPath
    /\ state >= stateRcpt <=> forwardPaths # <<>>
    /\ state < stateRcpt => bdatBuffer = 0
    /\ Len(forwardPaths) <= MaxRecipients

\* Where the goroutine is agrees with the state it dispatches on: no error
\* path of handleDATA leaves stateData behind, an AUTH exchange never runs
\* inside a transaction or once authenticated, and chunks only arrive for a
\* transaction with recipients.
PhaseInv ==
    /\ state = stateData <=> pc = "data"
    /\ pc \in authPcs => state = stateGreeted /\ ~authenticated
    /\ pc = "bdat" => state = stateRcpt
    /\ pc = "tls" => ~tls

\* In submission mode no transaction is open, and no message has been
\* accepted, without a successful AUTH before it.
SubmissionGate ==
    SubmissionMode =>
        /\ state >= stateMail => authenticated
        /\ accepted.from # NoPath => accepted.authenticated

\* Pipelined plaintext is never read as if it came over TLS: every line the
\* session can still read arrived on the layer the session is now on.
NoPlaintextAfterTLS == \A i \in 1..Len(rbuf) : rbuf[i].secure = tls

\* A transaction never straddles STARTTLS, even begun before it and with the
\* handshake in the middle.
TransactionLayer == state >= stateMail => mailTls = tls

\* What the EHLO reply offered still holds for as long as the client may rely
\* on that EHLO: a session that is esmtp and was offered STARTTLS can run it,
\* and knows the client's name; one that is not greeted has no EHLO standing.
OfferStands ==
    /\ esmtp /\ "STARTTLS" \in offered => TLSConfig /\ ~tls
    /\ state = stateNew <=> clientHostname = Empty
    /\ esmtp => state # stateNew

\* Nothing of the session's view of the client survives a change of layer.
LayerInv == TransactionLayer /\ OfferStands

\* A connection that is still served has used less than its allowance of
\* unrecognized commands; no RSET, EHLO, AUTH or STARTTLS renews it.
InvalidLimit ==
    MaxInvalidCmds > 0 /\ pc # "closed" => invalidCmds < MaxInvalidCmds

\* The chunks buffered for a transaction are those answered 250 in it: none is
\* left over from an aborted one, none that failed half way is kept.
ChunkIsolation == state >= stateMail => bdatBuffer = acked

\* While the connection is good, a message is accepted only when its body was
\* read up to the terminating dot, even if OnData returned early.
BodyWhole == ~ReadFails => accepted.end = "dot"

\* Back at the top of the loop, with the peer connected and no shutdown, the
\* command just handled has had exactly one reply.
OneReply == pc = "loop" /\ ~peerClosed /\ down = "up" => answered = 1

\* The strengthening that makes the invariants above inductive: a body is cut
\* short only by a failed read, and a delivery is on record only until the
\* loop comes round.
DeliveryInv ==
    /\ body.rd \in {"cut", "err"} => ReadFails
    /\ pc # "loop" => accepted = NoMessage

SafetyInv ==
    /\ EnvelopeInv /\ PhaseInv /\ SubmissionGate /\ NoPlaintextAfterTLS
    /\ TransactionLayer /\ OfferStands /\ InvalidLimit /\ ChunkIsolation
    /\ BodyWhole /\ DeliveryInv

\* Session implements Transaction.
Txn == INSTANCE Transaction WITH
    open <- state >= stateMail, from <- reversePath, to <- forwardPaths,
    authorised <- authenticated,
    delivered <- [from |-> accepted.from, to |-> accepted.to]

\* Seen from the envelope alone, the protocol does what Transaction allows:
\* whatever the commands and their order, recipients are delivered once, as
\* accepted, for the sender accepted before them.
TransactionSpec == Txn!Spec

\* After close(s.quit) the session ends, wherever it was blocked, without the
\* help of a deadline.
ShutdownEndsSession == down # "up" ~> pc = "closed"

\* A peer that stops sending is dropped: read deadlines get the session out of
\* every read, those inside AUTH, DATA, BDAT and the handshake included.
SilentPeerDropped ==
    Deadlines /\ <>[][~PeerSend]_vars => <>(pc = "closed")
=============================================================================
