------------------------------ MODULE Dialogue ------------------------------
(***************************************************************************)
(* The library's Client talking to the library's Session: the lines the    *)
(* client writes are the lines the session reads, and each reply of the    *)
(* session is queued for ReadReply.  Faults: a client's deadline expires,  *)
(* a body reader fails, the server shuts down.                             *)
(***************************************************************************)
EXTENDS Integers, Sequences

CONSTANTS
    Calls, From, To, MessageReaders, BdatArgs, Mechanisms, TlsConfigured, Contexts,
    MaxCalls,
    Senders, Recipients, Refusals, MaxRecipients, MaxInvalidCmds,
    MaxMessageSize, SubmissionMode, TLSConfig, AuthHandler, VrfyHandler,
    ReadTimeouts, Window, MaxUnits,
    MayShutdown      \* the server may be shut down

VARIABLES
    at, api, todo, result, open, exts, ctls, mech, deadline, werr, wire, calls,
    extsTls, clean,                                           \* Client
    rbuf,                                                     \* both
    pc, state, clientHostname, esmtp, tls, authenticated, invalidCmds,
    reversePath, forwardPaths, bdatBuffer, body, chunk, down, reply, answered,
    offered, acked, mailTls, accepted,                        \* Session
    attempts,        \* history: calls that may deliver a message
    landed,          \* history: messages accepted by the server
    mail, mark       \* history: what SendMail or SubmitMessage is to deliver,
                     \* and landed's length when the call began

C == INSTANCE Client WITH tls <- ctls, srv <- pc
S == INSTANCE Session WITH peerClosed <- ~open, Input <- C!Steps

ASSUME DialogueAssumption ==
    /\ C!CallAssumption /\ S!PathAssumption /\ S!LimitAssumption
    /\ S!SwitchAssumption /\ S!RefusalAssumption

client == <<at, api, todo, result, open, exts, ctls, mech, deadline, werr,
            calls, extsTls, clean>>
server == <<pc, state, clientHostname, esmtp, tls, authenticated, invalidCmds,
            reversePath, forwardPaths, bdatBuffer, body, chunk, down, reply,
            answered, offered, acked, mailTls, accepted>>
ghosts == <<attempts, landed, mail, mark>>
vars == <<client, server, rbuf, wire, ghosts>>

\* The session has written a reply in this step: the second challenge of
\* LOGIN is one too.  A closed connection loses it.
Wrote == /\ down # "ncClosed" /\ open
         /\ \/ reply' # reply /\ reply' # 0
            \/ pc = "authUser" /\ pc' = "authPass"
            \/ pc = "loop" /\ pc' = "closed"

\* An EHLO is answered with a greeting line and the extensions, the last
\* error with a 421 of its own.
ReplyLines ==
    IF pc = "read" /\ reply' = 250 /\ Head(rbuf).line.verb = "EHLO"
    THEN C!Offer(offered')
    ELSE IF answered' = 2 THEN C!Reply(500) \o C!Reply(reply')
    ELSE C!Reply(reply')

Landed(m) == [from |-> m.from, to |-> m.to, size |-> m.size, end |-> m.end]

\* A step of the session goroutine; a server in a handshake waits for the
\* client's part of it, until something else arrives.
ServerStep ==
    /\ UNCHANGED client
    /\ \/ S!SessionStep /\ pc # "tls"
       \/ S!handshakeError /\ at # "handshake" /\ (rbuf # <<>> \/ S!ReadFails)
    /\ wire' = IF Wrote THEN wire \o ReplyLines ELSE wire
    /\ landed' = IF accepted' \notin {accepted, S!NoMessage}
                 THEN Append(landed, Landed(accepted')) ELSE landed
    /\ UNCHANGED <<attempts, mail, mark>>

Shutdown == UNCHANGED <<client, wire, ghosts>> /\ MayShutdown /\ S!Quit
Watcher == UNCHANGED <<client, wire, ghosts>> /\ S!WatcherStep

\* The message a call is to deliver, as the server is to accept it.
MailOf(steps) ==
    LET i == CHOOSE j \in DOMAIN steps : steps[j].verb = "MAIL"
    IN [from |-> steps[i].arg,
        to |-> [j \in 1..(Len(steps) - i - 1) |-> steps[i + j].arg],
        size |-> S!Units(steps[Len(steps)].n), end |-> "dot"]

Mailing == {"SendMail", "SubmitMessage"}
MayDeliver == \E i \in DOMAIN todo' : \/ todo'[i].verb = "DATA"
                                     \/ todo'[i].opt = "LAST"

\* A step of the client; the history is brought up to date when a call begins
\* and when it ends.
Track ==
    /\ attempts' = IF at = "idle" /\ MayDeliver THEN attempts + 1 ELSE attempts
    /\ mark' = IF at = "idle" THEN Len(landed) ELSE mark
    /\ mail' = IF api' \notin Mailing THEN {}
               ELSE IF at = "idle" THEN {MailOf(todo')} ELSE mail

ClientStep ==
    /\ C!ClientStep \/ C!Expire
    /\ Track /\ UNCHANGED <<server, landed>>

\* The handshake succeeds, fails for both, or fails for the client, whose
\* server has gone or whose context has closed the connection.
Handshake ==
    /\ \/ C!upgraded /\ S!handshakeOk
       \/ C!handshakeError /\ open' = open /\ S!handshakeError
       \/ C!handshakeError /\ (pc # "tls" \/ open' # open)
          /\ UNCHANGED <<server, rbuf>>
    /\ Track /\ UNCHANGED landed

Init == C!Init /\ S!Init
        /\ attempts = 0 /\ landed = <<>> /\ mail = {} /\ mark = 0

\* The session is over and the application makes no call.
Ended == pc = "closed" /\ ~C!Busy /\ UNCHANGED vars

Next == ServerStep \/ Shutdown \/ Watcher \/ ClientStep \/ Handshake \/ Ended

Spec == Init /\ [][Next]_vars
----------------------------------------------------------------------------
(* Properties *)

\* Between calls the two ends are in step: no command unread, no reply unread,
\* and the session is waiting for a command.
DialogueInStep ==
    at = "idle" /\ clean /\ pc # "closed" =>
        rbuf = <<>> /\ wire = <<>> /\ pc \in {"loop", "read"}

\* Both ends agree on the layer they talk over, and the extensions the client
\* goes by are those the session last offered, across STARTTLS, HELO after a
\* refused EHLO, and refused or failed upgrades.
LayersAgree ==
    at = "idle" /\ clean /\ pc # "closed" =>
        ctls = tls /\ (esmtp => exts = offered)

\* A call delivers at most one message, whatever is lost or out of step: a
\* duplicate needs a second call of the application.
AtMostOnce == Len(landed) <= attempts

\* After Reset has returned nil a transaction that a failed SendMail left open
\* is gone from the server, so that the next SendMail can begin.
ResetRecovers ==
    result = [api |-> "Reset", err |-> "nil"] /\ clean =>
        state < S!stateMail /\ forwardPaths = <<>>

\* The dialogue implements Mailer.
Mails == [from: From, to: To, size: 0..MaxUnits, end: {"dot"}]
M == INSTANCE Mailer WITH
    sending <- mail, intact <- clean /\ down # "ncClosed",
    told <- IF mail # {} \/ result.api \notin Mailing THEN "none"
            ELSE IF result.err = "nil" THEN "nil" ELSE "error",
    delivered <- IF mail = {} THEN <<>> ELSE SubSeq(landed, mark + 1, Len(landed))

\* SendMail and SubmitMessage tell the truth: they return nil when their message
\* has been delivered, once, whole and to their recipients, and only then; a
\* refusal means not delivered.  Only an I/O error of the client, or a server
\* that closes the connection on shutdown, leaves it open.
MailerSpec == M!Spec

\* Client and session never wait for each other: while they are in step, a
\* client that waits for a reply waits for a session that has something to do.
NoMutualWait ==
    clean /\ at \in {"reply", "final", "cancel"} /\ wire = <<>> /\ open
        => ~S!Blocked
=============================================================================
