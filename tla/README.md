# A TLA+ model of smtp.go

This directory is a verification project for `github.com/alexisbouchez/smtp.go`,
an SMTP client and server library in Go. It models the server, the client, the two
talking to each other, and the encodings between them (dot-stuffing, addresses,
error replies); it checks them with TLC on small instances, and proves with TLAPS,
for every value of the parameters, the safety invariants of the server and of the
client, that a session implements its abstract specification, where the dot-reader
stops, that client and session composed deliver a message at most once, and that what
`SendMail` and `SubmitMessage` return is the truth about their message.
Line numbers are those of the commit the project sits beside;
`PROJECT.json` maps every definition to its lines.

## The system

| Part | State | Operations | Hard because |
|---|---|---|---|
| **Session** `smtpserver/session.go` | `session` struct: state, hostname, esmtp, tls, authenticated, invalidCmds, envelope, BDAT buffer | `handleConn` and one handler per verb; watcher goroutine | a long-lived protocol state with many ways to reset it; handlers that read again; deadlines; shutdown at any point; STARTTLS with pipelined input |
| **Server** `smtpserver/server.go` | listener, `quit` channel, semaphore, WaitGroup | `Serve`, `Shutdown`, `Close` | goroutines racing on each of the four |
| **textproto** `internal/textproto` | bufio reader and writer, dot-reader automaton | `ReadLine`, replies, dot-stuffing, `ReplaceConn` | partial reads and read errors; byte boundaries |
| **Client** `smtpclient/client.go` | connection, extensions, tls flag | `Dial`, `NewClient`, `Mail`, `Rcpt`, `Data`, `Bdat`, `StartTLS`, `Auth`, `SendMail`, `SubmitMessage`, `Reset`, `Noop`, `Close` | deadlines and I/O errors that leave a reply in the stream; calls that fail half way; a TLS upgrade in the middle |
| **SASL** `auth.go` | LOGIN's step counter | `Start`, `Next` | a counter nobody resets |
| **Addresses** `address.go` | none | parsers and validators | quoting, more than one `@`, limits |
| **Errors, replies, extensions** root package | none | formatting, parsing | text that changes how a reply is framed |

`Serve` gives each accepted connection a goroutine that runs `handleConn`;
`handleConn` starts a watcher that waits for `quit`. Only the session's goroutine
touches the `session` struct. It talks to the peer through `textproto.Conn`, and to
the application through callbacks (`OnConnect`, `OnHelo`, `OnMail`, `OnRcpt`,
`OnData`, `OnVrfy`, `Authenticate`). `Shutdown` and `Close` talk to the sessions
through `quit` only, and `Shutdown` waits for them with the WaitGroup.

What makes each part correct:

* Session: an envelope never survives the transaction it belongs to, and is
  delivered once, whole, with the recipients accepted for it; no mail without
  authentication in submission mode; nothing received in plaintext is used over
  TLS; limits hold; one reply for a command; sessions end on shutdown and when the
  peer is silent.
* Server: at most `maxConnections` sessions, and no slot lost; after `Shutdown`
  nothing is served; `Serve` and `Shutdown` return.
* textproto: what the dot-writer writes the dot-reader reads, for all buffer sizes.
* Client: a reply is taken by the command it answers; a call tells the truth about
  its message; an upgrade leaves nothing of the plaintext connection behind; no
  connection leaks; a call with a deadline returns.
* Client and server: they stay in step, on the same layer, and never wait for each
  other.
* Addresses and errors: what one end sends the other end understands as sent.

## Modules

| Module | What it is |
|---|---|
| `Transaction` | abstract specification: what the protocol promises about envelopes and deliveries |
| `Session` | one connection: session goroutine, watcher, peer, callbacks |
| `SessionClaims` | what the documentation says of a session and the code does not do |
| `SessionProofs` | TLAPS proofs about `Session`: types, safety, it implements `Transaction`, one reply for a command |
| `MCSession` | line sets for TLC |
| `Server` | the accept loop, connection goroutines, `Shutdown`, `Close` |
| `ServerClaims`, `ServerProofs`, `MCServer` | the same for `Server` |
| `Client` | one client, its calls and mechanisms, against any server |
| `ClientClaims`, `ClientProofs`, `MCClient` | the same for `Client` |
| `LockstepProofs` | TLAPS proof that a clean client stays in step with its server |
| `Mailer` | abstract specification: what `SendMail` and `SubmitMessage` promise |
| `Dialogue`, `MCDialogue` | `Client` and `Session` composed |
| `DialogueProofs` | what is proved of the two holds of the composition; at most one delivery |
| `DialogueLockstep` | the composed client and session each know where the other is |
| `MailerProofs` | `Dialogue` implements `Mailer` |
| `DotStuffing`, `DotProofs`, `MCDotStuffing` | the byte automata of `dot.go` |
| `Address`, `ReplyCodec` | parsers and formatters as operators |
| `Text`, `MCText` | the two put to use: every short address and message |

`Dialogue` composes `Client` and `Session` (`INSTANCE`), `Session` implements
`Transaction`, `Dialogue` implements `Mailer`, and `Server` sees a session as one
state whose end `Session` guarantees (`ShutdownEndsSession`).

### Session

The variables of the middle group are the fields of the `session` struct under
their own names. `pc` says where the goroutine is: `"loop"` at the top of the
command loop, `"read"` in `ReadLine`, `"data"`, `"bdat"`, `"tls"` and `"auth..."`
inside a handler that reads again. A handler that does not read again is one
action, named as in the code; the others are split at their reads, for that is
where the peer and the watcher can act:

* DATA: `handleDATA` (354), `dataRead`, `dataReadError`, `dataReturns` (OnData
  returns, at any time), `dataDone` (drain finished, final reply, reset);
* BDAT: `handleBDAT`, `bdatRead`, `bdatReadError`, `bdatDone`;
* AUTH: `handleAUTH`, `authResponse`, `authLOGIN`, `authReadError`;
* STARTTLS: `handleSTARTTLS` (220), `handshakeOk`, `handshakeError`.

The byte stream is `rbuf`, a queue of lines that have arrived and not been read;
it stands for the socket and the bufio reader together, and remembers whether each
line came in over TLS. A line is a record of what the code tells apart: the verb,
a class of argument (a parsable path, junk, empty), AUTH's initial response (`"="`
counts as none, as in `authPLAIN`) or BDAT's `LAST`, and a chunk size in lines. The
same line means something else in another place: a command is body text after 354,
chunk data after BDAT, and a SASL response after 334 (`Response` says how it
decodes). That is what lets the model show data being read as commands.

A callback returns nil, an `SMTPError` with a code of `Refusals`, or another error,
which the handler maps to its default. `down` follows shutdown through the two steps
of the watcher, `cancel()` and then `nc.Close()`. `reply` and `answered` record what
was written for the current command; `offered`, `acked`, `mailTls` and `accepted` are
history variables for properties, and no action reads them except to update them.

`Transaction` sees only `open`, `from`, `to`, `authorised` and `delivered`; `Session`
implements it under the mapping at the end of the module.

### Server

Every step is one operation on shared state: the listening socket, `s.listener`,
`s.quit`, `s.connSem`, `s.wg`. `serve`, `conn[c]`, `stop[s]` and `waiter[s]` are the
program counters of the accept loop, of each connection's goroutine, of each call
of `Shutdown` or `Close`, and of the goroutine `Shutdown` starts. The deferred calls
of a connection run in the order Go runs them, slot first and `wg.Done` second.
`sync.WaitGroup` is modelled from its contract as far as the code meets it: a
`Wait` woken by the last `Done` panics if the counter has been raised again before
it returns. A panic, there or in `close` of a closed channel, ends the process
(`crashed`). What a session does is left to `Session`.

### Client

A call of the application is a sequence of steps, `todo`, each named by the command
it sends: `SendMail` is MAIL, a RCPT per recipient, and DATA; `SubmitMessage` puts
STARTTLS, if it applies, and AUTH before them; a successful handshake replaces its
step by EHLO, and a rejected EHLO by HELO. `at` is where the client's goroutine is in
the head of `todo`: about to write (`"send"`, `"body"`, `"respond"`), in `ReadReply`
(`"reply"`, `"final"`, `"cancel"`), or in the TLS handshake. Steps that only send a
command and want one code share `Exchange`; the others have actions of their own
(`greeting`, `ehloReply`, `dataReply`, `sendBody`, `authReply`, `respond`...).

`rbuf` is what the client has written and the server has not read, in the lines of
`Session`; `wire` is the reply lines on their way back, of which `ReadReply` takes a
whole reply, fails on a malformed one, or loses its beginning to a read error.
`deadline` is the connection's: set or cleared at the beginning of a call, inherited
by `Close`, cleared by `NewClient`, and once expired every read and write fails.
`werr` is bufio's sticky write error. `mech` is the one `LoginAuth` value an
application may keep and pass again.

The server of this module (`srv`, marked external in the map) answers each command
with any of the replies the client tells apart, may stay silent for ever, send a
malformed reply or close with or without 421. `clean` says that no call has left the
stream with a reply unread or a command unfinished: the code does nothing about such
a stream, and the properties about being in step say what holds before that happens.

### Dialogue

Both modules are instantiated over one state: the client's `rbuf` is the session's,
the session's `pc` stands for the client's view of the server, `peerClosed` is
`~open`, and the lines the session may receive are those a client can write
(`Steps`). A session step that writes a reply appends its lines to `wire`: an EHLO
reply is a greeting line and the extensions, the last invalid command gets its 500
and the 421. The TLS handshake is a joint step. `attempts`, `landed`, `mail` and `mark`
are history: calls that may deliver, messages delivered, and what the call in
progress is to deliver; they give the refinement mapping to `Mailer`.

`Mailer` sees the message of the call in progress (`sending`), what has been handed to
the handler since the call began (`delivered`), what the last call returned (`told`) and
whether the connection is intact. A call may return nil (`Succeed`) only with its own
message delivered and nothing else, and an error (`Fail`) only with nothing delivered;
a call that sends no message (`Other`) delivers none. An I/O error of the client, or the
close of the connection by a shutdown, breaks the connection, and `Mailer` then promises
nothing more.

### DotStuffing

`stream` is all bytes sent since 354, `pos` how many the reader has taken. The writer
side is either the library's `dotWriter` (`Write` per byte, `Close`, then the first
byte of the next command) or a foreign client that sends anything. `Read(l)` begins a
`Read` with a buffer of `l` bytes and each turn of its loop is one action, one per
case of the `switch`; `n` and `len` are the locals. What the body is supposed to be is
defined separately, from the stream as a whole (`IsMark`, `Stuffing`, `Held`).

### Address, ReplyCodec, Text

Pure operators named after the Go functions. A character is itself where `address.go`
looks at it and a class otherwise; `MaxLocal`, `MaxDomain` and `MaxLabel` are 64, 255
and 63 in the code and small in the run, so that they are exceeded. The reference is
the grammar of RFC 5321 read off without scanning (`QuotedContent` counts
backslashes, `HostName` looks at labels). In `ReplyCodec` a text is a sequence of
words and newlines. `Text` is the state machine that spells every address and every
message up to its bounds, so that TLC evaluates the properties on all of them.

## Runs

| Run | Shows |
|---|---|
| `transaction` | envelope, chunk and body integrity, one reply, refinement of `Transaction`; DATA and BDAT with two recipients |
| `pipeline` | nothing crosses STARTTLS, with two lines in flight |
| `submission` | authentication gate, invalid-command limit, no half state after a failed read; every AUTH exchange, deadlines on; shutdown ends the session without the help of deadlines, and with them a silent peer is dropped |
| `server` | slots, WaitGroup, rejection, quiescence, what can crash the process, and that `Serve` and `Shutdown` return; three connections, two slots, a `Shutdown` and a `Close` |
| `client` | every call against any server: in step, refreshed by TLS, no fallback to plaintext, order of LOGIN, no leaked connection, calls return |
| `dialogue` | client and session together: in step, same layer and extensions, at most one delivery per call, recovery by `Reset`, no mutual waiting, refinement of `Mailer` |
| `dots` | reader inverts writer, stops at the mark and only there, hands out every byte once |
| `text` | parsers against the grammar, paths and errors from one end to the other |
| `claim_*` | one documented statement each, refuted (see Findings) |

**Bounds.** `Window` is the number of lines that may be in flight. One is enough for
all orders of reads and arrivals except those about what is already buffered when
the connection is replaced; `pipeline` has two, so that a plaintext command can
follow STARTTLS in the buffer while another has been read. `MaxUnits` saturates
sizes; two tells an empty, a partial and a complete sum of two chunks apart.
Recipient and invalid-command limits of 1 or 2 are reached and passed in every run
that is about them. In `Server`, `Conns` has more members than slots, so connections
are rejected, wait, and take a freed slot. In `Client` and `Dialogue`, `MaxCalls = 2`
calls follow the constructor: what one call leaves in the stream or in the struct
meets one more, and `Close` is not counted. `SubmitMessage` alone is up to nine
exchanges. `MaxChallenges = 3` is one more than any mechanism answers. `dialogue` has
two recipients, so that the second may be refused, and a refusal code of 500, so that
EHLO falls back to HELO. `dots` has five bytes: the longest thing the automata look
at, a line end with a dot, a CR and a byte behind it, and buffers of one to three
bytes, for the reader never needs room for more than three at once. `text` has six
characters, enough for a quoted local part with an escape, and four words.

**Deadlock** is checked everywhere. A finished session, a finished or crashed server,
a client that is not in a call, a body that has ended and a text that is spelt stutter
explicitly (`Ended`, `Done`, `Spelt`).

**Fairness.** In `Session` the session and the watcher goroutines run when they can
(Go's scheduler) and a callback that is not reading the body returns. A step that
only an expired deadline makes possible is not forced (`Blocked`), and nothing is
assumed of the peer. `SilentPeerDropped` assumes in addition that deadlines expire
(`Deadlines`): `SetReadDeadline` is called before every command (line 101) and stays in
force inside handlers. `ShutdownEndsSession` does without. In `Server`, runnable
goroutines run, an `Accept` on a closed listener fails, and a session ends once `quit`
is closed, which is what `ShutdownEndsSession` shows of `Session`. Nobody has to dial,
to call `Shutdown`, or to let a context expire. In `Client` a call that can go on does,
and a deadline that is set expires; the server owes nothing, not even an answer, and
the application need not call. `Dialogue` states no fairness: that the two never wait
for each other is an invariant there (`NoMutualWait`).

### Mutants

The definitions named `Mut*` are slips that could be made in the definition after
them: a dropped guard, an off-by-one, a missing reset. No behaviour uses them.
`PROJECT.json` pairs each property of a passing run with one that it catches.

## Findings

Statements of the repository that a run refutes:

1. `claim_tls`: `docs/explanation/security.md:69` says STARTTLS clears authentication;
   `handleSTARTTLS` keeps `authenticated`.
2. `claim_body`: `handler.go:33` says OnData gets a fully received body; a read error
   in the middle of a body is a normal end of it for OnData, and the message is
   accepted. The peer may be gone, but after an expired deadline the session even
   reads the rest of the body as commands.
3. `claim_serve`: `server.go:170`; `Shutdown` before `Serve` has set `s.listener` closes
   nothing, and `Serve` never returns.
4. `claim_submit`: `docs/explanation/security.md:19` says `SubmitMessage` upgrades to TLS
   before it authenticates; when the server offers no STARTTLS, or there is no TLS
   configuration, it authenticates in plaintext. (What does hold is
   `SubmitUpgrades`: an offered upgrade that fails ends the call.)

The model shows other divergences, without a run of their own:

* Session. A deadline that expires inside BDAT or AUTH leaves the command without a
  reply while the session goes on (`bdatReadError`, `authReadError`; against
  `rfcs/rfc5321.txt:2551`), so `OneReply` is checked without deadlines and over-long
  lines. DATA after BDAT delivers without the chunks already answered 250
  (`handleDATA`; against `docs/how-to/chunking.md:45`). The data of a BDAT refused with
  503 or 501 is parsed as commands (`handleBDAT`; against `rfcs/rfc3030.txt:188`). Only
  unknown verbs and NUL lines count towards the invalid-command limit, not commands
  out of sequence (`unrecognized`; against `docs/how-to/connection-limiting.md:18`). The
  maximum message size is advertised and not enforced (`Exts`; against
  `docs/how-to/connection-limiting.md:44`). A session that waits for a command is closed
  on shutdown without 421 (`readError` after `watcherClose`; against
  `docs/how-to/graceful-shutdown.md:45`), and active connections are not left open when
  the context expires (against line 48).
* Server. A connection accepted but not yet counted is served after `Shutdown` has
  returned nil, and the same race can make `Wait` panic (against `server.go:237`);
  `Quiescence` and `CrashCauses` are what is left of the promise: one straggler, and
  no other way to crash but a second close of `quit`.
* Client. A call that ends on its deadline leaves its reply to the next one (`Break`).
  A body reader that fails is followed by the terminating dot, so that the server
  accepts a truncated message (`sendBody`). When the EHLO after a handshake fails,
  the client is on TLS with the extensions it was offered in plaintext
  (`upgraded`, `ehloReply`). `NewClient` clears the deadline its caller set on the
  connection and may then wait for ever, and `Close` runs under the deadline of the
  call before it, or none (`greeting`, `Close`). A `LoginAuth` passed to a second call
  goes on where it was, and may send the password as the user name
  (`UseMechanism`).
* Dot-stuffing. A dot, a CR and a third byte at the beginning of a line, read with room
  for one byte, lose the CR (`falseAlarm`, `lost`; against the comment at `dot.go:122`).
  The library's writer never sends that, as `RoundTrip` shows. `Close` completes only a
  line that has no LF, so a body that ends in a bare LF is not given a CRLF (`Missing`;
  against `dot.go:184`).
* Text. A quoted local part with a space in it cannot be sent: the server cuts the
  path at the space and refuses it (`Received`). An address literal with an `@` in it is
  split there (`LastAt`; against the comment at `address.go:60`, which speaks of the
  last unquoted one). A newline in an `SMTPError`'s message puts lines without a code
  into the stream (`reply`, `OnTheWire`); `WireLines` would not, and the server does
  not use it.

## Proofs

`SessionProofs` proves `TypeOK` and `SafetyInv` for every set of input lines, senders,
recipients and refusal codes, every limit and every configuration of the server,
under the assumptions named in `Session`: sizes are naturals, `NoPath` is no sender,
limits are naturals, refusals are codes from 400 to 599. The parts of `SafetyInv`
follow as theorems: `EnvelopeCorrect`, `SubmissionSafe`, `TLSInjectionSafe`, `LayerSafe`,
`InvalidLimited`, `ChunksIsolated`, `PhasesAgree`, `BodiesWhole`.

The argument is one induction. The invariants are not inductive one by one:

* `EnvelopeInv` needs `PhaseInv`: a chunk that ends is buffered only because its
  handler runs in `stateRcpt`, and a body that ends resets a state that was
  `stateData`;
* `SubmissionGate` about a delivered message needs `EnvelopeInv` and the gate on the
  open transaction;
* `LayerInv` needs that a successful handshake goes back to `stateNew`, and
  `PhaseInv`'s `pc = "tls" => ~tls`;
* `BodyWhole` is about the history of a reader: `DeliveryInv` adds that a reader that
  was cut short was cut by a failed read, and that `ReadFails`, once true, stays
  true (a peer that closed stays closed, a closed connection too).

The proof first reduces each handler to the few things it can do (`...Cases`), then
shows types, then safety, one lemma per group of actions.

The last part of `SessionProofs` proves `ImplementsTransaction`: under the mapping at
the end of `Session` every step of a session is a step of `Transaction` or leaves what
`Transaction` sees alone. It has one lemma per thing that can happen to an envelope
(`ResetAborts`, `FinishDelivers`, ...) and one case per handler; it needs `SafetyInv`,
for instance to know that outside a transaction there is no sender left for `Begin` to
meet, and that nothing is reported as delivered while a command is being read.
`RepliesOnce` proves `OneReply` under `GoodReads`: no read timeouts and no line longer
than the buffer. That hypothesis is the finding about `bdatReadError` and
`authReadError` above: with timeouts the invariant is false.

`ServerProofs` proves `TypeOK` and `SafetyInv` of `Server` for any finite set of
connections, any limit, any sets of calls: `ConnectionLimit`, `WaitGroupCorrect`,
`ShutdownQuiesces`, `CrashesExplained`, and the action property `RejectSound`. The two
counters are related to the cardinality of the sets they count. `Quiescence` needs
`AcceptInv` (one connection in hand at a time, so that when `Wait` sees zero at most
that one is left) and `StopInv` (one call gets past `close(s.quit)`, and its waiter
starts after it closed the listener, so that no `Wait` can have finished before).
`CrashCauses` follows from the two: until the process crashes one call is past
`close(s.quit)`, and a `Wait` that was woken has seen every session but the straggler.

`DotProofs` proves `ReaderStops`: for every alphabet, every stream and every choice of
buffer lengths the reader takes bytes up to the first end mark and none behind it.
`StopsAtMark` speaks of all bytes taken and is not inductive; `ReaderInv` adds what the
automaton's state says about the last two. The delicate case is a dot, or a dot and a
CR, already handed out while `UnreadByte` has put back the byte that follows: in the
middle of a line these may stand before `pos` only if that byte keeps them from being
the mark. The proof has one lemma per action that takes a byte; the writer's actions
only append (`WriterAppends`).

`ClientProofs` proves `TypeOK`, `RefreshedByTLS`, `SubmitUpgrades`, `LoginOrder` and
`ConnectionReleased` for every set of messages, mechanisms, chunk sizes, contexts and
recipient lists, under `CallAssumption` of `Client`. The inductive invariant is
`CallInv`. It adds to these what a call's steps may look like: `PlaceInv` ties the place
of the goroutine to the head of `todo` and to the call in progress; `StepsInv` says
that STARTTLS and the greeting come first and that outside the constructors an EHLO
is over TLS, without which the EHLO after an upgrade could refresh a plaintext
client; `MechInv` counts the challenges of a LOGIN exchange against the counter in the
application's mechanism, which is what `LoginOrder` rests on. A step is first reduced
to its `Shape`, the few ways `todo`, `at` and the streams can change together; each
conjunct is then preserved shape by shape.

`LockstepProofs` proves `InStep` from `Lockstep`, which says for each place of the client
what is in both directions of the stream and where the server is: quiet before a
command, a command or its whole answer while a reply is awaited, the text and the dot
after 354, and so on. `InStep` speaks of the idle client only and says nothing of how
it got there.

`DialogueProofs` carries the results about the parts over to the composition: each step
of `Dialogue` is a step of `Client` or of `Session` as `ClientProofs` and
`SessionProofs` know it, seen through the instantiation, or a handshake, which is one
of both (`DialogueParts`: the types of both ends, and that they are on the same layer
whatever has gone wrong, timeouts and half-finished calls included). On top of that
`DeliversAtMostOnce` proves `AtMostOnce`, without any assumption that the ends are in
step. Its invariant counts: messages accepted, plus one if the call in progress
still has its delivering step ahead, plus the delivering lines (DATA, BDAT LAST) that
are written and not read, plus one if the session has such a command in hand, are
at most the calls that may deliver. `DeliversLast` says that the delivering step is
the last of its call, so that none is counted twice.

`DialogueLockstep` proves `DialogueInStep`, `LayersAgree`, `NoMutualWait` and
`ResetRecovers`. Its invariant
`InLock` holds as long as no call has left a reply unread or a command unfinished
(`clean`), the session has not ended and the client has not been given up. `Places` says
for each place of the client what both directions of the stream hold and where the
session is: at rest before a command; the command with its chunk, the handler reading
it, or its one reply while a reply is awaited; after 354, 220 and 334 a session that
waits for the body, the handshake or the response; the text up to its dot, and so on.
`Agree` says whose extensions the client goes by: those last offered, unless it is about
to read new ones, and that a 250 to HELO comes from a session that has forgotten its
EHLO. Two exceptions keep the invariant true (`Astray`): a reply that the shutdown's
close of the connection has swallowed, and a chunk refused out of sequence, whose data
the session goes on to read as commands; in both the client is still in the call that
will end with an error. `ReplyInv` ties the last reply to the handler that is running,
which tells a step that writes from one that does not. The session's 29 actions are
first reduced to the ten things a peer can see of a step (`Seen` in `SessionProofs`), the
client's steps to the five things they do to the stream (`Talks` in `ClientProofs`).
The theorems assume `~ReadTimeouts`: a BDAT or AUTH handler that gives up on a read
timeout answers nothing (a finding above), and the client then waits for a session that
waits for its next command.

`ResetRecovers` needs more, because the client may read the 250 after the session has
ended, which `InLock` says nothing of. `RenewInv` says that a 250 waiting for a client
that has sent RSET, and a `Reset` that has returned nil, both mean that the transaction is
gone. `RestInv` says what a session that has ended has left on the stream: a client that
is not waiting for a reply finds nothing there that it could take for a 250 (a last 421,
a 500), so that a later `Reset` cannot succeed on the reply to something else.

`MailerProofs` proves `DialogueImplementsMailer`: every step of the dialogue is, under the
mapping at the end of `Dialogue`, a step of `Mailer` or none. The invariant is `TruthInv`:
the lockstep invariants above, those of `DeliversAtMostOnce`, and `MailInv`, which follows
the message through the call. `Plan` says that the steps left in `todo` are what is left
of the message, counted from the end: DATA with a body of its size, before it the
recipients not yet sent, in order, before them MAIL, and before that only STARTTLS, EHLO,
HELO and AUTH; counting from the end is what makes it survive the handshake that puts an
EHLO in front and the HELO that takes its place. `Envelope` says that the session holds
the other part: the sender and the recipients whose 250 the client has read or is to
read (`Left`, `Holds`), and, while the body is on its way, as many lines of it as are
missing from the stream (`Unread`). `Outcome` says that the message has landed when the
client is to read a 250 to its body, and that before nothing has landed since the call
began. None of the three is inductive without the others: that a message that lands is
the right one rests on `Envelope`, which is renewed by each 250 only because the command
it answers came from `Plan`, and that a call that fails has delivered nothing rests on
the lockstep, without which the 250 it reads could be that of an earlier command. The
proof has a lemma for each thing that may happen: a command is answered (`CommandMail`),
the body is read and answered (`FinalMail`), the session ends (`PartingMail`), the client
sends, hears and goes on (`SendsMail`, `SendsBodyMail`, `HearsMail`), a handshake, a new
call (`HandshakeMail`, `BeginMail`). `~ReadTimeouts` is needed here too, and twice: for the
lockstep, and because a body cut short by the server's deadline is delivered as if it
were whole (`BodyWhole`, `claim_body`).

Only model-checked:

* liveness (`CallReturns`, `ShutdownEndsSession`, `SilentPeerDropped`, and that `Serve` and
  `Shutdown` return), which this prover has no means for;
* `RoundTrip` and `Faithful`, which compare with a recursively defined decoding, and all
  of `Text`, because they need induction over data.

## Not modelled

* Write errors of the server and `writeTimeout` (never used by the code): a reply to a
  closed connection is lost, and no handler looks at the error except the greeting,
  which `start` models.
* Logging, wordings, MAIL and RCPT parameters (the client formats them, the server
  ignores them), `OnReset`, which returns nothing, and option functions, which only set
  fields before anything runs.
* `ServerMaxSize`, `Extensions`, `IsTLS`, `Addr`, and the predicates and constant tables of
  `reply.go`, `enhancedcode.go` and `extension.go`: they read and change nothing.
* The bytes of base64, HMAC and TLS, and invalid UTF-8 in domains.
* A context that is cancelled and not only expires (the client looks at deadlines
  alone), two goroutines using one `Client` (it is not made for that), a second `Serve`
  on one `Server`, and a callback that panics.

## Plan

Done: everything above. Left is a larger `dialogue`, with BDAT in several chunks and
PLAIN and CRAM-MD5 beside LOGIN, which has more states than fit a run of a few minutes;
the theorems about the dialogue already speak of any chunks and mechanisms.
