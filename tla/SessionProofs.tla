--------------------------- MODULE SessionProofs ---------------------------
(***************************************************************************)
(* Safety of Session for every value of its constants: type correctness,   *)
(* then the inductive invariant behind the safety properties, what a step  *)
(* does to the envelope and to the body, and last the refinement of        *)
(* Transaction and the one reply of a command, which rest on it.           *)
(***************************************************************************)
EXTENDS Session, TLAPS

USE DEF stateNew, stateGreeted, stateMail, stateRcpt, stateData

\* The steps that read a line have a line of Input, and leave a queue of
\* lines.
LEMMA RecvType ==
    ASSUME TypeOK, Recv
    PROVE  /\ line \in Input
           /\ line.arg \in Hosts /\ line.n \in Nat
           /\ rbuf' \in Seq(Lines)
<1>1. rbuf \in Seq(Lines) /\ rbuf # <<>>
  BY DEF TypeOK, Recv
<1>2. Head(rbuf) \in Lines /\ Tail(rbuf) \in Seq(Lines)
  BY <1>1
<1>3. line \in Input
  BY <1>2 DEF line, Lines
<1> HIDE DEF line
<1>4. line.n \in Nat
  BY <1>3, InputAssumption
<1>5. line.arg \in Hosts
  BY <1>3 DEF Hosts
<1> QED BY <1>2, <1>3, <1>4, <1>5 DEF Recv

\* A callback's refusal is a reply code.
LEMMA ErrorCodes ==
    /\ \A c \in Errors(421) : c \in 1..599
    /\ \A c \in Errors(451) : c \in 1..599
    /\ \A c \in Errors(535) : c \in 1..599
    /\ \A c \in Outcomes(451) : c \in 0..599
    /\ 0 \in Outcomes(451)
  BY RefusalAssumption, SMTT(30) DEF Errors, Outcomes

\* Saturating counts stay within the bound.
LEMMA UnitsType == \A n \in Nat : Units(n) \in 0..MaxUnits
  BY LimitAssumption DEF Units

\* The idle values of the history and of the handlers' locals have their types.
LEMMA NothingType ==
    /\ NoBody \in Bodies
    /\ NoChunk \in Chunks
    /\ NoMessage \in Messages
<1>1. 0 \in 0..MaxUnits
  BY LimitAssumption
<1>2. <<>> \in Seq(Recipients)
  OBVIOUS
<1>3. NoBody \in Bodies
  BY <1>1, ErrorCodes DEF NoBody, Bodies
<1>4. NoChunk \in Chunks
  BY DEF NoChunk, Chunks
<1> QED BY <1>1, <1>2, <1>3, <1>4 DEF NoMessage, Messages

\* The counts a handler works with are natural numbers.
LEMMA CountTypes ==
    ASSUME TypeOK
    PROVE  /\ body \in Bodies /\ chunk \in Chunks
           /\ body.size \in Nat /\ chunk.size \in Nat
           /\ acked \in Nat /\ bdatBuffer \in Nat
<1>1. body \in Bodies /\ chunk \in Chunks
  BY DEF TypeOK
<1>2. body.size \in 0..MaxUnits /\ chunk.size \in Nat
  BY <1>1 DEF Bodies, Chunks
<1>3. acked \in 0..MaxUnits /\ bdatBuffer \in 0..MaxUnits
  BY DEF TypeOK
<1> QED BY <1>1, <1>2, <1>3, LimitAssumption

\* A new session has its types.
LEMMA InitType == Init => TypeOK
<1> SUFFICES ASSUME Init PROVE TypeOK
  OBVIOUS
<1>1. rbuf = <<>> /\ forwardPaths = <<>> /\ bdatBuffer = 0 /\ acked = 0
  BY DEF Init
<1>2. rbuf \in Seq(Lines) /\ forwardPaths \in Seq(Recipients)
  BY <1>1
<1>3. bdatBuffer \in 0..MaxUnits /\ acked \in 0..MaxUnits
  BY <1>1, LimitAssumption
<1>4. /\ esmtp \in BOOLEAN /\ tls \in BOOLEAN /\ authenticated \in BOOLEAN
      /\ peerClosed \in BOOLEAN /\ mailTls \in BOOLEAN
  BY DEF Init
<1>5. /\ reversePath \in Senders \cup {NoPath}
      /\ clientHostname \in Hosts \cup {Empty}
      /\ down = "up" /\ pc \in pcs /\ state = 0 /\ invalidCmds = 0
      /\ reply = 0 /\ answered = 0 /\ offered = {}
  BY DEF Init, pcs
<1>6. body = NoBody /\ chunk = NoChunk /\ accepted = NoMessage
  BY DEF Init
<1> QED BY <1>2, <1>3, <1>4, <1>5, <1>6, NothingType DEF TypeOK

----------------------------------------------------------------------------
(* What the handlers do, as one reply or one change of state *)

\* A line was read, one reply written, and nothing else has changed.
Replied ==
    /\ pc \in {"read"} \cup authPcs /\ Recv /\ UNCHANGED net
    /\ \E c \in 1..599 : Refuse(c)

\* A command line was read.
Took == pc = "read" /\ Recv /\ UNCHANGED net

\* To read a line and refuse it, with any code a handler uses, is Replied.
LEMMA RepliedBy ==
    ASSUME pc \in {"read"} \cup authPcs, Recv, UNCHANGED net,
           \/ \E c \in {250, 252, 452, 501, 502, 503, 530} : Refuse(c)
           \/ \E c \in Errors(451) : Refuse(c)
           \/ \E c \in Errors(535) : Refuse(c)
    PROVE  Replied
<1>1. PICK c : c \in 1..599 /\ Refuse(c)
  BY ErrorCodes
<1> QED BY <1>1 DEF Replied

\* What handleEHLO and handleHELO may do.
LEMMA GreetingCases ==
    ASSUME handleEHLO \/ handleHELO
    PROVE  \/ Replied
           \/ /\ Took /\ line.arg # Empty
              /\ \/ greet(line.arg, TRUE) /\ offered' = Exts
                 \/ greet(line.arg, FALSE) /\ offered' = offered
              /\ UNCHANGED <<acked, mailTls, accepted>>
<1>1. Took
  BY DEF handleEHLO, handleHELO, Cmd, Took
<1> DEFINE Refused == \/ \E c \in {501} : Refuse(c)
                      \/ \E c \in Errors(451) : Refuse(c)
<1>2. CASE Refused
  <2>1. CASE Refuse(501)
    BY <1>1, <2>1, RepliedBy DEF Took
  <2>2. CASE \E c \in Errors(451) : Refuse(c)
    BY <1>1, <2>2, RepliedBy, ZenonT(30) DEF Took
  <2> QED BY <1>2, <2>1, <2>2, ZenonT(30)
<1>3. CASE handleEHLO /\ ~Refused
  BY <1>1, <1>3, ZenonT(30) DEF handleEHLO
<1>4. CASE handleHELO /\ ~Refused
  BY <1>1, <1>4, ZenonT(30) DEF handleHELO, history
<1> QED BY <1>2, <1>3, <1>4

\* What handleMAIL may do.
LEMMA MailCases ==
    ASSUME handleMAIL
    PROVE  \/ Replied
           \/ Took /\ state = stateGreeted /\ MaySubmit /\ openTransaction
<1>1. Took
  BY DEF handleMAIL, Cmd, Took
<1> QED BY <1>1, RepliedBy DEF handleMAIL, Took

\* What handleRCPT may do.
LEMMA RcptCases ==
    ASSUME handleRCPT
    PROVE  \/ Replied
           \/ Took /\ state >= stateMail /\ RoomForRecipient /\ addRecipient
<1>1. Took
  BY DEF handleRCPT, Cmd, Took
<1> QED BY <1>1, RepliedBy DEF handleRCPT, Took

\* What handleDATA and handleBDAT may do.
LEMMA DataCases ==
    ASSUME handleDATA \/ handleBDAT
    PROVE  \/ Replied
           \/ Took /\ ~DataRefused /\ startData
           \/ Took /\ state >= stateRcpt /\ startChunk
<1>1. Took
  BY DEF handleDATA, handleBDAT, Cmd, Took
<1>2. CASE handleDATA
  BY <1>1, <1>2, RepliedBy DEF handleDATA, Took
<1>3. CASE handleBDAT
  BY <1>1, <1>3, RepliedBy DEF handleBDAT, Took
<1> QED BY <1>2, <1>3

\* NOOP, EXPN and VRFY only reply.
LEMMA StatelessCases ==
    ASSUME handleNOOP \/ handleEXPN \/ handleVRFY
    PROVE  Replied
<1>1. Took
  BY DEF handleNOOP, handleEXPN, handleVRFY, Cmd, Took
<1>2. CASE handleNOOP \/ handleEXPN
  BY <1>1, <1>2, RepliedBy DEF handleNOOP, handleEXPN, Took
<1>3. CASE handleVRFY
  <2>1. \/ \E c \in {250, 252} : Refuse(c)
        \/ \E c \in Errors(451) : Refuse(c)
    BY <1>3 DEF handleVRFY, Outcomes, Errors
  <2> QED BY <1>1, <2>1, RepliedBy DEF Took
<1> QED BY <1>2, <1>3

\* What the handlers of AUTH may do.
LEMMA AuthCases ==
    ASSUME handleAUTH \/ authResponse \/ authLOGIN
    PROVE  \/ Replied
           \/ /\ pc \in {"read"} \cup authPcs /\ Recv /\ UNCHANGED net
              /\ pc = "read" => state = stateGreeted /\ ~authenticated
              /\ login \/ \E p \in authPcs : Challenge(p)
<1>1. pc \in {"read"} \cup authPcs /\ Recv /\ UNCHANGED net
  BY DEF handleAUTH, authResponse, authLOGIN, Cmd, authPcs
<1>2. CASE handleAUTH
  BY <1>1, <1>2, RepliedBy
     DEF handleAUTH, Cmd, Check, Authenticate, AuthAllowed, authPcs
<1>3. CASE authResponse
  BY <1>1, <1>3, RepliedBy DEF authResponse, Check, Authenticate, authPcs
<1>4. CASE authLOGIN
  BY <1>1, <1>4, RepliedBy DEF authLOGIN, Authenticate, authPcs
<1> QED BY <1>2, <1>3, <1>4

\* What handleSTARTTLS may do.
LEMMA TLSCases ==
    ASSUME handleSTARTTLS
    PROVE  Replied \/ (Took /\ ~tls /\ startTLS)
<1>1. Took
  BY DEF handleSTARTTLS, Cmd, Took
<1> QED BY <1>1, RepliedBy DEF handleSTARTTLS, Took

----------------------------------------------------------------------------
(* Type correctness *)

\* The command loop keeps the types.
LEMMA LoopType ==
    ASSUME TypeOK, start \/ loopTop \/ readError \/ unrecognized
    PROVE  TypeOK'
<1>1. CASE start
  <2>1. reply \in 0..599
    BY DEF TypeOK
  <2>2. reply' \in 0..599
    BY <1>1, <2>1, ErrorCodes DEF start
  <2>3. pc' \in {"closed", "loop"} /\ answered' = 1
    BY <1>1 DEF start
  <2> QED BY <1>1, <2>2, <2>3
          DEF start, TypeOK, pcs, session, txnVars, progress, net, history
<1>2. CASE loopTop
  BY <1>2, NothingType
     DEF loopTop, TypeOK, pcs, session, txnVars, progress, net
<1>3. CASE readError
  BY <1>3, RecvType DEF readError, RecvErr, TypeOK, pcs, session, txnVars,
     progress, net, out, history
<1>4. CASE unrecognized
  BY <1>4, RecvType DEF unrecognized, Answer, TypeOK, pcs, txnVars,
     progress, net, history
<1> QED BY <1>1, <1>2, <1>3, <1>4

\* A handler that only replies keeps the types, whatever line it has read.
LEMMA RepliedType ==
    ASSUME TypeOK, Replied
    PROVE  TypeOK'
<1>1. rbuf' \in Seq(Lines)
  BY RecvType DEF Replied
<1>2. PICK c \in 1..599 : Refuse(c)
  BY DEF Replied
<1> QED BY <1>1, <1>2 DEF Replied, Refuse, Answer, TypeOK, pcs, session,
        txnVars, progress, net, history

\* resetTransaction leaves a well-typed envelope.
LEMMA ResetType ==
    ASSUME resetTransaction
    PROVE  /\ reversePath' \in Senders \cup {NoPath}
           /\ forwardPaths' \in Seq(Recipients)
           /\ bdatBuffer' \in 0..MaxUnits
<1>1. /\ reversePath' = NoPath /\ forwardPaths' = <<>> /\ bdatBuffer' = 0
  BY DEF resetTransaction
<1> QED BY <1>1, LimitAssumption

\* The greetings keep the types.
LEMMA GreetType ==
    ASSUME TypeOK, handleEHLO \/ handleHELO
    PROVE  TypeOK'
<1>1. SUFFICES ASSUME Took, NEW e \in BOOLEAN, greet(line.arg, e),
                      offered' \in SUBSET {"SIZE", "STARTTLS", "AUTH"},
                      UNCHANGED <<acked, mailTls, accepted>>
               PROVE  TypeOK'
  <2>1. Exts \in SUBSET {"SIZE", "STARTTLS", "AUTH"}
    BY DEF Exts
  <2>2. offered \in SUBSET {"SIZE", "STARTTLS", "AUTH"}
    BY DEF TypeOK
  <2>3. TRUE \in BOOLEAN /\ FALSE \in BOOLEAN
    OBVIOUS
  <2> QED BY <2>1, <2>2, <2>3, GreetingCases, RepliedType, Zenon
<1>2. rbuf' \in Seq(Lines) /\ line.arg \in Hosts
  BY <1>1, RecvType DEF Took
<1>3. resetTransaction
  BY <1>1 DEF greet
<1> QED BY <1>1, <1>2, <1>3, ResetType
        DEF greet, Answer, TypeOK, pcs, progress, net, Took

\* MAIL, RCPT and RSET keep the types.
LEMMA EnvelopeType ==
    ASSUME TypeOK, handleMAIL \/ handleRCPT \/ handleRSET
    PROVE  TypeOK'
<1>1. CASE Took /\ openTransaction
  <2>1. rbuf' \in Seq(Lines)
    BY <1>1, RecvType DEF Took
  <2>2. forwardPaths' = <<>> /\ acked' = 0
    BY <1>1 DEF openTransaction
  <2>3. forwardPaths' \in Seq(Recipients) /\ acked' \in 0..MaxUnits
    BY <2>2, LimitAssumption
  <2> QED BY <1>1, <2>1, <2>3
          DEF openTransaction, Took, Answer, TypeOK, pcs, progress, net
<1>2. CASE Took /\ addRecipient
  <2>1. rbuf' \in Seq(Lines)
    BY <1>2, RecvType DEF Took
  <2>2. forwardPaths' \in Seq(Recipients)
    BY <1>2 DEF addRecipient, ForwardPathOk, TypeOK
  <2> QED BY <1>2, <2>1, <2>2
          DEF addRecipient, Took, Answer, TypeOK, pcs, progress, net, history
<1>3. CASE handleRSET
  <2>1. rbuf' \in Seq(Lines)
    BY <1>3, RecvType DEF handleRSET, Cmd
  <2>2. resetTransaction
    BY <1>3 DEF handleRSET
  <2> QED BY <1>3, <2>1, <2>2, ResetType
          DEF handleRSET, Cmd, Answer, TypeOK, pcs, progress, net, history
<1> QED BY <1>1, <1>2, <1>3, MailCases, RcptCases, RepliedType

\* The end of a message keeps the types.
LEMMA FinishType ==
    ASSUME TypeOK, NEW c \in Outcomes(451), NEW m, finish(c, m),
           m \in Messages,
           body' = body \/ body' = NoBody, chunk' = chunk \/ chunk' = NoChunk,
           UNCHANGED <<rbuf, net>>
    PROVE  TypeOK'
<1>1. resetTransaction
  BY DEF finish
<1>2. pc' \in pcs /\ reply' \in 0..599 /\ answered' \in 0..2
  <2>1. c \in 0..599
    BY ErrorCodes
  <2>2. pc' = "loop" /\ answered' = 1 /\ reply' = IF c = 0 THEN 250 ELSE c
    BY DEF finish, AnswerData, Answer
  <2> QED BY <2>1, <2>2 DEF pcs
<1>3. acked' \in 0..MaxUnits
  BY LimitAssumption DEF finish
<1>4. /\ body' \in Bodies
      /\ chunk' \in Chunks
  BY NothingType DEF TypeOK
<1>5. accepted' \in Messages
  BY NothingType DEF finish
<1>6. state' = stateGreeted
      /\ UNCHANGED <<clientHostname, esmtp, tls, authenticated, invalidCmds,
                     offered, mailTls>>
  BY DEF finish
<1> QED BY <1>1, <1>2, <1>3, <1>4, <1>5, <1>6, ResetType DEF TypeOK, net

\* The steps of DATA keep the types.
LEMMA DataType ==
    ASSUME TypeOK,
           handleDATA \/ dataRead \/ dataReadError \/ dataReturns \/ dataDone
               \/ handleBDAT
    PROVE  TypeOK'
<1>1. CASE Took /\ startData
  <2>1. rbuf' \in Seq(Lines)
    BY <1>1, RecvType DEF Took
  <2>2. body' = [rd |-> "open", onData |-> Running, size |-> 0]
    BY <1>1 DEF startData
  <2>3. 0 \in 0..MaxUnits
    BY LimitAssumption
  <2>4. body' \in Bodies
    BY <2>2, <2>3 DEF Bodies
  <2> QED BY <1>1, <2>1, <2>4
          DEF startData, Took, TypeOK, pcs, txnVars, net, history
<1>2. CASE Took /\ startChunk
  <2>1. rbuf' \in Seq(Lines) /\ line.n \in Nat
    BY <1>2, RecvType DEF Took
  <2>2. chunk' \in Chunks
    BY <1>2, <2>1 DEF startChunk, Chunks
  <2> QED BY <1>2, <2>1, <2>2
          DEF startChunk, Took, TypeOK, pcs, session, txnVars, net, history
<1>3. CASE dataRead
  <2>1. rbuf' \in Seq(Lines)
    BY <1>3, RecvType DEF dataRead
  <2>2. Units(body.size + 1) \in 0..MaxUnits
    BY UnitsType, CountTypes
  <2>3. body' \in Bodies
    BY <1>3, <2>2, CountTypes DEF dataRead, Bodies
  <2> QED BY <1>3, <2>1, <2>3
          DEF dataRead, TypeOK, session, txnVars, net, out, history
<1>4. CASE dataReadError \/ dataReturns
  <2>1. body' \in Bodies
    <3>1. CASE dataReadError
      BY <3>1, CountTypes DEF dataReadError, Bodies
    <3>2. CASE dataReturns
      BY <3>2, CountTypes DEF dataReturns, Bodies
    <3> QED BY <1>4, <3>1, <3>2
  <2>2. UNCHANGED <<pc, session, chunk, rbuf, net, out, history>>
    BY <1>4 DEF dataReadError, dataReturns
  <2> QED BY <2>1, <2>2
          DEF TypeOK, session, txnVars, net, out, history
<1>5. CASE dataDone
  <2> DEFINE m == Message(body.size, body.rd)
  <2>1. body.onData \in Outcomes(451) /\ body.rd \in {"dot", "cut", "err"}
    BY <1>5, CountTypes DEF dataDone, DataDrained, Bodies
  <2>2. body.size \in 0..MaxUnits
    BY CountTypes DEF Bodies
  <2>3. m \in Messages
    BY <2>1, <2>2 DEF Message, Messages, TypeOK
  <2>4. finish(body.onData, m) /\ body' = NoBody
        /\ UNCHANGED <<chunk, rbuf, net>>
    BY <1>5 DEF dataDone
  <2> HIDE DEF m
  <2> QED BY <2>1, <2>3, <2>4, FinishType
<1> QED BY <1>1, <1>2, <1>3, <1>4, <1>5, DataCases, RepliedType

\* The steps of BDAT keep the types.
LEMMA BdatType ==
    ASSUME TypeOK, bdatRead \/ bdatReadError \/ bdatDone
    PROVE  TypeOK'
<1>1. CASE bdatRead
  <2>1. rbuf' \in Seq(Lines)
    BY <1>1, RecvType DEF bdatRead
  <2>2. chunk' \in Chunks
    BY <1>1, CountTypes DEF bdatRead, Chunks
  <2> QED BY <1>1, <2>1, <2>2
          DEF bdatRead, TypeOK, session, txnVars, net, out, history
<1>2. CASE bdatReadError
  BY <1>2, NothingType
     DEF bdatReadError, DropChunk, TypeOK, pcs, net, out, history
<1>3. CASE bdatDone
  <2>1. /\ Units(bdatBuffer + chunk.size) \in 0..MaxUnits
        /\ Units(acked + chunk.size) \in 0..MaxUnits
    BY UnitsType, CountTypes
  <2>2. CASE keepChunk
    BY <1>3, <2>1, <2>2, NothingType
       DEF bdatDone, keepChunk, Answer, TypeOK, pcs, net
  <2> DEFINE m == Message(Units(bdatBuffer + chunk.size), "dot")
  <2>3. m \in Messages
    BY <2>1 DEF Message, Messages, TypeOK
  <2>4. CASE ~keepChunk
    <3>1. PICK c \in Outcomes(451) : finish(c, m)
      BY <1>3, <2>4 DEF bdatDone
    <3>2. chunk' = NoChunk /\ UNCHANGED <<body, rbuf, net>>
      BY <1>3 DEF bdatDone
    <3> HIDE DEF m
    <3> QED BY <2>3, <3>1, <3>2, FinishType
  <2> QED BY <2>2, <2>4
<1> QED BY <1>1, <1>2, <1>3

\* The steps of AUTH keep the types.
LEMMA AuthType ==
    ASSUME TypeOK,
           handleAUTH \/ authResponse \/ authLOGIN \/ authReadError
               \/ handleQUIT
    PROVE  TypeOK'
<1>1. CASE Recv /\ UNCHANGED net /\ login
  BY <1>1, RecvType DEF login, Answer, TypeOK, pcs, txnVars, progress, net,
     history
<1>2. ASSUME Recv, UNCHANGED net, NEW p \in authPcs, Challenge(p)
      PROVE  TypeOK'
  BY <1>2, RecvType DEF Challenge, TypeOK, pcs, session, txnVars, progress,
     net, history
<1>3. CASE authReadError
  BY <1>3, RecvType DEF authReadError, RecvErr, TypeOK, pcs, session,
     txnVars, progress, net, out, history
<1>4. CASE handleQUIT
  BY <1>4, RecvType DEF handleQUIT, Cmd, TypeOK, pcs, session, txnVars,
     progress, net, history
<1> QED BY <1>1, <1>2, <1>3, <1>4, AuthCases, RepliedType

\* Cutting a segment out of a queue leaves a queue.
LEMMA CutType ==
    ASSUME NEW S, NEW q \in Seq(S), NEW i \in 0..Len(q), NEW j \in i..Len(q)
    PROVE  SubSeq(q, 1, i) \o SubSeq(q, j + 1, Len(q)) \in Seq(S)
<1>1. SubSeq(q, 1, i) \in Seq(S)
  OBVIOUS
<1>2. SubSeq(q, j + 1, Len(q)) \in Seq(S)
  OBVIOUS
<1> QED BY <1>1, <1>2

\* The steps of STARTTLS keep the types.
LEMMA TLSType ==
    ASSUME TypeOK, handleSTARTTLS \/ handshakeOk \/ handshakeError
    PROVE  TypeOK'
<1>1. CASE Took /\ startTLS
  BY <1>1, RecvType DEF startTLS, Took, TypeOK, pcs, session, txnVars,
     progress, net, history
<1>2. CASE handshakeOk
  <2>1. resetTransaction /\ rbuf' = <<>>
    BY <1>2 DEF handshakeOk, ReplaceConn
  <2>2. rbuf' \in Seq(Lines)
    BY <2>1
  <2>3. state' = stateNew /\ clientHostname' = Empty /\ esmtp' = FALSE
        /\ tls' = TRUE /\ pc' = "loop"
    BY <1>2 DEF handshakeOk, ForgetGreeting
  <2>4. /\ esmtp' \in BOOLEAN /\ tls' \in BOOLEAN
        /\ state' \in stateNew..stateData
        /\ clientHostname' \in Hosts \cup {Empty} /\ pc' \in pcs
    <3>1. esmtp' \in BOOLEAN /\ tls' \in BOOLEAN
      BY <2>3
    <3>2. clientHostname' = Empty /\ state' = stateNew /\ pc' = "loop"
      BY <2>3
    <3> QED BY <3>1, <3>2 DEF pcs
  <2>5. UNCHANGED <<authenticated, invalidCmds, progress, net, out, history>>
    BY <1>2 DEF handshakeOk
  <2> QED BY <2>1, <2>2, <2>4, <2>5, ResetType
          DEF TypeOK, progress, net, out, history
<1>3. CASE handshakeError
  <2>1. rbuf' \in Seq(Lines)
    BY <1>3, CutType DEF handshakeError, TypeOK
  <2> QED BY <1>3, <2>1 DEF handshakeError, TypeOK, pcs, session, txnVars,
          progress, net, out, history
<1> QED BY <1>1, <1>2, <1>3, TLSCases, RepliedType

\* The peer, Shutdown and the watcher keep the types.
LEMMA PeerType ==
    ASSUME TypeOK, PeerSend \/ PeerClose \/ Quit \/ WatcherStep
    PROVE  TypeOK'
<1>1. CASE PeerSend
  <2>1. PICK l \in Input : rbuf' = Append(rbuf, [line |-> l, secure |-> tls])
    BY <1>1 DEF PeerSend
  <2>2. [line |-> l, secure |-> tls] \in Lines /\ rbuf \in Seq(Lines)
    BY DEF Lines, TypeOK
  <2>3. rbuf' \in Seq(Lines)
    BY <2>1, <2>2
  <2> QED BY <1>1, <2>3 DEF PeerSend, TypeOK, session, txnVars, progress,
          net, out, history
<1>2. CASE PeerClose
  <2>1. UNCHANGED <<pc, session, progress, rbuf, down, out, history>>
        /\ peerClosed' \in BOOLEAN
    BY <1>2 DEF PeerClose
  <2> QED BY <2>1 DEF TypeOK, session, txnVars, progress, out, history
<1>3. CASE Quit \/ WatcherStep
  <2>1. UNCHANGED <<pc, session, progress, rbuf, peerClosed, out, history>>
        /\ down' \in {"quit", "cancelled", "ncClosed"}
    BY <1>3 DEF Quit, WatcherStep, watcherCancel, watcherClose, CloseConn
  <2> QED BY <2>1 DEF TypeOK, session, txnVars, progress, out, history
<1> QED BY <1>1, <1>2, <1>3

\* A stuttering step keeps the types.
LEMMA StutterType ==
    ASSUME TypeOK, UNCHANGED vars
    PROVE  TypeOK'
  BY DEF vars, session, txnVars, progress, net, out, history, TypeOK

\* Every step keeps the types.
LEMMA TypeStep == TypeOK /\ [Next]_vars => TypeOK'
  BY LoopType, GreetType, EnvelopeType, DataType, BdatType, AuthType, TLSType,
     PeerType, StatelessCases, RepliedType, StutterType
     DEF Next, SessionStep, Ended

\* Every field of a session keeps its type, for any input and any limits: in
\* particular only parsed recipients reach forwardPaths, and every callback's
\* refusal is written as a reply code.
THEOREM TypeCorrect == Spec => []TypeOK
<1>1. Init => TypeOK
  BY InitType
<1>2. TypeOK /\ [Next]_vars => TypeOK'
  BY TypeStep
<1> QED BY <1>1, <1>2, PTL DEF Spec

----------------------------------------------------------------------------
(* The safety invariant *)

\* A new session is safe.
LEMMA InitSafe == Init => SafetyInv
<1> SUFFICES ASSUME Init PROVE SafetyInv
  OBVIOUS
<1>1. /\ pc = "start" /\ state = 0 /\ clientHostname = Empty /\ invalidCmds = 0
      /\ reversePath = NoPath /\ forwardPaths = <<>> /\ bdatBuffer = 0
      /\ body = NoBody /\ rbuf = <<>> /\ accepted = NoMessage
  BY DEF Init
<1>2. ~esmtp
  BY DEF Init
<1>3. EnvelopeInv
  BY <1>1, LimitAssumption DEF EnvelopeInv
<1>4. PhaseInv
  BY <1>1 DEF PhaseInv, authPcs
<1>5. accepted.from = NoPath /\ accepted.end = "dot" /\ body.rd = "dot"
  BY <1>1 DEF NoMessage, NoBody
<1>6. SubmissionGate /\ TransactionLayer /\ ChunkIsolation
  BY <1>1, <1>5 DEF SubmissionGate, TransactionLayer, ChunkIsolation
<1>7. NoPlaintextAfterTLS
  BY <1>1 DEF NoPlaintextAfterTLS
<1>8. OfferStands
  BY <1>1, <1>2 DEF OfferStands
<1>9. InvalidLimit
  BY <1>1, LimitAssumption DEF InvalidLimit
<1>10. BodyWhole /\ DeliveryInv
  BY <1>1, <1>5 DEF BodyWhole, DeliveryInv
<1> QED BY <1>3, <1>4, <1>6, <1>7, <1>8, <1>9, <1>10 DEF SafetyInv

\* Reading on does not change the layer of what is left.
LEMMA LayerKept ==
    ASSUME TypeOK, NoPlaintextAfterTLS, Recv \/ UNCHANGED rbuf, UNCHANGED tls
    PROVE  NoPlaintextAfterTLS'
<1>1. CASE UNCHANGED rbuf
  BY <1>1 DEF NoPlaintextAfterTLS
<1>2. CASE Recv
  <2>1. rbuf \in Seq(Lines) /\ rbuf # <<>> /\ rbuf' = Tail(rbuf)
    BY <1>2 DEF Recv, TypeOK
  <2>2. Len(rbuf') = Len(rbuf) - 1 /\ Len(rbuf) \in Nat
    BY <2>1
  <2>3. \A i \in 1..Len(rbuf') : rbuf'[i] = rbuf[i + 1]
    BY <2>1
  <2>4. \A i \in 1..Len(rbuf') : i + 1 \in 1..Len(rbuf)
    BY <2>2
  <2> QED BY <2>3, <2>4 DEF NoPlaintextAfterTLS
<1> QED BY <1>1, <1>2

\* Most steps of the goroutine move on without touching the session: they keep
\* the invariant if they go where the state allows.
LEMMA QuietSafe ==
    ASSUME TypeOK, SafetyInv, UNCHANGED <<session, history, net, body>>,
           NoPlaintextAfterTLS',
           pc \notin {"data", "closed"}, pc' # "data",
           pc' \in authPcs => state = stateGreeted /\ ~authenticated,
           pc' = "bdat" => state = stateRcpt,
           pc' = "tls" => ~tls,
           pc' # "loop" => accepted = NoMessage
    PROVE  SafetyInv'
<1>1. EnvelopeInv'
  BY DEF SafetyInv, EnvelopeInv, session, txnVars
<1>2. PhaseInv'
  BY DEF SafetyInv, PhaseInv, session
<1>3. SubmissionGate'
  BY DEF SafetyInv, SubmissionGate, session, history
<1>4. TransactionLayer' /\ ChunkIsolation'
  BY DEF SafetyInv, TransactionLayer, ChunkIsolation, session, txnVars, history
<1>5. OfferStands'
  BY DEF SafetyInv, OfferStands, session, history
<1>6. InvalidLimit'
  BY DEF SafetyInv, InvalidLimit, session
<1>7. BodyWhole' /\ DeliveryInv'
  BY DEF SafetyInv, BodyWhole, DeliveryInv, ReadFails, net, history
<1> QED BY <1>1, <1>2, <1>3, <1>4, <1>5, <1>6, <1>7 DEF SafetyInv

\* The steps QuietSafe covers.
LEMMA QuietSteps ==
    ASSUME TypeOK, SafetyInv,
           \/ Replied \/ start \/ readError \/ authReadError \/ handleQUIT
           \/ Took /\ state >= stateRcpt /\ startChunk
           \/ Took /\ ~tls /\ startTLS
           \/ bdatRead \/ bdatReadError
    PROVE  SafetyInv'
<1>1. accepted = NoMessage \/ pc = "loop"
  BY DEF SafetyInv, DeliveryInv
<1>2. Recv \/ UNCHANGED rbuf
  BY DEF Replied, start, readError, authReadError, RecvErr, handleQUIT, Cmd,
     Took, bdatRead, bdatReadError
<1>3. UNCHANGED <<session, history, net, body>>
  <2>1. CASE Replied
    BY <2>1 DEF Replied, Refuse, progress
  <2>2. CASE start \/ readError \/ authReadError
    BY <2>2 DEF start, readError, authReadError, progress
  <2>3. CASE handleQUIT \/ (Took /\ startTLS) \/ (Took /\ startChunk)
    BY <2>3 DEF handleQUIT, Cmd, Took, startChunk, startTLS, progress
  <2>4. CASE bdatRead
    BY <2>4 DEF bdatRead
  <2>5. CASE bdatReadError
    BY <2>5 DEF bdatReadError, DropChunk, session, txnVars
  <2> QED BY <2>1, <2>2, <2>3, <2>4, <2>5
<1>4. NoPlaintextAfterTLS'
  BY <1>2, <1>3, LayerKept DEF SafetyInv, session
<1>5. /\ pc \notin {"data", "closed", "loop"} /\ pc' \notin authPcs
      /\ pc' \notin {"data"}
      /\ pc' = "bdat" => (state >= stateRcpt /\ pc = "read") \/ pc = "bdat"
      /\ pc' = "tls" => ~tls
  BY DEF Replied, Refuse, Answer, start, readError, authReadError, handleQUIT,
     Cmd, Took, startChunk, startTLS, bdatRead, bdatReadError, authPcs
<1>6. pc' = "bdat" => state = stateRcpt
  BY <1>5 DEF SafetyInv, PhaseInv, TypeOK
<1> QED BY <1>1, <1>3, <1>4, <1>5, <1>6, QuietSafe

\* The top of the loop, and an unrecognized command.
LEMMA LoopSafe ==
    ASSUME TypeOK, SafetyInv, loopTop \/ unrecognized
    PROVE  SafetyInv'
<1>1. CASE loopTop
  <2>1. /\ UNCHANGED <<session, body, rbuf, net, offered, acked, mailTls>>
        /\ accepted' = NoMessage /\ pc = "loop" /\ pc' \in {"read", "closed"}
    BY <1>1 DEF loopTop, progress
  <2>2. accepted'.from = NoPath /\ accepted'.end = "dot"
    BY <2>1 DEF NoMessage
  <2>3. EnvelopeInv'
    BY <2>1 DEF SafetyInv, EnvelopeInv, session, txnVars
  <2>4. PhaseInv'
    BY <2>1 DEF SafetyInv, PhaseInv, session, authPcs
  <2>5. SubmissionGate'
    BY <2>1, <2>2 DEF SafetyInv, SubmissionGate, session
  <2>6. NoPlaintextAfterTLS' /\ TransactionLayer' /\ ChunkIsolation'
    BY <2>1 DEF SafetyInv, NoPlaintextAfterTLS, TransactionLayer,
       ChunkIsolation, session, txnVars
  <2>7. OfferStands' /\ InvalidLimit'
    BY <2>1 DEF SafetyInv, OfferStands, InvalidLimit, session
  <2>8. BodyWhole' /\ DeliveryInv'
    BY <2>1, <2>2 DEF SafetyInv, BodyWhole, DeliveryInv, ReadFails, net
  <2> QED BY <2>3, <2>4, <2>5, <2>6, <2>7, <2>8 DEF SafetyInv
<1>2. CASE unrecognized
  <2>1. /\ UNCHANGED <<state, clientHostname, esmtp, tls, authenticated,
                       txnVars, net, body, history>>
        /\ pc = "read" /\ pc' \in {"loop", "closed"} /\ Recv
    BY <1>2 DEF unrecognized, Answer, progress
  <2>2. EnvelopeInv' /\ PhaseInv'
    BY <2>1 DEF SafetyInv, EnvelopeInv, PhaseInv, txnVars, authPcs
  <2>3. SubmissionGate' /\ TransactionLayer' /\ ChunkIsolation'
    BY <2>1 DEF SafetyInv, SubmissionGate, TransactionLayer, ChunkIsolation,
       txnVars, history
  <2>4. NoPlaintextAfterTLS'
    BY <2>1, LayerKept DEF SafetyInv
  <2>5. OfferStands'
    BY <2>1 DEF SafetyInv, OfferStands, history
  <2>6. InvalidLimit'
    <3>1. SUFFICES ASSUME MaxInvalidCmds > 0, pc' # "closed"
                   PROVE  invalidCmds' < MaxInvalidCmds
      BY DEF InvalidLimit
    <3>2. ~AtLimit(invalidCmds + 1) /\ invalidCmds' = invalidCmds + 1
      BY <1>2, <3>1 DEF unrecognized
    <3> QED BY <3>1, <3>2, LimitAssumption DEF AtLimit, TypeOK
  <2>7. BodyWhole' /\ DeliveryInv'
    BY <2>1 DEF SafetyInv, BodyWhole, DeliveryInv, ReadFails, net, history
  <2> QED BY <2>2, <2>3, <2>4, <2>5, <2>6, <2>7 DEF SafetyInv
<1> QED BY <1>1, <1>2

\* A step that ends or restarts the conversation with an empty envelope, below
\* stateMail: EHLO, HELO, RSET, the end of a message, a TLS handshake.
LEMMA ResetSafe ==
    ASSUME TypeOK, SafetyInv, resetTransaction, NoPlaintextAfterTLS',
           OfferStands', state' \in {stateNew, stateGreeted}, pc' = "loop",
           pc # "closed", UNCHANGED <<invalidCmds, net>>,
           body' = body \/ body' = NoBody,
           SubmissionMode /\ accepted'.from # NoPath
               => accepted'.authenticated,
           BodyWhole'
    PROVE  SafetyInv'
<1>1. reversePath' = NoPath /\ forwardPaths' = <<>> /\ bdatBuffer' = 0
  BY DEF resetTransaction
<1>2. EnvelopeInv'
  BY <1>1, LimitAssumption DEF EnvelopeInv
<1>3. PhaseInv'
  BY DEF PhaseInv, authPcs
<1>4. SubmissionGate' /\ TransactionLayer' /\ ChunkIsolation'
  BY DEF SubmissionGate, TransactionLayer, ChunkIsolation
<1>5. InvalidLimit'
  BY DEF SafetyInv, InvalidLimit
<1>6. DeliveryInv'
  BY DEF SafetyInv, DeliveryInv, ReadFails, net, NoBody
<1> QED BY <1>2, <1>3, <1>4, <1>5, <1>6 DEF SafetyInv

\* A greeting preserves the safety invariant: it abandons the transaction.
LEMMA GreetSafe ==
    ASSUME TypeOK, SafetyInv, handleEHLO \/ handleHELO \/ handleRSET
    PROVE  SafetyInv'
<1>1. ASSUME Took, resetTransaction, OfferStands', pc' = "loop",
             state' \in {stateNew, stateGreeted},
             UNCHANGED <<tls, invalidCmds, accepted, body>>
      PROVE  SafetyInv'
  <2>1. NoPlaintextAfterTLS'
    BY <1>1, LayerKept DEF SafetyInv, Took
  <2>2. BodyWhole' /\ UNCHANGED net /\ pc = "read"
    BY <1>1 DEF SafetyInv, BodyWhole, ReadFails, net, Took
  <2>3. accepted = NoMessage
    BY <2>2 DEF SafetyInv, DeliveryInv
  <2>4. accepted'.from = NoPath
    BY <1>1, <2>3 DEF NoMessage
  <2> QED BY <1>1, <2>1, <2>2, <2>4, ResetSafe
<1>2. CASE handleRSET
  <2>1. /\ Took /\ resetTransaction /\ pc' = "loop"
        /\ UNCHANGED <<clientHostname, esmtp, tls, invalidCmds, body, offered,
                       accepted>>
        /\ state' = IF state > stateGreeted THEN stateGreeted ELSE state
    BY <1>2 DEF handleRSET, Cmd, Took, Answer, progress, history
  <2>2. state' \in {stateNew, stateGreeted} /\ (state' = stateNew <=> state = stateNew)
    BY <2>1 DEF TypeOK
  <2>3. OfferStands'
    BY <2>1, <2>2 DEF SafetyInv, OfferStands
  <2> QED BY <1>1, <2>1, <2>2, <2>3
<1>3. CASE /\ Took /\ line.arg # Empty
           /\ greet(line.arg, TRUE) /\ offered' = Exts
           /\ UNCHANGED accepted
  <2>1. /\ esmtp' = TRUE /\ state' = stateGreeted /\ clientHostname' # Empty
        /\ resetTransaction /\ pc' = "loop"
        /\ UNCHANGED <<tls, invalidCmds, body>>
    BY <1>3 DEF greet, Answer, progress
  <2>2. "STARTTLS" \in Exts => TLSConfig /\ ~tls
    BY DEF Exts
  <2>3. OfferStands'
    BY <1>3, <2>1, <2>2 DEF OfferStands
  <2> QED BY <1>1, <1>3, <2>1, <2>3
<1>4. CASE /\ Took /\ line.arg # Empty
           /\ greet(line.arg, FALSE) /\ offered' = offered
           /\ UNCHANGED accepted
  <2>1. /\ esmtp' = FALSE /\ state' = stateGreeted /\ clientHostname' # Empty
        /\ resetTransaction /\ pc' = "loop"
        /\ UNCHANGED <<tls, invalidCmds, body>>
    BY <1>4 DEF greet, Answer, progress
  <2>2. OfferStands'
    BY <2>1 DEF OfferStands
  <2> QED BY <1>1, <1>4, <2>1, <2>2
<1>5. CASE handleEHLO \/ handleHELO
  <2>1. CASE Replied
    BY <2>1, QuietSteps
  <2> QED BY <1>3, <1>4, <1>5, <2>1, GreetingCases, Zenon
<1> QED BY <1>2, <1>5

\* MAIL preserves it: the gate is passed before the transaction opens.
LEMMA MailSafe ==
    ASSUME TypeOK, SafetyInv, handleMAIL
    PROVE  SafetyInv'
<1>1. CASE Replied
  BY <1>1, QuietSteps
<1>2. CASE Took /\ state = stateGreeted /\ MaySubmit /\ openTransaction
  <2>1. /\ pc = "read" /\ pc' = "loop" /\ state' = stateMail /\ Recv
        /\ reversePath' \in Senders /\ forwardPaths' = <<>> /\ acked' = 0
        /\ UNCHANGED <<clientHostname, esmtp, tls, authenticated,
                       invalidCmds, bdatBuffer, body, offered, accepted, net>>
    BY <1>2 DEF Took, openTransaction, Answer, progress
  <2>2. bdatBuffer = 0
    BY <1>2 DEF SafetyInv, EnvelopeInv
  <2>3. EnvelopeInv'
    BY <2>1, <2>2, PathAssumption, LimitAssumption DEF EnvelopeInv
  <2>4. PhaseInv'
    BY <2>1 DEF PhaseInv, authPcs
  <2>5. accepted = NoMessage
    BY <2>1 DEF SafetyInv, DeliveryInv
  <2>6. accepted'.from = NoPath
    BY <2>1, <2>5 DEF NoMessage
  <2>7. SubmissionMode => authenticated'
    BY <1>2, <2>1 DEF MaySubmit
  <2>8. SubmissionGate'
    BY <2>6, <2>7 DEF SubmissionGate
  <2>9. NoPlaintextAfterTLS'
    BY <2>1, LayerKept DEF SafetyInv
  <2>10. mailTls' = tls'
    BY <1>2, <2>1 DEF openTransaction
  <2>11. TransactionLayer' /\ ChunkIsolation'
    BY <2>1, <2>2, <2>10 DEF TransactionLayer, ChunkIsolation
  <2>12. OfferStands'
    BY <1>2, <2>1 DEF SafetyInv, OfferStands
  <2>13. InvalidLimit'
    BY <2>1 DEF SafetyInv, InvalidLimit
  <2>14. BodyWhole' /\ DeliveryInv'
    BY <2>1 DEF SafetyInv, BodyWhole, DeliveryInv, ReadFails, net
  <2> QED BY <2>3, <2>4, <2>8, <2>9, <2>11, <2>12, <2>13, <2>14 DEF SafetyInv
<1> QED BY <1>1, <1>2, MailCases

\* RCPT preserves it: the limit is checked before the recipient is added.
LEMMA RcptSafe ==
    ASSUME TypeOK, SafetyInv, handleRCPT
    PROVE  SafetyInv'
<1>1. CASE Replied
  BY <1>1, QuietSteps
<1>2. CASE Took /\ state >= stateMail /\ RoomForRecipient /\ addRecipient
  <2>1. /\ pc = "read" /\ pc' = "loop" /\ Recv
        /\ forwardPaths' = Append(forwardPaths, line.arg)
        /\ state' = IF state < stateRcpt THEN stateRcpt ELSE state
        /\ UNCHANGED <<clientHostname, esmtp, tls, authenticated,
                       invalidCmds, reversePath, bdatBuffer, body, history,
                       net>>
    BY <1>2 DEF Took, addRecipient, Answer, progress
  <2>2. state # stateData /\ state \in stateNew..stateData
    BY <2>1 DEF SafetyInv, PhaseInv, TypeOK
  <2>3. state' = stateRcpt
    BY <1>2, <2>1, <2>2
  <2>4. /\ Len(forwardPaths') = Len(forwardPaths) + 1
        /\ Len(forwardPaths) < MaxRecipients /\ Len(forwardPaths) \in Nat
        /\ forwardPaths' # <<>>
    BY <1>2, <2>1 DEF RoomForRecipient, TypeOK
  <2>5. EnvelopeInv'
    BY <1>2, <2>1, <2>3, <2>4, LimitAssumption DEF SafetyInv, EnvelopeInv
  <2>6. PhaseInv'
    BY <2>1, <2>3 DEF PhaseInv, authPcs
  <2>7. SubmissionGate'
    BY <1>2, <2>1 DEF SafetyInv, SubmissionGate, history
  <2>8. NoPlaintextAfterTLS'
    BY <2>1, LayerKept DEF SafetyInv
  <2>9. TransactionLayer' /\ ChunkIsolation'
    BY <1>2, <2>1 DEF SafetyInv, TransactionLayer, ChunkIsolation, history
  <2>10. OfferStands'
    BY <1>2, <2>1, <2>3 DEF SafetyInv, OfferStands, history
  <2>11. InvalidLimit'
    BY <2>1 DEF SafetyInv, InvalidLimit
  <2>12. BodyWhole' /\ DeliveryInv'
    BY <2>1 DEF SafetyInv, BodyWhole, DeliveryInv, ReadFails, net, history
  <2> QED BY <2>5, <2>6, <2>7, <2>8, <2>9, <2>10, <2>11, <2>12 DEF SafetyInv
<1> QED BY <1>1, <1>2, RcptCases

\* Reading the body: the session is untouched, the reader moves on.
LEMMA BodySafe ==
    ASSUME TypeOK, SafetyInv, dataRead \/ dataReadError \/ dataReturns
    PROVE  SafetyInv'
<1>1. /\ pc = "data" /\ UNCHANGED <<pc, session, net, history>>
      /\ Recv \/ UNCHANGED rbuf
  BY DEF dataRead, dataReadError, dataReturns
<1>2. body'.rd \in {"cut", "err"} => ReadFails
  <2>1. body \in Bodies
    BY CountTypes
  <2>2. CASE dataRead
    BY <2>1, <2>2 DEF dataRead, Bodies
  <2>3. CASE dataReadError
    BY <2>3 DEF dataReadError
  <2>4. CASE dataReturns
    BY <2>1, <2>4 DEF dataReturns, Bodies, SafetyInv, DeliveryInv
  <2> QED BY <2>2, <2>3, <2>4
<1>3. EnvelopeInv' /\ PhaseInv'
  BY <1>1 DEF SafetyInv, EnvelopeInv, PhaseInv, session, txnVars
<1>4. SubmissionGate' /\ TransactionLayer' /\ ChunkIsolation'
  BY <1>1 DEF SafetyInv, SubmissionGate, TransactionLayer, ChunkIsolation,
     session, txnVars, history
<1>5. NoPlaintextAfterTLS'
  BY <1>1, LayerKept DEF SafetyInv, session
<1>6. OfferStands' /\ InvalidLimit'
  BY <1>1 DEF SafetyInv, OfferStands, InvalidLimit, session, history
<1>7. BodyWhole' /\ DeliveryInv'
  BY <1>1, <1>2 DEF SafetyInv, BodyWhole, DeliveryInv, ReadFails, net, history
<1> QED BY <1>3, <1>4, <1>5, <1>6, <1>7 DEF SafetyInv

\* DATA and BDAT begin only for a transaction with recipients.
LEMMA StartDataSafe ==
    ASSUME TypeOK, SafetyInv, handleDATA \/ handleBDAT
    PROVE  SafetyInv'
<1>1. CASE Replied \/ (Took /\ state >= stateRcpt /\ startChunk)
  BY <1>1, QuietSteps
<1>2. CASE Took /\ ~DataRefused /\ startData
  <2>1. /\ pc = "read" /\ pc' = "data" /\ state' = stateData /\ Recv
        /\ UNCHANGED <<clientHostname, esmtp, tls, authenticated,
                       invalidCmds, txnVars, history, net>>
        /\ body' = [rd |-> "open", onData |-> Running, size |-> 0]
    BY <1>2 DEF Took, startData
  <2>2. state >= stateRcpt /\ body'.rd = "open"
    <3>1. state >= stateRcpt
      BY <1>2 DEF DataRefused, TypeOK
    <3>2. body'.rd = "open"
      BY <2>1
    <3> QED BY <3>1, <3>2
  <2>3. EnvelopeInv'
    <3>1. /\ reversePath # NoPath /\ forwardPaths # <<>>
          /\ Len(forwardPaths) <= MaxRecipients
      BY <2>2 DEF SafetyInv, EnvelopeInv, TypeOK
    <3>2. UNCHANGED <<reversePath, forwardPaths>> /\ state' = stateData
      BY <2>1 DEF txnVars
    <3> QED BY <3>1, <3>2 DEF EnvelopeInv
  <2>4. PhaseInv'
    <3>1. pc' = "data" /\ state' = stateData
      BY <2>1
    <3> QED BY <3>1 DEF PhaseInv, authPcs
  <2>5. SubmissionGate' /\ TransactionLayer' /\ ChunkIsolation'
    <3>1. UNCHANGED <<tls, authenticated, bdatBuffer, history>>
      BY <2>1 DEF txnVars
    <3>2. state >= stateMail
      BY <2>2 DEF TypeOK
    <3> QED BY <3>1, <3>2 DEF SafetyInv, SubmissionGate, TransactionLayer,
            ChunkIsolation, history
  <2>6. NoPlaintextAfterTLS'
    BY <2>1, LayerKept DEF SafetyInv
  <2>7. OfferStands'
    BY <2>1, <2>2 DEF SafetyInv, OfferStands, history
  <2>8. InvalidLimit'
    BY <2>1 DEF SafetyInv, InvalidLimit
  <2>9. BodyWhole' /\ DeliveryInv'
    BY <2>1, <2>2 DEF SafetyInv, BodyWhole, DeliveryInv, ReadFails, net,
       history
  <2> QED BY <2>3, <2>4, <2>5, <2>6, <2>7, <2>8, <2>9 DEF SafetyInv
<1> QED BY <1>1, <1>2, DataCases

\* OnData has answered: whatever it said, the transaction is over, and what was
\* accepted was allowed to be.
LEMMA FinishSafe ==
    ASSUME TypeOK, SafetyInv, state >= stateMail, pc # "closed",
           NEW c, NEW m, finish(c, m), UNCHANGED <<rbuf, net>>,
           body' = body \/ body' = NoBody,
           m.authenticated = authenticated, ~ReadFails => m.end = "dot"
    PROVE  SafetyInv'
<1>1. /\ resetTransaction /\ state' = stateGreeted /\ pc' = "loop"
      /\ UNCHANGED <<clientHostname, esmtp, tls, authenticated, invalidCmds,
                     offered>>
      /\ accepted' = IF c = 0 THEN m ELSE NoMessage
  BY DEF finish, AnswerData, Answer
<1>2. NoMessage.from = NoPath /\ NoMessage.end = "dot"
  BY DEF NoMessage
<1>3. SubmissionMode /\ accepted'.from # NoPath => accepted'.authenticated
  BY <1>1, <1>2 DEF SafetyInv, SubmissionGate
<1>4. BodyWhole'
  BY <1>1, <1>2 DEF BodyWhole, ReadFails, net
<1>5. NoPlaintextAfterTLS' /\ OfferStands'
  BY <1>1, LayerKept DEF SafetyInv, OfferStands
<1> QED BY <1>1, <1>3, <1>4, <1>5, ResetSafe

\* Both ends of a message preserve it: the envelope is reset with the state.
LEMMA DoneSafe ==
    ASSUME TypeOK, SafetyInv, dataDone \/ bdatDone
    PROVE  SafetyInv'
<1>1. CASE dataDone
  <2> DEFINE m == Message(body.size, body.rd)
  <2>1. pc = "data" /\ finish(body.onData, m) /\ body' = NoBody
        /\ UNCHANGED <<rbuf, net>>
    BY <1>1 DEF dataDone
  <2>2. m.authenticated = authenticated /\ m.end = body.rd
    BY DEF Message
  <2>3. body.rd \in {"dot", "cut", "err"}
    BY <1>1, CountTypes DEF dataDone, DataDrained, Bodies
  <2>4. ~ReadFails => m.end = "dot"
    BY <2>2, <2>3 DEF SafetyInv, DeliveryInv
  <2>5. state >= stateMail
    BY <2>1 DEF SafetyInv, PhaseInv
  <2> HIDE DEF m
  <2> QED BY <2>1, <2>2, <2>4, <2>5, FinishSafe
<1>2. CASE bdatDone /\ keepChunk
  <2>1. /\ pc = "bdat" /\ pc' = "loop" /\ UNCHANGED <<rbuf, net, body>>
        /\ bdatBuffer' = Units(bdatBuffer + chunk.size)
        /\ acked' = Units(acked + chunk.size)
        /\ UNCHANGED <<state, clientHostname, esmtp, tls, authenticated,
                       invalidCmds, reversePath, forwardPaths, offered,
                       mailTls, accepted>>
    BY <1>2 DEF bdatDone, keepChunk, Answer
  <2>2. state = stateRcpt
    BY <2>1 DEF SafetyInv, PhaseInv
  <2>3. EnvelopeInv'
    BY <2>1, <2>2 DEF SafetyInv, EnvelopeInv
  <2>4. PhaseInv'
    BY <2>1, <2>2 DEF PhaseInv, authPcs
  <2>5. SubmissionGate' /\ TransactionLayer' /\ ChunkIsolation'
    BY <2>1, <2>2 DEF SafetyInv, SubmissionGate, TransactionLayer,
       ChunkIsolation
  <2>6. NoPlaintextAfterTLS'
    BY <2>1, LayerKept DEF SafetyInv
  <2>7. OfferStands' /\ InvalidLimit'
    BY <2>1 DEF SafetyInv, OfferStands, InvalidLimit
  <2>8. BodyWhole' /\ DeliveryInv'
    BY <2>1 DEF SafetyInv, BodyWhole, DeliveryInv, ReadFails, net
  <2> QED BY <2>3, <2>4, <2>5, <2>6, <2>7, <2>8 DEF SafetyInv
<1>3. CASE bdatDone /\ ~keepChunk
  <2> DEFINE m == Message(Units(bdatBuffer + chunk.size), "dot")
  <2>1. PICK c \in Outcomes(451) : finish(c, m)
    BY <1>3 DEF bdatDone
  <2>2. pc = "bdat" /\ UNCHANGED <<body, rbuf, net>>
    BY <1>3 DEF bdatDone
  <2>3. m.authenticated = authenticated /\ m.end = "dot"
    BY DEF Message
  <2>4. state >= stateMail
    BY <2>2 DEF SafetyInv, PhaseInv
  <2> HIDE DEF m
  <2> QED BY <2>1, <2>2, <2>3, <2>4, FinishSafe
<1> QED BY <1>1, <1>2, <1>3

\* AUTH preserves it: it runs outside transactions and raises authenticated only.
LEMMA AuthSafe ==
    ASSUME TypeOK, SafetyInv, handleAUTH \/ authResponse \/ authLOGIN
    PROVE  SafetyInv'
<1>1. CASE Replied
  BY <1>1, QuietSteps
<1>2. CASE /\ pc \in {"read"} \cup authPcs /\ Recv /\ UNCHANGED net
           /\ pc = "read" => state = stateGreeted /\ ~authenticated
           /\ login \/ \E p \in authPcs : Challenge(p)
  <2>1. state = stateGreeted /\ ~authenticated /\ accepted = NoMessage
        /\ pc \notin {"data", "closed"}
    BY <1>2 DEF SafetyInv, PhaseInv, DeliveryInv, authPcs
  <2>2. UNCHANGED tls
    BY <1>2 DEF login, Challenge, session
  <2>3. NoPlaintextAfterTLS'
    BY <1>2, <2>2, LayerKept DEF SafetyInv
  <2>4. ASSUME NEW p \in authPcs, Challenge(p)
        PROVE  SafetyInv'
    <3>1. UNCHANGED <<session, history, net, body>> /\ pc' \in authPcs
      BY <1>2, <2>4 DEF Challenge, progress
    <3>2. pc' \notin {"data", "bdat", "tls"}
      BY <3>1 DEF authPcs
    <3> QED BY <2>1, <2>3, <3>1, <3>2, QuietSafe
  <2>5. CASE login
    <3>1. /\ pc' = "loop" /\ authenticated'
          /\ UNCHANGED <<state, clientHostname, esmtp, tls, invalidCmds,
                         txnVars, body, history>>
      BY <2>5 DEF login, Answer, progress
    <3>2. EnvelopeInv' /\ PhaseInv'
      BY <2>1, <3>1 DEF SafetyInv, EnvelopeInv, PhaseInv, txnVars, authPcs
    <3>3. accepted'.from = NoPath
      BY <2>1, <3>1 DEF history, NoMessage
    <3>4. SubmissionGate' /\ TransactionLayer' /\ ChunkIsolation'
      BY <2>1, <3>1, <3>3 DEF SubmissionGate, TransactionLayer,
         ChunkIsolation
    <3>5. OfferStands' /\ InvalidLimit'
      BY <2>1, <3>1 DEF SafetyInv, OfferStands, InvalidLimit, history
    <3>6. BodyWhole' /\ DeliveryInv'
      BY <1>2, <3>1 DEF SafetyInv, BodyWhole, DeliveryInv, ReadFails, net,
         history
    <3> QED BY <2>3, <3>2, <3>4, <3>5, <3>6 DEF SafetyInv
  <2> QED BY <1>2, <2>4, <2>5
<1> QED BY <1>1, <1>2, AuthCases

\* A sequence whose elements are all in T is a sequence over T.
LEMMA Retype ==
    ASSUME NEW S, NEW T, NEW q \in Seq(S), \A i \in 1..Len(q) : q[i] \in T
    PROVE  q \in Seq(T)
<1>1. Len(q) \in Nat /\ q \in [1..Len(q) -> S]
  OBVIOUS
<1>2. q \in [1..Len(q) -> T]
  BY <1>1
<1> QED BY <1>1, <1>2

\* STARTTLS preserves it: greeting, transaction and buffered input are dropped.
LEMMA TLSSafe ==
    ASSUME TypeOK, SafetyInv, handleSTARTTLS \/ handshakeOk \/ handshakeError
    PROVE  SafetyInv'
<1>1. CASE handleSTARTTLS
  BY <1>1, TLSCases, QuietSteps
<1>2. CASE handshakeOk
  <2>1. /\ resetTransaction /\ rbuf' = <<>> /\ pc = "tls" /\ pc' = "loop"
        /\ UNCHANGED <<invalidCmds, body, net, accepted>>
    BY <1>2 DEF handshakeOk, ReplaceConn, progress, history
  <2>2. state' = stateNew /\ clientHostname' = Empty /\ ~esmtp'
    BY <1>2 DEF handshakeOk, ForgetGreeting
  <2>3. NoPlaintextAfterTLS' /\ OfferStands'
    BY <2>1, <2>2 DEF NoPlaintextAfterTLS, OfferStands
  <2>4. accepted = NoMessage /\ BodyWhole'
    BY <2>1 DEF SafetyInv, DeliveryInv, BodyWhole, ReadFails, net
  <2>5. accepted'.from = NoPath
    BY <2>1, <2>4 DEF NoMessage
  <2> QED BY <2>1, <2>2, <2>3, <2>4, <2>5, ResetSafe
<1>3. CASE handshakeError
  <2>1. /\ pc = "tls" /\ pc' = "loop"
        /\ UNCHANGED <<session, history, net, body>>
    BY <1>3 DEF handshakeError, progress
  <2>2. PICK i \in 0..Len(rbuf) : \E j \in i..Len(rbuf) :
            rbuf' = SubSeq(rbuf, 1, i) \o SubSeq(rbuf, j + 1, Len(rbuf))
    BY <1>3 DEF handshakeError
  <2>3. PICK j \in i..Len(rbuf) :
            rbuf' = SubSeq(rbuf, 1, i) \o SubSeq(rbuf, j + 1, Len(rbuf))
    BY <2>2
  <2>4. rbuf \in Seq(Lines)
    BY DEF TypeOK
  <2> DEFINE Layer == [line: Input, secure: {tls}]
  <2>5. \A k \in 1..Len(rbuf) : rbuf[k] \in Layer
    <3>1. SUFFICES ASSUME NEW k \in 1..Len(rbuf) PROVE rbuf[k] \in Layer
      OBVIOUS
    <3>2. rbuf[k] \in Lines /\ rbuf[k].secure = tls
      BY <2>4 DEF SafetyInv, NoPlaintextAfterTLS
    <3> QED BY <3>2 DEF Lines
  <2> HIDE DEF Layer
  <2>6. rbuf \in Seq(Layer)
    BY <2>4, <2>5, Retype
  <2>7. rbuf' \in Seq(Layer)
    BY <2>3, <2>6, CutType
  <2>8. \A k \in 1..Len(rbuf') : rbuf'[k] \in Layer
    BY <2>7
  <2>9. \A k \in 1..Len(rbuf') : rbuf'[k].secure = tls
    BY <2>8 DEF Layer
  <2>10. NoPlaintextAfterTLS'
    BY <2>1, <2>9 DEF NoPlaintextAfterTLS, session
  <2>11. pc' \notin authPcs
    BY <2>1 DEF authPcs
  <2> QED BY <2>1, <2>10, <2>11, QuietSafe
<1> QED BY <1>1, <1>2, <1>3

\* What the peer, the shutdown and the watcher do leaves the session alone, and
\* can only make reads start to fail.
LEMMA PeerSafe ==
    ASSUME TypeOK, SafetyInv,
           PeerSend \/ PeerClose \/ Quit \/ WatcherStep \/ UNCHANGED vars
    PROVE  SafetyInv'
<1>1. UNCHANGED <<pc, session, body, history>>
  BY DEF PeerSend, PeerClose, Quit, WatcherStep, watcherCancel, watcherClose,
     vars, progress
<1>2. ReadFails => ReadFails'
  BY DEF PeerSend, PeerClose, Quit, WatcherStep, watcherCancel, watcherClose,
     CloseConn, ReadFails, vars, net
<1>3. NoPlaintextAfterTLS'
  <2>1. CASE PeerSend
    <3>1. PICK l \in Input :
              rbuf' = Append(rbuf, [line |-> l, secure |-> tls])
      BY <2>1 DEF PeerSend
    <3>2. rbuf \in Seq(Lines) /\ [line |-> l, secure |-> tls] \in Lines
      BY DEF TypeOK, Lines
    <3> DEFINE e == [line |-> l, secure |-> tls]
    <3>3. e.secure = tls
      OBVIOUS
    <3> HIDE DEF e
    <3>4. /\ Len(rbuf') = Len(rbuf) + 1 /\ rbuf'[Len(rbuf) + 1] = e
          /\ \A i \in 1..Len(rbuf) : rbuf'[i] = rbuf[i]
      BY <3>1, <3>2 DEF e
    <3>5. \A i \in 1..Len(rbuf') : i \in 1..Len(rbuf) \/ i = Len(rbuf) + 1
      BY <3>2, <3>4
    <3> QED BY <1>1, <3>3, <3>4, <3>5
            DEF SafetyInv, NoPlaintextAfterTLS, session
  <2>2. CASE UNCHANGED rbuf
    BY <1>1, <2>2 DEF SafetyInv, NoPlaintextAfterTLS, session
  <2> QED BY <2>1, <2>2 DEF PeerClose, Quit, WatcherStep, watcherCancel,
          watcherClose, vars
<1>4. EnvelopeInv' /\ PhaseInv'
  BY <1>1 DEF SafetyInv, EnvelopeInv, PhaseInv, session, txnVars
<1>5. SubmissionGate' /\ TransactionLayer' /\ ChunkIsolation'
  BY <1>1 DEF SafetyInv, SubmissionGate, TransactionLayer, ChunkIsolation,
     session, txnVars, history
<1>6. OfferStands' /\ InvalidLimit'
  BY <1>1 DEF SafetyInv, OfferStands, InvalidLimit, session, history
<1>7. BodyWhole' /\ DeliveryInv'
  BY <1>1, <1>2 DEF SafetyInv, BodyWhole, DeliveryInv, history
<1> QED BY <1>3, <1>4, <1>5, <1>6, <1>7 DEF SafetyInv

\* Every step preserves the safety invariant.
LEMMA SafetyStep == TypeOK /\ SafetyInv /\ [Next]_vars => SafetyInv'
  BY QuietSteps, LoopSafe, GreetSafe, MailSafe, RcptSafe, BodySafe,
     StartDataSafe, DoneSafe, AuthSafe, TLSSafe, PeerSafe, StatelessCases
     DEF Next, SessionStep, Ended

\* The safety invariant holds of every session, for any input, limits and
\* configuration.
THEOREM Safety == Spec => []SafetyInv
<1>1. Init => TypeOK /\ SafetyInv
  BY InitType, InitSafe
<1>2. TypeOK /\ SafetyInv /\ [Next]_vars => (TypeOK /\ SafetyInv)'
  BY TypeStep, SafetyStep
<1> QED BY <1>1, <1>2, PTL DEF Spec

\* The state always describes the envelope.
THEOREM EnvelopeCorrect == Spec => []EnvelopeInv
<1>1. SafetyInv => EnvelopeInv
  BY DEF SafetyInv
<1> QED BY <1>1, Safety, PTL

\* In submission mode nothing is begun or accepted without authentication.
THEOREM SubmissionSafe == Spec => []SubmissionGate
<1>1. SafetyInv => SubmissionGate
  BY DEF SafetyInv
<1> QED BY <1>1, Safety, PTL

\* No plaintext line is ever read after STARTTLS, for any amount of pipelining.
THEOREM TLSInjectionSafe == Spec => []NoPlaintextAfterTLS
<1>1. SafetyInv => NoPlaintextAfterTLS
  BY DEF SafetyInv
<1> QED BY <1>1, Safety, PTL

\* A transaction is on one layer, and so is the offer the client relies on.
THEOREM LayerSafe == Spec => []LayerInv
<1>1. SafetyInv => LayerInv
  BY DEF SafetyInv, LayerInv
<1> QED BY <1>1, Safety, PTL

\* The allowance of unrecognized commands is never exceeded on an open
\* connection.
THEOREM InvalidLimited == Spec => []InvalidLimit
<1>1. SafetyInv => InvalidLimit
  BY DEF SafetyInv
<1> QED BY <1>1, Safety, PTL

\* Chunks never cross from one transaction into another.
THEOREM ChunksIsolated == Spec => []ChunkIsolation
<1>1. SafetyInv => ChunkIsolation
  BY DEF SafetyInv
<1> QED BY <1>1, Safety, PTL

\* No error path leaves the goroutine in one place and the state in another.
THEOREM PhasesAgree == Spec => []PhaseInv
<1>1. SafetyInv => PhaseInv
  BY DEF SafetyInv
<1> QED BY <1>1, Safety, PTL

\* A body accepted over a good connection was read up to its dot, whenever
\* OnData returned.
THEOREM BodiesWhole == Spec => []BodyWhole
<1>1. SafetyInv => BodyWhole
  BY DEF SafetyInv
<1> QED BY <1>1, Safety, PTL

----------------------------------------------------------------------------
(* What a message is delivered on *)

\* The commands that may deliver a message, and a session that has read one.
Delivers(l) == l.verb = "DATA" \/ (l.verb = "BDAT" /\ l.opt = "LAST")
InHand == pc = "data" \/ (pc = "bdat" /\ chunk.last)
Delivery == accepted' \notin {accepted, NoMessage}

\* A line may put a message in hand, and only the end of it delivers one.
LEMMA DeliverySteps ==
    ASSUME TypeOK, SessionStep
    PROVE  \/ UNCHANGED rbuf /\ ~Delivery /\ (InHand' => InHand)
           \/ Recv /\ ~Delivery /\ (InHand' => InHand \/ Delivers(line))
           \/ UNCHANGED rbuf /\ InHand /\ ~InHand'
           \/ (handshakeOk \/ handshakeError) /\ ~Delivery /\ ~InHand'
<1> DEFINE Goal == \/ UNCHANGED rbuf /\ ~Delivery /\ (InHand' => InHand)
                   \/ Recv /\ ~Delivery /\ (InHand' => InHand \/ Delivers(line))
                   \/ UNCHANGED rbuf /\ InHand /\ ~InHand'
                   \/ (handshakeOk \/ handshakeError) /\ ~Delivery /\ ~InHand'
<1>1. ASSUME UNCHANGED rbuf \/ Recv, accepted' \in {accepted, NoMessage},
             pc' \notin {"data", "bdat"}
      PROVE  Goal
  BY <1>1 DEF Delivery, InHand
<1>2. CASE start \/ loopTop \/ readError \/ unrecognized
  BY <1>1, <1>2 DEF start, loopTop, readError, unrecognized, RecvErr, Answer,
     history
<1>3. CASE handleEHLO \/ handleHELO \/ handleMAIL \/ handleRCPT
  <2>1. \/ Replied
        \/ Took /\ UNCHANGED accepted
           /\ \/ \E e \in BOOLEAN : greet(line.arg, e)
              \/ openTransaction
              \/ addRecipient
    <3>1. CASE handleEHLO \/ handleHELO
      BY <3>1, GreetingCases
    <3>2. CASE handleMAIL
      BY <3>2, MailCases DEF openTransaction
    <3>3. CASE handleRCPT
      BY <3>3, RcptCases DEF addRecipient, history
    <3> QED BY <1>3, <3>1, <3>2, <3>3
  <2> QED BY <1>1, <2>1 DEF Replied, Took, Refuse, Answer, greet,
          openTransaction, addRecipient, history
<1>4. CASE handleDATA
  BY <1>4 DEF handleDATA, Cmd, Refuse, Answer, startData, history, Delivery,
     Delivers, InHand
<1>5. CASE handleBDAT
  <2>1. Recv /\ line.verb = "BDAT"
    BY <1>5 DEF handleBDAT, Cmd
  <2>2. CASE startChunk
    BY <2>1, <2>2 DEF startChunk, history, Delivery, Delivers, InHand
  <2>3. CASE \E c : Refuse(c)
    BY <1>1, <2>1, <2>3 DEF Refuse, Answer, history
  <2> QED BY <1>5, <2>2, <2>3 DEF handleBDAT
<1>6. CASE dataRead \/ dataReadError \/ dataReturns
  BY <1>6 DEF dataRead, dataReadError, dataReturns, history, Delivery, InHand
<1>7. CASE dataDone
  BY <1>7 DEF dataDone, finish, AnswerData, Answer, InHand
<1>8. CASE bdatRead
  <2>1. chunk'.last = chunk.last
    BY <1>8 DEF bdatRead, TypeOK, Chunks
  <2> QED BY <1>8, <2>1 DEF bdatRead, history, Delivery, InHand
<1>9. CASE bdatReadError
  BY <1>1, <1>9 DEF bdatReadError, history
<1>10. CASE bdatDone
  BY <1>1, <1>10 DEF bdatDone, keepChunk, finish, AnswerData, Answer, InHand
<1>11. CASE handleRSET \/ handleQUIT \/ authReadError
  BY <1>1, <1>11 DEF handleRSET, handleQUIT, authReadError, RecvErr, Cmd, Answer,
     history
<1>12. CASE handleNOOP \/ handleVRFY \/ handleEXPN
  BY <1>1, <1>12, StatelessCases DEF Replied, Refuse, Answer, history
<1>13. CASE handleAUTH \/ authResponse \/ authLOGIN
  <2>1. CASE Replied
    BY <1>1, <2>1 DEF Replied, Refuse, Answer, history
  <2>2. CASE Recv /\ (login \/ \E q \in authPcs : Challenge(q))
    BY <1>1, <2>2 DEF login, Challenge, Answer, history, authPcs
  <2> QED BY <1>13, <2>1, <2>2, AuthCases
<1>14. CASE handleSTARTTLS
  BY <1>1, <1>14, TLSCases DEF Replied, Took, Refuse, Answer, startTLS, history
<1>15. CASE handshakeOk \/ handshakeError
  BY <1>15 DEF handshakeOk, handshakeError, history, Delivery, InHand
<1> QED BY <1>2, <1>3, <1>4, <1>5, <1>6, <1>7, <1>8, <1>9, <1>10, <1>11, <1>12,
        <1>13, <1>14, <1>15 DEF SessionStep

----------------------------------------------------------------------------
(* The layer *)

\* Only a handshake changes it.
LEMMA LayerStays ==
    ASSUME SessionStep, ~handshakeOk
    PROVE  tls' = tls
<1>1. Replied => tls' = tls
  BY DEF Replied, Refuse, session
<1>2. CASE handleEHLO \/ handleHELO
  BY <1>1, <1>2, GreetingCases DEF greet
<1>3. CASE handleMAIL \/ handleRCPT
  BY <1>1, <1>3, MailCases, RcptCases DEF openTransaction, addRecipient
<1>4. CASE handleDATA \/ handleBDAT
  BY <1>1, <1>4, DataCases DEF startData, startChunk, session
<1>5. CASE handleAUTH \/ authResponse \/ authLOGIN
  BY <1>1, <1>5, AuthCases DEF login, Challenge, session
<1>6. CASE handleSTARTTLS
  BY <1>1, <1>6, TLSCases DEF startTLS, session
<1>7. CASE handleNOOP \/ handleVRFY \/ handleEXPN
  BY <1>1, <1>7, StatelessCases
<1>8. CASE \/ start \/ loopTop \/ readError \/ unrecognized \/ handleRSET
           \/ handleQUIT \/ authReadError \/ handshakeError
  BY <1>8 DEF start, loopTop, readError, unrecognized, handleRSET, handleQUIT,
     authReadError, handshakeError, session
<1>9. CASE \/ dataRead \/ dataReadError \/ dataReturns \/ dataDone \/ bdatRead
           \/ bdatReadError \/ bdatDone
  BY <1>9 DEF dataRead, dataReadError, dataReturns, dataDone, bdatRead,
     bdatReadError, bdatDone, keepChunk, finish, session
<1> QED BY <1>2, <1>3, <1>4, <1>5, <1>6, <1>7, <1>8, <1>9 DEF SessionStep

----------------------------------------------------------------------------
(* What the peer sees of a step *)

\* Codes that end a command; 220, 334 and 354 ask the peer to go on.
FinalCodes == (1..599) \ {220, 334, 354}

\* What EHLO established stands, and so does the envelope.
Standing == UNCHANGED <<esmtp, offered>>
Settled == Standing /\ UNCHANGED <<state, forwardPaths>>

\* The greeting, or none.
Greets ==
    /\ pc = "start" /\ Settled /\ UNCHANGED rbuf /\ answered' = 1
    /\ \/ pc' = "closed" /\ (reply' = reply \/ reply' \in FinalCodes \ {250})
       \/ pc' = "loop" /\ reply' = 220

\* The loop comes round, or ends with a 421.
Turns ==
    /\ pc = "loop" /\ Settled /\ UNCHANGED rbuf
    /\ answered' = 0
    /\ \/ pc' = "closed" /\ reply' = 421
       \/ pc' = "read" /\ reply' = 0

\* The connection is closed without a reply.
Drops == pc = "read" /\ pc' = "closed" /\ Settled /\ UNCHANGED out
         /\ rbuf' \in {rbuf, Tail(rbuf)}

\* A line is read and answered.
Concludes ==
    /\ pc \in {"read"} \cup authPcs /\ Recv
    /\ pc' = "loop" /\ reply' \in FinalCodes /\ answered' = 1
    /\ \/ Standing
       \/ pc = "read" /\ line.verb \in {"EHLO", "HELO"} /\ reply' = 250
    /\ pc = "read" =>
          /\ line.verb = "BDAT" => reply' # 250
          /\ line.verb = "HELO" /\ reply' = 250 => ~esmtp'
          /\ line.verb = "RSET" => state' < stateMail /\ forwardPaths' = <<>>

\* A command is read, and its handler goes on or the session is over.
Enters ==
    /\ pc = "read" /\ Recv /\ Standing
    /\ \/ /\ line.verb = "DATA" /\ pc' = "data" /\ reply' = 354
          /\ answered' = 0 /\ body'.rd = "open"
       \/ /\ line.verb = "BDAT" /\ pc' = "bdat" /\ reply' = reply
          /\ chunk'.left = line.n
       \/ line.verb = "STARTTLS" /\ pc' = "tls" /\ reply' = 220 /\ answered' = 1
       \/ line.verb = "QUIT" /\ pc' = "closed" /\ reply' = 221 /\ answered' = 1
       \/ line.verb \notin Verbs /\ pc' = "closed" /\ reply' = 421 /\ answered' = 2

\* A SASL exchange goes on.
Asks ==
    /\ \/ pc = "read" /\ line.verb = "AUTH" /\ pc' \in authPcs
       \/ pc = "authUser" /\ pc' = "authPass" /\ line.verb # "*"
    /\ Recv /\ reply' = 334 /\ answered' = 0 /\ Standing

\* A body is read, or OnData returns.
Reads ==
    /\ pc = "data" /\ pc' = "data" /\ Standing /\ UNCHANGED out
    /\ \/ /\ body.rd = "open" /\ Recv
          /\ body'.rd = IF line.verb = "." THEN "dot" ELSE "open"
       \/ ReadFails /\ UNCHANGED rbuf
       \/ body'.rd = body.rd /\ UNCHANGED rbuf

\* A chunk is read.
Takes ==
    /\ pc = "bdat" /\ pc' = "bdat" /\ Standing /\ UNCHANGED out
    /\ chunk.left > 0 /\ Recv /\ chunk'.left = chunk.left - 1

\* A body or a chunk has been read, and is answered.
Completes ==
    /\ \/ pc = "data" /\ body.rd # "open"
       \/ pc = "bdat" /\ chunk.left = 0
    /\ pc' = "loop" /\ reply' \in FinalCodes /\ answered' = 1
    /\ Standing /\ UNCHANGED rbuf

\* A handler gives up after a failed read, without a reply.
GivesUp ==
    /\ \/ pc = "bdat" /\ ReadFails /\ UNCHANGED rbuf
       \/ pc \in authPcs /\ RecvErr
    /\ pc' = "loop" /\ Standing /\ UNCHANGED out

Seen == \/ Greets \/ Turns \/ Drops \/ Concludes \/ Enters \/ Asks \/ Reads
        \/ Takes \/ Completes \/ GivesUp

\* The codes a handler's error or success can end a command with.
LEMMA FinalErrors ==
    /\ \A c \in Errors(451) : c \in FinalCodes /\ c # 250
    /\ \A c \in Errors(421) \cup Errors(535) : c \in FinalCodes /\ c # 250
    /\ \A c \in Outcomes(451) : c = 0 \/ c \in FinalCodes
    /\ \A c \in {250, 252, 452, 500, 501, 502, 503, 530, 235} : c \in FinalCodes
  BY RefusalAssumption, SMTT(30) DEF Errors, Outcomes, FinalCodes

\* A line is refused, or taken note of.
LEMMA RefusedSeen ==
    ASSUME pc \in {"read"} \cup authPcs, Recv, NEW c \in FinalCodes, Refuse(c),
           pc = "read" => /\ line.verb \in {"BDAT", "HELO"} => c # 250
                          /\ line.verb # "RSET"
    PROVE  Concludes
  BY DEF Concludes, Refuse, Answer, Standing, session, history

\* EHLO and HELO conclude their command with one reply.
LEMMA GreetingSeen ==
    ASSUME handleEHLO \/ handleHELO
    PROVE  Concludes
<1>1. pc = "read" /\ Recv /\ line.verb \in {"EHLO", "HELO"}
  BY DEF handleEHLO, handleHELO, Cmd
<1>2. ASSUME NEW c \in Errors(451) \cup {501}, Refuse(c) PROVE Concludes
  <2>1. c \in FinalCodes /\ c # 250
    BY FinalErrors
  <2> QED BY <1>1, <1>2, <2>1, RefusedSeen
<1>3. ASSUME NEW e \in BOOLEAN, greet(line.arg, e), line.verb = "HELO" => e = FALSE
      PROVE  Concludes
  <2>1. 250 \in FinalCodes
    BY FinalErrors
  <2> QED BY <1>1, <1>3, <2>1 DEF greet, Answer, Concludes
<1>4. CASE handleEHLO
  <2>1. line.verb = "EHLO"
    BY <1>4 DEF handleEHLO, Cmd
  <2> QED BY <1>2, <1>3, <1>4, <2>1, ZenonT(30) DEF handleEHLO
<1>5. CASE handleHELO
  BY <1>2, <1>3, <1>5, ZenonT(30) DEF handleHELO
<1> QED BY <1>4, <1>5

\* MAIL and RCPT conclude their command with one reply.
LEMMA MailSeen ==
    ASSUME handleMAIL \/ handleRCPT
    PROVE  Concludes
<1>1. pc = "read" /\ Recv /\ line.verb \in {"MAIL", "RCPT"}
  BY DEF handleMAIL, handleRCPT, Cmd
<1>2. ASSUME NEW c \in Errors(451) \cup {452, 501, 503, 530}, Refuse(c)
      PROVE  Concludes
  <2>1. c \in FinalCodes
    BY FinalErrors
  <2> QED BY <1>1, <1>2, <2>1, RefusedSeen
<1>3. CASE openTransaction \/ addRecipient
  <2>1. 250 \in FinalCodes
    BY FinalErrors
  <2> QED BY <1>1, <1>3, <2>1 DEF openTransaction, addRecipient, Answer,
          Concludes, Standing, history
<1>4. CASE handleMAIL
  <2>1. \/ openTransaction \/ Refuse(503) \/ Refuse(530) \/ Refuse(501)
        \/ \E c \in Errors(451) : Refuse(c)
    BY <1>4, ZenonT(30) DEF handleMAIL
  <2> QED BY <1>2, <1>3, <2>1
<1>5. CASE handleRCPT
  <2>1. \/ addRecipient \/ Refuse(503) \/ Refuse(452) \/ Refuse(501)
        \/ \E c \in Errors(451) : Refuse(c)
    BY <1>5, ZenonT(30) DEF handleRCPT
  <2> QED BY <1>2, <1>3, <2>1
<1> QED BY <1>4, <1>5

\* What a peer sees of DATA and BDAT.
LEMMA DataSeen ==
    ASSUME TypeOK,
           \/ handleDATA \/ dataRead \/ dataReadError \/ dataReturns \/ dataDone
           \/ handleBDAT \/ bdatRead \/ bdatReadError \/ bdatDone
    PROVE  Seen
<1>1. ASSUME NEW c \in {501, 503}, Refuse(c), pc = "read", Recv,
             line.verb \in {"DATA", "BDAT"}
      PROVE  Concludes
  <2>1. c \in FinalCodes /\ c # 250
    BY FinalErrors
  <2> QED BY <1>1, <2>1, RefusedSeen
<1>2. CASE handleDATA
  <2>1. pc = "read" /\ Recv /\ line.verb = "DATA"
    BY <1>2 DEF handleDATA, Cmd
  <2>2. CASE startData
    BY <2>1, <2>2 DEF startData, Seen, Enters, Standing, history
  <2> QED BY <1>1, <1>2, <2>1, <2>2 DEF handleDATA, Seen
<1>3. CASE handleBDAT
  <2>1. pc = "read" /\ Recv /\ line.verb = "BDAT"
    BY <1>3 DEF handleBDAT, Cmd
  <2>2. CASE startChunk
    BY <2>1, <2>2 DEF startChunk, Seen, Enters, Standing, session, history
  <2> QED BY <1>1, <1>3, <2>1, <2>2 DEF handleBDAT, Seen
<1>4. CASE dataRead
  <2>1. body'.rd = IF line.verb = "." THEN "dot" ELSE "open"
    BY <1>4 DEF dataRead, TypeOK, Bodies
  <2> QED BY <1>4, <2>1 DEF dataRead, Seen, Reads, Standing, session, history
<1>5. CASE dataReadError
  BY <1>5 DEF dataReadError, Seen, Reads, Standing, session, history
<1>6. CASE dataReturns
  <2>1. body'.rd = body.rd
    BY <1>6 DEF dataReturns, TypeOK, Bodies
  <2> QED BY <1>6, <2>1 DEF dataReturns, Seen, Reads, Standing, session, history
<1>7. ASSUME NEW c \in Outcomes(451), NEW m, finish(c, m)
      PROVE  pc' = "loop" /\ reply' \in FinalCodes /\ answered' = 1 /\ Standing
  <2>1. (IF c = 0 THEN 250 ELSE c) \in FinalCodes
    BY FinalErrors
  <2> QED BY <1>7, <2>1 DEF finish, AnswerData, Answer, Standing
<1>8. CASE dataDone
  <2>1. body.onData \in Outcomes(451)
    BY <1>8 DEF dataDone, DataDrained, TypeOK, Bodies
  <2> QED BY <1>7, <1>8, <2>1 DEF dataDone, DataDrained, Seen, Completes
<1>9. CASE bdatRead
  <2>1. chunk'.left = chunk.left - 1
    BY <1>9 DEF bdatRead, TypeOK, Chunks
  <2> QED BY <1>9, <2>1 DEF bdatRead, Seen, Takes, Standing, session, history
<1>10. CASE bdatReadError
  BY <1>10 DEF bdatReadError, Seen, GivesUp, Standing, history
<1>11. CASE bdatDone
  <2>1. CASE keepChunk
    <3>1. 250 \in FinalCodes
      BY FinalErrors
    <3> QED BY <1>11, <2>1, <3>1 DEF bdatDone, keepChunk, Answer, Seen,
            Completes, Standing
  <2>2. CASE \E c \in Outcomes(451) :
                finish(c, Message(Units(bdatBuffer + chunk.size), "dot"))
    BY <1>7, <1>11, <2>2 DEF bdatDone, Seen, Completes
  <2> QED BY <1>11, <2>1, <2>2 DEF bdatDone
<1> QED BY <1>2, <1>3, <1>4, <1>5, <1>6, <1>8, <1>9, <1>10, <1>11

\* What a peer sees of AUTH.
LEMMA AuthSeen ==
    ASSUME handleAUTH \/ authResponse \/ authLOGIN \/ authReadError
    PROVE  Seen
<1>1. ASSUME pc \in {"read"} \cup authPcs, Recv, pc = "read" => line.verb = "AUTH",
             NEW c \in Errors(535) \cup {501, 502, 503}, Refuse(c)
      PROVE  Seen
  <2>1. c \in FinalCodes
    BY FinalErrors
  <2> QED BY <1>1, <2>1, RefusedSeen DEF Seen
<1>2. ASSUME pc \in {"read"} \cup authPcs, Recv, pc = "read" => line.verb = "AUTH",
             login
      PROVE  Seen
  <2>1. 235 \in FinalCodes
    BY FinalErrors
  <2> QED BY <1>2, <2>1 DEF login, Answer, Seen, Concludes, Standing, history
<1>3. ASSUME pc \in {"read"} \cup authPcs, Recv, pc = "read" => line.verb = "AUTH",
             Authenticate \/ Refuse(501)
      PROVE  Seen
  <2>1. login \/ Refuse(501) \/ \E c \in Errors(535) : Refuse(c)
    BY <1>3 DEF Authenticate
  <2> QED BY <1>1, <1>2, <1>3, <2>1
<1>4. ASSUME NEW p \in authPcs, Challenge(p), Recv,
             \/ pc = "read" /\ line.verb = "AUTH"
             \/ pc = "authUser" /\ p = "authPass" /\ line.verb # "*"
      PROVE  Seen
  BY <1>4 DEF Challenge, Seen, Asks, Standing, session, history
<1>5. CASE handleAUTH
  <2>1. pc = "read" /\ Recv /\ line.verb = "AUTH" /\ pc \in {"read"} \cup authPcs
    BY <1>5 DEF handleAUTH, Cmd
  <2>2. /\ "authPLAIN" \in authPcs /\ "authUser" \in authPcs /\ "authCRAM" \in authPcs
    BY DEF authPcs
  <2>3. ASSUME NEW r, Check(r) PROVE Authenticate \/ Refuse(501)
    BY <2>3 DEF Check
  <2>4. \/ Authenticate \/ Refuse(501) \/ Refuse(502) \/ Refuse(503)
        \/ \E p \in authPcs : Challenge(p)
    BY <1>5, <2>2, <2>3, ZenonT(30) DEF handleAUTH
  <2> QED BY <1>1, <1>3, <1>4, <2>1, <2>4
<1>6. CASE authResponse
  <2>1. pc \in {"read"} \cup authPcs /\ pc # "read" /\ Recv
    BY <1>6 DEF authResponse, authPcs
  <2>2. Authenticate \/ Refuse(501)
    BY <1>6 DEF authResponse, Check
  <2> QED BY <1>3, <2>1, <2>2
<1>7. CASE authLOGIN
  <2>1. pc \in {"read"} \cup authPcs /\ pc # "read" /\ Recv /\ "authPass" \in authPcs
    BY <1>7 DEF authLOGIN, authPcs
  <2>2. \/ Authenticate \/ Refuse(501)
        \/ pc = "authUser" /\ Challenge("authPass") /\ Response(line) # "invalid"
    BY <1>7 DEF authLOGIN
  <2>3. Response(line) # "invalid" => line.verb # "*"
    BY DEF Response, Verbs
  <2> QED BY <1>3, <1>4, <2>1, <2>2, <2>3
<1>8. CASE authReadError
  BY <1>8 DEF authReadError, Seen, GivesUp, Standing, session, history
<1> QED BY <1>5, <1>6, <1>7, <1>8

\* Every step of the session, but for the handshake.
LEMMA SeenSteps ==
    ASSUME TypeOK, SessionStep
    PROVE  /\ Seen \/ handshakeOk \/ handshakeError
           /\ down' = down /\ pc # "closed"
<1>1. down' = down /\ pc # "closed"
  BY DEF SessionStep, start, loopTop, readError, unrecognized, handleEHLO,
     handleHELO, handleMAIL, handleRCPT, handleDATA, dataRead, dataReadError,
     dataReturns, dataDone, handleBDAT, bdatRead, bdatReadError, bdatDone,
     handleRSET, handleNOOP, handleQUIT, handleVRFY, handleEXPN, handleAUTH,
     authResponse, authLOGIN, authReadError, handleSTARTTLS, handshakeOk,
     handshakeError, Cmd, net, authPcs
<1> SUFFICES Seen \/ handshakeOk \/ handshakeError
  BY <1>1
<1>2. CASE start
  BY <1>2, FinalErrors
     DEF start, Seen, Greets, Settled, Standing, session, txnVars, history
<1>3. CASE loopTop
  BY <1>3 DEF loopTop, Seen, Turns, Settled, Standing, session, txnVars
<1>4. CASE readError
  BY <1>4 DEF readError, RecvErr, Recv, Seen, Drops, Settled, Standing, session,
     txnVars, history
<1>5. CASE unrecognized
  <2>1. 500 \in FinalCodes
    BY FinalErrors
  <2>2. Recv /\ pc = "read" /\ line.verb \notin Verbs /\ Standing
    BY <1>5 DEF unrecognized, Standing, history
  <2>3. line.verb \notin {"BDAT", "HELO", "RSET"}
    BY <2>2 DEF Verbs
  <2>4. \/ pc' = "closed" /\ reply' = 421 /\ answered' = 2
        \/ pc' = "loop" /\ reply' = 500 /\ answered' = 1
    BY <1>5 DEF unrecognized, Answer
  <2> QED BY <2>1, <2>2, <2>3, <2>4 DEF Seen, Concludes, Enters
<1>6. CASE handleRSET
  <2>1. 250 \in FinalCodes
    BY FinalErrors
  <2>2. state' < stateMail
    BY <1>6 DEF handleRSET, TypeOK, stateNew, stateGreeted, stateMail, stateData
  <2> QED BY <1>6, <2>1, <2>2 DEF handleRSET, Cmd, Answer, resetTransaction, Seen,
          Concludes, Standing, history
<1>7. CASE handleNOOP \/ handleEXPN \/ handleVRFY
  <2>1. pc = "read" /\ Recv /\ line.verb \in {"NOOP", "EXPN", "VRFY"}
    BY <1>7 DEF handleNOOP, handleEXPN, handleVRFY, Cmd
  <2>2. \E c \in {250, 252, 502} \cup Errors(451) : Refuse(c)
    BY <1>7 DEF handleNOOP, handleEXPN, handleVRFY, Outcomes, Errors
  <2>3. \A c \in {250, 252, 502} \cup Errors(451) : c \in FinalCodes
    BY FinalErrors
  <2> QED BY <2>1, <2>2, <2>3, RefusedSeen DEF Seen
<1>8. CASE handleQUIT
  BY <1>8 DEF handleQUIT, Cmd, Seen, Enters, Standing, session, history
<1>9. CASE handleSTARTTLS
  <2>1. pc = "read" /\ Recv /\ line.verb = "STARTTLS"
    BY <1>9 DEF handleSTARTTLS, Cmd
  <2>2. CASE startTLS
    BY <2>1, <2>2 DEF startTLS, Seen, Enters, Standing, session, history
  <2>3. ASSUME NEW c \in {502, 503}, Refuse(c) PROVE Seen
    <3>1. c \in FinalCodes
      BY FinalErrors
    <3> QED BY <2>1, <2>3, <3>1, RefusedSeen DEF Seen
  <2> QED BY <1>9, <2>2, <2>3 DEF handleSTARTTLS
<1> QED BY <1>2, <1>3, <1>4, <1>5, <1>6, <1>7, <1>8, <1>9, GreetingSeen,
        MailSeen, DataSeen, AuthSeen DEF SessionStep, Seen

----------------------------------------------------------------------------
(* What a step does to the envelope, the body and the message accepted *)

\* A message is accepted on the end of a body or of a chunk, and forgotten when
\* the loop comes round.
LEMMA AcceptedSteps ==
    ASSUME TypeOK, SessionStep
    PROVE  /\ pc \notin {"data", "bdat"} => accepted' \in {accepted, NoMessage}
           /\ pc' \in {"read", "data"} =>
                 \/ pc = "loop" /\ accepted' = NoMessage
                 \/ pc \in {"read", "data"} /\ accepted' = accepted
<1> DEFINE Goal == /\ pc \notin {"data", "bdat"} => accepted' \in {accepted, NoMessage}
                   /\ pc' \in {"read", "data"} =>
                         \/ pc = "loop" /\ accepted' = NoMessage
                         \/ pc \in {"read", "data"} /\ accepted' = accepted
<1>1. ASSUME accepted' = accepted, pc' \notin {"read", "data"} PROVE Goal
  BY <1>1
<1>2. CASE start \/ readError \/ unrecognized \/ handleRSET \/ handleQUIT
           \/ authReadError \/ bdatRead \/ bdatReadError \/ handshakeOk
           \/ handshakeError
  BY <1>1, <1>2 DEF start, readError, unrecognized, handleRSET, handleQUIT,
     authReadError, bdatRead, bdatReadError, handshakeOk, handshakeError, Cmd,
     Answer, history
<1>3. CASE loopTop
  BY <1>3 DEF loopTop
<1>4. ASSUME Replied PROVE Goal
  BY <1>1, <1>4 DEF Replied, Refuse, Answer, history
<1>5. CASE handleEHLO \/ handleHELO
  BY <1>1, <1>4, <1>5, GreetingCases DEF greet, Answer
<1>6. CASE handleMAIL
  BY <1>1, <1>4, <1>6, MailCases DEF openTransaction, Answer
<1>7. CASE handleRCPT
  BY <1>1, <1>4, <1>7, RcptCases DEF addRecipient, Answer, history
<1>8. CASE handleDATA \/ handleBDAT
  BY <1>1, <1>4, <1>8, DataCases DEF startData, startChunk, Took, history
<1>9. CASE dataRead \/ dataReadError \/ dataReturns
  BY <1>9 DEF dataRead, dataReadError, dataReturns, history
<1>10. CASE dataDone \/ bdatDone
  BY <1>10 DEF dataDone, bdatDone, keepChunk, finish, AnswerData, Answer
<1>11. CASE handleNOOP \/ handleVRFY \/ handleEXPN
  BY <1>4, <1>11, StatelessCases
<1>12. CASE handleAUTH \/ authResponse \/ authLOGIN
  <2>1. CASE login \/ \E q \in authPcs : Challenge(q)
    BY <1>1, <2>1 DEF login, Challenge, Answer, history, authPcs
  <2> QED BY <1>4, <1>12, <2>1, AuthCases
<1>13. CASE handleSTARTTLS
  BY <1>1, <1>4, <1>13, TLSCases DEF startTLS, history
<1> QED BY <1>2, <1>3, <1>5, <1>6, <1>7, <1>8, <1>9, <1>10, <1>11, <1>12, <1>13
        DEF SessionStep

\* MAIL and RCPT change the envelope when they are answered 250, and then only;
\* DATA is not answered so.
LEMMA EnvelopeSteps ==
    ASSUME TypeOK, SessionStep
    PROVE  /\ pc = "loop" => UNCHANGED <<reversePath, forwardPaths>>
           /\ pc = "read" /\ pc' # "closed" =>
                 /\ line.verb = "MAIL" =>
                       IF reply' = 250
                       THEN /\ reversePath' = line.arg /\ line.arg \in Senders
                            /\ forwardPaths' = <<>>
                       ELSE UNCHANGED <<reversePath, forwardPaths>>
                 /\ line.verb = "RCPT" =>
                       /\ reversePath' = reversePath
                       /\ forwardPaths' = IF reply' = 250
                                          THEN Append(forwardPaths, line.arg)
                                          ELSE forwardPaths
                 /\ line.verb = "DATA" =>
                       /\ UNCHANGED <<reversePath, forwardPaths>> /\ reply' # 250
                       /\ pc' = "data" => body'.size = 0
<1>1. pc = "loop" => UNCHANGED <<reversePath, forwardPaths>>
  <2>1. pc = "loop" => loopTop
    BY DEF SessionStep, start, loopTop, readError, unrecognized, handleEHLO,
       handleHELO, handleMAIL, handleRCPT, handleDATA, dataRead, dataReadError,
       dataReturns, dataDone, handleBDAT, bdatRead, bdatReadError, bdatDone,
       handleRSET, handleNOOP, handleQUIT, handleVRFY, handleEXPN, handleAUTH,
       authResponse, authLOGIN, authReadError, handleSTARTTLS, handshakeOk,
       handshakeError, Cmd, authPcs
  <2> QED BY <2>1 DEF loopTop, session, txnVars
<1> SUFFICES ASSUME pc = "read", pc' # "closed",
                    line.verb \in {"MAIL", "RCPT", "DATA"}
             PROVE  /\ line.verb = "MAIL" =>
                          IF reply' = 250
                          THEN /\ reversePath' = line.arg /\ line.arg \in Senders
                               /\ forwardPaths' = <<>>
                          ELSE UNCHANGED <<reversePath, forwardPaths>>
                    /\ line.verb = "RCPT" =>
                          /\ reversePath' = reversePath
                          /\ forwardPaths' = IF reply' = 250
                                             THEN Append(forwardPaths, line.arg)
                                             ELSE forwardPaths
                    /\ line.verb = "DATA" =>
                          /\ UNCHANGED <<reversePath, forwardPaths>> /\ reply' # 250
                          /\ pc' = "data" => body'.size = 0
  BY <1>1
<1>2. handleMAIL \/ handleRCPT \/ handleDATA
  BY DEF SessionStep, start, loopTop, readError, unrecognized, handleEHLO,
     handleHELO, dataRead, dataReadError, dataReturns, dataDone, handleBDAT,
     bdatRead, bdatReadError, bdatDone, handleRSET, handleNOOP, handleQUIT,
     handleVRFY, handleEXPN, handleAUTH, authResponse, authLOGIN, authReadError,
     handleSTARTTLS, handshakeOk, handshakeError, Cmd, Verbs, authPcs
<1>3. ASSUME NEW c \in Errors(451) \cup {452, 501, 503, 530}, Refuse(c)
      PROVE  UNCHANGED <<reversePath, forwardPaths>> /\ reply' # 250 /\ pc' = "loop"
  <2>1. c # 250
    BY FinalErrors
  <2> QED BY <1>3, <2>1 DEF Refuse, Answer, session, txnVars
<1>4. CASE handleMAIL
  <2>1. \/ openTransaction \/ Refuse(503) \/ Refuse(530) \/ Refuse(501)
        \/ \E c \in Errors(451) : Refuse(c)
    BY <1>4, ZenonT(30) DEF handleMAIL
  <2>2. line.verb = "MAIL"
    BY <1>4 DEF handleMAIL, Cmd
  <2> QED BY <1>3, <2>1, <2>2 DEF openTransaction, Answer
<1>5. CASE handleRCPT
  <2>1. \/ addRecipient \/ Refuse(503) \/ Refuse(452) \/ Refuse(501)
        \/ \E c \in Errors(451) : Refuse(c)
    BY <1>5, ZenonT(30) DEF handleRCPT
  <2>2. line.verb = "RCPT"
    BY <1>5 DEF handleRCPT, Cmd
  <2> QED BY <1>3, <2>1, <2>2 DEF addRecipient, Answer
<1>6. CASE handleDATA
  <2>1. line.verb = "DATA" /\ (startData \/ Refuse(503))
    BY <1>6 DEF handleDATA, Cmd
  <2> QED BY <1>3, <2>1 DEF startData, txnVars
<1> QED BY <1>2, <1>4, <1>5, <1>6

\* A line of a body is counted, the dot is not; the message accepted has the
\* envelope and the size of the body, if OnData has agreed.
LEMMA BodySteps ==
    ASSUME TypeOK, SessionStep, pc = "data"
    PROVE  \/ /\ pc' = "data" /\ UNCHANGED <<reversePath, forwardPaths, accepted>>
              /\ \/ UNCHANGED rbuf /\ body'.size = body.size
                 \/ /\ Recv /\ body.rd = "open"
                    /\ body'.size = IF line.verb = "." THEN body.size
                                    ELSE Units(body.size + 1)
           \/ /\ pc' = "loop" /\ body.rd # "open" /\ UNCHANGED rbuf
              /\ accepted' = IF reply' = 250 THEN Message(body.size, body.rd)
                             ELSE NoMessage
<1>1. dataRead \/ dataReadError \/ dataReturns \/ dataDone
  BY DEF SessionStep, start, loopTop, readError, unrecognized, handleEHLO,
     handleHELO, handleMAIL, handleRCPT, handleDATA, handleBDAT,
     bdatRead, bdatReadError, bdatDone, handleRSET, handleNOOP, handleQUIT,
     handleVRFY, handleEXPN, handleAUTH, authResponse, authLOGIN, authReadError,
     handleSTARTTLS, handshakeOk, handshakeError, Cmd, authPcs
<1>2. body \in Bodies
  BY DEF TypeOK
<1>3. CASE dataRead
  <2>1. body'.size = IF line.verb = "." THEN body.size ELSE Units(body.size + 1)
    BY <1>2, <1>3 DEF dataRead, Bodies
  <2> QED BY <1>3, <2>1 DEF dataRead, session, txnVars, history
<1>4. CASE dataReadError \/ dataReturns
  <2>1. body'.size = body.size
    BY <1>2, <1>4 DEF dataReadError, dataReturns, Bodies
  <2> QED BY <1>4, <2>1 DEF dataReadError, dataReturns, session, txnVars, history
<1>5. CASE dataDone
  <2>1. body.onData \in Outcomes(451)
    BY <1>2, <1>5 DEF dataDone, DataDrained, Bodies
  <2>2. reply' = 250 <=> body.onData = 0
    BY <1>5, <2>1, RefusalAssumption DEF dataDone, finish, AnswerData, Answer,
       Outcomes
  <2> QED BY <1>5, <2>2 DEF dataDone, finish, AnswerData, Answer, DataDrained
<1> QED BY <1>1, <1>3, <1>4, <1>5

----------------------------------------------------------------------------
(* Session implements Transaction: every step of a session is, seen from the *)
(* envelope, a step of Transaction or none                                   *)

Unseen == UNCHANGED <<reversePath, forwardPaths, authenticated, accepted>>

\* Outside the report of a delivery, Transaction sees none.
LEMMA NothingDelivered ==
    ASSUME SafetyInv, pc # "loop"
    PROVE  [from |-> accepted.from, to |-> accepted.to] = Txn!Nothing
<1>1. accepted = NoMessage
  BY DEF SafetyInv, DeliveryInv
<1> QED BY <1>1 DEF NoMessage, Txn!Nothing

\* A step that leaves the envelope alone, and neither opens nor closes the
\* transaction, is no step of Transaction.
LEMMA UnseenStep ==
    ASSUME Unseen, state' >= stateMail <=> state >= stateMail
    PROVE  UNCHANGED Txn!vars
<1>1. (state' >= stateMail) = (state >= stateMail)
  OBVIOUS
<1> QED BY <1>1 DEF Unseen, Txn!vars

\* EHLO, HELO, RSET and STARTTLS abort the transaction, if one is open.
LEMMA ResetAborts ==
    ASSUME TypeOK, SafetyInv, resetTransaction,
           state' \in {stateNew, stateGreeted},
           UNCHANGED <<authenticated, accepted>>
    PROVE  [Txn!Next]_(Txn!vars)
<1>1. reversePath' = NoPath /\ forwardPaths' = <<>> /\ ~(state' >= stateMail)
  BY DEF resetTransaction
<1>2. CASE state >= stateMail
  <2>1. Txn!Abort
    BY <1>1, <1>2 DEF Txn!Abort, Txn!End
  <2> QED BY <2>1 DEF Txn!Next
<1>3. CASE ~(state >= stateMail)
  <2>1. reversePath = NoPath
    BY <1>3 DEF SafetyInv, EnvelopeInv
  <2>2. forwardPaths = <<>>
    BY <1>3 DEF SafetyInv, EnvelopeInv, TypeOK
  <2> QED BY <1>1, <1>3, <2>1, <2>2, UnseenStep DEF Unseen
<1> QED BY <1>2, <1>3

\* The end of a message delivers the envelope that was collected, or aborts.
LEMMA FinishDelivers ==
    ASSUME TypeOK, SafetyInv, pc # "loop", state >= stateRcpt,
           NEW c, NEW m, finish(c, m),
           m.from = reversePath, m.to = forwardPaths
    PROVE  [Txn!Next]_(Txn!vars)
<1>1. /\ reversePath' = NoPath /\ forwardPaths' = <<>> /\ state' = stateGreeted
      /\ authenticated' = authenticated
      /\ accepted' = IF c = 0 THEN m ELSE NoMessage
  BY DEF finish, resetTransaction
<1>2. forwardPaths # <<>> /\ state >= stateMail
  BY DEF SafetyInv, EnvelopeInv, TypeOK
<1>3. Txn!End
  BY <1>1, <1>2 DEF Txn!End
<1>4. CASE c = 0
  <2>1. Txn!Deliver
    BY <1>1, <1>2, <1>3, <1>4 DEF Txn!Deliver
  <2> QED BY <2>1 DEF Txn!Next
<1>5. CASE c # 0
  <2>1. accepted = NoMessage
    BY DEF SafetyInv, DeliveryInv
  <2>2. Txn!Abort
    BY <1>1, <1>3, <1>5, <2>1 DEF Txn!Abort
  <2> QED BY <2>2 DEF Txn!Next
<1> QED BY <1>4, <1>5

\* The steps that leave the envelope alone.
LEMMA UnseenSteps ==
    ASSUME TypeOK, SafetyInv,
           \/ Replied \/ start \/ readError \/ authReadError \/ handleQUIT
           \/ unrecognized \/ (Took /\ startChunk) \/ (Took /\ startTLS)
           \/ bdatRead \/ bdatReadError
           \/ dataRead \/ dataReadError \/ dataReturns \/ handshakeError
           \/ PeerSend \/ PeerClose \/ Quit \/ WatcherStep \/ UNCHANGED vars
    PROVE  UNCHANGED Txn!vars
<1>1. Unseen /\ UNCHANGED state
  <2>1. CASE Replied \/ (Took /\ startChunk) \/ (Took /\ startTLS)
    BY <2>1 DEF Replied, Refuse, startChunk, startTLS, session, txnVars,
       history, Unseen
  <2>2. CASE start \/ readError \/ authReadError \/ handleQUIT
    BY <2>2 DEF start, readError, authReadError, handleQUIT, session, txnVars,
       history, Unseen
  <2>3. CASE unrecognized \/ bdatRead \/ bdatReadError
    BY <2>3 DEF unrecognized, bdatRead, bdatReadError, DropChunk, session,
       txnVars, history, Unseen
  <2>4. CASE dataRead \/ dataReadError \/ dataReturns \/ handshakeError
    BY <2>4 DEF dataRead, dataReadError, dataReturns, handshakeError, session,
       txnVars, history, Unseen
  <2>5. CASE PeerSend \/ PeerClose \/ Quit \/ WatcherStep \/ UNCHANGED vars
    BY <2>5 DEF PeerSend, PeerClose, Quit, WatcherStep, watcherCancel,
       watcherClose, vars, session, txnVars, history, Unseen
  <2> QED BY <2>1, <2>2, <2>3, <2>4, <2>5
<1> QED BY <1>1, UnseenStep

\* The session implements Transaction step by step.
LEMMA TransactionStep ==
    TypeOK /\ SafetyInv /\ [Next]_vars => [Txn!Next]_(Txn!vars)
<1> SUFFICES ASSUME TypeOK, SafetyInv, [Next]_vars
             PROVE  [Txn!Next]_(Txn!vars)
  OBVIOUS
<1>1. CASE loopTop
  <2>1. /\ UNCHANGED <<reversePath, forwardPaths, authenticated, state>>
        /\ accepted' = NoMessage
    BY <1>1 DEF loopTop, session, txnVars
  <2>2. Txn!Report
    BY <2>1 DEF Txn!Report, Txn!Nothing, NoMessage
  <2> QED BY <2>2 DEF Txn!Next
<1>2. CASE handleEHLO \/ handleHELO
  <2>1. Replied \/ ((\E ext : greet(line.arg, ext)) /\ UNCHANGED accepted)
    BY <1>2, GreetingCases
  <2>2. ASSUME NEW ext, greet(line.arg, ext), UNCHANGED accepted
        PROVE  [Txn!Next]_(Txn!vars)
    BY <2>2, ResetAborts DEF greet
  <2> QED BY <2>1, <2>2, UnseenSteps
<1>3. CASE handleRSET
  <2>1. state' \in {stateNew, stateGreeted}
    BY <1>3 DEF handleRSET, TypeOK
  <2> QED BY <1>3, <2>1, ResetAborts DEF handleRSET, history
<1>4. CASE handshakeOk
  BY <1>4, ResetAborts DEF handshakeOk, ForgetGreeting, history
<1>5. CASE handleMAIL
  <2>1. CASE Took /\ state = stateGreeted /\ MaySubmit /\ openTransaction
    <3>1. line.arg \in Senders /\ reversePath' = line.arg /\ forwardPaths' = <<>>
          /\ state' = stateMail /\ UNCHANGED <<authenticated, accepted>>
      BY <2>1 DEF openTransaction
    <3>2. [from |-> accepted.from, to |-> accepted.to] = Txn!Nothing
      BY <2>1, NothingDelivered DEF Took
    <3>3. Txn!Begin(line.arg)
      BY <2>1, <3>1, <3>2 DEF Txn!Begin, MaySubmit
    <3> QED BY <3>1, <3>3 DEF Txn!Next
  <2> QED BY <1>5, <2>1, MailCases, UnseenSteps
<1>6. CASE handleRCPT
  <2>1. CASE Took /\ state >= stateMail /\ RoomForRecipient /\ addRecipient
    <3>1. /\ line.arg \in Recipients
          /\ forwardPaths' = Append(forwardPaths, line.arg)
          /\ UNCHANGED <<reversePath, authenticated, accepted>>
          /\ state' >= stateMail
      BY <2>1 DEF addRecipient, ForwardPathOk, history, TypeOK
    <3>2. Txn!AddRecipient(line.arg)
      BY <2>1, <3>1 DEF Txn!AddRecipient, RoomForRecipient
    <3> QED BY <3>1, <3>2 DEF Txn!Next
  <2> QED BY <1>6, <2>1, RcptCases, UnseenSteps
<1>7. CASE handleDATA \/ handleBDAT
  <2>1. CASE Took /\ ~DataRefused /\ startData
    <3>1. state >= stateMail /\ state' >= stateMail /\ Unseen
      BY <2>1 DEF startData, DataRefused, txnVars, history, TypeOK, Unseen
    <3> QED BY <3>1, UnseenStep
  <2> QED BY <1>7, <2>1, DataCases, UnseenSteps
<1>8. CASE dataDone
  <2> DEFINE m == Message(body.size, body.rd)
  <2>1. pc = "data" /\ finish(body.onData, m)
    BY <1>8 DEF dataDone
  <2>2. m.from = reversePath /\ m.to = forwardPaths
    BY DEF Message
  <2>3. state >= stateRcpt
    BY <2>1 DEF SafetyInv, PhaseInv
  <2> HIDE DEF m
  <2> QED BY <2>1, <2>2, <2>3, FinishDelivers
<1>9. CASE bdatDone
  <2> DEFINE m == Message(Units(bdatBuffer + chunk.size), "dot")
  <2>1. pc = "bdat" /\ (keepChunk \/ \E c : finish(c, m))
    BY <1>9 DEF bdatDone
  <2>2. m.from = reversePath /\ m.to = forwardPaths
    BY DEF Message
  <2>3. state >= stateRcpt
    BY <2>1 DEF SafetyInv, PhaseInv
  <2>4. CASE keepChunk
    BY <2>4, UnseenStep DEF keepChunk, Unseen
  <2> HIDE DEF m
  <2> QED BY <2>1, <2>2, <2>3, <2>4, FinishDelivers
<1>10. CASE handleAUTH \/ authResponse \/ authLOGIN
  <2>1. ASSUME NEW p, Challenge(p)
        PROVE  UNCHANGED Txn!vars
    BY <2>1, UnseenStep DEF Challenge, session, txnVars, history, Unseen
  <2>2. ASSUME login, pc \in {"read"} \cup authPcs,
               pc = "read" => state = stateGreeted
        PROVE  Txn!Next
    <3>1. pc # "loop" /\ state = stateGreeted
      BY <2>2 DEF SafetyInv, PhaseInv, authPcs
    <3>2. [from |-> accepted.from, to |-> accepted.to] = Txn!Nothing
      BY <3>1, NothingDelivered
    <3>3. /\ authenticated' = TRUE
          /\ UNCHANGED <<state, reversePath, forwardPaths, accepted>>
      BY <2>2 DEF login, txnVars, history
    <3>4. Txn!Authorise
      BY <3>1, <3>2, <3>3 DEF Txn!Authorise
    <3> QED BY <3>4 DEF Txn!Next
  <2> QED BY <1>10, <2>1, <2>2, AuthCases, UnseenSteps
<1>11. CASE handleSTARTTLS
  BY <1>11, TLSCases, UnseenSteps
<1>12. CASE \/ start \/ readError \/ unrecognized \/ dataRead \/ dataReadError
            \/ dataReturns \/ bdatRead \/ bdatReadError \/ handleQUIT
            \/ authReadError \/ handshakeError \/ PeerSend \/ PeerClose \/ Quit
            \/ WatcherStep \/ UNCHANGED vars
  BY <1>12, UnseenSteps
<1>13. CASE handleNOOP \/ handleVRFY \/ handleEXPN
  BY <1>13, StatelessCases, UnseenSteps
<1> QED BY <1>1, <1>2, <1>3, <1>4, <1>5, <1>6, <1>7, <1>8, <1>9, <1>10, <1>11,
        <1>12, <1>13 DEF Next, SessionStep, Ended

\* Session implements Transaction, for any input, limits and configuration:
\* whatever the commands and their order, a delivery is made once, with the
\* sender and exactly the recipients the handlers accepted for it.
THEOREM ImplementsTransaction == Spec => TransactionSpec
<1>1. Init => Txn!Init
  BY DEF Init, Txn!Init, Txn!Nothing, NoMessage
<1>2. TypeOK /\ SafetyInv /\ [Next]_vars => [Txn!Next]_(Txn!vars)
  BY TransactionStep
<1> QED BY <1>1, <1>2, TypeCorrect, Safety, PTL DEF Spec, TransactionSpec, Txn!Spec

----------------------------------------------------------------------------
(* One reply for a command *)

\* No read fails but through the peer or a shutdown.
GoodReads == ~ReadTimeouts /\ \A l \in Input : l.verb # "LONG"

\* The handlers that return to the loop without writing have written before:
\* STARTTLS has had its 220 when the handshake begins.
ReplyInv ==
    pc \in {"loop", "tls"} /\ ~peerClosed /\ down = "up" => answered = 1

\* Every step of a session whose reads do not time out preserves it.
LEMMA ReplyStep ==
    ASSUME GoodReads
    PROVE  TypeOK /\ ReplyInv /\ [Next]_vars => ReplyInv'
<1> SUFFICES ASSUME TypeOK, ReplyInv, [Next]_vars, pc' \in {"loop", "tls"},
                    ~peerClosed', down' = "up"
             PROVE  answered' = 1
  BY DEF ReplyInv
<1>1. ~peerClosed /\ down = "up"
  <2>1. \/ UNCHANGED net
        \/ peerClosed' = TRUE
        \/ down' \in {"quit", "cancelled", "ncClosed"}
    <3>1. CASE SessionStep
      BY <3>1, StatelessCases
         DEF SessionStep, start, loopTop, readError, unrecognized, handleEHLO,
         handleHELO, handleMAIL, handleRCPT, handleDATA, dataRead,
         dataReadError, dataReturns, dataDone, handleBDAT, bdatRead,
         bdatReadError, bdatDone, handleRSET, handleQUIT, handleAUTH, Cmd,
         authResponse, authLOGIN, authReadError, handleSTARTTLS, handshakeOk,
         handshakeError, Replied
    <3>2. CASE ~SessionStep
      BY <3>2 DEF Next, WatcherStep, watcherCancel, watcherClose, CloseConn,
         PeerSend, PeerClose, Quit, Ended, vars, net
    <3> QED BY <3>1, <3>2
  <2> QED BY <2>1 DEF net, TypeOK
<1>2. ~ReadFails
  BY <1>1 DEF ReadFails, GoodReads
<1>3. ASSUME Recv PROVE ~TooLong
  BY <1>3, RecvType DEF TooLong, GoodReads
<1>4. ~RecvErr
  BY <1>2, <1>3 DEF RecvErr
<1>5. ASSUME UNCHANGED <<pc, out>> PROVE answered' = 1
  BY <1>1, <1>5 DEF ReplyInv, out
<1>6. ASSUME Replied \/ \E c : Answer(c) PROVE answered' = 1
  BY <1>6 DEF Replied, Refuse, Answer
<1>7. CASE start \/ loopTop \/ readError \/ unrecognized \/ handleQUIT
  BY <1>4, <1>7 DEF start, loopTop, readError, unrecognized, Answer, handleQUIT
<1>8. CASE handleEHLO \/ handleHELO \/ handleRSET \/ handleMAIL \/ handleRCPT
  BY <1>6, <1>8, GreetingCases, MailCases, RcptCases
     DEF greet, handleRSET, openTransaction, addRecipient
<1>9. CASE \/ handleDATA \/ handleBDAT \/ dataRead \/ dataReadError
           \/ dataReturns \/ dataDone \/ bdatRead \/ bdatReadError \/ bdatDone
  BY <1>2, <1>5, <1>6, <1>9, DataCases
     DEF startData, startChunk, dataRead, dataReadError, dataReturns, dataDone,
     bdatRead, bdatReadError, bdatDone, keepChunk, finish, AnswerData
<1>10. CASE handleNOOP \/ handleVRFY \/ handleEXPN
  BY <1>6, <1>10, StatelessCases
<1>11. CASE handleAUTH \/ authResponse \/ authLOGIN \/ authReadError
  BY <1>4, <1>6, <1>11, AuthCases DEF login, Challenge, authPcs, authReadError
<1>12. CASE handleSTARTTLS \/ handshakeOk \/ handshakeError
  BY <1>1, <1>6, <1>12, TLSCases
     DEF startTLS, handshakeOk, handshakeError, ReplyInv, out
<1>13. CASE PeerSend \/ PeerClose \/ Quit \/ WatcherStep \/ UNCHANGED vars
  BY <1>5, <1>13 DEF PeerSend, PeerClose, Quit, WatcherStep, watcherCancel,
     watcherClose, vars
<1> QED BY <1>7, <1>8, <1>9, <1>10, <1>11, <1>12, <1>13
        DEF Next, SessionStep, Ended

\* While the peer is there and no shutdown has begun, every command gets
\* exactly one final reply, if reads fail for no other reason: a deadline, or
\* an over-long line, inside AUTH or BDAT does return to the loop without one.
THEOREM RepliesOnce ==
    ASSUME GoodReads
    PROVE  Spec => []OneReply
<1>1. Init => ReplyInv
  BY DEF Init, ReplyInv
<1>2. TypeOK /\ ReplyInv /\ [Next]_vars => ReplyInv'
  BY ReplyStep
<1>3. ReplyInv => OneReply
  BY DEF ReplyInv, OneReply
<1> QED BY <1>1, <1>2, <1>3, TypeCorrect, PTL DEF Spec
=============================================================================
