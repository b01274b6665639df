--------------------------- MODULE DialogueProofs ---------------------------
(***************************************************************************)
(* The library's client and session together, for every value of their     *)
(* constants.  The invariants proved of each hold of the two composed.     *)
(***************************************************************************)
EXTENDS Dialogue, SequenceTheorems, FiniteSetTheorems, TLAPS

CP == INSTANCE ClientProofs WITH tls <- ctls, srv <- pc
SP == INSTANCE SessionProofs WITH peerClosed <- ~open, Input <- CP!Steps

----------------------------------------------------------------------------
(* What is proved of the parts *)

\* The actions are those ClientProofs and SessionProofs are about.
LEMMA SameClient ==
    /\ C!ClientStep => CP!ClientStep
    /\ C!Expire => CP!Expire
    /\ C!upgraded => CP!upgraded
    /\ C!handshakeError => CP!handshakeError
  BY Zenon DEF
      C!control, C!fields, C!Empty, C!Bare, C!With, C!Text, C!Busy,
     C!ServerGone, C!CanWrite, C!CannotWrite, C!CannotRead, C!Write,
     C!EndsReply, C!Consume, C!ReadReply, C!NoResult, C!Doing, C!step, C!Closes,
     C!ReturnAnd, C!Return, C!Advance, C!Begin, C!Call, C!Sent, C!Request,
     C!InStepAfterRefusal, C!Wanted, C!Expect, C!Exchange, C!Failure, C!Break,
     C!writeError, C!readError, C!malformedReply, C!Connect, C!Dial,
     C!NewClient, C!greeting, C!ParseEHLOResponse, C!SetExts, C!ehloReply,
     C!heloReply, C!ehlo, C!DataStep, C!SendSteps, C!Mail, C!Rcpt, C!dataReply,
     C!Terminated, C!sendBody, C!bodyWriteError, C!Data, C!Bdat, C!Reset,
     C!Noop, C!SendMail, C!startTLSReply, C!Reissue, C!upgraded,
     C!HandshakeFailed, C!handshakeError, C!StartTLS, C!MaxChallenges, C!Count,
     C!AuthStep, C!NextFails, C!LoginNext, C!authReply, C!respond,
     C!respondError, C!ReadCancelReply, C!authCancelled, C!UseMechanism, C!Auth,
     C!UpgradeFirst, C!SubmitMessage, C!Close, C!Expire, C!ClientStep,
     CP!control, CP!fields, CP!Empty, CP!Bare, CP!With, CP!Text, CP!Busy,
     CP!ServerGone, CP!CanWrite, CP!CannotWrite, CP!CannotRead, CP!Write,
     CP!EndsReply, CP!Consume, CP!ReadReply, CP!NoResult, CP!Doing, CP!step,
     CP!Closes, CP!ReturnAnd, CP!Return, CP!Advance, CP!Begin, CP!Call, CP!Sent,
     CP!Request, CP!InStepAfterRefusal, CP!Wanted, CP!Expect, CP!Exchange,
     CP!Failure, CP!Break, CP!writeError, CP!readError, CP!malformedReply,
     CP!Connect, CP!Dial, CP!NewClient, CP!greeting, CP!ParseEHLOResponse,
     CP!SetExts, CP!ehloReply, CP!heloReply, CP!ehlo, CP!DataStep, CP!SendSteps,
     CP!Mail, CP!Rcpt, CP!dataReply, CP!Terminated, CP!sendBody,
     CP!bodyWriteError, CP!Data, CP!Bdat, CP!Reset, CP!Noop, CP!SendMail,
     CP!startTLSReply, CP!Reissue, CP!upgraded, CP!HandshakeFailed,
     CP!handshakeError, CP!StartTLS, CP!MaxChallenges, CP!Count, CP!AuthStep,
     CP!NextFails, CP!LoginNext, CP!authReply, CP!respond, CP!respondError,
     CP!ReadCancelReply, CP!authCancelled, CP!UseMechanism, CP!Auth,
     CP!UpgradeFirst, CP!SubmitMessage, CP!Close, CP!Expire, CP!ClientStep

\* The session's steps are the same in both instances of Session.
LEMMA SameSession ==
    /\ S!SessionStep => SP!SessionStep
    /\ S!WatcherStep => SP!WatcherStep
    /\ S!Quit => SP!Quit
    /\ S!handshakeOk => SP!handshakeOk
    /\ S!handshakeError => SP!handshakeError
  BY Zenon DEF
      S!NoPath, S!Empty, S!txnVars, S!session, S!progress, S!net, S!out,
     S!history, S!stateNew, S!stateGreeted, S!stateMail, S!stateRcpt,
     S!stateData, S!ReadFails, S!line, S!Recv, S!TooLong, S!RecvErr, S!Cmd,
     S!Answer, S!Refuse, S!Outcomes, S!Errors, S!resetTransaction, S!NoBody,
     S!NoMessage, S!NoChunk, S!Units, S!start, S!loopTop, S!readError,
     S!AtLimit, S!Verbs, S!unrecognized, S!Exts, S!greet, S!handleEHLO,
     S!handleHELO, S!MaySubmit, S!openTransaction, S!handleMAIL,
     S!RoomForRecipient, S!ForwardPathOk, S!addRecipient, S!handleRCPT,
     S!Message, S!AnswerData, S!finish, S!Running, S!DataRefused, S!startData,
     S!handleDATA, S!dataRead, S!dataReadError, S!dataReturns, S!DataDrained,
     S!dataDone, S!startChunk, S!handleBDAT, S!bdatRead, S!DropChunk,
     S!bdatReadError, S!keepChunk, S!bdatDone, S!handleRSET, S!handleNOOP,
     S!handleEXPN, S!handleVRFY, S!handleQUIT, S!Response, S!AuthAllowed,
     S!Challenge, S!login, S!Authenticate, S!Check, S!handleAUTH, S!authPcs,
     S!authResponse, S!authLOGIN, S!authReadError, S!startTLS, S!handleSTARTTLS,
     S!ReplaceConn, S!ForgetGreeting, S!handshakeOk, S!handshakeError, S!Quit,
     S!watcherCancel, S!CloseConn, S!watcherClose, S!SessionStep, S!WatcherStep,
     SP!NoPath, SP!Empty, SP!txnVars, SP!session, SP!progress, SP!net, SP!out,
     SP!history, SP!stateNew, SP!stateGreeted, SP!stateMail, SP!stateRcpt,
     SP!stateData, SP!ReadFails, SP!line, SP!Recv, SP!TooLong, SP!RecvErr,
     SP!Cmd, SP!Answer, SP!Refuse, SP!Outcomes, SP!Errors, SP!resetTransaction,
     SP!NoBody, SP!NoMessage, SP!NoChunk, SP!Units, SP!start, SP!loopTop,
     SP!readError, SP!AtLimit, SP!Verbs, SP!unrecognized, SP!Exts, SP!greet,
     SP!handleEHLO, SP!handleHELO, SP!MaySubmit, SP!openTransaction,
     SP!handleMAIL, SP!RoomForRecipient, SP!ForwardPathOk, SP!addRecipient,
     SP!handleRCPT, SP!Message, SP!AnswerData, SP!finish, SP!Running,
     SP!DataRefused, SP!startData, SP!handleDATA, SP!dataRead, SP!dataReadError,
     SP!dataReturns, SP!DataDrained, SP!dataDone, SP!startChunk, SP!handleBDAT,
     SP!bdatRead, SP!DropChunk, SP!bdatReadError, SP!keepChunk, SP!bdatDone,
     SP!handleRSET, SP!handleNOOP, SP!handleEXPN, SP!handleVRFY, SP!handleQUIT,
     SP!Response, SP!AuthAllowed, SP!Challenge, SP!login, SP!Authenticate,
     SP!Check, SP!handleAUTH, SP!authPcs, SP!authResponse, SP!authLOGIN,
     SP!authReadError, SP!startTLS, SP!handleSTARTTLS, SP!ReplaceConn,
     SP!ForgetGreeting, SP!handshakeOk, SP!handshakeError, SP!Quit,
     SP!watcherCancel, SP!CloseConn, SP!watcherClose, SP!SessionStep,
     SP!WatcherStep

\* The dialogue's constants satisfy the assumptions of both parts.
LEMMA Assumptions ==
    /\ CP!CallAssumption /\ SP!InputAssumption /\ SP!PathAssumption
    /\ SP!LimitAssumption /\ SP!SwitchAssumption /\ SP!RefusalAssumption
<1>1. SP!InputAssumption
  BY DEF SP!InputAssumption, CP!Steps
<1>2. CP!CallAssumption
  BY DialogueAssumption, Zenon DEF C!CallAssumption, CP!CallAssumption
<1>3. SP!PathAssumption /\ SP!LimitAssumption /\ SP!SwitchAssumption
      /\ SP!RefusalAssumption
  BY DialogueAssumption, Zenon
     DEF S!PathAssumption, S!LimitAssumption, S!SwitchAssumption,
         S!RefusalAssumption, SP!PathAssumption, SP!LimitAssumption,
         SP!SwitchAssumption, SP!RefusalAssumption, S!NoPath, SP!NoPath
<1> QED BY <1>1, <1>2, <1>3

\* Types, of the client and of the session: everything a step of the one, or
\* of the other, relies on.
Parts == CP!CallInv /\ SP!TypeOK /\ ctls = tls

\* What the invariant of the parts says of each variable.
LEMMA PartTypes ==
    ASSUME Parts
    PROVE  /\ CP!TypeOK /\ CP!PlaceInv /\ CP!StepsInv /\ SP!TypeOK
           /\ at \in CP!Places /\ todo \in Seq(CP!Steps) /\ open \in BOOLEAN
           /\ rbuf \in Seq(CP!Queued) /\ wire \in Seq(CP!ReplyLines)
           /\ pc \in SP!pcs /\ chunk \in SP!Chunks /\ clean \in BOOLEAN
           /\ ctls \in BOOLEAN
<1>1. CP!TypeOK /\ CP!PlaceInv /\ CP!StepsInv /\ SP!TypeOK
  BY DEF Parts, CP!CallInv
<1>2. CP!ControlOK /\ CP!StreamsOK /\ CP!RestOK
  BY <1>1, CP!TypeParts, Assumptions
<1> QED BY <1>1, <1>2 DEF CP!ControlOK, CP!StreamsOK, CP!RestOK, SP!TypeOK

\* The invariants of both parts hold initially.
LEMMA InitParts == Init => Parts
<1> SUFFICES ASSUME Init PROVE Parts
  OBVIOUS
<1>1. CP!Init /\ SP!Init /\ ctls = tls
  BY Zenon DEF Init, C!Init, S!Init, CP!Init, SP!Init, C!NoResult, CP!NoResult,
     S!stateNew, SP!stateNew, S!Empty, SP!Empty, S!NoPath, SP!NoPath,
     S!NoBody, SP!NoBody, S!NoChunk, SP!NoChunk, S!NoMessage, SP!NoMessage
<1> QED BY <1>1, CP!InitCallInv, SP!InitType, Assumptions DEF Parts

\* The client does not move.
LEMMA ClientStays ==
    ASSUME Parts, UNCHANGED client, SP!TypeOK', wire' \in Seq(CP!ReplyLines)
    PROVE  CP!CallInv'
<1>1. CP!ControlOK /\ CP!RestOK
  BY PartTypes, CP!TypeParts, Assumptions
<1>2. CP!ControlOK'
  BY <1>1 DEF CP!ControlOK, client
<1>3. rbuf' \in Seq(CP!Queued) /\ pc' \in CP!ServerPlaces
  BY DEF SP!TypeOK, SP!Lines, CP!Queued, SP!pcs, SP!authPcs, CP!ServerPlaces
<1>4. CP!RestOK'
  BY <1>1, <1>3 DEF CP!RestOK, client
<1>5. CP!TypeOK'
  BY <1>2, <1>3, <1>4, CP!TypeParts, Assumptions DEF CP!StreamsOK
<1>6. CP!Shape
  BY DEF CP!Shape, CP!Stays, client, CP!control, CP!fields
<1> QED BY <1>5, <1>6, CP!CallInvShape, Assumptions DEF Parts

\* The session does not move, whatever arrives.
LEMMA SessionStays ==
    ASSUME Parts, UNCHANGED server, rbuf' \in Seq(CP!Queued), open' \in BOOLEAN
    PROVE  SP!TypeOK'
  BY DEF Parts, SP!TypeOK, SP!Lines, CP!Queued, server

\* The reply lines the session writes.
LEMMA ReplyType == \A c \in 0..599 : C!Reply(c) \in Seq(CP!ReplyLines)
<1> SUFFICES ASSUME NEW c \in 0..599 PROVE C!Reply(c) \in Seq(CP!ReplyLines)
  OBVIOUS
<1>1. [code |-> c, sep |-> " ", exts |-> {}] \in CP!ReplyLines
  BY DEF CP!ReplyLines
<1> DEFINE x == [code |-> c, sep |-> " ", exts |-> {}]
<1>2. C!Reply(c) = <<x>>
  BY DEF C!Reply
<1> HIDE DEF x
<1>3. x \in CP!ReplyLines
  BY <1>1 DEF x
<1> QED BY <1>2, <1>3

\* What the session writes is a sequence of reply lines.
LEMMA ReplyLinesType ==
    ASSUME SP!TypeOK'
    PROVE  ReplyLines \in Seq(CP!ReplyLines)
<1>1. reply' \in 0..599
  BY DEF SP!TypeOK
<1>2. offered' \in SUBSET CP!Words
  BY DEF SP!TypeOK, CP!Words
<1>3. \A c \in 0..599 : C!Reply(c) \in Seq(CP!ReplyLines)
  BY ReplyType
<1>4. C!Offer(offered') \in Seq(CP!ReplyLines)
  <2>1. [code |-> 250, sep |-> "-", exts |-> {}] \in CP!ReplyLines
    BY DEF CP!ReplyLines
  <2>2. [code |-> 250, sep |-> " ", exts |-> offered'] \in CP!ReplyLines
    BY <1>2 DEF CP!ReplyLines
  <2> DEFINE x == [code |-> 250, sep |-> "-", exts |-> {}]
             y == [code |-> 250, sep |-> " ", exts |-> offered']
  <2>3. C!Offer(offered') = <<x, y>> /\ x \in CP!ReplyLines /\ y \in CP!ReplyLines
    BY <2>1, <2>2 DEF C!Offer
  <2> HIDE DEF x, y
  <2> QED BY <2>3
<1>5. C!Reply(500) \o C!Reply(reply') \in Seq(CP!ReplyLines)
  <2>1. 500 \in 0..599
    OBVIOUS
  <2>2. C!Reply(500) \in Seq(CP!ReplyLines) /\ C!Reply(reply') \in Seq(CP!ReplyLines)
    BY <1>1, <1>3, <2>1, ZenonT(40)
  <2> QED BY <2>2, ConcatProperties
<1> QED BY <1>1, <1>3, <1>4, <1>5, ZenonT(40) DEF ReplyLines

\* The stream to the client keeps its type when the session writes.
LEMMA ReplyTypes ==
    ASSUME Parts, SP!TypeOK', wire' \in {wire, wire \o ReplyLines}
    PROVE  wire' \in Seq(CP!ReplyLines)
<1>1. wire \in Seq(CP!ReplyLines) /\ ReplyLines \in Seq(CP!ReplyLines)
  BY PartTypes, ReplyLinesType
<1>2. wire \o ReplyLines \in Seq(CP!ReplyLines)
  BY <1>1, ConcatProperties, SMTT(30)
<1> QED BY <1>1, <1>2

\* The session moves, or the watcher, or the server is shut down.
LEMMA SessionParts ==
    ASSUME Parts, ServerStep \/ Shutdown \/ Watcher
    PROVE  Parts'
<1>1. SP!TypeOK /\ ctls = tls
  BY DEF Parts
<1>2. SP!SessionStep \/ SP!Quit \/ SP!WatcherStep
  BY SameSession DEF ServerStep, Shutdown, Watcher, SP!SessionStep
<1>3. SP!TypeOK'
  BY <1>1, <1>2, SP!TypeStep, Assumptions DEF SP!Next
<1>4. UNCHANGED client
  BY DEF ServerStep, Shutdown, Watcher
<1>5. wire' \in {wire, wire \o ReplyLines}
  BY DEF ServerStep, Shutdown, Watcher
<1>6. wire' \in Seq(CP!ReplyLines)
  BY <1>3, <1>5, ReplyTypes
<1>7. tls' = tls
  <2>1. CASE SP!Quit \/ SP!WatcherStep
    BY <2>1 DEF SP!Quit, SP!WatcherStep, SP!watcherCancel, SP!watcherClose,
       SP!session
  <2>2. CASE ServerStep
    <3>1. SP!SessionStep /\ (SP!handshakeError \/ pc # "tls")
      BY <2>2, SameSession DEF ServerStep, SP!SessionStep
    <3>2. CASE pc # "tls"
      BY <3>1, <3>2, SP!LayerStays, Assumptions DEF SP!handshakeOk
    <3>3. CASE SP!handshakeError
      BY <3>3 DEF SP!handshakeError, SP!session
    <3> QED BY <3>1, <3>2, <3>3
  <2> QED BY <2>1, <2>2, SameSession DEF Shutdown, Watcher
<1> QED BY <1>1, <1>3, <1>4, <1>6, <1>7, ClientStays DEF Parts, client

\* The client moves.
LEMMA ClientParts ==
    ASSUME Parts, ClientStep
    PROVE  Parts' /\ CP!Shape /\ (CP!ClientStep \/ CP!Expire)
<1>1. CP!TypeOK /\ CP!PlaceInv /\ CP!StepsInv
  BY PartTypes
<1>2. CP!ClientStep \/ CP!Expire
  BY SameClient DEF ClientStep
<1>3. CP!TypeOK'
  BY <1>1, <1>2, CP!ClientType, Assumptions
<1>4. CP!Shape
  BY <1>1, <1>2, CP!ClientShape, Assumptions
<1>5. CP!CallInv'
  BY <1>3, <1>4, CP!CallInvShape, Assumptions DEF Parts
<1>6. rbuf' \in Seq(CP!Queued) /\ open' \in BOOLEAN
  BY <1>3, CP!TypeParts, Assumptions DEF CP!ControlOK, CP!StreamsOK
<1>7. SP!TypeOK'
  BY <1>6, SessionStays DEF ClientStep
<1>8. ctls' = ctls
  BY <1>2, CP!LayerStays, Assumptions
<1> QED BY <1>2, <1>4, <1>5, <1>7, <1>8 DEF Parts, ClientStep, server

\* The two shake hands, or one of them fails to.
LEMMA HandshakeParts ==
    ASSUME Parts, Handshake
    PROVE  /\ Parts' /\ CP!Shape
           /\ \/ CP!upgraded /\ SP!handshakeOk
              \/ CP!handshakeError /\ SP!handshakeError
              \/ CP!handshakeError /\ UNCHANGED <<server, rbuf>>
<1>1. CP!TypeOK /\ CP!PlaceInv /\ CP!StepsInv /\ SP!TypeOK /\ open \in BOOLEAN
  BY PartTypes
<1>2. \/ CP!upgraded /\ SP!handshakeOk
      \/ CP!handshakeError /\ SP!handshakeError
      \/ CP!handshakeError /\ UNCHANGED <<server, rbuf>>
  BY SameClient, SameSession DEF Handshake
<1>3. CP!Shape
  BY <1>1, <1>2, CP!ClientShape, Assumptions
<1>4. todo # <<>>
  BY <1>1, <1>2 DEF CP!upgraded, CP!handshakeError, CP!PlaceInv, CP!Doing
<1>5. SP!TypeOK' /\ ctls' = tls'
  <2>1. CASE SP!handshakeOk \/ SP!handshakeError
    <3>1. SP!TypeOK'
      BY <1>1, <2>1, SP!TypeStep, Assumptions DEF SP!Next, SP!SessionStep
    <3>2. ctls' = tls'
      <4>1. CASE CP!upgraded /\ SP!handshakeOk
        BY <4>1 DEF CP!upgraded, SP!handshakeOk
      <4>2. CASE CP!handshakeError /\ SP!handshakeError
        BY <4>2 DEF CP!handshakeError, SP!handshakeError, CP!fields, SP!session,
           Parts
      <4>3. CASE CP!handshakeError /\ UNCHANGED <<server, rbuf>>
        BY <4>3 DEF CP!handshakeError, CP!fields, server, Parts
      <4> QED BY <1>2, <4>1, <4>2, <4>3
    <3> QED BY <3>1, <3>2
  <2>2. CASE CP!handshakeError /\ UNCHANGED <<server, rbuf>>
    <3>1. open' \in BOOLEAN
      BY <1>1, <2>2 DEF CP!handshakeError, CP!HandshakeFailed, CP!ReturnAnd
    <3>2. SP!TypeOK'
      BY <2>2, <3>1, PartTypes, SessionStays
    <3> QED BY <2>2, <3>2 DEF CP!handshakeError, CP!fields, server, Parts
  <2> QED BY <1>2, <2>1, <2>2
<1>6. rbuf' \in Seq(CP!Queued) /\ pc' \in CP!ServerPlaces
  BY <1>5 DEF SP!TypeOK, SP!Lines, CP!Queued, SP!pcs, SP!authPcs, CP!ServerPlaces
<1>7. CP!TypeOK'
  BY <1>1, <1>2, <1>4, <1>6, CP!HandshakeType, Assumptions
<1>8. CP!CallInv'
  BY <1>3, <1>7, CP!CallInvShape, Assumptions DEF Parts
<1> QED BY <1>2, <1>3, <1>5, <1>8 DEF Parts

\* Every step of the dialogue preserves the invariants of both parts.
LEMMA PartsStep == Parts /\ [Next]_vars => Parts'
<1> SUFFICES ASSUME Parts, [Next]_vars PROVE Parts'
  OBVIOUS
<1>1. CASE UNCHANGED vars
  <2>1. SP!TypeOK'
    <3>1. UNCHANGED SP!vars
      BY <1>1 DEF vars, client, server, SP!vars, SP!session, SP!txnVars,
         SP!progress, SP!net, SP!out, SP!history
    <3> QED BY <3>1, SP!TypeStep, Assumptions DEF Parts
  <2> QED BY <1>1, <2>1, ClientStays, PartTypes
          DEF vars, client, server, Parts
<1> QED BY <1>1, SessionParts, ClientParts, HandshakeParts DEF Next, Ended

----------------------------------------------------------------------------
(* Counting the messages under way *)

\* The commands in a stream that may deliver a message.
Counted(q) == {i \in 1..Len(q) : CP!Delivers(q[i].line)}
N(q) == Cardinality(Counted(q))
One(b) == IF b THEN 1 ELSE 0

\* The number of delivering lines in a queue is a natural number.
LEMMA CountType ==
    ASSUME NEW q \in Seq(CP!Queued)
    PROVE  IsFiniteSet(Counted(q)) /\ N(q) \in Nat
<1>1. Len(q) \in Nat /\ Counted(q) \in SUBSET (1..Len(q))
  BY DEF Counted
<1>2. IsFiniteSet(1..Len(q))
  BY <1>1, FS_Interval
<1>3. IsFiniteSet(Counted(q))
  BY <1>1, <1>2, FS_Subset
<1> QED BY <1>3, FS_CardinalityType DEF N

\* One sequence behind another.
LEMMA Joined ==
    ASSUME NEW T, NEW p \in Seq(T), NEW q \in Seq(T)
    PROVE  /\ p \o q \in Seq(T) /\ Len(p \o q) = Len(p) + Len(q)
           /\ Len(p) \in Nat /\ Len(q) \in Nat
           /\ \A i \in 1..Len(p) : (p \o q)[i] = p[i]
           /\ \A i \in 1..Len(q) : (p \o q)[Len(p) + i] = q[i]
           /\ \A i \in 1..Len(p \o q) :
                 \/ i \in 1..Len(p)
                 \/ \E k \in 1..Len(q) : i = Len(p) + k
  BY CP!Joined, Assumptions

\* What is counted in p has a place of its own in T.
LEMMA CountBound ==
    ASSUME NEW p, NEW T, IsFiniteSet(T), NEW f \in [Counted(p) -> T],
           \A i, j \in Counted(p) : f[i] = f[j] => i = j
    PROVE  N(p) <= Cardinality(T)
<1>1. f \in Injection(Counted(p), T)
  BY DEF Injection, IsInjective
<1> QED BY <1>1, FS_Injection DEF N

\* Reading a line takes it out of the count.
LEMMA CountTail ==
    ASSUME NEW q \in Seq(CP!Queued), q # <<>>
    PROVE  N(Tail(q)) + One(CP!Delivers(Head(q).line)) <= N(q)
<1>1. /\ Len(q) \in Nat /\ Len(q) >= 1 /\ Tail(q) \in Seq(CP!Queued)
      /\ Len(Tail(q)) = Len(q) - 1 /\ Head(q) = q[1]
      /\ \A i \in 1..Len(Tail(q)) : Tail(q)[i] = q[i + 1]
  OBVIOUS
<1> DEFINE T == Counted(q) \ {1}
           f == [i \in Counted(Tail(q)) |-> i + 1]
<1>2. /\ IsFiniteSet(Counted(q)) /\ N(q) \in Nat /\ N(Tail(q)) \in Nat
  BY <1>1, CountType
<1>3. IsFiniteSet(T) /\ Cardinality(T) = IF 1 \in Counted(q) THEN N(q) - 1 ELSE N(q)
  BY <1>2, FS_RemoveElement DEF N
<1>4. 1 \in Counted(q) <=> CP!Delivers(Head(q).line)
  BY <1>1 DEF Counted
<1>5. \A i \in Counted(Tail(q)) : i \in Int /\ i + 1 \in T
  BY <1>1 DEF Counted
<1>6. /\ f \in [Counted(Tail(q)) -> T]
      /\ \A i, j \in Counted(Tail(q)) : f[i] = f[j] => i = j
  BY <1>5
<1> HIDE DEF f, T
<1>7. N(Tail(q)) <= Cardinality(T)
  BY <1>3, <1>6, CountBound
<1> QED BY <1>2, <1>3, <1>4, <1>7 DEF One

\* Lines are appended of which the first alone, if any, may deliver.
FirstOnly(e, b) == \A k \in 1..Len(e) : CP!Delivers(e[k].line) => k = 1 /\ b

\* Writing lines of which only the first may deliver adds at most one.
LEMMA CountAppend ==
    ASSUME NEW q \in Seq(CP!Queued), NEW e \in Seq(CP!Queued), NEW b \in BOOLEAN,
           FirstOnly(e, b)
    PROVE  N(q \o e) <= N(q) + One(b)
<1>1. /\ q \o e \in Seq(CP!Queued) /\ Len(q) \in Nat
      /\ \A i \in 1..Len(q) : (q \o e)[i] = q[i]
      /\ \A i \in 1..Len(e) : (q \o e)[Len(q) + i] = e[i]
      /\ \A i \in 1..Len(q \o e) :
            \/ i \in 1..Len(q)
            \/ \E k \in 1..Len(e) : i = Len(q) + k
  BY Joined
<1>2. IsFiniteSet(Counted(q)) /\ N(q) \in Nat /\ N(q \o e) \in Nat
  BY <1>1, CountType
<1>3. \A i \in Counted(q \o e) : i \in Counted(q) \/ (b /\ i = Len(q) + 1)
  BY <1>1 DEF Counted, FirstOnly
<1>4. CASE b
  <2>1. /\ IsFiniteSet(Counted(q) \cup {Len(q) + 1})
        /\ Cardinality(Counted(q) \cup {Len(q) + 1}) <= N(q) + 1
    <3>1. /\ IsFiniteSet(Counted(q) \cup {Len(q) + 1})
          /\ Cardinality(Counted(q) \cup {Len(q) + 1}) =
             IF Len(q) + 1 \in Counted(q) THEN Cardinality(Counted(q))
             ELSE Cardinality(Counted(q)) + 1
      BY <1>2, FS_AddElement, Zenon
    <3> QED BY <1>2, <3>1 DEF N
  <2>2. Counted(q \o e) \in SUBSET (Counted(q) \cup {Len(q) + 1})
    BY <1>3
  <2>3. /\ Cardinality(Counted(q \o e)) <= Cardinality(Counted(q) \cup {Len(q) + 1})
        /\ Cardinality(Counted(q) \cup {Len(q) + 1}) \in Nat
    BY <2>1, <2>2, FS_Subset, FS_CardinalityType
  <2> QED BY <1>2, <1>4, <2>1, <2>3 DEF N, One
<1>5. CASE ~b
  <2>1. Counted(q \o e) \in SUBSET Counted(q)
    BY <1>3, <1>5
  <2>2. Cardinality(Counted(q \o e)) <= Cardinality(Counted(q))
    BY <1>2, <2>1, FS_Subset
  <2> QED BY <1>2, <1>5, <2>2 DEF N, One
<1> QED BY <1>4, <1>5

\* The ends of a stream, without what is between i and j, and put together.
Ends(q, i, j, a, e) ==
    /\ Len(a) = i /\ \A k \in 1..i : a[k] = q[k]
    /\ Len(e) = Len(q) - j /\ \A k \in 1..Len(e) : e[k] = q[j + k]

\* What is left of a queue when lines are taken out counts no more.
LEMMA CountEnds ==
    ASSUME NEW q \in Seq(CP!Queued), NEW i \in 0..Len(q), NEW j \in i..Len(q),
           NEW a \in Seq(CP!Queued), NEW e \in Seq(CP!Queued), Ends(q, i, j, a, e)
    PROVE  N(a \o e) <= N(q)
<1> DEFINE f == [k \in Counted(a \o e) |-> IF k <= i THEN k ELSE k - i + j]
<1>1. Len(q) \in Nat /\ i \in Nat /\ j \in Nat /\ i <= j /\ i <= Len(q)
  OBVIOUS
<1>2. /\ Len(a \o e) = Len(a) + Len(e)
      /\ \A k \in 1..Len(a) : (a \o e)[k] = a[k]
      /\ \A k \in 1..Len(e) : (a \o e)[Len(a) + k] = e[k]
      /\ \A k \in 1..Len(a \o e) :
            k \in 1..Len(a) \/ \E m \in 1..Len(e) : k = Len(a) + m
  BY Joined
<1>3. /\ \A k \in 1..i : (a \o e)[k] = a[k]
      /\ \A k \in 1..Len(e) : (a \o e)[i + k] = e[k]
      /\ \A k \in 1..Len(a \o e) : k \in 1..i \/ \E m \in 1..Len(e) : k = i + m
  BY <1>2, Zenon DEF Ends
<1>4. IsFiniteSet(Counted(q))
  BY CountType
<1>5. ASSUME NEW k \in Counted(a \o e)
      PROVE  k \in Int /\ f[k] \in Counted(q)
  <2>1. k \in 1..Len(a \o e) /\ CP!Delivers((a \o e)[k].line)
    BY DEF Counted
  <2>2. CASE k \in 1..i
    <3>1. f[k] = k /\ k \in 1..Len(q) /\ k \in Int
      BY <1>1, <2>2
    <3>2. (a \o e)[k] = q[k]
      BY <1>3, <2>2, Zenon DEF Ends
    <3> QED BY <2>1, <3>1, <3>2 DEF Counted
  <2>3. ASSUME NEW m \in 1..Len(e), k = i + m
        PROVE  k \in Int /\ f[k] \in Counted(q)
    <3>1. m \in 1..(Len(q) - j) /\ (a \o e)[k] = q[j + m]
      BY <1>3, <2>3, Zenon DEF Ends
    <3>2. f[k] = j + m /\ j + m \in 1..Len(q) /\ k \in Int
      BY <1>1, <2>3, <3>1
    <3> QED BY <2>1, <3>1, <3>2 DEF Counted
  <2> QED BY <1>3, <2>1, <2>2, <2>3
<1>6. /\ f \in [Counted(a \o e) -> Counted(q)]
      /\ \A k, m \in Counted(a \o e) : f[k] = f[m] => k = m
  <2>1. f \in [Counted(a \o e) -> Counted(q)]
    BY <1>5
  <2>2. ASSUME NEW k \in Counted(a \o e), NEW m \in Counted(a \o e), f[k] = f[m]
        PROVE  k = m
    <3>1. k \in Int /\ m \in Int
      BY <1>5
    <3> QED BY <1>1, <2>2, <3>1
  <2> QED BY <2>1, <2>2
<1> HIDE DEF f
<1>7. N(a \o e) <= Cardinality(Counted(q))
  BY <1>4, <1>6, CountBound
<1> QED BY <1>7 DEF N

\* A failed handshake takes some lines out of the stream.
LEMMA CountCut ==
    ASSUME NEW q \in Seq(CP!Queued), NEW i \in 0..Len(q), NEW j \in i..Len(q)
    PROVE  N(SubSeq(q, 1, i) \o SubSeq(q, j + 1, Len(q))) <= N(q)
<1> DEFINE a == SubSeq(q, 1, i)
           e == SubSeq(q, j + 1, Len(q))
<1>1. /\ Len(q) \in Nat /\ i \in Nat /\ j \in Nat /\ i <= j
      /\ a \in Seq(CP!Queued) /\ Len(a) = i
      /\ \A k \in 1..i : a[k] = q[k]
  <2>1. Len(q) \in Nat /\ i \in Nat /\ j \in Nat /\ i <= j /\ i <= Len(q)
    OBVIOUS
  <2>2. \A k \in 1..i : q[k] \in CP!Queued
    BY <2>1, ElementOfSeq
  <2>3. a \in Seq(CP!Queued) /\ Len(a) = IF 1 <= i THEN i ELSE 0
    BY <2>1, <2>2, SubSeqProperties
  <2> QED BY <2>1, <2>2, <2>3, SubSeqProperties
<1>2. /\ e \in Seq(CP!Queued) /\ Len(e) = Len(q) - j
      /\ \A k \in 1..Len(e) : e[k] = q[j + k]
  <2>1. Len(q) \in Nat /\ j \in Nat /\ j <= Len(q)
    BY <1>1
  <2>2. \A k \in (j + 1)..Len(q) : q[k] \in CP!Queued
    BY <2>1, ElementOfSeq
  <2> QED BY <2>1, <2>2, SubSeqProperties
<1> HIDE DEF a, e
<1>3. N(a \o e) <= N(q)
  BY <1>1, <1>2, CountEnds DEF Ends
<1> QED BY <1>3 DEF a, e

\* What is left of the stream after a handshake.
LEMMA HandshakeCount ==
    ASSUME rbuf \in Seq(CP!Queued), SP!handshakeOk \/ SP!handshakeError
    PROVE  N(rbuf') <= N(rbuf)
<1>1. N(rbuf) \in Nat
  BY CountType
<1>2. CASE SP!handshakeOk
  <2>1. Counted(rbuf') = {}
    BY <1>2 DEF SP!handshakeOk, SP!ReplaceConn, Counted
  <2> QED BY <1>1, <2>1, FS_EmptySet DEF N
<1>3. CASE SP!handshakeError
  BY <1>3, CountCut DEF SP!handshakeError
<1> QED BY <1>2, <1>3

\* The budget: what has landed, what a call is yet to send, what is on its way
\* and what the session holds are paid for by the attempts.
Arrivals == {Landed(m) : m \in SP!Messages}
CountInv ==
    /\ CP!DeliversLast /\ attempts \in Nat /\ landed \in Seq(Arrivals)
    /\ Len(landed) + One(CP!Ahead) + N(rbuf) + One(SP!InHand) <= attempts

\* The two modules mean the same commands.
LEMMA SameDelivers == \A l : SP!Delivers(l) <=> CP!Delivers(l)
  BY DEF SP!Delivers, CP!Delivers

\* Nothing is counted before the client connects.
LEMMA InitCount == Init => CountInv
<1> SUFFICES ASSUME Init PROVE CountInv
  OBVIOUS
<1>1. todo = <<>> /\ rbuf = <<>> /\ landed = <<>> /\ attempts = 0 /\ pc = "start"
  BY DEF Init, C!Init, S!Init
<1>2. Counted(rbuf) = {} /\ ~CP!Ahead /\ CP!DeliversLast
  BY <1>1 DEF Counted, CP!Ahead, CP!DeliversLast
<1>3. N(rbuf) = 0
  BY <1>2, FS_EmptySet DEF N
<1>4. ~SP!InHand
  BY <1>1 DEF SP!InHand
<1> QED BY <1>1, <1>2, <1>3, <1>4 DEF CountInv, One

\* The session reads, delivers, or loses lines of a handshake.
LEMMA SessionCount ==
    ASSUME Parts, CountInv, ServerStep \/ Shutdown \/ Watcher
    PROVE  CountInv'
<1>1. /\ UNCHANGED <<client, attempts>> /\ Parts'
      /\ landed \in Seq(Arrivals) /\ attempts \in Nat /\ Len(landed) \in Nat
  BY SessionParts DEF ServerStep, Shutdown, Watcher, CountInv, ghosts
<1>2. CP!DeliversLast' /\ (CP!Ahead' <=> CP!Ahead)
  BY <1>1 DEF client, CP!DeliversLast, CP!Ahead, CountInv
<1>3. rbuf \in Seq(CP!Queued) /\ rbuf' \in Seq(CP!Queued)
  BY <1>1, PartTypes DEF Parts, SP!TypeOK, SP!Lines, CP!Queued
<1>4. N(rbuf) \in Nat /\ N(rbuf') \in Nat
  BY <1>3, CountType
<1>5. CASE Shutdown \/ Watcher
  <2>1. UNCHANGED <<landed, rbuf, pc, chunk>>
    BY <1>5, SameSession DEF Shutdown, Watcher, ghosts, SP!Quit, SP!WatcherStep,
       SP!watcherCancel, SP!watcherClose, SP!progress
  <2>2. SP!InHand' <=> SP!InHand
    BY <2>1 DEF SP!InHand
  <2>3. One(CP!Ahead') = One(CP!Ahead) /\ One(SP!InHand') = One(SP!InHand)
    BY <1>2, <2>2 DEF One
  <2> QED BY <1>1, <1>2, <2>1, <2>3 DEF CountInv
<1>6. CASE ServerStep
  <2>1. SP!SessionStep /\ SP!TypeOK
    BY <1>6, SameSession DEF ServerStep, SP!SessionStep, Parts
  <2>2. landed' = IF SP!Delivery THEN Append(landed, Landed(accepted')) ELSE landed
    BY <1>6, Zenon DEF ServerStep, SP!Delivery, S!NoMessage, SP!NoMessage, S!NoPath,
       SP!NoPath
  <2>3. Landed(accepted') \in Arrivals
    BY <1>1 DEF Parts, SP!TypeOK, Arrivals
  <2>4. landed' \in Seq(Arrivals) /\ Len(landed') = Len(landed) + One(SP!Delivery)
    BY <1>1, <2>2, <2>3 DEF One
  <2> DEFINE Sum == One(SP!Delivery) + N(rbuf') + One(SP!InHand')
                        <= N(rbuf) + One(SP!InHand)
  <2>5. ASSUME UNCHANGED rbuf /\ ~SP!Delivery /\ (SP!InHand' => SP!InHand)
        PROVE  Sum
    BY <1>4, <2>5 DEF One
  <2>6. ASSUME SP!Recv, ~SP!Delivery,
               SP!InHand' => SP!InHand \/ SP!Delivers(SP!line)
        PROVE  Sum
    <3>1. N(rbuf') + One(CP!Delivers(Head(rbuf).line)) <= N(rbuf)
      BY <1>3, <2>6, CountTail DEF SP!Recv
    <3>2. SP!Delivers(SP!line) <=> CP!Delivers(Head(rbuf).line)
      BY SameDelivers DEF SP!line
    <3> QED BY <1>4, <2>6, <3>1, <3>2 DEF One
  <2>7. ASSUME UNCHANGED rbuf /\ SP!InHand /\ ~SP!InHand'
        PROVE  Sum
    BY <1>4, <2>7 DEF One
  <2>8. ASSUME (SP!handshakeOk \/ SP!handshakeError) /\ ~SP!Delivery /\ ~SP!InHand'
        PROVE  Sum
    <3>1. N(rbuf') <= N(rbuf)
      BY <1>3, <2>8, HandshakeCount
    <3> QED BY <1>4, <2>8, <3>1 DEF One
  <2>9. Sum
    BY <2>1, <2>5, <2>6, <2>7, <2>8, SP!DeliverySteps, Assumptions
  <2>10. One(CP!Ahead') = One(CP!Ahead) /\ One(CP!Ahead) \in Nat
         /\ One(SP!InHand) \in Nat /\ One(SP!InHand') \in Nat /\ One(SP!Delivery) \in Nat
    BY <1>2 DEF One
  <2>11. Len(landed) + One(CP!Ahead) + N(rbuf) + One(SP!InHand) <= attempts
    BY DEF CountInv
  <2>12. Len(landed') + One(CP!Ahead') + N(rbuf') + One(SP!InHand') <= attempts
    <3>1. \A l, a, n, h, d, m, k, t \in Nat :
              l + a + n + h <= t /\ d + m + k <= n + h => (l + d) + a + m + k <= t
      OBVIOUS
    <3>2. (Len(landed) + One(SP!Delivery)) + One(CP!Ahead) + N(rbuf') + One(SP!InHand')
              <= attempts
      BY <1>1, <1>4, <2>9, <2>10, <2>11, <3>1
    <3> QED BY <2>4, <2>10, <3>2
  <2> QED BY <1>1, <1>2, <2>4, <2>12 DEF CountInv
<1> QED BY <1>5, <1>6

\* The lines a step writes, as they are queued.
LEMMA WrittenCount ==
    ASSUME rbuf \in Seq(CP!Queued), NEW ls \in Seq(CP!Steps), CP!Write(ls),
           ctls \in BOOLEAN, NEW b \in BOOLEAN,
           \A k \in 1..Len(ls) : CP!Delivers(ls[k]) => k = 1 /\ b
    PROVE  N(rbuf') <= N(rbuf) + One(b)
<1> DEFINE e == [i \in 1..Len(ls) |-> [line |-> ls[i], secure |-> ctls]]
<1>1. Len(ls) \in Nat /\ \A k \in 1..Len(ls) : ls[k] \in CP!Steps
  OBVIOUS
<1>2. \A k \in 1..Len(ls) : [line |-> ls[k], secure |-> ctls] \in CP!Queued
  BY <1>1 DEF CP!Queued
<1>3. e \in Seq(CP!Queued) /\ Len(e) = Len(ls)
  BY <1>1, <1>2
<1>4. \A k \in 1..Len(e) : e[k].line = ls[k]
  BY <1>3
<1>5. rbuf' = rbuf \o e
  BY DEF CP!Write
<1> HIDE DEF e
<1>6. FirstOnly(e, b)
  BY <1>3, <1>4 DEF FirstOnly
<1> QED BY <1>3, <1>5, <1>6, CountAppend

\* The command of a step delivers only if the step does, and the data of a
\* chunk delivers nothing.
LEMMA SentCount ==
    ASSUME Parts, todo # <<>>, CP!Write(CP!Sent(CP!step))
    PROVE  N(rbuf') <= N(rbuf) + One(CP!Delivers(todo[1]))
<1>1. /\ CP!step = todo[1] /\ todo[1] \in CP!Steps /\ todo[1].n \in Nat
      /\ rbuf \in Seq(CP!Queued) /\ ctls \in BOOLEAN
  <2>1. todo \in Seq(CP!Steps) /\ rbuf \in Seq(CP!Queued) /\ ctls \in BOOLEAN
    BY PartTypes
  <2>2. CP!step = todo[1] /\ todo[1] \in CP!Steps
    BY <2>1 DEF CP!step
  <2>3. todo[1].n \in Nat
    BY <2>2 DEF CP!Steps
  <2> QED BY <2>1, <2>2, <2>3
<1>2. CP!Sent(todo[1]) \in Seq(CP!Steps)
  BY <1>1, CP!SentType, Assumptions
<1>3. ASSUME NEW k \in 1..Len(CP!Sent(todo[1])), CP!Delivers(CP!Sent(todo[1])[k])
      PROVE  k = 1 /\ CP!Delivers(todo[1])
  <2>1. CASE todo[1].verb = "BDAT"
    <3>1. CP!Sent(todo[1]) = <<todo[1]>> \o CP!Text(todo[1].n)
      BY <2>1 DEF CP!Sent
    <3>2. /\ CP!Text(todo[1].n) \in Seq(CP!Steps)
          /\ \A i \in 1..Len(CP!Text(todo[1].n)) :
                ~CP!Delivers(CP!Text(todo[1].n)[i])
      <4>1. /\ CP!Text(todo[1].n) \in Seq(CP!Steps)
            /\ Len(CP!Text(todo[1].n)) = todo[1].n
            /\ \A i \in 1..todo[1].n : CP!Text(todo[1].n)[i] = CP!Bare("TEXT")
        <5>1. todo[1].n \in Nat /\ CP!CallAssumption
          BY <1>1, Assumptions
        <5> QED BY <5>1, CP!TextType, ZenonT(30)
      <4>2. ~CP!Delivers(CP!Bare("TEXT"))
        BY DEF CP!Delivers, CP!Bare
      <4> QED BY <4>1, <4>2
    <3> DEFINE t == CP!Text(todo[1].n)
               s == <<todo[1]>>
    <3>3. s \in Seq(CP!Steps) /\ Len(s) = 1 /\ s[1] = todo[1]
      BY <1>1
    <3> HIDE DEF t, s
    <3>4. /\ t \in Seq(CP!Steps) /\ CP!Sent(todo[1]) = s \o t
          /\ \A i \in 1..Len(t) : ~CP!Delivers(t[i])
      BY <3>1, <3>2 DEF t, s
    <3>5. /\ \A i \in 1..Len(s) : (s \o t)[i] = s[i]
          /\ \A i \in 1..Len(t) : (s \o t)[Len(s) + i] = t[i]
          /\ \A i \in 1..Len(s \o t) :
                i \in 1..Len(s) \/ \E m \in 1..Len(t) : i = Len(s) + m
      <4>1. s \in Seq(CP!Steps) /\ t \in Seq(CP!Steps)
        BY <3>3, <3>4
      <4> QED BY <4>1, Joined
    <3>6. k = 1
      BY <1>3, <3>3, <3>4, <3>5
    <3> QED BY <1>3, <3>3, <3>4, <3>5, <3>6
  <2>2. CASE todo[1].verb = "DATA"
    BY <1>3, <2>2 DEF CP!Sent, CP!Delivers
  <2>3. CASE todo[1].verb \notin {"BDAT", "DATA"}
    BY <1>3, <2>3 DEF CP!Sent, CP!Delivers
  <2> QED BY <2>1, <2>2, <2>3
<1>4. CP!Delivers(todo[1]) \in BOOLEAN
  BY DEF CP!Delivers
<1> QED BY <1>1, <1>2, <1>3, <1>4, WrittenCount

\* A step of the client: it begins, which is an attempt if there is a message
\* to deliver, or sends what was ahead of it.
LEMMA ClientCount ==
    ASSUME Parts, CountInv, ClientStep
    PROVE  CountInv'
<1>1. Parts' /\ CP!Shape /\ (CP!ClientStep \/ CP!Expire)
  BY ClientParts
<1>2. CP!TypeOK /\ CP!PlaceInv /\ CP!DeliversLast /\ rbuf \in Seq(CP!Queued)
      /\ todo \in Seq(CP!Steps) /\ ctls \in BOOLEAN
  BY PartTypes DEF CountInv
<1>3. CP!DeliversLast' /\ (CP!Ahead' => CP!Ahead \/ CP!Begins)
  BY <1>1, <1>2, CP!BeginsLast, CP!AheadStep, Assumptions
<1>4. UNCHANGED <<landed, pc, chunk>> /\ Track
  BY DEF ClientStep, server
<1>5. SP!InHand' <=> SP!InHand
  BY <1>4 DEF SP!InHand
<1>6. rbuf' \in Seq(CP!Queued) /\ todo' \in Seq(CP!Steps)
  BY <1>1, CP!TypeParts, Assumptions DEF Parts, CP!CallInv, CP!ControlOK, CP!StreamsOK
<1>7. N(rbuf) \in Nat /\ N(rbuf') \in Nat /\ attempts \in Nat /\ Len(landed) \in Nat
      /\ landed \in Seq(Arrivals)
  BY <1>2, <1>6, CountType DEF CountInv
<1>8. attempts' \in Nat /\ attempts' >= attempts
  BY <1>4, <1>7 DEF Track
<1> DEFINE Sum == N(rbuf') + One(CP!Ahead') + attempts
                      <= N(rbuf) + One(CP!Ahead) + attempts'
<1>9. Sum
  <2>1. CASE CP!Begins
    <3>1. at = "idle" /\ at' = "send"
      BY <2>1 DEF CP!Begins
    <3>2. todo = <<>>
      BY <1>2, <3>1 DEF CP!PlaceInv, CP!Busy
    <3>3. ~CP!Ahead
      BY <3>2 DEF CP!Ahead
    <3>4. CP!Ahead' => MayDeliver
      BY <1>6 DEF CP!Ahead, CP!Delivers, MayDeliver
    <3>5. attempts' = attempts + One(MayDeliver)
      BY <1>4, <1>7, <3>1 DEF Track, One
    <3>6. rbuf' = rbuf \/ N(rbuf') <= N(rbuf)
      <4>1. ASSUME NEW ls \in Seq(CP!Steps), CP!Write(ls),
                   \A i \in 1..Len(ls) : ~CP!Delivers(ls[i])
            PROVE  N(rbuf') <= N(rbuf)
        <5>1. N(rbuf') <= N(rbuf) + One(FALSE)
          BY <1>2, <4>1, WrittenCount
        <5> QED BY <1>7, <5>1 DEF One
      <4> QED BY <1>1, <1>2, <3>1, <4>1, CP!WrittenLines, Assumptions
    <3> QED BY <1>7, <3>3, <3>4, <3>5, <3>6 DEF One
  <2>2. CASE ~CP!Begins
    <3>1. CP!Ahead' => CP!Ahead
      BY <1>3, <2>2
    <3>2. CASE UNCHANGED rbuf
      BY <1>7, <1>8, <3>1, <3>2 DEF One
    <3>3. CASE /\ at = "send" /\ at' = "reply" /\ todo # <<>> /\ todo' = todo
               /\ CP!Write(CP!Sent(CP!step))
      <4>1. N(rbuf') <= N(rbuf) + One(CP!Delivers(todo[1]))
        BY <3>3, SentCount
      <4>2. Len(todo) \in Nat /\ Len(todo) >= 1
        BY <1>2, <3>3
      <4>3. CP!Delivers(todo[1]) => CP!Ahead /\ ~CP!Ahead'
        BY <1>2, <3>3, <4>2 DEF CP!Ahead, CP!DeliversLast
      <4> QED BY <1>7, <1>8, <3>1, <4>1, <4>3 DEF One
    <3>4. ASSUME NEW ls \in Seq(CP!Steps), CP!Write(ls),
                 \A i \in 1..Len(ls) : ~CP!Delivers(ls[i])
          PROVE  Sum
      <4>1. N(rbuf') <= N(rbuf) + One(FALSE)
        BY <1>2, <3>4, WrittenCount
      <4> QED BY <1>7, <1>8, <3>1, <4>1 DEF One
    <3> QED BY <1>1, <1>2, <3>2, <3>3, <3>4, CP!WrittenLines, Assumptions
  <2> QED BY <2>1, <2>2
<1>10. Len(landed') + One(CP!Ahead') + N(rbuf') + One(SP!InHand') <= attempts'
  <2>1. \A l, a, n, h, c, m, s, t \in Nat :
            l + a + n + h <= t /\ m + c + t <= n + a + s => l + c + m + h <= s
    OBVIOUS
  <2>2. /\ One(CP!Ahead) \in Nat /\ One(CP!Ahead') \in Nat /\ One(SP!InHand) \in Nat
        /\ One(SP!InHand') = One(SP!InHand)
    BY <1>5 DEF One
  <2>3. Len(landed) + One(CP!Ahead) + N(rbuf) + One(SP!InHand) <= attempts
    BY DEF CountInv
  <2>4. Len(landed) + One(CP!Ahead') + N(rbuf') + One(SP!InHand) <= attempts'
    BY <1>7, <1>8, <1>9, <2>1, <2>2, <2>3
  <2> QED BY <1>4, <2>2, <2>4
<1> QED BY <1>3, <1>4, <1>7, <1>8, <1>10 DEF CountInv

\* A handshake sends nothing that delivers.
LEMMA HandshakeBudget ==
    ASSUME Parts, CountInv, Handshake
    PROVE  CountInv'
<1>1. /\ Parts' /\ CP!Shape
      /\ \/ CP!upgraded /\ SP!handshakeOk
         \/ CP!handshakeError /\ SP!handshakeError
         \/ CP!handshakeError /\ UNCHANGED <<server, rbuf>>
  BY HandshakeParts
<1>2. CP!TypeOK /\ CP!PlaceInv /\ CP!DeliversLast /\ rbuf \in Seq(CP!Queued)
  BY PartTypes DEF CountInv
<1>3. at = "handshake"
  BY <1>1 DEF CP!upgraded, CP!handshakeError
<1>4. ~CP!Begins
  BY <1>3 DEF CP!Begins
<1>5. CP!DeliversLast' /\ (CP!Ahead' => CP!Ahead)
  BY <1>1, <1>2, <1>4, CP!AheadStep, Assumptions
<1>6. UNCHANGED <<landed, attempts>>
  BY <1>3 DEF Handshake, Track
<1>7. rbuf' \in Seq(CP!Queued)
  BY <1>1, CP!TypeParts, Assumptions DEF Parts, CP!CallInv, CP!StreamsOK
<1>8. N(rbuf) \in Nat /\ N(rbuf') \in Nat /\ attempts \in Nat /\ Len(landed) \in Nat
      /\ landed \in Seq(Arrivals)
  BY <1>2, <1>7, CountType DEF CountInv
<1>9. N(rbuf') <= N(rbuf) /\ (SP!InHand' => SP!InHand)
  <2>1. CASE SP!handshakeOk \/ SP!handshakeError
    <3>1. pc' = "loop"
      BY <2>1 DEF SP!handshakeOk, SP!handshakeError
    <3>2. ~SP!InHand'
      BY <3>1 DEF SP!InHand
    <3> QED BY <1>2, <2>1, <3>2, HandshakeCount
  <2>2. CASE UNCHANGED <<server, rbuf>>
    BY <1>8, <2>2 DEF server, SP!InHand
  <2> QED BY <1>1, <2>1, <2>2
<1>10. Len(landed') + One(CP!Ahead') + N(rbuf') + One(SP!InHand') <= attempts'
  <2>1. \A l, a, n, h, c, m, k, t \in Nat :
            l + a + n + h <= t /\ m <= n /\ c <= a /\ k <= h => l + c + m + k <= t
    OBVIOUS
  <2>2. /\ One(CP!Ahead) \in Nat /\ One(CP!Ahead') \in Nat /\ One(SP!InHand) \in Nat
        /\ One(SP!InHand') \in Nat
        /\ One(SP!InHand') <= One(SP!InHand) /\ One(CP!Ahead') <= One(CP!Ahead)
    BY <1>5, <1>9 DEF One
  <2>3. Len(landed) + One(CP!Ahead) + N(rbuf) + One(SP!InHand) <= attempts
    BY DEF CountInv
  <2>4. Len(landed) + One(CP!Ahead') + N(rbuf') + One(SP!InHand') <= attempts
    BY <1>8, <1>9, <2>1, <2>2, <2>3
  <2> QED BY <1>6, <2>4
<1> QED BY <1>5, <1>6, <1>8, <1>10 DEF CountInv

\* Every step preserves the count.
LEMMA CountStep == Parts /\ CountInv /\ [Next]_vars => CountInv'
<1> SUFFICES ASSUME Parts, CountInv, [Next]_vars PROVE CountInv'
  OBVIOUS
<1>1. CASE UNCHANGED vars
  BY <1>1, Zenon DEF vars, client, server, ghosts, CountInv, CP!DeliversLast, CP!Ahead,
     CP!Delivers, SP!InHand, N, Counted, Arrivals
<1> QED BY <1>1, SessionCount, ClientCount, HandshakeBudget DEF Next, Ended

----------------------------------------------------------------------------
(* Theorems *)

\* The invariants of the client hold when it talks to this session, over this
\* stream: what ClientProofs proves of a client with an arbitrary peer and
\* SessionProofs of a session that is sent arbitrary lines is true of the two
\* together, and at every moment both ends are on the same layer.
DialogueTyped == CP!TypeOK /\ SP!TypeOK /\ ctls = tls
THEOREM DialogueParts == Spec => []DialogueTyped
<1>1. Init => Parts
  BY InitParts
<1>2. Parts /\ [Next]_vars => Parts'
  BY PartsStep
<1>3. Parts => DialogueTyped
  BY DEF Parts, DialogueTyped, CP!CallInv
<1> QED BY <1>1, <1>2, <1>3, PTL DEF Spec

\* A call delivers at most one message, whatever is lost, late or out of step:
\* of the messages the session has accepted and those still on their way there
\* are never more than calls that may deliver one.
THEOREM DeliversAtMostOnce == Spec => []AtMostOnce
<1>1. Init => Parts /\ CountInv
  BY InitParts, InitCount
<1>2. Parts /\ CountInv /\ [Next]_vars => Parts' /\ CountInv'
  BY PartsStep, CountStep
<1>3. Parts /\ CountInv => AtMostOnce
  <2> SUFFICES ASSUME Parts, CountInv PROVE Len(landed) <= attempts
    BY DEF AtMostOnce
  <2>1. N(rbuf) \in Nat /\ Len(landed) \in Nat
    BY PartTypes, CountType DEF CountInv
  <2>2. One(CP!Ahead) \in Nat /\ One(SP!InHand) \in Nat
    BY DEF One
  <2> QED BY <2>1, <2>2 DEF CountInv
<1> QED BY <1>1, <1>2, <1>3, PTL DEF Spec
=============================================================================
