---------------------------- MODULE ServerProofs ----------------------------
(***************************************************************************)
(* The safety invariants of Server, for any finite set of connections, any *)
(* connection limit and any number of calls of Shutdown and Close.         *)
(***************************************************************************)
EXTENDS Server, FiniteSetTheorems, TLAPS

\* The steps of one connection, and of one call of Shutdown or Close.
ConnStep(c) == \/ Dial(c) \/ accept(c) \/ acquire(c) \/ reject(c) \/ spawn(c)
               \/ handleConnReturns(c) \/ release(c) \/ wgDone(c)
CallStep(s) == \/ closeQuit(s) \/ getListener(s) \/ closeListener(s)
WaitStep(s) == \/ waitBegins(s) \/ waitEnds(s) \/ shutdownReturns(s)

\* Next, by the actor that moves.
LEMMA NextCases ==
    [Next]_vars => \/ UNCHANGED vars
                   \/ ~crashed /\ (listen \/ register \/ acceptError)
                   \/ ~crashed /\ \E c \in Conns : ConnStep(c)
                   \/ ~crashed /\ \E s \in Stops : CallStep(s)
                   \/ ~crashed /\ \E s \in Shutdowns : WaitStep(s)
  BY DEF Next, Running, ServeStep, Unwind, WaiterStep, StopStep, Ended,
         ConnStep, CallStep, WaitStep

\* The sets that are counted are finite.
LEMMA FiniteCounts ==
    /\ IsFiniteSet(Holders) /\ Cardinality(Holders) \in Nat
    /\ IsFiniteSet(Counted) /\ Cardinality(Counted) \in Nat
  <1>1. Holders \in SUBSET Conns /\ Counted \in SUBSET Conns
    BY DEF Holders, Counted, In
  <1> QED BY <1>1, FS_Subset, FS_CardinalityType, ConnsAssumption

----------------------------------------------------------------------------
(* The semaphore *)

\* A connection's step takes a slot when it becomes a holder, and frees one
\* when it ceases to be one.
LEMMA SlotConn ==
    ASSUME TypeOK, SlotInv, NEW c \in Conns, ConnStep(c)
    PROVE  connSem' \in Nat /\ SlotInv'
  <1> USE DEF TypeOK
  <1>1. ASSUME NEW S, IsFiniteSet(S)
        PROVE  /\ c \notin S => Cardinality(S \cup {c}) = Cardinality(S) + 1
               /\ c \in S => Cardinality(S \ {c}) = Cardinality(S) - 1
    BY <1>1, FS_AddElement, FS_RemoveElement
  <1>2. CASE Dial(c) \/ accept(c) \/ reject(c) \/ spawn(c) \/ handleConnReturns(c)
                     \/ wgDone(c)
    <2>1. Holders' = Holders
      BY <1>2 DEF Holders, In, Dial, accept, reject, spawn, handleConnReturns,
                  wgDone
    <2>2. connSem' = connSem
      BY <1>2 DEF Dial, accept, reject, spawn, handleConnReturns, wgDone
    <2> QED BY <2>1, <2>2 DEF SlotInv
  <1>3. CASE acquire(c)
    <2>1. Holders' = Holders \cup {c} /\ c \notin Holders
      BY <1>3 DEF Holders, In, acquire
    <2>2. Cardinality(Holders') = Cardinality(Holders) + 1
      BY <1>1, <2>1, FiniteCounts
    <2>3. connSem' = IF MaxConnections > 0 THEN connSem + 1 ELSE connSem
      BY <1>3 DEF acquire
    <2>4. MaxConnections > 0 => connSem # MaxConnections
      BY <1>3 DEF acquire, Full
    <2> QED BY <2>2, <2>3, <2>4, FiniteCounts, MaxAssumption DEF SlotInv
  <1>4. CASE release(c)
    <2>1. Holders' = Holders \ {c} /\ c \in Holders
      BY <1>4 DEF Holders, In, release
    <2>2. Cardinality(Holders') = Cardinality(Holders) - 1
      BY <1>1, <2>1, FiniteCounts
    <2>3. Cardinality(Holders) # 0
      BY <2>1, FiniteCounts, FS_EmptySet
    <2>4. connSem' = IF MaxConnections > 0 THEN connSem - 1 ELSE connSem
      BY <1>4 DEF release, FreeSlot
    <2> QED BY <2>2, <2>3, <2>4, FiniteCounts, MaxAssumption DEF SlotInv
  <1> QED BY <1>2, <1>3, <1>4 DEF ConnStep

\* Every step keeps the semaphore in agreement with its holders.
LEMMA SlotStep ==
    ASSUME TypeOK, SlotInv, AcceptInv, [Next]_vars
    PROVE  connSem' \in Nat /\ SlotInv'
  <1>0. connSem \in Nat
    BY DEF TypeOK
  <1>1. CASE \/ UNCHANGED vars \/ listen \/ acceptError
             \/ \E s \in Stops : closeQuit(s) \/ getListener(s)
             \/ \E s \in Shutdowns : WaitStep(s)
    <2>1. UNCHANGED <<conn, connSem>>
      BY <1>1 DEF vars, listen, acceptError, closeQuit, getListener, WaitStep,
                  waitBegins, waitEnds, shutdownReturns
    <2> QED BY <1>0, <2>1 DEF SlotInv, Holders, In
  <1>2. CASE register
    <2>1. Holders' = {}
      BY <1>2 DEF register, AcceptInv, Holders, In
    <2>2. connSem' = 0
      BY <1>2 DEF register
    <2> QED BY <2>1, <2>2, FS_EmptySet, MaxAssumption DEF SlotInv
  <1>3. CASE \E s \in Stops : closeListener(s)
    <2>1. Holders' = Holders /\ connSem' = connSem
      BY <1>3 DEF closeListener, Holders, In
    <2> QED BY <1>0, <2>1 DEF SlotInv
  <1>4. CASE \E c \in Conns : ConnStep(c)
    BY <1>4, SlotConn
  <1> QED BY <1>1, <1>2, <1>3, <1>4, NextCases DEF CallStep

----------------------------------------------------------------------------
(* The wait group *)

\* A connection's step raises s.wg as its goroutine starts and lowers it last.
LEMMA WaitGroupConn ==
    ASSUME TypeOK, WaitGroupInv, NEW c \in Conns, ConnStep(c)
    PROVE  wg' \in Nat /\ WaitGroupInv'
  <1> USE DEF TypeOK
  <1>1. ASSUME NEW S, IsFiniteSet(S)
        PROVE  /\ c \notin S => Cardinality(S \cup {c}) = Cardinality(S) + 1
               /\ c \in S => Cardinality(S \ {c}) = Cardinality(S) - 1
    BY <1>1, FS_AddElement, FS_RemoveElement
  <1>2. CASE Dial(c) \/ accept(c) \/ reject(c) \/ acquire(c)
                     \/ handleConnReturns(c) \/ release(c)
    <2>1. Counted' = Counted
      BY <1>2 DEF Counted, In, Dial, accept, reject, acquire, handleConnReturns,
                  release
    <2>2. wg' = wg
      BY <1>2 DEF Dial, accept, reject, acquire, handleConnReturns, release
    <2> QED BY <2>1, <2>2 DEF WaitGroupInv
  <1>3. CASE spawn(c)
    <2>1. Counted' = Counted \cup {c} /\ c \notin Counted
      BY <1>3 DEF Counted, In, spawn
    <2>2. Cardinality(Counted') = Cardinality(Counted) + 1
      BY <1>1, <2>1, FiniteCounts
    <2>3. wg' = wg + 1
      BY <1>3 DEF spawn, AddGoroutine
    <2> QED BY <2>2, <2>3, FiniteCounts DEF WaitGroupInv
  <1>4. CASE wgDone(c)
    <2>1. Counted' = Counted \ {c} /\ c \in Counted
      BY <1>4 DEF Counted, In, wgDone
    <2>2. Cardinality(Counted') = Cardinality(Counted) - 1
      BY <1>1, <2>1, FiniteCounts
    <2>3. Cardinality(Counted) # 0
      BY <2>1, FiniteCounts, FS_EmptySet
    <2>4. wg' = wg - 1
      BY <1>4 DEF wgDone
    <2> QED BY <2>2, <2>3, <2>4, FiniteCounts DEF WaitGroupInv
  <1> QED BY <1>2, <1>3, <1>4 DEF ConnStep

\* Every step keeps s.wg equal to the number of goroutines it stands for.
LEMMA WaitGroupStep ==
    ASSUME TypeOK, WaitGroupInv, [Next]_vars
    PROVE  wg' \in Nat /\ WaitGroupInv'
  <1>0. wg \in Nat
    BY DEF TypeOK
  <1>1. CASE \/ UNCHANGED vars \/ listen \/ register \/ acceptError
             \/ \E s \in Stops : closeQuit(s) \/ getListener(s)
             \/ \E s \in Shutdowns : WaitStep(s)
    <2>1. UNCHANGED <<conn, wg>>
      BY <1>1 DEF vars, listen, register, acceptError, closeQuit, getListener,
                  WaitStep, waitBegins, waitEnds, shutdownReturns
    <2> QED BY <1>0, <2>1 DEF WaitGroupInv, Counted, In
  <1>2. CASE \E s \in Stops : closeListener(s)
    <2>1. Counted' = Counted /\ wg' = wg
      BY <1>2 DEF closeListener, Counted, In
    <2> QED BY <1>0, <2>1 DEF WaitGroupInv
  <1>3. CASE \E c \in Conns : ConnStep(c)
    BY <1>3, WaitGroupConn
  <1> QED BY <1>1, <1>2, <1>3, NextCases DEF CallStep

----------------------------------------------------------------------------
(* Types *)

\* Every step keeps the types; for the two counters, by the invariants that
\* say what they count.
LEMMA TypeStep ==
    ASSUME TypeOK, SlotInv, WaitGroupInv, AcceptInv, [Next]_vars
    PROVE  TypeOK'
  <1>1. connSem' \in Nat /\ wg' \in Nat
    BY SlotStep, WaitGroupStep
  <1>2. CASE UNCHANGED vars
    BY <1>2 DEF TypeOK, vars
  <1>3. CASE listen \/ register \/ acceptError
    BY <1>1, <1>3 DEF TypeOK, listen, register, acceptError, AcceptFailed
  <1>4. ASSUME NEW c \in Conns, ConnStep(c)
        PROVE  TypeOK'
    <2>1. CASE Dial(c) \/ handleConnReturns(c) \/ release(c)
      BY <1>1, <2>1 DEF TypeOK, Dial, handleConnReturns, release
    <2>2. CASE accept(c) \/ acquire(c) \/ reject(c) \/ spawn(c)
      BY <1>1, <2>2 DEF TypeOK, accept, acquire, reject, spawn
    <2>3. CASE wgDone(c)
      BY <1>1, <2>3 DEF TypeOK, wgDone, Wake
    <2> QED BY <1>4, <2>1, <2>2, <2>3 DEF ConnStep
  <1>5. ASSUME NEW s \in Stops, CallStep(s)
        PROVE  TypeOK'
    <2>1. s \notin Closes => s \in Shutdowns
      BY DEF Stops
    <2>2. CASE closeQuit(s)
      BY <2>2 DEF TypeOK, closeQuit
    <2>3. CASE getListener(s)
      BY <2>1, <2>3 DEF TypeOK, getListener, StopListening
    <2>4. CASE closeListener(s)
      BY <2>1, <2>4 DEF TypeOK, closeListener, StopListening
    <2> QED BY <1>5, <2>2, <2>3, <2>4 DEF CallStep
  <1>6. ASSUME NEW s \in Shutdowns, WaitStep(s)
        PROVE  TypeOK'
    BY <1>6 DEF TypeOK, WaitStep, waitBegins, Wait, waitEnds, shutdownReturns
  <1> QED BY <1>2, <1>3, <1>4, <1>5, <1>6, NextCases

----------------------------------------------------------------------------
(* The accept loop and the calls that stop it *)

\* The accept loop keeps at most one connection in hand.
LEMMA AcceptStep ==
    ASSUME TypeOK, AcceptInv, [Next]_vars
    PROVE  AcceptInv'
  <1>1. CASE \/ UNCHANGED vars \/ listen \/ register
             \/ \E s \in Stops : CallStep(s)
             \/ \E s \in Shutdowns : WaitStep(s)
    <2>1. CASE UNCHANGED <<serve, conn>>
      BY <2>1 DEF AcceptInv, InHand, In
    <2>2. CASE listen \/ register
      BY <2>2 DEF listen, register, AcceptInv, InHand, In, TypeOK
    <2>3. CASE \E s \in Stops : closeListener(s)
      BY <2>3 DEF closeListener, AcceptInv, InHand, In, TypeOK
    <2> QED BY <1>1, <2>1, <2>2, <2>3 DEF vars, CallStep, closeQuit, getListener,
                WaitStep, waitBegins, waitEnds, shutdownReturns
  <1>2. CASE acceptError
    BY <1>2 DEF acceptError, AcceptFailed, AcceptInv, InHand, In, TypeOK
  <1>3. ASSUME NEW c \in Conns, ConnStep(c)
        PROVE  AcceptInv'
    <2>1. CASE Dial(c) \/ handleConnReturns(c) \/ release(c) \/ wgDone(c)
      BY <2>1 DEF Dial, handleConnReturns, release, wgDone, AcceptInv, InHand, In,
                  TypeOK
    <2>2. CASE accept(c)
      BY <2>2 DEF accept, AcceptInv, InHand, In, TypeOK
    <2>3. CASE acquire(c) \/ reject(c) \/ spawn(c)
      BY <2>3 DEF acquire, reject, spawn, AcceptInv, InHand, In, TypeOK
    <2> QED BY <1>3, <2>1, <2>2, <2>3 DEF ConnStep
  <1> QED BY <1>1, <1>2, <1>3, NextCases

\* Of all the calls of Shutdown and Close, one passes close(s.quit).
LEMMA StopStepInv ==
    ASSUME TypeOK, StopInv, [Next]_vars
    PROVE  StopInv'
  <1>0. Shutdowns \subseteq Stops
    BY DEF Stops
  <1>1. CASE UNCHANGED <<stop, waiter, quit, crashed>>
    BY <1>1 DEF StopInv
  <1>2. ASSUME NEW c \in Conns, wgDone(c), ~crashed
        PROVE  StopInv'
    BY <1>2 DEF wgDone, Wake, StopInv, TypeOK
  <1>3. ASSUME NEW s \in Stops, CallStep(s), ~crashed
        PROVE  StopInv'
    <2>1. CASE closeQuit(s)
      BY <1>0, <1>3, <2>1 DEF closeQuit, StopInv, TypeOK
    <2>2. CASE getListener(s)
      BY <1>0, <1>3, <2>2 DEF getListener, StopListening, StopInv, TypeOK
    <2>3. CASE closeListener(s)
      BY <1>0, <1>3, <2>3 DEF closeListener, StopListening, StopInv, TypeOK
    <2> QED BY <1>3, <2>1, <2>2, <2>3 DEF CallStep
  <1>4. ASSUME NEW s \in Shutdowns, WaitStep(s), ~crashed
        PROVE  StopInv'
    <2>1. CASE waitBegins(s) \/ waitEnds(s)
      BY <1>0, <1>4, <2>1 DEF waitBegins, Wait, waitEnds, StopInv, TypeOK
    <2>2. CASE shutdownReturns(s)
      BY <1>0, <1>4, <2>2 DEF shutdownReturns, StopInv, TypeOK
    <2> QED BY <1>4, <2>1, <2>2 DEF WaitStep
  <1>5. CASE \/ UNCHANGED vars \/ listen \/ register \/ acceptError
             \/ \E c \in Conns : ConnStep(c) /\ ~wgDone(c)
    BY <1>1, <1>5 DEF vars, listen, register, acceptError, ConnStep, Dial, accept,
                      acquire, reject, spawn, handleConnReturns, release
  <1> QED BY <1>2, <1>3, <1>4, <1>5, NextCases

\* No step makes a second connection live once Shutdown has seen the last one
\* go and the listener is closed.
LEMMA QuiescenceStep ==
    ASSUME TypeOK, WaitGroupInv, AcceptInv, StopInv, Quiescence, [Next]_vars
    PROVE  Quiescence'
  <1> DEFINE Live == InHand \cup Counted
  <1>1. CASE /\ Live' \subseteq Live /\ Drained' = Drained
             /\ UNCHANGED <<ln, crashed>>
    BY <1>1 DEF Quiescence
  <1>2. CASE \/ UNCHANGED vars \/ listen \/ register \/ acceptError
    <2>1. ln' = "closed" => ln = "closed"
      BY <1>2 DEF vars, listen, register, acceptError, TypeOK
    <2>2. UNCHANGED <<conn, waiter, crashed>>
      BY <1>2 DEF vars, listen, register, acceptError
    <2> QED BY <2>1, <2>2 DEF Quiescence, InHand, Counted, In, Drained
  <1>3. ASSUME NEW c \in Conns, ConnStep(c), ~crashed
        PROVE  Quiescence'
    <2>1. CASE Dial(c) \/ accept(c)
      BY <2>1 DEF Dial, accept, Quiescence
    <2>2. CASE acquire(c) \/ reject(c) \/ spawn(c) \/ handleConnReturns(c)
               \/ release(c)
      <3>1. Live' \subseteq Live
        BY <2>2 DEF InHand, Counted, In, acquire, reject, spawn,
                    handleConnReturns, release, TypeOK
      <3>2. UNCHANGED <<ln, crashed, waiter>>
        BY <2>2 DEF acquire, reject, spawn, handleConnReturns, release
      <3> QED BY <1>1, <3>1, <3>2 DEF Drained
    <2>3. CASE wgDone(c)
      <3>1. Live' \subseteq Live /\ UNCHANGED <<ln, crashed>>
        BY <2>3 DEF InHand, Counted, In, wgDone, TypeOK
      <3>2. CASE wg = 1
        <4>1. wg' = 0 /\ WaitGroupInv'
          BY <1>3, <2>3, <3>2, WaitGroupStep DEF wgDone
        <4>2. Counted' = {}
          <5>1. IsFiniteSet(Counted') /\ Cardinality(Counted') = 0
            BY <4>1, FS_Subset, ConnsAssumption DEF WaitGroupInv, Counted, In
          <5> QED BY <5>1, FS_EmptySet
        <4>3. InHand' \subseteq InHand
          BY <2>3 DEF InHand, In, wgDone, TypeOK
        <4> QED BY <4>2, <4>3 DEF Quiescence, AcceptInv
      <3>3. CASE wg # 1
        <4>1. Drained' = Drained
          BY <2>3, <3>3 DEF Drained, wgDone, Wake, TypeOK
        <4> QED BY <1>1, <3>1, <4>1
      <3> QED BY <3>2, <3>3
    <2> QED BY <1>3, <2>1, <2>2, <2>3 DEF ConnStep
  <1>4. ASSUME NEW s \in Stops, CallStep(s), ~crashed
        PROVE  Quiescence'
    <2>1. CASE closeQuit(s) /\ ~quit
      <3>1. UNCHANGED <<conn, waiter, ln>>
        BY <2>1 DEF closeQuit
      <3> QED BY <1>4, <3>1 DEF Quiescence, InHand, Counted, In, Drained
    <2>2. CASE closeQuit(s) /\ quit
      BY <2>2 DEF closeQuit, Quiescence
    <2>3. ASSUME stop[s] \in {"quit", "closing"}
          PROVE  Drained = {}
      <3>1. \A t \in Shutdowns : t \in Stops
        BY DEF Stops
      <3> QED BY <1>4, <2>3, <3>1 DEF StopInv, Drained
    <2>4. CASE getListener(s) \/ closeListener(s)
      <3>1. Drained = {}
        BY <2>3, <2>4 DEF getListener, closeListener
      <3>2. Drained' = {}
        BY <2>4, <3>1 DEF getListener, closeListener, StopListening, Drained,
                          TypeOK
      <3> QED BY <3>2 DEF Quiescence
    <2> QED BY <1>4, <2>1, <2>2, <2>4 DEF CallStep
  <1>5. ASSUME NEW s \in Shutdowns, WaitStep(s), ~crashed
        PROVE  Quiescence'
    <2>1. Live' = Live /\ ln' = ln /\ Counted' = Counted
      BY <1>5 DEF WaitStep, waitBegins, waitEnds, shutdownReturns, InHand,
                  Counted, In
    <2>2. CASE wg = 0
      <3>1. Counted = {}
        BY <2>2, FiniteCounts, FS_EmptySet DEF WaitGroupInv
      <3> QED BY <2>1, <3>1 DEF Quiescence, AcceptInv
    <2>3. CASE wg # 0
      <3>1. crashed' \/ (Drained' = Drained)
        BY <1>5, <2>3 DEF WaitStep, waitBegins, Wait, waitEnds, shutdownReturns,
                          Drained, TypeOK
      <3> QED BY <1>5, <2>1, <3>1 DEF Quiescence
    <2> QED BY <2>2, <2>3
  <1> QED BY <1>2, <1>3, <1>4, <1>5, NextCases

\* What takes the process down: no step crashes it but a second close(s.quit)
\* and a Wait that finds the counter raised.
LEMMA CrashStep ==
    ASSUME TypeOK, WaitGroupInv, StopInv, Quiescence, CrashCauses, [Next]_vars
    PROVE  CrashCauses'
  <1>1. CASE UNCHANGED vars
    BY <1>1 DEF CrashCauses, Drained, vars
  <1>2. ASSUME NEW s \in Stops, closeQuit(s), ~crashed
        PROVE  CrashCauses'
    <2>1. CASE ~quit
      BY <1>2, <2>1 DEF closeQuit, CrashCauses
    <2>2. CASE quit
      <3>1. PICK t \in Stops : stop[t] # "idle"
        BY <1>2, <2>2 DEF StopInv
      <3>2. s # t /\ stop'[s] # "idle" /\ stop'[t] # "idle"
        BY <1>2, <3>1 DEF closeQuit, TypeOK
      <3> QED BY <3>2 DEF CrashCauses
    <2> QED BY <2>1, <2>2
  <1>3. ASSUME NEW s \in Shutdowns, waitEnds(s), ~crashed
        PROVE  CrashCauses'
    <2>1. s \in Drained /\ s \in Drained' /\ UNCHANGED <<ln, wg>>
      BY <1>3 DEF waitEnds, Drained, TypeOK
    <2>2. ASSUME ln = "closed", wg # 0
          PROVE  wg = 1
      <3>1. PICK c : c \in Counted
        BY <2>2, FS_EmptySet DEF WaitGroupInv
      <3>2. Counted = {c}
        BY <1>3, <2>1, <2>2, <3>1 DEF Quiescence
      <3> QED BY <3>2, FS_Singleton DEF WaitGroupInv
    <2>3. crashed' = (wg # 0)
      BY <1>3 DEF waitEnds
    <2> QED BY <2>1, <2>2, <2>3 DEF CrashCauses
  <1>4. CASE ~crashed /\ ~crashed'
    BY <1>4 DEF CrashCauses
  <1>5. \/ UNCHANGED vars \/ UNCHANGED crashed
        \/ \E s \in Stops : closeQuit(s)
        \/ \E s \in Shutdowns : waitEnds(s)
    BY NextCases DEF listen, register, acceptError, ConnStep, Dial, accept, acquire,
       reject, spawn, handleConnReturns, release, wgDone, CallStep, getListener,
       closeListener, WaitStep, waitBegins, shutdownReturns
  <1>6. UNCHANGED vars \/ ~crashed
    BY NextCases
  <1> QED BY <1>1, <1>2, <1>3, <1>4, <1>5, <1>6

----------------------------------------------------------------------------
(* The theorems *)

\* A server starts with no connection, no slot taken and nothing to wait for.
LEMMA InitSafe == Init => TypeOK /\ SafetyInv
  <1> SUFFICES ASSUME Init PROVE TypeOK /\ SafetyInv
    OBVIOUS
  <1>1. TypeOK
    BY DEF Init, TypeOK
  <1>2. Holders = {} /\ Counted = {} /\ InHand = {} /\ Drained = {}
    BY DEF Init, Holders, Counted, InHand, In, Drained
  <1>3. SlotInv /\ WaitGroupInv
    BY <1>2, FS_EmptySet, MaxAssumption DEF Init, SlotInv, WaitGroupInv
  <1>4. Quiescence
    BY <1>2 DEF Quiescence
  <1>5. AcceptInv
    BY <1>2 DEF AcceptInv, Init
  <1>6. StopInv
    BY DEF StopInv, Init, Stops
  <1>7. CrashCauses
    BY DEF CrashCauses, Init
  <1> QED BY <1>1, <1>3, <1>4, <1>5, <1>6, <1>7 DEF SafetyInv

\* Every step of the server preserves the types and the safety invariant.
LEMMA SafetyStep == TypeOK /\ SafetyInv /\ [Next]_vars => TypeOK' /\ SafetyInv'
  BY TypeStep, SlotStep, WaitGroupStep, AcceptStep, StopStepInv, QuiescenceStep,
     CrashStep DEF SafetyInv

\* The listener, the goroutines and the counters keep their types: in
\* particular neither the semaphore nor the wait group goes below zero.
THEOREM TypeCorrect == Spec => []TypeOK
  <1>1. Init => TypeOK /\ SafetyInv
    BY InitSafe
  <1>2. TypeOK /\ SafetyInv /\ [Next]_vars => (TypeOK /\ SafetyInv)'
    BY SafetyStep
  <1> QED BY <1>1, <1>2, PTL DEF Spec

\* The inductive invariant behind the theorems that follow.
THEOREM Safety == Spec => []SafetyInv
  <1>1. Init => TypeOK /\ SafetyInv
    BY InitSafe
  <1>2. TypeOK /\ SafetyInv /\ [Next]_vars => (TypeOK /\ SafetyInv)'
    BY SafetyStep
  <1> QED BY <1>1, <1>2, PTL DEF Spec

\* Serve never has more than maxConnections connections past its semaphore, and
\* no path out of a connection leaks its slot.
THEOREM ConnectionLimit == Spec => []SlotInv
  <1>1. SafetyInv => SlotInv
    BY DEF SafetyInv
  <1> QED BY <1>1, Safety, PTL

\* s.wg is the number of connection goroutines that have not finished.
THEOREM WaitGroupCorrect == Spec => []WaitGroupInv
  <1>1. SafetyInv => WaitGroupInv
    BY DEF SafetyInv
  <1> QED BY <1>1, Safety, PTL

\* After a Shutdown that closed the listener and waited, at most the connection
\* the accept loop held in hand is served.
THEOREM ShutdownQuiesces == Spec => []Quiescence
  <1>1. SafetyInv => Quiescence
    BY DEF SafetyInv
  <1> QED BY <1>1, Safety, PTL

\* The process goes down only when quit is closed twice, or when a straggler
\* raises the wait group under a Wait that has been woken.
THEOREM CrashesExplained == Spec => []CrashCauses
  <1>1. SafetyInv => CrashCauses
    BY DEF SafetyInv
  <1> QED BY <1>1, Safety, PTL

\* A connection is turned away with 421 only while maxConnections others hold
\* their slots.
THEOREM RejectSound == Spec => RejectedOnlyWhenFull
  <1> DEFINE Fair(c) == conn[c] # "rejected" /\ conn'[c] = "rejected"
                           => Cardinality(Holders) = MaxConnections
  <1>1. ASSUME TypeOK, SlotInv, [Next]_vars, NEW d \in Conns
        PROVE  Fair(d)
    <2>1. CASE conn' = conn
      BY <2>1
    <2>2. CASE \E s \in Stops : closeListener(s)
      BY <2>2 DEF closeListener
    <2>3. ASSUME NEW c \in Conns, reject(c)
          PROVE  Fair(d)
      BY <1>1, <2>3 DEF reject, Full, SlotInv
    <2>4. ASSUME NEW c \in Conns, ConnStep(c), ~reject(c)
          PROVE  Fair(d)
      BY <1>1, <2>4 DEF ConnStep, Dial, accept, acquire, spawn, handleConnReturns,
                        release, wgDone, TypeOK
    <2>5. CASE \/ UNCHANGED vars \/ listen \/ register \/ acceptError
               \/ \E s \in Stops : closeQuit(s) \/ getListener(s)
               \/ \E s \in Shutdowns : WaitStep(s)
      BY <2>1, <2>5 DEF vars, listen, register, acceptError, closeQuit,
            getListener, WaitStep, waitBegins, waitEnds, shutdownReturns
    <2> QED BY <1>1, <2>2, <2>3, <2>4, <2>5, NextCases DEF CallStep
  <1>2. TypeOK /\ SafetyInv /\ [Next]_vars => [\A c \in Conns : Fair(c)]_vars
    BY <1>1 DEF SafetyInv
  <1> QED BY <1>2, TypeCorrect, Safety, PTL DEF Spec, RejectedOnlyWhenFull
=============================================================================
