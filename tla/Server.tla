------------------------------- MODULE Server -------------------------------
(***************************************************************************)
(* The life of one Server: ListenAndServe's accept loop, the goroutine of  *)
(* each connection, and the calls of Shutdown and Close that race it.      *)
(* Source: smtpserver/server.go.                                           *)
(*                                                                         *)
(* A session is one state here, "running"; module Session is what happens  *)
(* in it.  Each step is one operation on state that goroutines share: the  *)
(* listener, s.listener (under s.mu), s.quit, s.connSem and s.wg.          *)
(*                                                                         *)
(* The definitions named Mut* are plausible slips in the definition that   *)
(* follows them; no behaviour uses them (README, "Mutants").               *)
(***************************************************************************)
EXTENDS Integers, FiniteSets

CONSTANTS
    Conns,           \* bound: the connections clients may open
    Shutdowns,       \* the calls of Shutdown
    Closes,          \* the calls of Close
    MaxConnections,  \* Server.maxConnections; 0 is unlimited
    CtxDeadline      \* the contexts given to Shutdown may expire

ASSUME ConnsAssumption == IsFiniteSet(Conns)
ASSUME CallsAssumption == Shutdowns \cap Closes = {}
ASSUME MaxAssumption == MaxConnections \in Nat
ASSUME CtxAssumption == CtxDeadline \in BOOLEAN

Stops == Shutdowns \cup Closes

VARIABLES
    serve,           \* where ListenAndServe is
    ln,              \* the listening socket: "none", "open" or "closed"
    registered,      \* s.listener # nil
    quit,            \* s.quit is closed
    conn,            \* where each connection is
    connSem,         \* slots taken in s.connSem
    wg,              \* the counter of s.wg
    stop,            \* where each call of Shutdown or Close is
    waiter,          \* where the goroutine of each Shutdown is
    crashed          \* a goroutine panicked: the process is gone

vars == <<serve, ln, registered, quit, conn, connSem, wg, stop, waiter,
          crashed>>

In(places) == {c \in Conns : conn[c] \in places}

----------------------------------------------------------------------------
(* The clients and the operating system *)

Dial(c) ==
    /\ ln = "open" /\ conn[c] = "new"
    /\ conn' = [conn EXCEPT ![c] = "backlog"]
    /\ UNCHANGED <<serve, ln, registered, quit, connSem, wg, stop, waiter,
                   crashed>>

----------------------------------------------------------------------------
(* ListenAndServe and Serve *)

\* net.Listen opens the socket, or ListenAndServe returns its error.
listen ==
    /\ serve = "listen"
    /\ \/ serve' = "register" /\ ln' = "open"
       \/ serve' = "returned" /\ ln' = ln
    /\ UNCHANGED <<registered, quit, conn, connSem, wg, stop, waiter, crashed>>

\* Under s.mu: s.listener = ln, and a new semaphore.
register ==
    /\ serve = "register" /\ serve' = "accept"
    /\ registered' = TRUE /\ connSem' = 0
    /\ UNCHANGED <<ln, quit, conn, wg, stop, waiter, crashed>>

accept(c) ==
    /\ serve = "accept" /\ ln = "open" /\ conn[c] = "backlog"
    /\ serve' = "admit"
    /\ conn' = [conn EXCEPT ![c] = "accepted"]
    /\ UNCHANGED <<ln, registered, quit, connSem, wg, stop, waiter, crashed>>

MutNeverReturn == UNCHANGED serve
AcceptFailed == serve' = IF quit THEN "returned" ELSE serve

\* Accept fails, because the listener is closed or for a while (no file
\* descriptors): the loop returns if s.quit is closed, else tries again.
acceptError ==
    /\ serve = "accept" /\ AcceptFailed
    /\ UNCHANGED <<ln, registered, quit, conn, connSem, wg, stop, waiter,
                   crashed>>

MutOneTooMany == MaxConnections > 0 /\ connSem > MaxConnections
Full == MaxConnections > 0 /\ connSem = MaxConnections

\* The send on s.connSem succeeds, if there is a semaphore.
acquire(c) ==
    /\ serve = "admit" /\ conn[c] = "accepted" /\ ~Full
    /\ serve' = "spawn"
    /\ conn' = [conn EXCEPT ![c] = "admitted"]
    /\ connSem' = IF MaxConnections > 0 THEN connSem + 1 ELSE connSem
    /\ UNCHANGED <<ln, registered, quit, wg, stop, waiter, crashed>>

\* It would block: 421, and the connection is closed.
reject(c) ==
    /\ serve = "admit" /\ conn[c] = "accepted" /\ Full
    /\ serve' = "accept"
    /\ conn' = [conn EXCEPT ![c] = "rejected"]
    /\ UNCHANGED <<ln, registered, quit, connSem, wg, stop, waiter, crashed>>

MutNoAdd == UNCHANGED wg
AddGoroutine == wg' = wg + 1

\* s.wg.Add(1), and the connection's goroutine starts.
spawn(c) ==
    /\ serve = "spawn" /\ conn[c] = "admitted"
    /\ serve' = "accept"
    /\ conn' = [conn EXCEPT ![c] = "running"] /\ AddGoroutine
    /\ UNCHANGED <<ln, registered, quit, connSem, stop, waiter, crashed>>

----------------------------------------------------------------------------
(* The goroutine of a connection; its deferred calls run last in, first out *)

handleConnReturns(c) ==
    /\ conn[c] = "running"
    /\ conn' = [conn EXCEPT ![c] = "returned"]
    /\ UNCHANGED <<serve, ln, registered, quit, connSem, wg, stop, waiter,
                   crashed>>

MutLeakSlot == UNCHANGED connSem
FreeSlot == connSem' = IF MaxConnections > 0 THEN connSem - 1 ELSE connSem

release(c) ==
    /\ conn[c] = "returned" /\ FreeSlot
    /\ conn' = [conn EXCEPT ![c] = "released"]
    /\ UNCHANGED <<serve, ln, registered, quit, wg, stop, waiter, crashed>>

MutNoWake == UNCHANGED waiter
MutWakeEarly == waiter' = [s \in Shutdowns |->
                      IF waiter[s] = "waiting" THEN "woken" ELSE waiter[s]]

\* sync.WaitGroup: a counter that reaches 0 wakes every Wait.
Wake == waiter' = [s \in Shutdowns |->
                      IF wg = 1 /\ waiter[s] = "waiting" THEN "woken"
                      ELSE waiter[s]]

wgDone(c) ==
    /\ conn[c] = "released" /\ wg' = wg - 1 /\ Wake
    /\ conn' = [conn EXCEPT ![c] = "done"]
    /\ UNCHANGED <<serve, ln, registered, quit, connSem, stop, crashed>>

----------------------------------------------------------------------------
(* Shutdown and Close *)

\* close(s.quit) panics if it is closed already.
closeQuit(s) ==
    /\ stop[s] = "idle"
    /\ stop' = [stop EXCEPT ![s] = "quit"]
    /\ quit' = TRUE /\ crashed' = quit
    /\ UNCHANGED <<serve, ln, registered, conn, connSem, wg, waiter>>

\* What follows ln.Close(): Close returns, Shutdown starts its goroutine.
StopListening(s) ==
    IF s \in Closes
    THEN stop' = [stop EXCEPT ![s] = "returned"] /\ UNCHANGED waiter
    ELSE /\ stop' = [stop EXCEPT ![s] = "wait"]
         /\ waiter' = [waiter EXCEPT ![s] = "start"]

\* ln := s.listener, under s.mu; if it is nil there is nothing to close.
getListener(s) ==
    /\ stop[s] = "quit"
    /\ IF registered
       THEN stop' = [stop EXCEPT ![s] = "closing"] /\ UNCHANGED waiter
       ELSE StopListening(s)
    /\ UNCHANGED <<serve, ln, registered, quit, conn, connSem, wg, crashed>>

\* ln.Close(): the connections in the backlog are reset.
closeListener(s) ==
    /\ stop[s] = "closing" /\ ln' = "closed"
    /\ conn' = [c \in Conns |-> IF conn[c] = "backlog" THEN "reset" ELSE conn[c]]
    /\ StopListening(s)
    /\ UNCHANGED <<serve, registered, quit, connSem, wg, crashed>>

MutNoWait(s) == waiter' = [waiter EXCEPT ![s] = "done"]

\* sync.WaitGroup: Wait returns at once if the counter is 0.
Wait(s) == waiter' = [waiter EXCEPT ![s] = IF wg = 0 THEN "done" ELSE "waiting"]

waitBegins(s) ==
    /\ waiter[s] = "start" /\ Wait(s)
    /\ UNCHANGED <<serve, ln, registered, quit, conn, connSem, wg, stop, crashed>>

\* A woken Wait panics if the counter has been raised again in between
\* ("WaitGroup is reused before previous Wait has returned").
waitEnds(s) ==
    /\ waiter[s] = "woken"
    /\ waiter' = [waiter EXCEPT ![s] = "done"] /\ crashed' = (wg # 0)
    /\ UNCHANGED <<serve, ln, registered, quit, conn, connSem, wg, stop>>

\* The select: done is closed, or the context has expired.
shutdownReturns(s) ==
    /\ stop[s] = "wait"
    /\ \/ waiter[s] = "done" /\ stop' = [stop EXCEPT ![s] = "nil"]
       \/ CtxDeadline /\ stop' = [stop EXCEPT ![s] = "ctxErr"]
    /\ UNCHANGED <<serve, ln, registered, quit, conn, connSem, wg, waiter, crashed>>

----------------------------------------------------------------------------
Init ==
    /\ serve = "listen" /\ ln = "none" /\ registered = FALSE /\ quit = FALSE
    /\ conn = [c \in Conns |-> "new"] /\ connSem = 0 /\ wg = 0
    /\ stop = [s \in Stops |-> "idle"]
    /\ waiter = [s \in Shutdowns |-> "none"]
    /\ crashed = FALSE

ServeStep == \/ listen \/ register
             \/ \E c \in Conns : accept(c) \/ acquire(c) \/ reject(c) \/ spawn(c)

Unwind(c) == release(c) \/ wgDone(c)

WaiterStep(s) == waitBegins(s) \/ waitEnds(s)

StopStep(s) == getListener(s) \/ closeListener(s)

Running ==
    \/ ServeStep \/ acceptError
    \/ \E c \in Conns : Dial(c) \/ handleConnReturns(c) \/ Unwind(c)
    \/ \E s \in Stops : closeQuit(s) \/ StopStep(s)
    \/ \E s \in Shutdowns : WaiterStep(s) \/ shutdownReturns(s)

\* The process has crashed, or Serve and every call made have returned.
Ended ==
    /\ \/ crashed
       \/ /\ serve = "returned"
          /\ \A c \in Conns :
                conn[c] \in {"new", "backlog", "reset", "rejected", "done"}
          /\ \A s \in Stops : stop[s] \in {"idle", "returned", "nil", "ctxErr"}
    /\ UNCHANGED vars

Next == (~crashed /\ Running) \/ Ended

\* Goroutines that can run are run, an Accept on a closed listener fails, and
\* a session ends once s.quit is closed (ShutdownEndsSession in Session).
\* Nobody has to dial, to call Shutdown or to let a context expire.
Fairness ==
    /\ WF_vars(~crashed /\ ServeStep)
    /\ WF_vars(~crashed /\ ln = "closed" /\ acceptError)
    /\ \A c \in Conns : /\ WF_vars(~crashed /\ Unwind(c))
                        /\ WF_vars(~crashed /\ quit /\ handleConnReturns(c))
    /\ \A s \in Stops : WF_vars(~crashed /\ StopStep(s))
    /\ \A s \in Shutdowns : /\ WF_vars(~crashed /\ WaiterStep(s))
                            /\ WF_vars(~crashed /\ waiter[s] = "done"
                                        /\ shutdownReturns(s))

Spec == Init /\ [][Next]_vars /\ Fairness
----------------------------------------------------------------------------
(* Properties *)

\* The listener, the goroutines and the counters have their types.
TypeOK ==
    /\ serve \in {"listen", "register", "accept", "admit", "spawn", "returned"}
    /\ ln \in {"none", "open", "closed"}
    /\ registered \in BOOLEAN /\ quit \in BOOLEAN /\ crashed \in BOOLEAN
    /\ conn \in [Conns -> {"new", "backlog", "reset", "accepted", "rejected",
                           "admitted", "running", "returned", "released", "done"}]
    /\ connSem \in Nat /\ wg \in Nat
    /\ stop \in [Stops -> {"idle", "quit", "closing", "wait", "returned", "nil",
                          "ctxErr"}]
    /\ waiter \in [Shutdowns -> {"none", "start", "waiting", "woken", "done"}]

\* The connections that hold a slot, and the goroutines not done with s.wg.
Holders == In({"admitted", "running", "returned"})
Counted == In({"running", "returned", "released"})

\* A slot is taken for each connection being served and for no other, on every
\* path out of the accept loop, so that the limit holds and no slot leaks.
SlotInv ==
    MaxConnections > 0 => /\ connSem = Cardinality(Holders)
                          /\ connSem <= MaxConnections

\* s.wg counts the connection goroutines, whatever order they end in.
WaitGroupInv == wg = Cardinality(Counted)

\* A client is turned away only when MaxConnections others hold a slot.
RejectedOnlyWhenFull ==
    [][\A c \in Conns : conn[c] # "rejected" /\ conn'[c] = "rejected"
          => Cardinality(Holders) = MaxConnections]_vars

\* The connections in the hands of the accept loop, and the Shutdowns whose
\* s.wg.Wait() has been woken or has returned.
InHand == In({"accepted", "admitted"})
Drained == {s \in Shutdowns : waiter[s] \in {"woken", "done"}}

\* When Shutdown has closed the listener and its Wait is over, at most one
\* connection is being served or about to be: the one the accept loop had in
\* hand when the listener closed.
Quiescence ==
    ln = "closed" /\ ~crashed /\ Drained # {} =>
        \A c, d \in InHand \cup Counted : c = d

\* Only two things take the process down: a second call of Shutdown or Close,
\* which closes s.quit again, and a Wait woken by the last Done that finds the
\* counter raised before it returns; once the listener is closed, that is the
\* work of one connection, the straggler the accept loop had in hand.
CrashCauses ==
    crashed =>
        \/ \E s, t \in Stops : s # t /\ stop[s] # "idle" /\ stop[t] # "idle"
        \/ Drained # {} /\ wg # 0 /\ (ln = "closed" => wg = 1)

\* The strengthening that makes the invariants above inductive.  The accept
\* loop has one connection in hand at a time, and none before it starts; one
\* call gets past close(s.quit), and starts its waiter last.
AcceptInv ==
    /\ \A c, d \in InHand : c = d
    /\ \A c \in Conns : conn[c] = "accepted" => serve = "admit"
    /\ \A c \in Conns : conn[c] = "admitted" => serve = "spawn"
    /\ serve \in {"listen", "register"} =>
          \A c \in Conns : conn[c] \in {"new", "backlog", "reset"}
StopInv ==
    ~crashed =>
        /\ quit <=> \E s \in Stops : stop[s] # "idle"
        /\ \A s, t \in Stops : stop[s] # "idle" /\ stop[t] # "idle" => s = t
        /\ \A s \in Shutdowns :
              waiter[s] # "none" => stop[s] \notin {"idle", "quit", "closing"}

SafetyInv ==
    /\ SlotInv /\ WaitGroupInv /\ Quiescence /\ CrashCauses
    /\ AcceptInv /\ StopInv

\* Serve returns once Shutdown or Close has found its listener.
ServeReturns ==
    \A s \in Stops : stop[s] = "closing" ~> serve = "returned" \/ crashed

\* Shutdown returns even without a deadline, whatever connections were open.
ShutdownReturns ==
    \A s \in Shutdowns : stop[s] = "quit" ~> stop[s] \in {"nil", "ctxErr"} \/ crashed
=============================================================================
