------------------------------ MODULE GRPCConn ------------------------------
(***************************************************************************)
(* utils/grpchelpers/grpcconn.go: a connection that can be stopped, given  *)
(* a new grpc connection and started again while remote procedure calls    *)
(* wait.  Invoke spawns a goroutine that waits for the connection to be    *)
(* started and then signals it over an unbuffered channel; Invoke waits    *)
(* for that signal or for the end of its context, and holds the mutex for  *)
(* the whole remote call.                                                  *)
(*                                                                         *)
(* A panic ends the program: no action is enabled after it (Alive).        *)
(***************************************************************************)
EXTENDS Integers

CONSTANTS
    Calls,      \* calls of Invoke
    MaxConns    \* bound: grpc connections assigned with Set

Nil == 0

Conns == 1 .. MaxConns

Nobody == "nobody"

ASSUME ConnAssumption == MaxConns \in Nat /\ Nobody \notin Calls

VARIABLES
    mutex,       \* the call that holds conn.Mutex across its remote call
    grpcConn,    \* conn.grpcConn
    conns,       \* number of connections assigned so far
    closedConns, \* connections whose Close was called
    started,     \* conn.started
    wg,          \* counter of conn.connStarted
    pc,          \* pc[c]: where Invoke call c is
    waiter,      \* waiter[c]: where the goroutine spawned by c is
    panicked     \* the reason of the panic, or "no"

vars == <<mutex, grpcConn, conns, closedConns, started, wg, pc, waiter, panicked>>

connVars == <<grpcConn, conns, closedConns>>

(***************************************************************************)
(* NewGRPCConn                                                             *)
(***************************************************************************)
Init ==
    /\ mutex = Nobody
    /\ grpcConn = Nil
    /\ conns = 0
    /\ closedConns = {}
    /\ started = FALSE
    /\ wg = 1
    /\ pc = [c \in Calls |-> "idle"]
    /\ waiter = [c \in Calls |-> "none"]
    /\ panicked = "no"

Alive == panicked = "no"

\* A critical section that does not contain a remote call is one step.
Locked == Alive /\ mutex = Nobody /\ UNCHANGED mutex

\* connStarted.Done: the counter reaches zero and releases the goroutines in Wait.
Done ==
    /\ wg' = wg - 1
    /\ waiter' = [c \in Calls |->
                    IF wg = 1 /\ waiter[c] = "waiting" THEN "released" ELSE waiter[c]]

-----------------------------------------------------------------------------
(***************************************************************************)
(* The owner of the connection: Set, Start, Stop, Close.                   *)
(***************************************************************************)
Set ==
    /\ Locked
    /\ conns < MaxConns
    /\ conns' = conns + 1
    /\ grpcConn' = conns + 1
    /\ UNCHANGED <<closedConns, started, wg, pc, waiter, panicked>>

\* Fault: Start does not look at started.
StartAlways ==
    /\ Locked
    /\ started' = TRUE
    /\ Done
    /\ UNCHANGED <<connVars, pc, panicked>>

Start ==
    /\ Locked
    /\ IF started THEN UNCHANGED <<started, wg, waiter>>
       ELSE started' = TRUE /\ Done
    /\ UNCHANGED <<connVars, pc, panicked>>

Stop ==
    /\ Locked
    /\ grpcConn' = Nil
    /\ closedConns' = closedConns \union ({grpcConn} \ {Nil})
    /\ started' = FALSE
    /\ wg' = IF started THEN wg + 1 ELSE wg
    /\ UNCHANGED <<conns, pc, waiter, panicked>>

\* Close calls Close on the connection when there is none.
Close ==
    /\ Locked
    /\ IF started THEN UNCHANGED <<started, wg, waiter>>
       ELSE started' = TRUE /\ Done
    /\ panicked' = IF grpcConn = Nil THEN "nil connection" ELSE panicked
    /\ UNCHANGED <<connVars, pc>>

-----------------------------------------------------------------------------
(***************************************************************************)
(* Invoke                                                                  *)
(***************************************************************************)
Invoke(c) ==
    /\ Alive
    /\ pc[c] = "idle"
    /\ waiter[c] = "none"
    /\ pc' = [pc EXCEPT ![c] = "select"]
    /\ waiter' = [waiter EXCEPT ![c] = IF wg = 0 THEN "signalling" ELSE "waiting"]
    /\ UNCHANGED <<mutex, connVars, started, wg, panicked>>

(***************************************************************************)
(* The spawned goroutine returns from Wait, which panics when the counter  *)
(* was raised again before it ran.                                         *)
(***************************************************************************)
WaitReturns(c) ==
    /\ Alive
    /\ waiter[c] = "released"
    /\ waiter' = [waiter EXCEPT ![c] = "signalling"]
    /\ panicked' = IF wg # 0 THEN "WaitGroup reused" ELSE panicked
    /\ UNCHANGED <<mutex, connVars, started, wg, pc>>

\* The signal is exchanged, and Invoke goes on to lock the mutex.
Signal(c) ==
    /\ Alive
    /\ waiter[c] = "signalling"
    /\ pc[c] = "select"
    /\ waiter' = [waiter EXCEPT ![c] = "none"]
    /\ pc' = [pc EXCEPT ![c] = "lock"]
    /\ UNCHANGED <<mutex, connVars, started, wg, panicked>>

\* The context ends first: Invoke closes the channel and returns an error.
ContextDone(c) ==
    /\ Alive
    /\ pc[c] = "select"
    /\ pc' = [pc EXCEPT ![c] = "idle"]
    /\ UNCHANGED <<mutex, connVars, started, wg, waiter, panicked>>

\* The goroutine it left behind sends to the closed channel.
SignalNobody(c) ==
    /\ Alive
    /\ waiter[c] = "signalling"
    /\ pc[c] # "select"
    /\ waiter' = [waiter EXCEPT ![c] = "none"]
    /\ panicked' = "send on closed channel"
    /\ UNCHANGED <<mutex, connVars, started, wg, pc>>

\* Fault: the mutex is not held during the remote call.
CallUnlocked(c) ==
    /\ pc[c] = "lock"
    /\ Locked
    /\ pc' = [pc EXCEPT ![c] = IF grpcConn = Nil THEN "idle" ELSE "call"]
    /\ UNCHANGED <<connVars, started, wg, waiter, panicked>>

\* With the mutex: an error when there is no connection, else the remote call.
Call(c) ==
    /\ Alive
    /\ pc[c] = "lock"
    /\ mutex = Nobody
    /\ \/ /\ grpcConn = Nil
          /\ pc' = [pc EXCEPT ![c] = "idle"]
          /\ UNCHANGED mutex
       \/ /\ grpcConn # Nil
          /\ pc' = [pc EXCEPT ![c] = "call"]
          /\ mutex' = c
    /\ UNCHANGED <<connVars, started, wg, waiter, panicked>>

\* Fault: the mutex is not released.
CallReturnsLocked(c) ==
    /\ Alive
    /\ pc[c] = "call"
    /\ pc' = [pc EXCEPT ![c] = "idle"]
    /\ UNCHANGED <<mutex, connVars, started, wg, waiter, panicked>>

\* The remote call returns: a response, an error, or the end of the context.
CallReturns(c) ==
    /\ Alive
    /\ pc[c] = "call"
    /\ pc' = [pc EXCEPT ![c] = "idle"]
    /\ mutex' = Nobody
    /\ UNCHANGED <<connVars, started, wg, waiter, panicked>>

(***************************************************************************)
(* NewStream takes no lock and does not wait.                              *)
(***************************************************************************)
NewStream ==
    /\ Alive
    /\ panicked' = IF grpcConn = Nil THEN "nil connection" ELSE panicked
    /\ UNCHANGED <<mutex, connVars, started, wg, pc, waiter>>

-----------------------------------------------------------------------------
CallStep(c) ==
    WaitReturns(c) \/ Signal(c) \/ SignalNobody(c) \/ Call(c) \/ CallReturns(c)

Next ==
    \/ Set \/ Start \/ Stop \/ Close \/ NewStream
    \/ \E c \in Calls : Invoke(c) \/ ContextDone(c) \/ CallStep(c)

Spec == Init /\ [][Next]_vars

(***************************************************************************)
(* Goroutines run, remote calls return (each has a context), and the mutex *)
(* does not starve a waiter.                                               *)
(***************************************************************************)
Fairness == \A c \in Calls : SF_vars(CallStep(c))

FairSpec == Spec /\ Fairness

-----------------------------------------------------------------------------
(***************************************************************************)
(* Properties                                                              *)
(***************************************************************************)

\* connStarted is 0 or 1 (below zero it panics), and a goroutine in Wait is
\* never forgotten: it is released as soon as the connection is started.
TypeOK ==
    /\ mutex \in Calls \union {Nobody}
    /\ grpcConn \in Conns \union {Nil}
    /\ conns \in 0 .. MaxConns
    /\ closedConns \subseteq Conns
    /\ started \in BOOLEAN
    /\ wg \in {0, 1}
    /\ pc \in [Calls -> {"idle", "select", "lock", "call"}]
    /\ waiter \in [Calls -> {"none", "waiting", "released", "signalling"}]
    /\ panicked \in {"no", "WaitGroup reused", "send on closed channel", "nil connection"}

\* The counter says "started" and nobody waits for a started connection.
CounterIsStarted ==
    /\ wg = IF started THEN 0 ELSE 1
    /\ started => \A c \in Calls : waiter[c] # "waiting"

\* A remote call is made on the current connection, which is not closed while
\* the call lasts: Stop and Set wait for it.
CallOnOpenConnection ==
    \A c \in Calls : pc[c] = "call" =>
        /\ mutex = c
        /\ grpcConn \in Conns \ closedConns

\* Both of the above.
ConnectionConsistent == CounterIsStarted /\ CallOnOpenConnection

\* Once the connection is started and stays so, a call that waited for it is
\* made and returns, even if its own context never ends while it waits.
CallReturnsOnceStarted ==
    \A c \in Calls :
        pc[c] # "idle" /\ started ~> pc[c] = "idle" \/ ~ started \/ panicked # "no"

\* "It is used to recover connection without canceling grpc requests": stopping,
\* replacing and starting the connection does not crash the waiting goroutines.
RecoveryDoesNotPanic ==
    panicked \notin {"send on closed channel", "WaitGroup reused"}

\* "Close closes grpc connection and releases all spawned goroutines."
CloseClosesConnection ==
    [][Close /\ grpcConn # Nil => grpcConn \in closedConns']_vars

=============================================================================
