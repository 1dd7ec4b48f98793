---------------------------- MODULE ActionHandler ----------------------------
(***************************************************************************)
(* utils/action/action.go: Handler runs the actions callers submit in      *)
(* goroutines, at most one per identifier and at most                      *)
(* maxConcurrentActions together; the others wait in waitQueue.            *)
(*                                                                         *)
(* Every critical section of the handler's mutex (Execute, the tail of     *)
(* processAction) is one action here.  An action is named by the number of *)
(* the Execute call that submitted it.  workQueue is a set: the code only  *)
(* asks it for its length and for the identifiers in it.                   *)
(***************************************************************************)
EXTENDS Integers, FiniteSets, SequencesExt

CONSTANTS
    IDs,                   \* action identifiers
    NoID,                  \* "not submitted yet"
    MaxActions,            \* bound: how many times Execute is called
    maxConcurrentActions,  \* the argument of New; 0 is "no limit"
    Waiters                \* goroutines that call Wait

ASSUME ConstantsAssumption ==
    /\ NoID \notin IDs
    /\ MaxActions \in Nat
    /\ maxConcurrentActions \in Nat

VARIABLES
    count,      \* number of Execute calls so far
    id,         \* id[a]: identifier of action a
    pc,         \* pc[a]: where action a, or the goroutine running it, is
    waitQueue,  \* handler.waitQueue, front first
    workQueue,  \* handler.workQueue
    delivered,  \* actions whose result channel holds the error and is closed
    wg,         \* counter of handler.wg
    waitPC,     \* waitPC[w]: whether goroutine w is inside Wait
    waitFor     \* waitFor[w]: number of Execute calls when w called Wait

vars == <<count, id, pc, waitQueue, workQueue, delivered, wg, waitPC, waitFor>>

Actions == 1 .. MaxActions

-----------------------------------------------------------------------------
(***************************************************************************)
(* New                                                                     *)
(***************************************************************************)
Init ==
    /\ count = 0
    /\ id = [a \in Actions |-> NoID]
    /\ pc = [a \in Actions |-> "new"]
    /\ waitQueue = <<>>
    /\ workQueue = {}
    /\ delivered = {}
    /\ wg = 0
    /\ waitPC = [w \in Waiters |-> "idle"]
    /\ waitFor = [w \in Waiters |-> 0]

\* Fault: only actions whose doAction is running are looked at.
isIDRunning(i, queue) == \E a \in queue : pc[a] = "running" /\ id[a] = i

isIDInWorkQueue(i, queue) == \E a \in queue : id[a] = i

\* Fault: one action too many.
LimitExceeded ==
    /\ Cardinality(workQueue) > maxConcurrentActions
    /\ maxConcurrentActions # 0

LimitReached ==
    /\ Cardinality(workQueue) >= maxConcurrentActions
    /\ maxConcurrentActions # 0

\* Fault: only the actions that start at once are counted.
AddWhenStarted(i) ==
    IF isIDInWorkQueue(i, workQueue) \/ LimitReached THEN wg ELSE wg + 1

WaitGroupAdd(i) == wg + 1

(***************************************************************************)
(* Execute: queue the action, or start a goroutine for it.                 *)
(***************************************************************************)
Execute(i) ==
    LET a == count + 1 IN
    /\ a \in Actions
    /\ count' = a
    /\ id' = [id EXCEPT ![a] = i]
    /\ wg' = WaitGroupAdd(i)
    /\ \/ /\ isIDInWorkQueue(i, workQueue) \/ LimitReached
          /\ waitQueue' = Append(waitQueue, a)
          /\ pc' = [pc EXCEPT ![a] = "queued"]
          /\ UNCHANGED workQueue
       \/ /\ ~ (isIDInWorkQueue(i, workQueue) \/ LimitReached)
          /\ workQueue' = workQueue \union {a}
          /\ pc' = [pc EXCEPT ![a] = "spawned"]
          /\ UNCHANGED waitQueue
    /\ UNCHANGED <<delivered, waitPC, waitFor>>

(***************************************************************************)
(* processAction: the goroutine is scheduled and calls doAction ...        *)
(***************************************************************************)
CallDoAction(a) ==
    /\ pc[a] = "spawned"
    /\ pc' = [pc EXCEPT ![a] = "running"]
    /\ UNCHANGED <<count, id, waitQueue, workQueue, delivered, wg, waitPC, waitFor>>

(***************************************************************************)
(* ... doAction returns ...                                                *)
(***************************************************************************)
DoActionReturns(a) ==
    /\ pc[a] = "running"
    /\ pc' = [pc EXCEPT ![a] = "executed"]
    /\ UNCHANGED <<count, id, waitQueue, workQueue, delivered, wg, waitPC, waitFor>>

(***************************************************************************)
(* ... its error goes to the channel, which has room for it, and the       *)
(* channel is closed ...                                                   *)
(***************************************************************************)
SendResult(a) ==
    /\ pc[a] = "executed"
    /\ delivered' = delivered \union {a}
    /\ pc' = [pc EXCEPT ![a] = "locking"]
    /\ UNCHANGED <<count, id, waitQueue, workQueue, wg, waitPC, waitFor>>

\* Fault: only the front of waitQueue is considered.
EligibleFront(queue) ==
    {k \in 1 .. Len(waitQueue) : k = 1 /\ ~ isIDInWorkQueue(id[waitQueue[k]], queue)}

\* Fault: waitQueue is searched before the finished action is removed.
EligibleBeforeRemove(queue) ==
    {k \in 1 .. Len(waitQueue) : ~ isIDInWorkQueue(id[waitQueue[k]], workQueue)}

Eligible(queue) == {k \in 1 .. Len(waitQueue) : ~ isIDInWorkQueue(id[waitQueue[k]], queue)}

\* Fault: the most recent action is taken.
IsLast(k, S) == k \in S /\ \A j \in S : j <= k

IsFirst(k, S) == k \in S /\ \A j \in S : k <= j

(***************************************************************************)
(* ... under the mutex the action leaves workQueue, and the first queued   *)
(* action whose identifier is free takes the slot ...                      *)
(***************************************************************************)
LeaveWorkQueue(a) ==
    LET rest == workQueue \ {a} IN
    /\ pc[a] = "locking"
    /\ \/ /\ Eligible(rest) = {}
          /\ workQueue' = rest
          /\ pc' = [pc EXCEPT ![a] = "unlocked"]
          /\ UNCHANGED waitQueue
       \/ \E k \in Eligible(rest) :
             /\ IsFirst(k, Eligible(rest))
             /\ workQueue' = rest \union {waitQueue[k]}
             /\ waitQueue' = RemoveAt(waitQueue, k)
             /\ pc' = [pc EXCEPT ![a] = "unlocked", ![waitQueue[k]] = "spawned"]
    /\ UNCHANGED <<count, id, delivered, wg, waitPC, waitFor>>

(***************************************************************************)
(* ... and the deferred wg.Done runs last; when the counter reaches zero   *)
(* it releases the goroutines in Wait.                                     *)
(***************************************************************************)
WaitGroupDone(a) ==
    /\ pc[a] = "unlocked"
    /\ pc' = [pc EXCEPT ![a] = "done"]
    /\ wg' = wg - 1
    /\ waitPC' = [w \in Waiters |->
                    IF wg = 1 /\ waitPC[w] = "waiting" THEN "returned" ELSE waitPC[w]]
    /\ UNCHANGED <<count, id, waitQueue, workQueue, delivered, waitFor>>

(***************************************************************************)
(* Wait returns at once when the counter is zero.                          *)
(***************************************************************************)
Wait(w) ==
    /\ waitPC[w] # "waiting"
    /\ waitFor' = [waitFor EXCEPT ![w] = count]
    /\ waitPC' = [waitPC EXCEPT ![w] = IF wg = 0 THEN "returned" ELSE "waiting"]
    /\ UNCHANGED <<count, id, pc, waitQueue, workQueue, delivered, wg>>

processAction(a) ==
    \/ CallDoAction(a)
    \/ DoActionReturns(a)
    \/ SendResult(a)
    \/ LeaveWorkQueue(a)
    \/ WaitGroupDone(a)

Next ==
    \/ \E i \in IDs : Execute(i)
    \/ \E a \in Actions : processAction(a)
    \/ \E w \in Waiters : Wait(w)

Spec == Init /\ [][Next]_vars

(***************************************************************************)
(* Goroutines are scheduled, the mutex is not held across a blocking call, *)
(* and the functions that callers submit return.                           *)
(***************************************************************************)
FairSpec == Spec /\ \A a \in Actions : WF_vars(processAction(a))

-----------------------------------------------------------------------------
(***************************************************************************)
(* Properties                                                              *)
(***************************************************************************)
States == {"new", "queued", "spawned", "running", "executed", "locking", "unlocked", "done"}

\* The states in which an action occupies a slot of workQueue.
InWork == {"spawned", "running", "executed", "locking"}

\* The states in which an action has left both queues.
Left == {"unlocked", "done"}

\* Types of the handler's fields: queues of submitted actions, a counter that
\* is never negative, known goroutine states.
TypeOK ==
    /\ count \in 0 .. MaxActions
    /\ id \in [Actions -> IDs \union {NoID}]
    /\ pc \in [Actions -> States]
    /\ waitQueue \in Seq(Actions)
    /\ workQueue \in SUBSET Actions
    /\ delivered \in SUBSET Actions
    /\ wg \in Nat
    /\ waitPC \in [Waiters -> {"idle", "waiting", "returned"}]
    /\ waitFor \in [Waiters -> 0 .. MaxActions]

\* doAction is never running for two actions of one identifier, nor for more
\* actions than maxConcurrentActions (isIDInWorkQueue and the Len() test of
\* Execute, and the slot handed over in processAction).
RunningWithinLimits ==
    LET running == {a \in Actions : pc[a] = "running"} IN
    /\ \A a, b \in running : id[a] = id[b] => a = b
    /\ maxConcurrentActions # 0 => Cardinality(running) <= maxConcurrentActions

\* Actions of one identifier are executed in the order of the Execute calls:
\* when a goroutine exists for the later one, the result of the earlier one
\* has been sent and the earlier one has left the work queue.
SameIDInOrder ==
    \A a, b \in Actions :
        a < b /\ b <= count /\ id[a] = id[b] /\ pc[b] # "queued"
            => pc[a] \in Left /\ a \in delivered

\* No slot is wasted: an action waits only behind an executing action of its
\* identifier or because all slots are taken.  processAction starts one
\* queued action per finished one, so this needs every hand-over to be right.
NoIdleSlot ==
    \A k \in 1 .. Len(waitQueue) :
        \/ isIDInWorkQueue(id[waitQueue[k]], workQueue)
        \/ LimitReached

\* When Wait has returned, every action submitted before it was called has
\* been executed, has its result in the channel and has left the queues.
WaitMeansExecuted ==
    \A w \in Waiters : waitPC[w] = "returned" =>
        \A a \in 1 .. waitFor[w] : pc[a] = "done" /\ a \in delivered

\* What the handler promises: actions of one identifier run in order and
\* within the limit, whatever the queues do.
statusOf == [new |-> "new", queued |-> "pending", spawned |-> "pending",
             running |-> "running", executed |-> "done", locking |-> "done",
             unlocked |-> "done", done |-> "done"]

Executor == INSTANCE ActionExecutor WITH
    status <- [a \in Actions |-> statusOf[pc[a]]]

ImplementsExecutor == Executor!Spec

\* Every submitted action is executed eventually (nothing is left in
\* waitQueue), and every call of Wait returns.
EveryActionExecuted ==
    \A a \in Actions : pc[a] # "new" ~> pc[a] = "done"

WaitReturns ==
    \A w \in Waiters : waitPC[w] = "waiting" ~> waitPC[w] = "returned"

\* Nothing submitted to the handler is waited for in vain: both of the above.
ActionsAndWaitsEnd == EveryActionExecuted /\ WaitReturns

=============================================================================
