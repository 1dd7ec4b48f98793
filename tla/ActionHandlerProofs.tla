------------------------- MODULE ActionHandlerProofs -------------------------
(***************************************************************************)
(* Theorems about utils/action.Handler, for any set of identifiers, any    *)
(* number of Execute calls and any maxConcurrentActions.                   *)
(***************************************************************************)
EXTENDS ActionHandler, FiniteSetTheorems, SequenceTheorems, CommonLemmas, TLAPS

-----------------------------------------------------------------------------
(***************************************************************************)
(* The inductive invariant.                                                *)
(***************************************************************************)

\* Actions that Wait has to wait for.
Unfinished == {a \in Actions : pc[a] \notin {"new", "done"}}

\* The types of the variables, wg apart.
Types ==
    /\ count \in 0 .. MaxActions
    /\ id \in [Actions -> IDs \union {NoID}]
    /\ pc \in [Actions -> States]
    /\ waitQueue \in Seq(Actions)
    /\ workQueue \in SUBSET Actions
    /\ delivered \in SUBSET Actions
    /\ waitPC \in [Waiters -> {"idle", "waiting", "returned"}]
    /\ waitFor \in [Waiters -> 0 .. MaxActions]

\* The queues, the channels and the state of the goroutines agree.
Agreement ==
    /\ \A a \in Actions : pc[a] = "new" <=> a > count
    /\ \A a \in Actions : a \in workQueue <=> pc[a] \in InWork
    /\ \A a \in Actions : a \in delivered <=> pc[a] \in {"locking", "unlocked", "done"}
    /\ \A k \in 1 .. Len(waitQueue) : pc[waitQueue[k]] = "queued"
    /\ \A a \in Actions : pc[a] = "queued" => \E k \in 1 .. Len(waitQueue) : waitQueue[k] = a

\* waitQueue is in the order of the Execute calls.
Sorted ==
    \A j, k \in 1 .. Len(waitQueue) : j < k => waitQueue[j] < waitQueue[k]

\* workQueue holds one action per identifier and respects the limit.
WorkWithinLimits ==
    /\ \A a, b \in workQueue : id[a] = id[b] => a = b
    /\ maxConcurrentActions # 0 => Cardinality(workQueue) <= maxConcurrentActions

\* The WaitGroup counts the unfinished actions.
Counted == wg = Cardinality(Unfinished)

QueueInv ==
    /\ Types
    /\ Agreement
    /\ Sorted
    /\ WorkWithinLimits
    /\ SameIDInOrder
    /\ NoIdleSlot

WaitInv ==
    /\ Counted
    /\ \A w \in Waiters : waitFor[w] <= count
    /\ \A w \in Waiters : waitPC[w] = "returned" =>
           \A a \in 1 .. waitFor[w] : pc[a] = "done"

IInv == QueueInv /\ WaitInv

-----------------------------------------------------------------------------
(***************************************************************************)
(* Lemmas                                                                  *)
(***************************************************************************)

\* There are finitely many actions, so the sets of actions have cardinalities.
LEMMA ActionsFinite ==
    ASSUME NEW S \in SUBSET Actions
    PROVE  IsFiniteSet(S) /\ Cardinality(S) \in Nat
<1>1. IsFiniteSet(Actions)
  BY ConstantsAssumption, FS_Interval DEF Actions
<1>2. IsFiniteSet(S)
  BY <1>1, FS_Subset
<1> QED BY <1>2, FS_CardinalityType

-----------------------------------------------------------------------------
(***************************************************************************)
(* The invariant holds initially and is preserved by every step.           *)
(***************************************************************************)

LEMMA InitIInv == Init => IInv
<1> SUFFICES ASSUME Init PROVE IInv
  OBVIOUS
<1>1. Types
  BY ConstantsAssumption DEF Init, Types, States, Actions
<1>2. Agreement /\ Sorted
  BY ConstantsAssumption DEF Init, Agreement, Sorted, InWork, Actions
<1>3. WorkWithinLimits
  BY ConstantsAssumption, FS_EmptySet DEF Init, WorkWithinLimits
<1>4. SameIDInOrder /\ NoIdleSlot
  BY ConstantsAssumption DEF Init, SameIDInOrder, NoIdleSlot, Actions
<1>5. Counted
  <2>1. Unfinished = {}
    BY DEF Init, Unfinished
  <2> QED BY <2>1, FS_EmptySet DEF Init, Counted
<1>6. WaitInv
  BY <1>5 DEF Init, WaitInv
<1> QED BY <1>1, <1>2, <1>3, <1>4, <1>6 DEF IInv, QueueInv

\* Execute keeps the queues consistent, whether the action waits or starts.
LEMMA ExecuteQueueInv ==
    ASSUME QueueInv, NEW i \in IDs, Execute(i)
    PROVE  QueueInv'
<1> DEFINE a == count + 1
<1> USE DEF QueueInv
<1>0. /\ a \in Actions /\ count' = a /\ count \in Int
      /\ id' = [id EXCEPT ![a] = i]
      /\ UNCHANGED <<delivered, waitPC, waitFor>>
  BY DEF Execute, Types
<1>1. /\ pc[a] = "new" /\ a \notin workQueue
      /\ \A b \in Actions : b \in Int /\ (b < a => b <= count)
      /\ a \in 0 .. MaxActions
  BY <1>0 DEF Agreement, InWork, Types, Actions
<1>2. \A b \in Actions : b # a => id'[b] = id[b]
  BY <1>0 DEF Types
<1>3. id'[a] = i /\ id' \in [Actions -> IDs \union {NoID}]
  BY <1>0 DEF Types
<1>4. CASE /\ isIDInWorkQueue(i, workQueue) \/ LimitReached
           /\ waitQueue' = Append(waitQueue, a)
           /\ pc' = [pc EXCEPT ![a] = "queued"]
           /\ UNCHANGED workQueue
  <2>0. \A k \in 1 .. Len(waitQueue) : waitQueue[k] \in Actions
    BY DEF Types
  <2>1. /\ waitQueue' \in Seq(Actions)
        /\ Len(waitQueue') = Len(waitQueue) + 1
        /\ \A k \in 1 .. Len(waitQueue) : waitQueue'[k] = waitQueue[k]
        /\ waitQueue'[Len(waitQueue) + 1] = a
    BY <1>0, <1>4 DEF Types
  <2>2. \A k \in 1 .. Len(waitQueue) : waitQueue[k] # a
    BY <1>1 DEF Agreement
  <2>3. Types'
    BY <1>0, <1>1, <1>3, <1>4, <2>1 DEF Types, States
  <2>4. Agreement'
    <3>1. \A b \in Actions : pc'[b] = "new" <=> b > count'
      BY <1>0, <1>1, <1>4 DEF Types, Agreement, Actions
    <3>2. \A b \in Actions : b \in workQueue' <=> pc'[b] \in InWork
      BY <1>0, <1>1, <1>4 DEF Types, Agreement, InWork
    <3>3. \A b \in Actions : b \in delivered' <=> pc'[b] \in {"locking", "unlocked", "done"}
      BY <1>0, <1>1, <1>4 DEF Types, Agreement
    <3>4. \A k \in 1 .. Len(waitQueue') : pc'[waitQueue'[k]] = "queued"
      BY <1>0, <1>4, <2>0, <2>1, <2>2 DEF Types, Agreement
    <3>5. ASSUME NEW b \in Actions, pc'[b] = "queued"
          PROVE  \E k \in 1 .. Len(waitQueue') : waitQueue'[k] = b
      BY <1>0, <1>4, <2>1, <3>5 DEF Types, Agreement
    <3> QED BY <3>1, <3>2, <3>3, <3>4, <3>5 DEF Agreement
  <2>5. Sorted'
    <3>1. \A k \in 1 .. Len(waitQueue) : waitQueue[k] < a
      BY <1>0, <2>0 DEF Types, Agreement, Actions
    <3>2. ASSUME NEW j \in 1 .. Len(waitQueue'), NEW k \in 1 .. Len(waitQueue'), j < k
          PROVE  waitQueue'[j] < waitQueue'[k]
      <4>1. j \in 1 .. Len(waitQueue)
        BY <2>1, <3>2 DEF Types
      <4>2. k \in 1 .. Len(waitQueue) \/ k = Len(waitQueue) + 1
        BY <2>1 DEF Types
      <4> QED BY <2>1, <3>1, <3>2, <4>1, <4>2 DEF Sorted
    <3> QED BY <3>2 DEF Sorted
  <2>6. WorkWithinLimits'
    BY <1>1, <1>2, <1>4 DEF WorkWithinLimits, Types
  <2>7. SameIDInOrder'
    BY <1>0, <1>1, <1>2, <1>4 DEF SameIDInOrder, Types, Actions, Left
  <2>8. NoIdleSlot'
    <3>1. \A b \in workQueue' : b \in workQueue /\ id'[b] = id[b]
      BY <1>1, <1>2, <1>4 DEF Types
    <3>2. LimitReached' <=> LimitReached
      BY <1>4 DEF LimitReached
    <3>3. ASSUME NEW k \in 1 .. Len(waitQueue)
          PROVE  (\E b \in workQueue' : id'[b] = id'[waitQueue'[k]]) \/ LimitReached'
      <4>1. id'[waitQueue'[k]] = id[waitQueue[k]]
        BY <1>2, <2>0, <2>1, <2>2
      <4> QED BY <4>1, <3>1, <3>2, <1>4 DEF NoIdleSlot, isIDInWorkQueue, Types
    <3>4. (\E b \in workQueue' : id'[b] = i) \/ LimitReached'
      BY <1>4, <3>1, <3>2 DEF isIDInWorkQueue
    <3>5. ASSUME NEW k \in 1 .. Len(waitQueue')
          PROVE  (\E b \in workQueue' : id'[b] = id'[waitQueue'[k]]) \/ LimitReached'
      <4>1. k \in 1 .. Len(waitQueue) \/ k = Len(waitQueue) + 1
        BY <2>1 DEF Types
      <4> QED BY <1>3, <2>1, <3>3, <3>4, <4>1
    <3> QED BY <3>5 DEF NoIdleSlot, isIDInWorkQueue
  <2> QED BY <2>3, <2>4, <2>5, <2>6, <2>7, <2>8
<1>5. CASE /\ ~ (isIDInWorkQueue(i, workQueue) \/ LimitReached)
           /\ workQueue' = workQueue \union {a}
           /\ pc' = [pc EXCEPT ![a] = "spawned"]
           /\ UNCHANGED waitQueue
  <2>0. \A k \in 1 .. Len(waitQueue) : waitQueue[k] \in Actions /\ waitQueue[k] # a
    BY <1>1 DEF Types, Agreement
  <2>3. Types'
    BY <1>0, <1>1, <1>3, <1>5 DEF Types, States
  <2>4. Agreement'
    <3>1. \A b \in Actions : pc'[b] = "new" <=> b > count'
      BY <1>0, <1>1, <1>5 DEF Types, Agreement, Actions
    <3>2. \A b \in Actions : b \in workQueue' <=> pc'[b] \in InWork
      BY <1>0, <1>1, <1>5 DEF Types, Agreement, InWork
    <3>3. \A b \in Actions : b \in delivered' <=> pc'[b] \in {"locking", "unlocked", "done"}
      BY <1>0, <1>1, <1>5 DEF Types, Agreement
    <3>4. \A k \in 1 .. Len(waitQueue') : pc'[waitQueue'[k]] = "queued"
      BY <1>0, <1>5, <2>0 DEF Types, Agreement
    <3>5. ASSUME NEW b \in Actions, pc'[b] = "queued"
          PROVE  \E k \in 1 .. Len(waitQueue') : waitQueue'[k] = b
      BY <1>0, <1>5, <3>5 DEF Types, Agreement
    <3> QED BY <3>1, <3>2, <3>3, <3>4, <3>5 DEF Agreement
  <2>5. Sorted'
    BY <1>5 DEF Sorted
  <2>6. WorkWithinLimits'
    <3>1. Cardinality(workQueue') = Cardinality(workQueue) + 1
      BY <1>1, <1>5, ActionsFinite, FS_AddElement DEF Types
    <3>2. maxConcurrentActions # 0 => Cardinality(workQueue) < maxConcurrentActions
      BY <1>5, ActionsFinite, ConstantsAssumption DEF LimitReached, Types
    <3>3. maxConcurrentActions # 0 => Cardinality(workQueue') <= maxConcurrentActions
      BY <3>1, <3>2, ActionsFinite, ConstantsAssumption DEF Types
    <3>4. \A b \in workQueue : id'[b] # i
      BY <1>1, <1>2, <1>5 DEF isIDInWorkQueue, Types
    <3>5. \A b, c \in workQueue' : id'[b] = id'[c] => b = c
      BY <1>1, <1>2, <1>3, <1>5, <3>4 DEF WorkWithinLimits, Types
    <3> QED BY <3>3, <3>5 DEF WorkWithinLimits
  <2>7. SameIDInOrder'
    \* An earlier action of this identifier cannot be queued: no slot is idle.
    <3>1. ASSUME NEW b \in Actions, b < a, id[b] = i
          PROVE  pc[b] \in Left
      <4>1. b \notin workQueue
        BY <1>5, <3>1 DEF isIDInWorkQueue
      <4>2. pc[b] # "queued"
        BY <1>5, <3>1, <4>1 DEF Agreement, NoIdleSlot, Types
      <4>3. pc[b] # "new"
        BY <3>1, <1>0 DEF Agreement, Types, Actions
      <4> QED BY <4>1, <4>2, <4>3 DEF Agreement, Types, States, InWork, Left
    <3>2. \A b \in Actions : pc[b] \in Left => b \in delivered'
      BY <1>0 DEF Agreement, Left
    <3>3. ASSUME NEW b \in Actions, NEW c \in Actions,
                 b < c, c <= count', id'[b] = id'[c], pc'[c] # "queued"
          PROVE  pc'[b] \in Left /\ b \in delivered'
      <4>1. b # a
        BY <1>0, <3>3 DEF Actions
      <4>2. CASE c = a
        BY <1>2, <1>3, <1>5, <3>1, <3>2, <3>3, <4>1, <4>2 DEF Types
      <4>3. CASE c # a
        <5>1. c <= count /\ id[b] = id[c] /\ pc[c] # "queued"
          BY <1>0, <1>2, <1>5, <3>3, <4>1, <4>3 DEF Types, Actions
        <5> QED BY <5>1, <3>3, <4>1, <1>0, <1>5 DEF SameIDInOrder, Types
      <4> QED BY <4>2, <4>3
    <3> QED BY <3>3 DEF SameIDInOrder
  <2>8. NoIdleSlot'
    <3>1. ASSUME NEW k \in 1 .. Len(waitQueue)
          PROVE  \E b \in workQueue' : id'[b] = id'[waitQueue[k]]
      <4>1. id'[waitQueue[k]] = id[waitQueue[k]]
        BY <1>2, <2>0
      <4>2. PICK b \in workQueue : id[b] = id[waitQueue[k]]
        BY <1>5 DEF NoIdleSlot, isIDInWorkQueue, Types
      <4>3. b \in workQueue' /\ id'[b] = id[b]
        BY <1>1, <1>2, <1>5, <4>2 DEF Types
      <4> QED BY <4>1, <4>2, <4>3
    <3> QED BY <1>5, <3>1 DEF NoIdleSlot, isIDInWorkQueue
  <2> QED BY <2>3, <2>4, <2>5, <2>6, <2>7, <2>8
<1> QED BY <1>4, <1>5 DEF Execute

\* The steps of a goroutine that leave both queues alone.
LEMMA GoroutineQueueInv ==
    ASSUME QueueInv, NEW a \in Actions,
           CallDoAction(a) \/ DoActionReturns(a) \/ SendResult(a) \/ WaitGroupDone(a)
    PROVE  QueueInv'
<1>0. Types /\ Agreement /\ Sorted /\ WorkWithinLimits /\ SameIDInOrder /\ NoIdleSlot
  BY DEF QueueInv
<1>1. /\ UNCHANGED <<count, id, waitQueue, workQueue, waitFor>>
      /\ pc[a] \in {"spawned", "running", "executed", "unlocked"}
      /\ \A b \in Actions : b # a => pc'[b] = pc[b]
      /\ pc[a] \in InWork <=> pc'[a] \in InWork
      /\ pc[a] \in Left <=> pc'[a] \in Left
      /\ pc'[a] \notin {"new", "queued"}
      /\ pc' \in [Actions -> States]
  BY <1>0 DEF CallDoAction, DoActionReturns, SendResult, WaitGroupDone, Types, InWork, Left, States
<1>2. /\ delivered' \in SUBSET Actions
      /\ \A b \in Actions : b \in delivered' <=> pc'[b] \in {"locking", "unlocked", "done"}
      /\ \A b \in delivered : b \in delivered'
  <2>1. /\ delivered \in SUBSET Actions
        /\ \A b \in Actions : b \in delivered <=> pc[b] \in {"locking", "unlocked", "done"}
    BY <1>0 DEF Types, Agreement
  <2>2. \/ /\ pc[a] \in {"spawned", "running"} /\ pc'[a] \in {"running", "executed"}
           /\ delivered' = delivered
        \/ pc[a] = "executed" /\ pc'[a] = "locking" /\ delivered' = delivered \union {a}
        \/ pc[a] = "unlocked" /\ pc'[a] = "done" /\ delivered' = delivered
    BY <1>0 DEF CallDoAction, DoActionReturns, SendResult, WaitGroupDone, Types
  <2>3. delivered' \in SUBSET Actions /\ \A b \in delivered : b \in delivered'
    BY <2>1, <2>2
  <2>4. a \in delivered' <=> pc'[a] \in {"locking", "unlocked", "done"}
    BY <2>1, <2>2
  <2>5. \A b \in Actions : b # a => (b \in delivered' <=> b \in delivered)
    BY <2>2
  <2>6. \A b \in Actions : b # a =>
            (b \in delivered' <=> pc'[b] \in {"locking", "unlocked", "done"})
    BY <1>1, <2>1, <2>5
  <2> QED BY <2>3, <2>4, <2>6
<1>3. waitPC' \in [Waiters -> {"idle", "waiting", "returned"}]
  BY <1>0 DEF CallDoAction, DoActionReturns, SendResult, WaitGroupDone, Types
<1>4. Types'
  BY <1>0, <1>1, <1>2, <1>3 DEF Types
<1>5. Agreement'
  <2>1. \A b \in Actions : (pc'[b] = "new" <=> b > count') /\ (b \in workQueue' <=> pc'[b] \in InWork)
    BY <1>0, <1>1 DEF Agreement, Types
  <2>2. \A k \in 1 .. Len(waitQueue') : pc'[waitQueue'[k]] = "queued"
    BY <1>0, <1>1 DEF Agreement, Types
  <2>3. \A b \in Actions : pc'[b] = "queued" => \E k \in 1 .. Len(waitQueue') : waitQueue'[k] = b
    BY <1>0, <1>1 DEF Agreement, Types
  <2> QED BY <1>2, <2>1, <2>2, <2>3 DEF Agreement
<1>6. Sorted' /\ WorkWithinLimits'
  BY <1>0, <1>1 DEF Sorted, WorkWithinLimits
<1>7. NoIdleSlot'
  BY <1>0, <1>1 DEF NoIdleSlot, isIDInWorkQueue, LimitReached
<1>8. SameIDInOrder'
  BY <1>0, <1>1, <1>2 DEF SameIDInOrder, Types
<1> QED BY <1>4, <1>5, <1>6, <1>7, <1>8 DEF QueueInv

\* The hand-over of a slot keeps the order per identifier, the limit, and
\* leaves no slot idle.
LEMMA LeaveQueueInv ==
    ASSUME QueueInv, NEW a \in Actions, LeaveWorkQueue(a)
    PROVE  QueueInv'
<1> DEFINE rest == workQueue \ {a}
<1> USE DEF QueueInv
<1>0. /\ UNCHANGED <<count, id, delivered, waitPC, waitFor>>
      /\ pc[a] = "locking" /\ a \in workQueue /\ a \in delivered
  BY DEF LeaveWorkQueue, Agreement, InWork
<1>1. rest \in SUBSET Actions /\ Cardinality(rest) = Cardinality(workQueue) - 1
  BY <1>0, ActionsFinite, FS_RemoveElement DEF Types
<1>2. Cardinality(workQueue) \in Nat /\ Cardinality(rest) \in Nat
  BY <1>1, ActionsFinite DEF Types
<1>3. \A k \in 1 .. Len(waitQueue) : waitQueue[k] \in Actions /\ waitQueue[k] # a
  BY <1>0 DEF Types, Agreement
<1>4. CASE /\ Eligible(rest) = {}
           /\ workQueue' = rest
           /\ pc' = [pc EXCEPT ![a] = "unlocked"]
           /\ UNCHANGED waitQueue
  <2>1. Types'
    BY <1>0, <1>1, <1>4 DEF Types, States
  <2>2. Agreement'
    <3>1. \A b \in Actions : /\ pc'[b] = "new" <=> b > count'
                             /\ b \in workQueue' <=> pc'[b] \in InWork
                             /\ b \in delivered' <=> pc'[b] \in {"locking", "unlocked", "done"}
      BY <1>0, <1>4 DEF Types, Agreement, InWork
    <3>2. \A k \in 1 .. Len(waitQueue') : pc'[waitQueue'[k]] = "queued"
      BY <1>3, <1>4 DEF Types, Agreement
    <3>3. \A b \in Actions : pc'[b] = "queued" => \E k \in 1 .. Len(waitQueue') : waitQueue'[k] = b
      BY <1>4 DEF Types, Agreement
    <3> QED BY <3>1, <3>2, <3>3 DEF Agreement
  <2>3. Sorted'
    BY <1>4 DEF Sorted
  <2>4. WorkWithinLimits'
    BY <1>0, <1>1, <1>2, <1>4, ConstantsAssumption DEF WorkWithinLimits
  <2>5. SameIDInOrder'
    BY <1>0, <1>4 DEF SameIDInOrder, Types, Left
  <2>6. NoIdleSlot'
    BY <1>0, <1>4 DEF NoIdleSlot, Eligible, isIDInWorkQueue
  <2> QED BY <2>1, <2>2, <2>3, <2>4, <2>5, <2>6
<1>5. ASSUME NEW k \in Eligible(rest),
             IsFirst(k, Eligible(rest)),
             workQueue' = rest \union {waitQueue[k]},
             waitQueue' = RemoveAt(waitQueue, k),
             pc' = [pc EXCEPT ![a] = "unlocked", ![waitQueue[k]] = "spawned"]
      PROVE  QueueInv'
  <2> DEFINE n == waitQueue[k]
  <2>0. /\ k \in 1 .. Len(waitQueue) /\ n \in Actions /\ n # a /\ pc[n] = "queued"
        /\ n \notin workQueue
        /\ Len(waitQueue) \in Nat
    BY <1>3 DEF Eligible, Agreement, InWork, Types
  <2>1. \A b \in rest : id[b] # id[n]
    BY <1>5 DEF Eligible, isIDInWorkQueue
  <2>2. /\ waitQueue' \in Seq(Actions)
        /\ Len(waitQueue') = Len(waitQueue) - 1
        /\ \A j \in 1 .. k - 1 : waitQueue'[j] = waitQueue[j]
        /\ \A j \in k .. Len(waitQueue) - 1 : waitQueue'[j] = waitQueue[j + 1]
    BY <1>5, <2>0, RemoveAtProps DEF Types
  \* Every element of the new queue is an element of the old one, not n.
  <2>3. ASSUME NEW j \in 1 .. Len(waitQueue')
        PROVE  \E m \in 1 .. Len(waitQueue) : m # k /\ m >= j /\ m <= j + 1 /\ waitQueue'[j] = waitQueue[m]
    <3>1. CASE j < k
      BY <2>0, <2>2, <3>1
    <3>2. CASE j >= k
      <4>1. j \in k .. Len(waitQueue) - 1 /\ j + 1 \in 1 .. Len(waitQueue)
        BY <2>0, <2>2, <3>2
      <4> QED BY <2>0, <2>2, <3>2, <4>1
    <3> QED BY <2>0, <3>1, <3>2
  <2>4. ASSUME NEW m \in 1 .. Len(waitQueue), m # k
        PROVE  \E j \in 1 .. Len(waitQueue') : waitQueue'[j] = waitQueue[m]
    <3>1. CASE m < k
      BY <2>0, <2>2, <3>1
    <3>2. CASE m > k
      <4>1. m - 1 \in k .. Len(waitQueue) - 1 /\ (m - 1) + 1 = m /\ m - 1 \in 1 .. Len(waitQueue')
        BY <2>0, <2>2, <3>2
      <4>2. waitQueue'[m - 1] = waitQueue[(m - 1) + 1]
        BY <2>2, <4>1
      <4> QED BY <4>1, <4>2
    <3> QED BY <2>0, <2>4, <3>1, <3>2
  <2>5. \A j, m \in 1 .. Len(waitQueue) : j # m => waitQueue[j] # waitQueue[m]
    BY <1>3 DEF Sorted, Actions
  <2>6. /\ pc'[a] = "unlocked" /\ pc'[n] = "spawned"
        /\ \A b \in Actions : b # a /\ b # n => pc'[b] = pc[b]
        /\ pc' \in [Actions -> States]
    BY <1>5, <2>0 DEF Types, States
  <2>7. Types'
    BY <1>0, <1>1, <1>5, <2>0, <2>2, <2>6 DEF Types
  <2>8. Agreement'
    <3>1. \A b \in Actions : /\ pc'[b] = "new" <=> b > count'
                             /\ b \in delivered' <=> pc'[b] \in {"locking", "unlocked", "done"}
      BY <1>0, <2>0, <2>6 DEF Agreement
    <3>2. \A b \in Actions : b \in workQueue' <=> pc'[b] \in InWork
      BY <1>5, <2>0, <2>6 DEF Agreement, InWork
    <3>3. \A j \in 1 .. Len(waitQueue') : pc'[waitQueue'[j]] = "queued"
      BY <1>3, <2>0, <2>3, <2>5, <2>6 DEF Agreement
    <3>4. ASSUME NEW b \in Actions, pc'[b] = "queued"
          PROVE  \E j \in 1 .. Len(waitQueue') : waitQueue'[j] = b
      <4>1. b # a /\ b # n /\ pc[b] = "queued"
        BY <2>6, <3>4
      <4>2. PICK m \in 1 .. Len(waitQueue) : waitQueue[m] = b
        BY <4>1 DEF Agreement
      <4> QED BY <2>4, <4>1, <4>2
    <3> QED BY <3>1, <3>2, <3>3, <3>4 DEF Agreement
  <2>9. Sorted'
    <3>1. ASSUME NEW j \in 1 .. Len(waitQueue'), NEW l \in 1 .. Len(waitQueue'), j < l
          PROVE  waitQueue'[j] < waitQueue'[l]
      <4>1. CASE l < k
        BY <2>0, <2>2, <3>1, <4>1 DEF Sorted
      <4>2. CASE j < k /\ l >= k
        <5>1. waitQueue'[j] = waitQueue[j] /\ waitQueue'[l] = waitQueue[l + 1]
          BY <2>0, <2>2, <4>2
        <5>2. j \in 1 .. Len(waitQueue) /\ l + 1 \in 1 .. Len(waitQueue) /\ j < l + 1
          BY <2>0, <2>2, <3>1, <4>2
        <5> QED BY <5>1, <5>2 DEF Sorted
      <4>3. CASE j >= k
        <5>1. waitQueue'[j] = waitQueue[j + 1] /\ waitQueue'[l] = waitQueue[l + 1]
          BY <2>0, <2>2, <3>1, <4>3
        <5>2. j + 1 \in 1 .. Len(waitQueue) /\ l + 1 \in 1 .. Len(waitQueue) /\ j + 1 < l + 1
          BY <2>0, <2>2, <3>1, <4>3
        <5> QED BY <5>1, <5>2 DEF Sorted
      <4> QED BY <2>0, <3>1, <4>1, <4>2, <4>3
    <3> QED BY <3>1 DEF Sorted
  <2>10. Cardinality(workQueue') = Cardinality(workQueue)
    <3>1. IsFiniteSet(rest) /\ n \notin rest
      BY <1>1, <2>0, ActionsFinite
    <3>2. Cardinality(rest \union {n}) = Cardinality(rest) + 1
      BY <3>1, FS_AddElement
    <3> QED BY <1>1, <1>2, <1>5, <3>2
  <2>11. WorkWithinLimits'
    BY <1>0, <1>5, <2>1, <2>10 DEF WorkWithinLimits
  <2>12. SameIDInOrder'
    \* An earlier action of n's identifier would have been eligible before n.
    <3>1. ASSUME NEW b \in Actions, b < n, id[b] = id[n]
          PROVE  pc'[b] \in Left /\ b \in delivered'
      <4>1. pc[b] # "queued"
        <5>1. SUFFICES ASSUME pc[b] = "queued" PROVE FALSE
          OBVIOUS
        <5>2. PICK m \in 1 .. Len(waitQueue) : waitQueue[m] = b
          BY <5>1 DEF Agreement
        <5>3. m \in Eligible(rest)
          BY <2>1, <3>1, <5>2 DEF Eligible, isIDInWorkQueue
        <5>4. k <= m
          BY <1>5, <5>3 DEF IsFirst
        <5>5. n < b \/ n = b
          BY <2>0, <5>2, <5>4 DEF Sorted
        <5> QED BY <3>1, <5>5, <2>0 DEF Actions
      <4>2. b \notin rest
        BY <2>1, <3>1
      <4>3. pc[b] # "new"
        BY <2>0, <3>1 DEF Agreement, Actions, Types
      <4>4. b = a \/ pc[b] \in Left
        BY <4>1, <4>2, <4>3 DEF Agreement, Types, States, InWork, Left
      <4> QED BY <1>0, <2>6, <3>1, <4>1, <4>4, <2>0 DEF Agreement, Left
    <3>2. ASSUME NEW b \in Actions, NEW c \in Actions,
                 b < c, c <= count', id'[b] = id'[c], pc'[c] # "queued"
          PROVE  pc'[b] \in Left /\ b \in delivered'
      <4>1. CASE c = n
        BY <1>0, <3>1, <3>2, <4>1
      <4>2. CASE c # n
        <5>1. pc[c] # "queued"
          BY <1>0, <2>6, <3>2, <4>2
        <5>2. pc[b] \in Left /\ b \in delivered
          BY <1>0, <3>2, <5>1 DEF SameIDInOrder
        <5> QED BY <1>0, <2>0, <2>6, <5>2 DEF Left
      <4> QED BY <4>1, <4>2
    <3> QED BY <3>2 DEF SameIDInOrder
  <2>13. NoIdleSlot'
    <3>1. LimitReached' <=> LimitReached
      BY <2>10 DEF LimitReached
    <3>2. ASSUME NEW m \in 1 .. Len(waitQueue), ~ LimitReached
          PROVE  \E b \in workQueue' : id[b] = id[waitQueue[m]]
      <4>1. PICK b \in workQueue : id[b] = id[waitQueue[m]]
        BY <3>2 DEF NoIdleSlot, isIDInWorkQueue
      <4>2. PICK c \in workQueue : id[c] = id[n]
        BY <2>0, <3>2 DEF NoIdleSlot, isIDInWorkQueue
      <4>3. c = a
        BY <2>1, <4>2
      <4>4. CASE b = a
        BY <1>5, <4>1, <4>2, <4>3, <4>4
      <4>5. CASE b # a
        BY <1>5, <4>1, <4>5
      <4> QED BY <4>4, <4>5
    <3>3. ASSUME NEW j \in 1 .. Len(waitQueue')
          PROVE  (\E b \in workQueue' : id'[b] = id'[waitQueue'[j]]) \/ LimitReached'
      <4>1. PICK m \in 1 .. Len(waitQueue) : waitQueue'[j] = waitQueue[m]
        BY <2>3
      <4> QED BY <1>0, <3>1, <3>2, <4>1
    <3> QED BY <3>3 DEF NoIdleSlot, isIDInWorkQueue
  <2> QED BY <2>7, <2>8, <2>9, <2>11, <2>12, <2>13
<1> QED BY <1>4, <1>5 DEF LeaveWorkQueue

\* Wait and stuttering steps do not touch the queues.
LEMMA WaitQueueInv ==
    ASSUME QueueInv, UNCHANGED vars \/ \E w \in Waiters : Wait(w)
    PROVE  QueueInv'
<1>1. UNCHANGED <<count, id, pc, waitQueue, workQueue, delivered>>
  BY DEF vars, Wait
<1>2. Types'
  BY <1>1 DEF QueueInv, Types, Wait, vars
<1> QED
  BY <1>1, <1>2 DEF QueueInv, Agreement, Sorted, WorkWithinLimits, SameIDInOrder,
                    NoIdleSlot, isIDInWorkQueue, LimitReached

LEMMA NextQueueInv == QueueInv /\ [Next]_vars => QueueInv'
<1> SUFFICES ASSUME QueueInv, [Next]_vars PROVE QueueInv'
  OBVIOUS
<1>1. ASSUME NEW i \in IDs, Execute(i) PROVE QueueInv'
  BY <1>1, ExecuteQueueInv
<1>2. ASSUME NEW a \in Actions, processAction(a) PROVE QueueInv'
  BY <1>2, GoroutineQueueInv, LeaveQueueInv DEF processAction
<1>3. ASSUME UNCHANGED vars \/ \E w \in Waiters : Wait(w) PROVE QueueInv'
  BY <1>3, WaitQueueInv
<1> QED BY <1>1, <1>2, <1>3 DEF Next

\* When the counter is zero, every submitted action is done.
LEMMA ZeroMeansDone ==
    ASSUME QueueInv, Counted, wg = 0
    PROVE  \A a \in 1 .. count : a \in Actions /\ pc[a] = "done"
<1>1. Unfinished \in SUBSET Actions
  BY DEF Unfinished
<1>2. Unfinished = {}
  BY <1>1, ActionsFinite, FS_EmptySet DEF Counted
<1>3. count \in 0 .. MaxActions /\ \A a \in Actions : pc[a] = "new" <=> a > count
  BY DEF QueueInv, Types, Agreement
<1>4. \A a \in Actions : pc[a] \in {"new", "done"}
  BY <1>2 DEF Unfinished
<1>5. \A a \in 1 .. count : a \in Actions /\ ~ (a > count)
  BY <1>3, ConstantsAssumption DEF Actions
<1> QED
  BY <1>3, <1>4, <1>5

LEMMA NextWaitInv == QueueInv /\ WaitInv /\ [Next]_vars => WaitInv'
<1> SUFFICES ASSUME QueueInv, WaitInv, [Next]_vars PROVE WaitInv'
  OBVIOUS
<1>0. /\ Unfinished \in SUBSET Actions /\ IsFiniteSet(Unfinished)
      /\ wg = Cardinality(Unfinished) /\ wg \in Nat
      /\ Types /\ Agreement
  BY ActionsFinite DEF Unfinished, WaitInv, Counted, QueueInv
<1>1. ASSUME NEW i \in IDs, Execute(i) PROVE WaitInv'
  <2> DEFINE a == count + 1
  <2>1. /\ a \in Actions /\ count' = a /\ wg' = wg + 1
        /\ UNCHANGED <<waitPC, waitFor>>
        /\ \/ pc' = [pc EXCEPT ![a] = "queued"]
           \/ pc' = [pc EXCEPT ![a] = "spawned"]
    BY <1>1 DEF Execute, WaitGroupAdd
  <2>2. pc[a] = "new"
    BY <1>0, <2>1 DEF Types, Agreement, Actions
  <2>3. Unfinished' = Unfinished \union {a} /\ a \notin Unfinished
    BY <1>0, <2>1, <2>2 DEF Unfinished, Types
  <2>4. Counted'
    BY <1>0, <2>1, <2>3, FS_AddElement DEF Counted
  <2>5. \A w \in Waiters : waitFor'[w] <= count'
    BY <1>0, <2>1 DEF Types, WaitInv, Actions
  <2>6. \A b \in Actions : pc[b] = "done" => pc'[b] = "done"
    BY <1>0, <2>1, <2>2 DEF Types
  <2>7. \A w \in Waiters : \A b \in 1 .. waitFor[w] : b \in Actions
    BY <1>0, ConstantsAssumption DEF Types, Actions
  <2> QED BY <2>1, <2>4, <2>5, <2>6, <2>7 DEF WaitInv
<1>2. ASSUME NEW a \in Actions,
             CallDoAction(a) \/ DoActionReturns(a) \/ SendResult(a) \/ LeaveWorkQueue(a)
      PROVE  WaitInv'
  <2>1. /\ UNCHANGED <<count, wg, waitPC, waitFor>>
    BY <1>2 DEF CallDoAction, DoActionReturns, SendResult, LeaveWorkQueue
  <2>2. \A b \in Actions : /\ pc[b] \in {"new", "done"} => pc'[b] = pc[b]
                           /\ pc'[b] \in {"new", "done"} => pc'[b] = pc[b]
    <3>1. CASE CallDoAction(a) \/ DoActionReturns(a) \/ SendResult(a)
      BY <1>0, <3>1 DEF CallDoAction, DoActionReturns, SendResult, Types
    <3>2. CASE LeaveWorkQueue(a)
      <4>1. \A k \in 1 .. Len(waitQueue) : waitQueue[k] \in Actions /\ pc[waitQueue[k]] = "queued"
        BY <1>0 DEF Types, Agreement
      <4>2. CASE pc' = [pc EXCEPT ![a] = "unlocked"]
        BY <1>0, <3>2, <4>2 DEF LeaveWorkQueue, Types
      <4>3. ASSUME NEW k \in 1 .. Len(waitQueue),
                   pc' = [pc EXCEPT ![a] = "unlocked", ![waitQueue[k]] = "spawned"]
            PROVE  \A b \in Actions : /\ pc[b] \in {"new", "done"} => pc'[b] = pc[b]
                                      /\ pc'[b] \in {"new", "done"} => pc'[b] = pc[b]
        BY <1>0, <3>2, <4>1, <4>3 DEF LeaveWorkQueue, Types
      <4> QED BY <3>2, <4>2, <4>3 DEF LeaveWorkQueue, Eligible
    <3> QED BY <1>2, <3>1, <3>2
  <2>3. Unfinished' = Unfinished
    BY <2>2 DEF Unfinished
  <2>4. \A w \in Waiters : \A b \in 1 .. waitFor[w] : b \in Actions
    BY <1>0, ConstantsAssumption DEF Types, Actions
  <2> QED BY <2>1, <2>2, <2>3, <2>4 DEF WaitInv, Counted
<1>3. ASSUME NEW a \in Actions, WaitGroupDone(a) PROVE WaitInv'
  <2>1. /\ UNCHANGED <<count, id, waitFor>>
        /\ wg' = wg - 1
        /\ pc[a] = "unlocked" /\ pc' = [pc EXCEPT ![a] = "done"]
    BY <1>3 DEF WaitGroupDone
  <2>2. Unfinished' = Unfinished \ {a} /\ a \in Unfinished
    BY <1>0, <2>1 DEF Unfinished, Types
  <2>3. Counted'
    BY <1>0, <2>1, <2>2, FS_RemoveElement DEF Counted
  <2>4. \A w \in Waiters : \A b \in 1 .. waitFor[w] : b \in Actions /\ b \in 1 .. count
    BY <1>0, ConstantsAssumption DEF Types, Actions, WaitInv
  <2>5. QueueInv'
    BY NextQueueInv
  <2>6. wg' = 0 => \A b \in 1 .. count : pc'[b] = "done"
    <3>1. ASSUME wg' = 0 PROVE Unfinished' = {}
      BY <1>0, <2>2, <2>3, <3>1, FS_RemoveElement, FS_EmptySet DEF Counted
    <3>2. \A b \in 1 .. count : b \in Actions /\ pc[b] # "new" /\ pc'[b] # "new"
      BY <1>0, <2>1, ConstantsAssumption DEF Types, Agreement, Actions
    <3> QED BY <3>1, <3>2 DEF Unfinished
  <2>7. ASSUME NEW w \in Waiters, waitPC'[w] = "returned", NEW b \in 1 .. waitFor'[w]
        PROVE  pc'[b] = "done"
    <3>1. b \in 1 .. waitFor[w] /\ b \in Actions /\ b \in 1 .. count
      BY <2>1, <2>4, <2>7
    <3>2. waitPC[w] = "returned" \/ wg = 1
      BY <1>3, <2>7 DEF WaitGroupDone
    <3>3. CASE waitPC[w] = "returned"
      BY <1>0, <2>1, <3>1, <3>3 DEF WaitInv, Types
    <3>4. CASE wg = 1
      BY <1>0, <2>1, <2>6, <3>1, <3>4
    <3> QED BY <3>2, <3>3, <3>4
  <2> QED BY <2>1, <2>3, <2>7 DEF WaitInv
<1>4. ASSUME NEW w \in Waiters, Wait(w) PROVE WaitInv'
  <2>1. /\ UNCHANGED <<count, id, pc, wg>>
        /\ waitFor' = [waitFor EXCEPT ![w] = count]
        /\ waitPC' = [waitPC EXCEPT ![w] = IF wg = 0 THEN "returned" ELSE "waiting"]
    BY <1>4 DEF Wait
  <2>2. Counted'
    BY <1>0, <2>1 DEF Counted, Unfinished
  <2>3. \A v \in Waiters : waitFor'[v] <= count'
    BY <1>0, <2>1 DEF Types, WaitInv
  <2>4. ASSUME NEW v \in Waiters, waitPC'[v] = "returned", NEW b \in 1 .. waitFor'[v]
        PROVE  pc'[b] = "done"
    <3>1. CASE v = w
      BY <1>0, <2>1, <2>4, <3>1, ZeroMeansDone DEF Types, Counted
    <3>2. CASE v # w
      BY <1>0, <2>1, <2>4, <3>2 DEF Types, WaitInv
    <3> QED BY <3>1, <3>2
  <2> QED BY <2>2, <2>3, <2>4 DEF WaitInv
<1>5. CASE UNCHANGED vars
  BY <1>5 DEF vars, WaitInv, Counted, Unfinished
<1> QED BY <1>1, <1>2, <1>3, <1>4, <1>5 DEF Next, processAction

-----------------------------------------------------------------------------
(***************************************************************************)
(* Theorems                                                                *)
(***************************************************************************)

\* The inductive invariant holds in every reachable state of the handler.
THEOREM InductiveInvariant == Spec => []IInv
<1>1. IInv /\ [Next]_vars => IInv'
  BY NextQueueInv, NextWaitInv DEF IInv
<1> QED BY InitIInv, <1>1, PTL DEF Spec

\* The handler's fields keep their types; the WaitGroup counter, above all,
\* never goes below zero (which would panic).
THEOREM TypeCorrect == Spec => []TypeOK
<1>1. IInv => TypeOK
  <2> SUFFICES ASSUME IInv PROVE TypeOK
    OBVIOUS
  <2>1. wg \in Nat
    BY ActionsFinite DEF IInv, WaitInv, Counted, Unfinished
  <2> QED BY <2>1 DEF IInv, QueueInv, Types, TypeOK
<1> QED BY InductiveInvariant, <1>1, PTL

\* One running action per identifier and at most maxConcurrentActions of them,
\* for any number of Execute calls (Execute, processAction).
THEOREM LimitsRespected == Spec => []RunningWithinLimits
<1>1. IInv => RunningWithinLimits
  <2> SUFFICES ASSUME IInv PROVE RunningWithinLimits
    OBVIOUS
  <2> DEFINE running == {a \in Actions : pc[a] = "running"}
  <2>1. workQueue \in SUBSET Actions /\ running \in SUBSET workQueue
    BY DEF IInv, QueueInv, Types, Agreement, InWork
  <2>2. /\ IsFiniteSet(workQueue)
        /\ Cardinality(running) <= Cardinality(workQueue)
        /\ Cardinality(running) \in Nat /\ Cardinality(workQueue) \in Nat
    BY <2>1, ActionsFinite, FS_Subset
  <2>3. \A a, b \in running : id[a] = id[b] => a = b
    BY <2>1 DEF IInv, QueueInv, WorkWithinLimits
  <2>4. maxConcurrentActions # 0 => Cardinality(running) <= maxConcurrentActions
    BY <2>2, ConstantsAssumption DEF IInv, QueueInv, WorkWithinLimits
  <2> QED BY <2>3, <2>4 DEF RunningWithinLimits
<1> QED BY InductiveInvariant, <1>1, PTL

\* Actions of one identifier are executed in the order of the Execute calls.
THEOREM OrderPerID == Spec => []SameIDInOrder
<1>1. IInv => SameIDInOrder
  BY DEF IInv, QueueInv
<1> QED BY InductiveInvariant, <1>1, PTL

\* processAction's hand-over never leaves a slot idle while an action could use it.
THEOREM SlotsUsed == Spec => []NoIdleSlot
<1>1. IInv => NoIdleSlot
  BY DEF IInv, QueueInv
<1> QED BY InductiveInvariant, <1>1, PTL

\* Wait returns only after all actions submitted before it are executed.
THEOREM WaitSound == Spec => []WaitMeansExecuted
<1>1. IInv => WaitMeansExecuted
  <2> SUFFICES ASSUME IInv, NEW w \in Waiters, waitPC[w] = "returned",
                      NEW a \in 1 .. waitFor[w]
               PROVE  pc[a] = "done" /\ a \in delivered
    BY DEF WaitMeansExecuted
  <2>1. a \in Actions
    BY ConstantsAssumption DEF IInv, QueueInv, Types, Actions
  <2> QED BY <2>1 DEF IInv, QueueInv, WaitInv, Agreement
<1> QED BY InductiveInvariant, <1>1, PTL

-----------------------------------------------------------------------------
(***************************************************************************)
(* The handler implements the abstract executor.                           *)
(***************************************************************************)

status == [a \in Actions |-> statusOf[pc[a]]]

\* A step that changes pc[a] only changes status[a] only.
LEMMA StatusStep ==
    ASSUME Types, NEW a \in Actions, NEW s \in States, pc' = [pc EXCEPT ![a] = s]
    PROVE  status' = [status EXCEPT ![a] = statusOf[s]]
BY DEF status, Types, States, statusOf

\* Execute, CallDoAction and DoActionReturns are the abstract Submit, Start and
\* Complete; the other steps are invisible to a caller.
THEOREM Implementation == Spec => ImplementsExecutor
<1>1. Init => Executor!Init
  BY DEF Init, Executor!Init, Executor!Actions, Actions, statusOf
<1>2. IInv /\ [Next]_vars => [Executor!Next]_(Executor!execVars)
  <2> SUFFICES ASSUME IInv, [Next]_vars
               PROVE  Executor!Next \/ UNCHANGED <<id, status>>
    BY DEF Executor!execVars, status, Executor!Actions, Actions
  <2>0. Types /\ Agreement /\ SameIDInOrder /\ WorkWithinLimits
    BY DEF IInv, QueueInv
  <2>1. ASSUME NEW i \in IDs, Execute(i) PROVE Executor!Next
    <3> DEFINE a == count + 1
    <3>1. /\ a \in Actions /\ id' = [id EXCEPT ![a] = i]
          /\ \/ pc' = [pc EXCEPT ![a] = "queued"]
             \/ pc' = [pc EXCEPT ![a] = "spawned"]
      BY <2>1 DEF Execute
    <3>2. status' = [status EXCEPT ![a] = "pending"]
      BY <2>0, <3>1, StatusStep DEF States, statusOf
    <3>3. pc[a] = "new" /\ \A b \in Actions : b < a => pc[b] # "new"
      BY <2>0, <3>1 DEF Types, Agreement, Actions
    <3>4. status[a] = "new" /\ \A b \in Actions : b < a => status[b] # "new"
      BY <2>0, <3>1, <3>3 DEF status, statusOf, Types, States
    <3>5. Executor!Submit(a, i)
      BY <3>1, <3>2, <3>4 DEF Executor!Submit, Executor!Actions, Actions, status
    <3> QED BY <3>1, <3>5 DEF Executor!Next, Executor!Actions, Actions
  <2>2. ASSUME NEW a \in Actions, CallDoAction(a) PROVE Executor!Next
    <3>1. pc[a] = "spawned" /\ pc' = [pc EXCEPT ![a] = "running"] /\ UNCHANGED id
      BY <2>2 DEF CallDoAction
    <3>2. status' = [status EXCEPT ![a] = "running"]
      BY <2>0, <3>1, StatusStep DEF States, statusOf
    <3>3. status[a] = "pending"
      BY <3>1 DEF status, statusOf
    <3>4. ASSUME NEW b \in Actions, b < a, id[b] = id[a] PROVE status[b] = "done"
      <4>1. a <= count
        BY <2>0, <3>1 DEF Types, Agreement, Actions
      <4>2. pc[b] \in Left
        BY <2>0, <3>1, <3>4, <4>1 DEF SameIDInOrder
      <4> QED BY <4>2 DEF status, statusOf, Left
    <3>5. maxConcurrentActions # 0 =>
              Cardinality({b \in Actions : status[b] = "running"}) < maxConcurrentActions
      <4> DEFINE R == {b \in Actions : status[b] = "running"}
      <4>1. \A b \in R : pc[b] = "running"
        BY <2>0 DEF status, statusOf, Types, States
      <4>2. a \in workQueue /\ workQueue \in SUBSET Actions /\ R \in SUBSET (workQueue \ {a})
        BY <2>0, <3>1, <4>1 DEF Agreement, InWork, Types
      <4>3. /\ IsFiniteSet(workQueue) /\ Cardinality(workQueue) \in Nat
            /\ Cardinality(R) \in Nat
        BY <4>2, ActionsFinite
      <4>4. /\ IsFiniteSet(workQueue \ {a})
            /\ Cardinality(workQueue \ {a}) = Cardinality(workQueue) - 1
        BY <4>2, <4>3, FS_RemoveElement
      <4>5. Cardinality(R) <= Cardinality(workQueue \ {a})
        BY <4>2, <4>4, FS_Subset
      <4> HIDE DEF R
      <4>6. maxConcurrentActions # 0 => Cardinality(R) < maxConcurrentActions
        BY <2>0, <4>3, <4>4, <4>5, ConstantsAssumption DEF WorkWithinLimits
      <4> QED BY <4>6 DEF R
    <3>6. Executor!Start(a)
      <4>1. Executor!Actions = Actions
        BY DEF Executor!Actions, Actions
      <4>2. Executor!InExecution = {b \in Actions : status[b] = "running"}
        BY <4>1 DEF Executor!InExecution, status
      <4>3. /\ status[a] = "pending"
            /\ \A b \in Actions : b < a /\ id[b] = id[a] => status[b] = "done"
            /\ maxConcurrentActions # 0 =>
                   Cardinality(Executor!InExecution) < maxConcurrentActions
            /\ status' = [status EXCEPT ![a] = "running"]
            /\ UNCHANGED id
        BY <3>1, <3>2, <3>3, <3>4, <3>5, <4>2
      <4>4. \A S : Executor!Cardinality(S) = Cardinality(S)
        BY DEF Executor!Cardinality, Cardinality, Executor!IsFiniteSet, IsFiniteSet
      <4> QED BY <4>1, <4>3, <4>4 DEF Executor!Start, status
    <3> QED BY <3>6 DEF Executor!Next, Executor!Actions, Actions
  <2>3. ASSUME NEW a \in Actions, DoActionReturns(a) PROVE Executor!Next
    <3>1. pc[a] = "running" /\ pc' = [pc EXCEPT ![a] = "executed"] /\ UNCHANGED id
      BY <2>3 DEF DoActionReturns
    <3>2. status' = [status EXCEPT ![a] = "done"]
      BY <2>0, <3>1, StatusStep DEF States, statusOf
    <3>3. status[a] = "running"
      BY <3>1 DEF status, statusOf
    <3>4. Executor!Complete(a)
      BY <3>1, <3>2, <3>3 DEF Executor!Complete, Executor!Actions, Actions, status
    <3> QED BY <3>4 DEF Executor!Next, Executor!Actions, Actions
  <2>4. ASSUME NEW a \in Actions, SendResult(a) \/ LeaveWorkQueue(a) \/ WaitGroupDone(a)
        PROVE  UNCHANGED <<id, status>>
    <3>1. UNCHANGED id
      BY <2>4 DEF SendResult, LeaveWorkQueue, WaitGroupDone
    <3>2. \A b \in Actions : statusOf[pc'[b]] = statusOf[pc[b]]
      <4>1. CASE SendResult(a) \/ WaitGroupDone(a)
        BY <2>0, <4>1 DEF SendResult, WaitGroupDone, Types, statusOf
      <4>2. CASE LeaveWorkQueue(a)
        <5>1. \A k \in 1 .. Len(waitQueue) : waitQueue[k] \in Actions /\ pc[waitQueue[k]] = "queued"
          BY <2>0 DEF Types, Agreement
        <5>2. CASE pc' = [pc EXCEPT ![a] = "unlocked"]
          BY <2>0, <4>2, <5>2 DEF LeaveWorkQueue, Types, statusOf
        <5>3. ASSUME NEW k \in 1 .. Len(waitQueue),
                     pc' = [pc EXCEPT ![a] = "unlocked", ![waitQueue[k]] = "spawned"]
              PROVE  \A b \in Actions : statusOf[pc'[b]] = statusOf[pc[b]]
          BY <2>0, <4>2, <5>1, <5>3 DEF LeaveWorkQueue, Types, statusOf
        <5> QED BY <4>2, <5>2, <5>3 DEF LeaveWorkQueue, Eligible
      <4> QED BY <2>4, <4>1, <4>2
    <3> QED BY <3>1, <3>2 DEF status
  <2>5. ASSUME UNCHANGED vars \/ \E w \in Waiters : Wait(w) PROVE UNCHANGED <<id, status>>
    BY <2>5 DEF vars, Wait, status
  <2> QED BY <2>1, <2>2, <2>3, <2>4, <2>5 DEF Next, processAction
<1> QED BY InductiveInvariant, <1>1, <1>2, PTL DEF Spec, ImplementsExecutor, Executor!Spec

=============================================================================
