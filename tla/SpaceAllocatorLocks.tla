------------------------ MODULE SpaceAllocatorLocks ------------------------
(***************************************************************************)
(* The locks of spaceallocator/spaceallocator.go.  Each allocator with a   *)
(* size limit has a mutex and the partition they share has one.  Removing  *)
(* outdated items for an allocator credits the partition while the         *)
(* allocator is locked; removing them for the partition credits the owner  *)
(* of the item while the partition is locked.                              *)
(*                                                                         *)
(* Sizes and items are left out (SpaceAllocator has them): whether space   *)
(* is short, how many items are removed and whose they are is arbitrary.   *)
(***************************************************************************)
EXTENDS Integers

CONSTANTS
    Allocators,   \* allocators with a size limit
    Threads,      \* goroutines that call the package
    Nobody,       \* "not locked"
    MaxVictims    \* bound: items one removal takes

VARIABLES
    allocLock,  \* allocLock[a]: who holds the mutex of allocator a
    partLock,   \* who holds the mutex of the partition
    pc,         \* pc[t]: where goroutine t is
    target,     \* target[t]: the allocator t works with
    victims     \* victims[t]: items the removal of t still has to take

vars == <<allocLock, partLock, pc, target, victims>>

Init ==
    /\ allocLock = [a \in Allocators |-> Nobody]
    /\ partLock = Nobody
    /\ pc = [t \in Threads |-> "idle"]
    /\ target \in [Threads -> Allocators]
    /\ victims = [t \in Threads |-> 0]

Goto(t, l) == pc' = [pc EXCEPT ![t] = l]

-----------------------------------------------------------------------------
(***************************************************************************)
(* A call: AllocateSpace starts with the allocator; FreeSpace, Accept and  *)
(* Release lock the allocator and then the partition, each on its own;     *)
(* AddOutdatedItem and RestoreOutdatedItem lock the partition.             *)
(***************************************************************************)
Call(t) ==
    /\ pc[t] = "idle"
    /\ \E a \in Allocators : target' = [target EXCEPT ![t] = a]
    /\ \E l \in {"allocateSpace", "freeSpace", "outdatedItem"} : Goto(t, l)
    /\ UNCHANGED <<allocLock, partLock, victims>>

(***************************************************************************)
(* allocator.allocateSpace                                                 *)
(***************************************************************************)
LockAllocator(t) ==
    /\ pc[t] = "allocateSpace"
    /\ allocLock[target[t]] = Nobody
    /\ allocLock' = [allocLock EXCEPT ![target[t]] = t]
    /\ \E n \in 0 .. MaxVictims : victims' = [victims EXCEPT ![t] = n]
    /\ Goto(t, "allocatorLocked")
    /\ UNCHANGED <<partLock, target>>

\* The remover succeeds, and partition.freeSpace is called.
RemoveForAllocator(t) ==
    /\ pc[t] = "allocatorLocked"
    /\ victims[t] > 0
    /\ Goto(t, "creditPartition")
    /\ UNCHANGED <<allocLock, partLock, target, victims>>

CreditPartition(t) ==
    /\ pc[t] = "creditPartition"
    /\ partLock = Nobody
    /\ victims' = [victims EXCEPT ![t] = @ - 1]
    /\ Goto(t, "allocatorLocked")
    /\ UNCHANGED <<allocLock, partLock, target>>

\* The loop ends, or ErrNoSpace, or the remover fails: then AllocateSpace returns.
UnlockAllocator(t) ==
    /\ pc[t] = "allocatorLocked"
    /\ allocLock' = [allocLock EXCEPT ![target[t]] = Nobody]
    /\ \/ victims[t] = 0 /\ Goto(t, "partition")
       \/ Goto(t, "idle")
    /\ victims' = [victims EXCEPT ![t] = 0]
    /\ UNCHANGED <<partLock, target>>

(***************************************************************************)
(* partition.allocateSpace                                                 *)
(***************************************************************************)
LockPartition(t) ==
    /\ pc[t] = "partition"
    /\ partLock = Nobody
    /\ partLock' = t
    /\ \E n \in 0 .. MaxVictims : victims' = [victims EXCEPT ![t] = n]
    /\ Goto(t, "partitionLocked")
    /\ UNCHANGED <<allocLock, target>>

\* The remover succeeds, and freeSpace of the item's allocator is called.
RemoveForPartition(t) ==
    /\ pc[t] = "partitionLocked"
    /\ victims[t] > 0
    /\ \E a \in Allocators : target' = [target EXCEPT ![t] = a]
    /\ Goto(t, "creditAllocator")
    /\ UNCHANGED <<allocLock, partLock, victims>>

CreditAllocator(t) ==
    /\ pc[t] = "creditAllocator"
    /\ allocLock[target[t]] = Nobody
    /\ victims' = [victims EXCEPT ![t] = @ - 1]
    /\ Goto(t, "partitionLocked")
    /\ UNCHANGED <<allocLock, partLock, target>>

UnlockPartition(t) ==
    /\ pc[t] = "partitionLocked"
    /\ partLock' = Nobody
    /\ victims' = [victims EXCEPT ![t] = 0]
    /\ Goto(t, "idle")
    /\ UNCHANGED <<allocLock, target>>

(***************************************************************************)
(* The calls that hold one mutex at a time.                                *)
(***************************************************************************)
FreeInAllocator(t) ==
    /\ pc[t] = "freeSpace"
    /\ allocLock[target[t]] = Nobody
    /\ Goto(t, "outdatedItem")
    /\ UNCHANGED <<allocLock, partLock, target, victims>>

WithPartition(t) ==
    /\ pc[t] = "outdatedItem"
    /\ partLock = Nobody
    /\ Goto(t, "idle")
    /\ UNCHANGED <<allocLock, partLock, target, victims>>

-----------------------------------------------------------------------------
Proceed(t) ==
    \/ LockAllocator(t) \/ RemoveForAllocator(t) \/ CreditPartition(t) \/ UnlockAllocator(t)
    \/ LockPartition(t) \/ RemoveForPartition(t) \/ CreditAllocator(t) \/ UnlockPartition(t)
    \/ FreeInAllocator(t) \/ WithPartition(t)

Next == \E t \in Threads : Call(t) \/ Proceed(t)

Spec == Init /\ [][Next]_vars

(***************************************************************************)
(* A goroutine that can run does, and sync.Mutex does not starve a waiter: *)
(* whoever can lock again and again gets the lock.                         *)
(***************************************************************************)
FairSpec == Spec /\ \A t \in Threads : SF_vars(Proceed(t))

-----------------------------------------------------------------------------
(***************************************************************************)
(* Properties                                                              *)
(***************************************************************************)

\* "If there is no space to allocate, spaceallocator will try to free some
\* space by calling ItemRemover function for outdated items": AllocateSpace
\* returns, with the space or with an error.
AllocationReturns ==
    \A t \in Threads : pc[t] = "allocateSpace" ~> pc[t] = "idle"

=============================================================================
