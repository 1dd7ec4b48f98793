--------------------------- MODULE SpaceAllocator ---------------------------
(***************************************************************************)
(* spaceallocator/spaceallocator.go: several allocators share the          *)
(* partition that holds their directories.  A caller allocates space for   *)
(* an item, writes the item, and accepts the space; or releases it.  When  *)
(* space is short, outdated items are removed, oldest first.               *)
(*                                                                         *)
(* Each item has a goroutine that works on it: the critical sections of    *)
(* one public call are separate steps and those of different items         *)
(* interleave.  A critical section is one step, the removal of outdated    *)
(* items included (SpaceAllocatorLocks looks inside those).                *)
(*                                                                         *)
(* Items are numbers and their order is the order of their timestamps.     *)
(***************************************************************************)
EXTENDS Integers, SequencesExt, Ordering

CONSTANTS
    Allocators,      \* allocator instances on one mount point
    PartLimit,       \* PartLimit[a]: the partLimit argument of New, in percent
    Items,           \* items, numbered by age
    Owner,           \* Owner[i]: the allocator whose directory item i is in
    Size,            \* Size[i]: what item i takes on disk
    TotalSize,       \* fs.GetTotalSize of the mount point
    MaxFailures      \* bound: how often the ItemRemover callback returns an error

ASSUME ConstantsAssumption ==
    /\ IsFiniteSet(Allocators) /\ "part" \notin Allocators
    /\ PartLimit \in [Allocators -> 0 .. 100]
    /\ Items \subseteq Nat /\ IsFiniteSet(Items)
    /\ Owner \in [Items -> Allocators]
    /\ Size \in [Items -> Nat \ {0}]
    /\ TotalSize \in Nat
    /\ MaxFailures \in Nat

VARIABLES
    instance,   \* instance[a]: "none", "open" or "closed"
    part,       \* the partition struct
    alloc,      \* alloc[a]: the allocatorInstance struct
    disk,       \* items that are on the disk
    step,       \* step[i]: what the goroutine of item i does next
    failures,   \* errors of the ItemRemover callback so far
    overlap     \* history: accounts started between a removal and its FreeSpace

vars == <<instance, part, alloc, disk, step, failures, overlap>>

SumSize(S) == SumFunctionOnSet(Size, S)

\* fs.GetDirSize of an allocator's directory, fs.GetAvailableSize of the disk.
GetDirSize(a) == SumSize({i \in disk : Owner[i] = a})

GetAvailableSize == TotalSize - SumSize(disk)

sizeLimit(a) == (TotalSize * PartLimit[a]) \div 100

newPart == [allocatorCount |-> 0, allocationCount |-> 0, availableSize |-> 0,
            outdatedItems |-> <<>>, partLimit |-> 0]

Init ==
    /\ instance = [a \in Allocators |-> "none"]
    /\ part = newPart
    /\ alloc = [a \in Allocators |-> [allocationCount |-> 0, allocatedSize |-> 0]]
    /\ disk \in SUBSET Items
    /\ SumSize(disk) <= TotalSize
    /\ \A a \in Allocators : sizeLimit(a) > 0 => GetDirSize(a) <= sizeLimit(a)
    /\ step = [i \in Items |-> IF i \in disk THEN "present" ELSE "absent"]
    /\ failures = 0
    /\ overlap = {}

-----------------------------------------------------------------------------
(***************************************************************************)
(* New and Close.  An allocator is closed when nothing of it is in         *)
(* progress; the partition object goes with its last allocator.            *)
(***************************************************************************)
Idle(a) == \A i \in Items : Owner[i] = a => step[i] \in {"absent", "present"}

addPartLimit(a) == part.partLimit + PartLimit[a] <= 100

New(a) ==
    /\ instance[a] = "none"
    /\ addPartLimit(a)
    /\ instance' = [instance EXCEPT ![a] = "open"]
    /\ part' = [part EXCEPT !.partLimit = @ + PartLimit[a], !.allocatorCount = @ + 1]
    /\ UNCHANGED <<alloc, disk, step, failures, overlap>>

Close(a) ==
    /\ instance[a] = "open"
    /\ Idle(a)
    /\ instance' = [instance EXCEPT ![a] = "closed"]
    /\ part' = IF part.allocatorCount = 1 THEN newPart
               ELSE [part EXCEPT !.partLimit = @ - PartLimit[a], !.allocatorCount = @ - 1]
    /\ UNCHANGED <<alloc, disk, step, failures, overlap>>

-----------------------------------------------------------------------------
(***************************************************************************)
(* Removal of outdated items.                                              *)
(***************************************************************************)

\* Fault: subtraction that may wrap below zero.
MinusUnchecked(x, y) == x - y

\* Saturating subtraction on the allocator's uint64 account.
Minus(x, y) == IF y < x THEN x - y ELSE 0

\* Fault: the newest item first.
NewestFirst(items) ==
    LET newer == {r \in (DOMAIN items) \X (DOMAIN items) :
                    items[r[1]] > items[r[2]] \/ (items[r[1]] = items[r[2]] /\ r[1] <= r[2])}
    IN  Rearranged(items, InOrder(DOMAIN items, newer))

byTimestamp(items) ==
    LET older == {r \in (DOMAIN items) \X (DOMAIN items) :
                    items[r[1]] < items[r[2]] \/ (items[r[1]] = items[r[2]] /\ r[1] <= r[2])}
    IN  Rearranged(items, InOrder(DOMAIN items, older))

SizeAt(items, P) == SumFunctionOnSet([p \in DOMAIN items |-> Size[items[p]]], P)

\* The positions of items a caller may remove.
Candidates(items, owners) == {p \in DOMAIN items : Owner[items[p]] \in owners}

\* The positions the removal loop visits until requiredSize is freed.
Victims(items, owners, requiredSize) ==
    {p \in Candidates(items, owners) :
        SizeAt(items, {r \in Candidates(items, owners) : r < p}) < requiredSize}

\* Where the loop stops: at a victim for which the remover fails, or (0) never.
Stops(victims) == {0} \union IF failures < MaxFailures THEN victims ELSE {}

Removed(victims, stop) == {p \in victims : stop = 0 \/ p < stop}

ItemsAt(items, P) == {items[p] : p \in P}

\* items without the positions in P.
Without(items, P) ==
    LET earlier == {r \in (DOMAIN items) \X (DOMAIN items) : r[1] <= r[2]}
    IN  Rearranged(items, InOrder(DOMAIN items \ P, earlier))

\* allocator.removeOutdatedItems compacts the list in place; when the remover
\* fails it returns with the list half compacted.
CompactedList(items, victims, stop) ==
    LET kept == Without(SubSeq(items, 1, stop - 1), Removed(victims, stop))
    IN  IF stop = 0 THEN Without(items, victims)
        ELSE kept \o SubSeq(items, Len(kept) + 1, Len(items))

\* Fault: the removed items stay in the list.
UntrimmedList(items, victims, stop) == items

\* partition.removeOutdatedItems drops a prefix of the list, or nothing when
\* the remover fails.
TrimmedList(items, victims, stop) ==
    IF stop = 0 THEN Without(items, victims) ELSE items

\* What the remover does to the items of a set, and the next step of item i.
RemoveFromDisk(R, i, next) ==
    /\ disk' = disk \ R
    /\ step' = [j \in Items |->
                  IF j = i THEN next
                  ELSE IF j \in R /\ step[j] = "present" THEN "absent" ELSE step[j]]

-----------------------------------------------------------------------------
(***************************************************************************)
(* AllocateSpace, first half: the allocator's account.                     *)
(***************************************************************************)

\* Items whose owner has removed them and has not yet told the allocator.
Unreported(a) == {i \in Items : Owner[i] = a /\ step[i] = "removed"}

\* Fault: the account is read from the disk at every allocation.
AllocatedSizeOnDisk(a) == GetDirSize(a)

\* The account is read from the disk when no allocation is in progress.
AllocatedSize(a) ==
    IF alloc[a].allocationCount = 0 THEN GetDirSize(a) ELSE alloc[a].allocatedSize

OverlapOf(a) ==
    IF alloc[a].allocationCount > 0 THEN overlap
    ELSE IF Unreported(a) = {} THEN overlap \ {a} ELSE overlap \union {a}

AllocateFromAllocator(i) ==
    LET a        == Owner[i]
        current  == AllocatedSize(a)
        required == current + Size[i] - sizeLimit(a)
        items    == byTimestamp(part.outdatedItems)
        victims  == Victims(items, {a}, required)
    IN
    /\ step[i] = "absent"
    /\ instance[a] = "open"
    /\ \/ \* no limit: nothing to account
          /\ sizeLimit(a) = 0
          /\ step' = [step EXCEPT ![i] = "partition"]
          /\ UNCHANGED <<part, alloc, disk, failures, overlap>>
       \/ \* enough space
          /\ sizeLimit(a) # 0
          /\ required <= 0
          /\ alloc' = [alloc EXCEPT ![a].allocatedSize = current + Size[i],
                                    ![a].allocationCount = @ + 1]
          /\ step' = [step EXCEPT ![i] = "partition"]
          /\ overlap' = OverlapOf(a)
          /\ UNCHANGED <<part, disk, failures>>
       \/ \* ErrNoSpace
          /\ sizeLimit(a) # 0
          /\ required > SizeAt(items, Candidates(items, {a}))
          /\ alloc' = [alloc EXCEPT ![a].allocatedSize = current]
          /\ overlap' = OverlapOf(a)
          /\ UNCHANGED <<part, disk, step, failures>>
       \/ \* outdated items of this allocator are removed
          /\ sizeLimit(a) # 0
          /\ required > 0
          /\ required <= SizeAt(items, Candidates(items, {a}))
          /\ \E stop \in Stops(victims) :
                LET removed == Removed(victims, stop)
                    freed   == SizeAt(items, removed)
                IN  /\ failures' = IF stop = 0 THEN failures ELSE failures + 1
                    /\ RemoveFromDisk(ItemsAt(items, removed), i,
                                      IF stop = 0 THEN "partition" ELSE "absent")
                    /\ part' = [part EXCEPT
                            !.outdatedItems = CompactedList(items, victims, stop),
                            !.availableSize = IF part.allocationCount > 0 THEN @ + freed ELSE @]
                    /\ alloc' = [alloc EXCEPT ![a] =
                            IF stop = 0
                            THEN [allocatedSize   |-> Minus(current, freed) + Size[i],
                                  allocationCount |-> @.allocationCount + 1]
                            ELSE [@ EXCEPT !.allocatedSize = current]]
          /\ overlap' = OverlapOf(a)
    /\ UNCHANGED instance

(***************************************************************************)
(* AllocateSpace, second half: the partition's account.  When it fails,    *)
(* the first half is not undone.                                           *)
(***************************************************************************)

\* Fault: the account is read from the disk at every allocation.
AvailableSizeOnDisk == GetAvailableSize

AvailableSize ==
    IF part.allocationCount = 0 THEN GetAvailableSize ELSE part.availableSize

OverlapOfPart ==
    IF part.allocationCount > 0 THEN overlap
    ELSE IF \A i \in Items : step[i] \notin {"removed", "free"}
         THEN overlap \ {"part"} ELSE overlap \union {"part"}

\* item.allocator.freeSpace for the removed items of allocator a.
CreditAllocator(a, sizes) ==
    IF sizeLimit(a) # 0 /\ alloc[a].allocationCount > 0
    THEN [alloc[a] EXCEPT !.allocatedSize = Minus(@, sizes)]
    ELSE alloc[a]

AllocateFromPartition(i) ==
    LET available == AvailableSize
        required  == Size[i] - available
        items     == byTimestamp(part.outdatedItems)
        victims   == Victims(items, Allocators, required)
    IN
    /\ step[i] = "partition"
    /\ \/ \* enough space
          /\ required <= 0
          /\ part' = [part EXCEPT !.availableSize = available - Size[i],
                                  !.allocationCount = @ + 1]
          /\ step' = [step EXCEPT ![i] = "granted"]
          /\ UNCHANGED <<alloc, disk, failures>>
       \/ \* ErrNoSpace
          /\ required > SizeAt(items, DOMAIN items)
          /\ part' = [part EXCEPT !.availableSize = available]
          /\ step' = [step EXCEPT ![i] = "absent"]
          /\ UNCHANGED <<alloc, disk, failures>>
       \/ \* the oldest items on the partition are removed
          /\ required > 0
          /\ required <= SizeAt(items, DOMAIN items)
          /\ \E stop \in Stops(victims) :
                LET removed == Removed(victims, stop)
                    of(a)   == {p \in removed : Owner[items[p]] = a}
                IN  /\ failures' = IF stop = 0 THEN failures ELSE failures + 1
                    /\ RemoveFromDisk(ItemsAt(items, removed), i,
                                      IF stop = 0 THEN "granted" ELSE "absent")
                    /\ alloc' = [a \in Allocators |->
                                   IF of(a) = {} THEN alloc[a]
                                   ELSE CreditAllocator(a, SizeAt(items, of(a)))]
                    /\ part' = [part EXCEPT
                            !.outdatedItems = TrimmedList(items, victims, stop),
                            !.availableSize =
                                IF stop = 0 THEN available + SizeAt(items, removed) - Size[i]
                                ELSE available,
                            !.allocationCount = IF stop = 0 THEN @ + 1 ELSE @]
    /\ overlap' = OverlapOfPart
    /\ UNCHANGED instance

-----------------------------------------------------------------------------
(***************************************************************************)
(* The caller writes the item into the space it was given, if the disk     *)
(* really has the space, or takes what it has written away again.          *)
(***************************************************************************)
Store(i) ==
    /\ step[i] = "granted"
    /\ Size[i] <= GetAvailableSize
    /\ disk' = disk \union {i}
    /\ step' = [step EXCEPT ![i] = "stored"]
    /\ UNCHANGED <<instance, part, alloc, failures, overlap>>

Discard(i) ==
    /\ step[i] = "stored"
    /\ disk' = disk \ {i}
    /\ step' = [step EXCEPT ![i] = "granted"]
    /\ UNCHANGED <<instance, part, alloc, failures, overlap>>

(***************************************************************************)
(* allocator.freeSpace and partition.freeSpace: only accounts that are in  *)
(* use are updated.                                                        *)
(***************************************************************************)
freeInAllocator(i) == alloc' = [alloc EXCEPT ![Owner[i]] = CreditAllocator(Owner[i], Size[i])]

freeInPartition(i) ==
    part' = [part EXCEPT !.availableSize =
                IF part.allocationCount > 0 THEN @ + Size[i] ELSE @]

(***************************************************************************)
(* Release gives the space back in both accounts ...                       *)
(***************************************************************************)
ReleaseInAllocator(i) ==
    /\ step[i] = "granted"
    /\ freeInAllocator(i)
    /\ step' = [step EXCEPT ![i] = "release"]
    /\ UNCHANGED <<instance, part, disk, failures, overlap>>

ReleaseInPartition(i) ==
    /\ step[i] = "release"
    /\ freeInPartition(i)
    /\ step' = [step EXCEPT ![i] = "done"]
    /\ UNCHANGED <<instance, alloc, disk, failures, overlap>>

(***************************************************************************)
(* ... and, like Accept, ends the allocation in both.                      *)
(***************************************************************************)
Accept(i) ==
    /\ step[i] = "stored"
    /\ step' = [step EXCEPT ![i] = "done"]
    /\ UNCHANGED <<instance, part, alloc, disk, failures, overlap>>

DoneInAllocator(i) ==
    /\ step[i] = "done"
    /\ alloc' = [alloc EXCEPT ![Owner[i]].allocationCount =
                    IF sizeLimit(Owner[i]) = 0 THEN @ ELSE @ - 1]
    /\ step' = [step EXCEPT ![i] = "doneInPartition"]
    /\ UNCHANGED <<instance, part, disk, failures, overlap>>

\* Fault: the partition's allocation is not ended.
KeepAllocation(count) == count

allocateDone(count) == count - 1

DoneInPartition(i) ==
    /\ step[i] = "doneInPartition"
    /\ part' = [part EXCEPT !.allocationCount = allocateDone(@)]
    /\ step' = [step EXCEPT ![i] = IF i \in disk THEN "present" ELSE "absent"]
    /\ UNCHANGED <<instance, alloc, disk, failures, overlap>>

(***************************************************************************)
(* The owner removes an item that is not outdated, then calls FreeSpace.   *)
(***************************************************************************)
OwnerRemoves(i) ==
    /\ step[i] = "present"
    /\ instance[Owner[i]] = "open"
    /\ i \notin ToSet(part.outdatedItems)
    /\ disk' = disk \ {i}
    /\ step' = [step EXCEPT ![i] = "removed"]
    /\ UNCHANGED <<instance, part, alloc, failures, overlap>>

FreeSpaceInAllocator(i) ==
    /\ step[i] = "removed"
    /\ freeInAllocator(i)
    /\ step' = [step EXCEPT ![i] = "free"]
    /\ UNCHANGED <<instance, part, disk, failures, overlap>>

FreeSpaceInPartition(i) ==
    /\ step[i] = "free"
    /\ freeInPartition(i)
    /\ step' = [step EXCEPT ![i] = "absent"]
    /\ UNCHANGED <<instance, alloc, disk, failures, overlap>>

(***************************************************************************)
(* AddOutdatedItem replaces the entry of the same id or appends one;       *)
(* RestoreOutdatedItem removes the first entry of the id.                  *)
(***************************************************************************)
AddOutdatedItem(i) ==
    /\ step[i] = "present"
    /\ instance[Owner[i]] = "open"
    /\ i \notin ToSet(part.outdatedItems)
    /\ part' = [part EXCEPT !.outdatedItems = Append(@, i)]
    /\ UNCHANGED <<instance, alloc, disk, step, failures, overlap>>

RestoreOutdatedItem(i) ==
    /\ instance[Owner[i]] = "open"
    /\ i \in ToSet(part.outdatedItems)
    /\ part' = [part EXCEPT !.outdatedItems = RemoveFirst(@, i)]
    /\ UNCHANGED <<instance, alloc, disk, step, failures, overlap>>

-----------------------------------------------------------------------------
ItemStep(i) ==
    \/ AllocateFromAllocator(i)
    \/ AllocateFromPartition(i)
    \/ Store(i)
    \/ Discard(i)
    \/ ReleaseInAllocator(i)
    \/ ReleaseInPartition(i)
    \/ Accept(i)
    \/ DoneInAllocator(i)
    \/ DoneInPartition(i)
    \/ OwnerRemoves(i)
    \/ FreeSpaceInAllocator(i)
    \/ FreeSpaceInPartition(i)
    \/ AddOutdatedItem(i)
    \/ RestoreOutdatedItem(i)

Next ==
    \/ \E a \in Allocators : New(a) \/ Close(a)
    \/ \E i \in Items : ItemStep(i)

Spec == Init /\ [][Next]_vars

-----------------------------------------------------------------------------
(***************************************************************************)
(* Properties                                                              *)
(***************************************************************************)

InProgress == {"granted", "stored", "release", "done", "doneInPartition"}

\* The accounts are uint64 and the counters uint in the code: none of them
\* ever wraps below zero.
TypeOK ==
    /\ instance \in [Allocators -> {"none", "open", "closed"}]
    /\ part.allocatorCount \in Nat /\ part.allocationCount \in Nat
    /\ part.availableSize \in Nat /\ part.partLimit \in 0 .. 100
    /\ part.outdatedItems \in Seq(Items)
    /\ \A a \in Allocators :
           alloc[a].allocationCount \in Nat /\ alloc[a].allocatedSize \in Nat
    /\ disk \subseteq Items
    /\ failures \in 0 .. MaxFailures
    /\ step \in [Items -> InProgress \union {"absent", "partition", "present", "removed", "free"}]
    /\ overlap \subseteq Allocators \union {"part"}

\* The partition never promises space it does not have: what it considers
\* available and what it has granted but is not yet written fit into the free
\* space of the disk.  The exceptions are an account that was started while an
\* owner was between removing an item and reporting it with FreeSpace, and the
\* items that stay listed after an error of the ItemRemover.
PartitionNotOvercommitted ==
    part.allocationCount > 0 /\ "part" \notin overlap /\ failures = 0 =>
        part.availableSize + SumSize({i \in Items : step[i] \in {"granted", "release"}})
            <= GetAvailableSize

\* An allocator with a limit never counts less than what is in its directory
\* and what has been granted from its account, with the same exceptions; so its
\* directory stays within its share of the partition.
AllocatorAccountCovers ==
    \A a \in Allocators :
        sizeLimit(a) > 0 /\ alloc[a].allocationCount > 0 /\ a \notin overlap /\ failures = 0 =>
            GetDirSize(a) + SumSize({i \in Items : Owner[i] = a /\ step[i] \in {"partition", "granted"}})
                <= alloc[a].allocatedSize

\* The partition counts exactly the allocations that are neither accepted nor
\* released, whichever calls failed: otherwise it would never again read the
\* disk, or read it in the middle of an allocation.
PartitionCountExact ==
    part.allocationCount = Cardinality({i \in Items : step[i] \in InProgress})

\* Neither account ever promises space that is not there, in whatever order the
\* two are updated, and the partition's count of allocations is right, so that
\* it reads the disk exactly when nothing is in progress.
AccountsCoverUse == PartitionNotOvercommitted /\ AllocatorAccountCovers /\ PartitionCountExact

Listed == ToSet(part.outdatedItems)

\* The allocator of item i has made room in its own account: only its own
\* items are of use to it.
RemovedByAllocator(i) ==
    \E k \in Items : Owner[k] = Owner[i] /\ step[k] = "absent" /\ step'[k] = "partition"

\* "oldest item should be removed first": an outdated item leaves the disk only
\* when no older outdated item stays, whoever owns it; an allocator that makes
\* room in its own account passes over the items of the others.  (After an error
\* of the ItemRemover the list may have lost an item, or hold it twice.)
OldestRemovedFirst ==
    [][failures' = 0 =>
          \A i \in (disk \ disk') \intersect Listed, j \in disk' \intersect Listed :
              i < j \/ (Owner[i] # Owner[j] /\ RemovedByAllocator(i))]_vars

\* "After calling ItemRemover the item is automatically removed from outdated
\* item list": whatever the list names is still there to be removed, as long as
\* the ItemRemover has not failed.
ListedUnlessRemoverFailed == failures = 0 => Listed \subseteq disk

\* The same without the exception: violated when one removal of several fails.
RemovedItemsForgotten == Listed \subseteq disk

\* "no allocation in progress": an allocator with no allocation in progress has
\* an allocation count of zero.
NoPhantomAllocation ==
    \A a \in Allocators :
        (\A i \in Items : Owner[i] = a => step[i] \notin InProgress \union {"partition"})
            => alloc[a].allocationCount = 0

=============================================================================
