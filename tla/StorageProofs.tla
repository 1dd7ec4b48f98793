---------------------------- MODULE StorageProofs ----------------------------
(***************************************************************************)
(* Proofs about the helpers of module MCStorage (the retry loop, mount     *)
(* points and quotas, the database migration, the download, the copy and   *)
(* the unpacking of images, the test disks, the conversions) and about the *)
(* space allocator.                                                        *)
(***************************************************************************)
EXTENDS MCStorage, SpaceAllocator, CommonLemmas

-----------------------------------------------------------------------------
(***************************************************************************)
(* utils/retryhelper                                                       *)
(***************************************************************************)

RetryTypes ==
    /\ maxTry \in Nat
    /\ maxDelay \in Nat
    /\ try \in Nat \ {0}
    /\ delay \in Nat
    /\ callbacks \in Nat
    /\ lateCalls \in Nat
    /\ retryCtxDone \in BOOLEAN

\* A call that was late is the last one: the loop ends with it.
LateCallIsLast == lateCalls = 0 \/ (lateCalls = 1 /\ retryCtxDone /\ retryPC \in {"call", "done"})

\* One call more than callbacks while a call is made.
CallbacksCounted ==
    /\ retryPC = "call" => callbacks = try - 1
    /\ retryPC = "wait" => callbacks = try /\ TriesLeft
    /\ callbacks \in {try - 1, try}

RetryInv == RetryTypes /\ LateCallIsLast /\ CallbacksCounted /\ RetryKeepsLimits

LEMMA RetryInvInit == RetryInit => RetryInv
    <1> SUFFICES ASSUME RetryInit PROVE RetryInv
        OBVIOUS
    <1>1. RetryTypes
        <2>1. retryCtxDone \in BOOLEAN
            BY Zenon DEF RetryInit
        <2>2. retryDelay \in Nat /\ maxTry \in Nat /\ maxDelay \in Nat
            BY RetryAssumption DEF RetryInit
        <2> QED
            BY <2>1, <2>2 DEF RetryInit, RetryTypes
    <1>2. LateCallIsLast /\ CallbacksCounted
        BY DEF RetryInit, LateCallIsLast, CallbacksCounted
    <1>3. RetryKeepsLimits
        BY <1>1 DEF RetryInit, RetryKeepsLimits, RetryTypes
    <1> QED
        BY <1>1, <1>2, <1>3 DEF RetryInv

\* Every step of the loop keeps the invariant.  The caller goes on after it only
\* if the context is not done: the context of fs.Mount and fs.Umount never is.
LEMMA RetryInvStep ==
    ASSUME RetryInv,
           RetryNext \/ (RetryEnd /\ ~ retryCtxDone) \/ UNCHANGED retryVars
    PROVE  RetryInv'
    <1> USE DEF RetryInv
    <1>1. CASE RetryBegin
        <2>1. RetryTypes'
            BY <1>1, RetryAssumption DEF RetryBegin, RetryTypes
        <2>2. LateCallIsLast' /\ CallbacksCounted'
            BY <1>1 DEF RetryBegin, LateCallIsLast, CallbacksCounted
        <2>3. RetryKeepsLimits'
            BY <1>1, <2>1 DEF RetryBegin, RetryKeepsLimits, RetryTypes
        <2> QED
            BY <2>1, <2>2, <2>3
    <1>2. CASE CallSucceeds
        BY <1>2 DEF CallSucceeds, RetryReturns, RetryTypes, LateCallIsLast, CallbacksCounted,
                    RetryKeepsLimits
    <1>3. CASE CallFails
        <2>1. RetryTypes'
            BY <1>3 DEF CallFails, RetryTypes
        <2>2. LateCallIsLast'
            BY <1>3 DEF CallFails, RetryReturns, LateCallIsLast
        <2>3. CallbacksCounted'
            BY <1>3 DEF CallFails, RetryReturns, CallbacksCounted, TriesLeft, RetryTypes
        <2>4. RetryKeepsLimits'
            BY <1>3 DEF CallFails, RetryReturns, CallbacksCounted, TriesLeft, RetryTypes,
                        RetryKeepsLimits
        <2> QED
            BY <2>1, <2>2, <2>3, <2>4
    <1>4. CASE DelayOver
        <2>1. NextDelay \in Nat /\ (maxDelay # 0 => NextDelay <= maxDelay)
            BY DEF NextDelay, RetryTypes
        <2>2. RetryTypes'
            BY <1>4, <2>1 DEF DelayOver, RetryTypes
        <2>3. LateCallIsLast'
            BY <1>4 DEF DelayOver, LateCallIsLast
        <2>4. CallbacksCounted'
            BY <1>4 DEF DelayOver, CallbacksCounted, RetryTypes
        <2>5. RetryKeepsLimits'
            BY <1>4, <2>1, <2>3, <2>4 DEF DelayOver, CallbacksCounted, LateCallIsLast, TriesLeft,
                                          RetryTypes, RetryKeepsLimits
        <2> QED
            BY <2>2, <2>3, <2>4, <2>5
    <1>5. CASE WaitCancelled
        BY <1>5 DEF WaitCancelled, RetryReturns, RetryTypes, LateCallIsLast, CallbacksCounted,
                    RetryKeepsLimits
    <1>6. CASE CancelRetry
        <2>1. retryCtxDone' \in BOOLEAN
            BY <1>6, Zenon DEF CancelRetry
        <2> QED
            BY <1>6, <2>1 DEF CancelRetry, RetryTypes, LateCallIsLast, CallbacksCounted, TriesLeft,
                              RetryKeepsLimits
    <1>7. CASE RetryEnd /\ ~ retryCtxDone
        BY <1>7 DEF RetryEnd, RetryTypes, LateCallIsLast, CallbacksCounted, RetryKeepsLimits
    <1>8. CASE UNCHANGED retryVars
        BY <1>8 DEF retryVars, RetryTypes, LateCallIsLast, CallbacksCounted, TriesLeft,
                    RetryKeepsLimits
    <1> QED
        BY <1>1, <1>2, <1>3, <1>4, <1>5, <1>6, <1>7, <1>8 DEF RetryNext

-----------------------------------------------------------------------------
(***************************************************************************)
(* utils/fs: quotas                                                        *)
(***************************************************************************)

QuotaTypes ==
    /\ hardLimit \in [QuotaUsers -> 0 .. MaxBytes]
    /\ bytesUsed \in [QuotaUsers -> Nat]
    /\ promised \in [QuotaUsers -> 0 .. MaxBytes]

\* The kernel's limit is not above what was promised; without one everything was.
LimitPromised ==
    \A u \in QuotaUsers :
        /\ hardLimit[u] <= promised[u]
        /\ hardLimit[u] = 0 => promised[u] = MaxBytes

QuotaInv == QuotaTypes /\ LimitPromised /\ QuotaKept

\* The maximum of two numbers.
LEMMA MaxOfTwo ==
    ASSUME NEW a \in Int, NEW b \in Int
    PROVE  Max({a, b}) = IF a >= b THEN a ELSE b
    <1>1. \E x \in {a, b} : \A y \in {a, b} : x >= y
        OBVIOUS
    <1>2. Max({a, b}) \in {a, b} /\ \A y \in {a, b} : Max({a, b}) >= y
        BY <1>1 DEF Max
    <1> QED
        BY <1>2

LEMMA QuotaInvInit == QuotaInit => QuotaInv
    BY QuotaAssumption DEF QuotaInit, QuotaInv, QuotaTypes, LimitPromised, QuotaKept

LEMMA QuotaInvStep ==
    ASSUME QuotaInv, QuotaNext \/ UNCHANGED quotaVars
    PROVE  QuotaInv'
    <1> USE QuotaAssumption DEF QuotaInv
    <1>1. ASSUME NEW u \in QuotaUsers, NEW limit \in Limits, SetUserFSQuota(u, limit)
          PROVE  QuotaInv'
        <2>1. limit \in 0 .. MaxBytes /\ bytesUsed[u] \in Nat /\ bytesUsed[u] <= MaxBytes
            BY DEF QuotaTypes, QuotaKept
        <2>2. PICK most \in 0 .. MaxBytes :
                  /\ most = IF limit = 0 THEN MaxBytes ELSE Max({limit, bytesUsed[u]})
                  /\ limit <= most /\ bytesUsed[u] <= most
                  /\ limit = 0 => most = MaxBytes
            BY <2>1, MaxOfTwo
        <2>3. promised' = [promised EXCEPT ![u] = most] /\ UNCHANGED bytesUsed
            BY <1>1, <2>2 DEF SetUserFSQuota
        <2>4. \/ UNCHANGED hardLimit /\ limit = 0
              \/ hardLimit' = [hardLimit EXCEPT ![u] = limit]
            BY <1>1 DEF SetUserFSQuota, Unneeded, SetsNothing, SetUserQuota
        <2>5. QuotaTypes'
            BY <2>1, <2>3, <2>4 DEF QuotaTypes
        <2>6. LimitPromised'
            BY <2>1, <2>2, <2>3, <2>4 DEF QuotaTypes, LimitPromised
        <2>7. QuotaKept'
            BY <2>2, <2>3 DEF QuotaTypes, QuotaKept
        <2> QED
            BY <2>5, <2>6, <2>7
    <1>2. ASSUME NEW u \in QuotaUsers, getInstanceDiskUsage(u)
          PROVE  QuotaInv'
        BY <1>2 DEF getInstanceDiskUsage, GetUserFSQuotaUsage, QuotaTypes, LimitPromised, QuotaKept
    <1>3. ASSUME NEW u \in QuotaUsers, WriteByte(u)
          PROVE  QuotaInv'
        <2>1. QuotaTypes' /\ LimitPromised'
            BY <1>3 DEF WriteByte, QuotaTypes, LimitPromised
        <2>2. QuotaKept'
            BY <1>3 DEF WriteByte, QuotaTypes, LimitPromised, QuotaKept
        <2> QED
            BY <2>1, <2>2
    <1>4. ASSUME NEW u \in QuotaUsers, RemoveByte(u)
          PROVE  QuotaInv'
        BY <1>4 DEF RemoveByte, QuotaTypes, LimitPromised, QuotaKept
    <1>5. CASE UNCHANGED quotaVars
        BY <1>5 DEF quotaVars, QuotaTypes, LimitPromised, QuotaKept
    <1> QED
        BY <1>1, <1>2, <1>3, <1>4, <1>5 DEF QuotaNext

-----------------------------------------------------------------------------
(***************************************************************************)
(* utils/fs: the mount point of a directory                                *)
(***************************************************************************)

\* Two prefixes of one path are prefixes of each other.
LEMMA PrefixesOfPath ==
    ASSUME NEW S, NEW p \in Seq(S), NEW q \in Seq(S), NEW dir \in Seq(S),
           IsPrefix(p, dir), IsPrefix(q, dir), Len(p) <= Len(q)
    PROVE  IsPrefix(p, q)
    <1>1. \A k \in 1 .. Len(p) : p[k] = dir[k]
        BY DEF IsPrefix
    <1>2. \A k \in 1 .. Len(q) : q[k] = dir[k]
        BY DEF IsPrefix
    <1>3. SubSeq(p, 1, Len(p)) = SubSeq(q, 1, Len(p))
        BY <1>1, <1>2
    <1> QED
        BY <1>3 DEF IsPrefix

\* GetMountPoint finds the mount point that holds the directory, whatever is
\* mounted.
LEMMA MountPointIsFound == MountPointFound
    <1> SUFFICES ASSUME NEW dir \in Dirs, \A k \in DOMAIN dir : dir[k] \notin WithDots
                 PROVE  IF \E p \in InUse : IsPrefix(p, dir)
                        THEN /\ IsPrefix(GetMountPoint(dir), dir)
                             /\ \A p \in InUse : IsPrefix(p, dir) => IsPrefix(p, GetMountPoint(dir))
                        ELSE GetMountPoint(dir) = "error"
        BY DEF MountPointFound
    <1> DEFINE Path == UNION {Range(path) : path \in Points \union Dirs}
               Lengths == {Len(p) : p \in PointsAbove(dir)}
    <1>1. \A path \in Points \union Dirs : path \in Seq(Path)
        BY PathAssumption, SequencesTyped
    <1> HIDE DEF Path
    <1>2. InUse \subseteq Points /\ dir \in Seq(Path) /\ \A p \in InUse : p \in Seq(Path)
        BY <1>1 DEF InUse
    <1>3. PointsAbove(dir) = {p \in InUse : IsPrefix(p, dir)}
        <2>1. \A p \in InUse : \A k \in Len(p) + 1 .. Len(dir) : k \in DOMAIN dir
            BY <1>2
        <2> QED
            BY <2>1 DEF PointsAbove, Above
    <1>4. CASE PointsAbove(dir) = {}
        BY <1>3, <1>4 DEF GetMountPoint
    <1>5. CASE PointsAbove(dir) # {}
        <2>0. Len(dir) \in Nat /\ \A p \in PointsAbove(dir) : Len(p) \in Nat /\ Len(p) <= Len(dir)
            BY <1>2, <1>3 DEF IsPrefix
        <2>1. Lengths \subseteq Nat /\ Lengths # {} /\ \A n \in Lengths : n <= Len(dir)
            BY <1>5, <2>0, Zenon
        <2>2. PICK n \in Lengths : \A m \in Lengths : m <= n
            <3> HIDE DEF Lengths
            <3> QED
                BY <2>0, <2>1, GreatestNatural
        <2>3. \E p \in PointsAbove(dir) : \A q \in PointsAbove(dir) : Len(q) <= Len(p)
            BY <2>2
        <2>4. PICK found : /\ found = GetMountPoint(dir)
                           /\ found \in PointsAbove(dir)
                           /\ \A q \in PointsAbove(dir) : Len(q) <= Len(found)
            BY <1>5, <2>3 DEF GetMountPoint
        <2>5. found \in InUse /\ IsPrefix(found, dir)
            BY <1>3, <2>4
        <2>6. ASSUME NEW p \in InUse, IsPrefix(p, dir)
              PROVE  IsPrefix(p, found)
            <3>1. p \in PointsAbove(dir) /\ Len(p) <= Len(found)
                BY <1>3, <2>4, <2>6
            <3> QED
                BY <1>2, <2>5, <2>6, <3>1, PrefixesOfPath
        <2> QED
            BY <2>4, <2>5, <2>6
    <1> QED
        BY <1>4, <1>5

-----------------------------------------------------------------------------
(***************************************************************************)
(* utils/fs: Mount and Umount                                              *)
(***************************************************************************)

FSTypes ==
    /\ mounted \in [Points -> Seq(Sources)]
    /\ stacked \subseteq Points
    /\ fsOp # NoOp => /\ fsOp.name \in {"mount", "umount"}
                      /\ fsOp.point \in Points
                      /\ fsOp.name = "mount" => fsOp.source \in Sources

\* The points on which several file systems are mounted are noted.
StackedNoted == \A p \in Points : Len(mounted[p]) > 1 => p \in stacked

\* The loop has ended with a result: the context is never done.  After a umount
\* that succeeded there is still a file system only if there were two.
UnmountedOrStacked ==
    retryPC = "done" =>
        /\ retryResult \in {"nil", "error"}
        /\ retryResult = "nil" /\ fsOp.name = "umount" /\ mounted[Point] # <<>> => Point \in stacked

FSInv == FSTypes /\ ~ retryCtxDone /\ StackedNoted /\ UnmountedOrStacked

LEMMA FSInvInit == RetryInit /\ FSInit => FSInv
    BY DEF RetryInit, FSInit, FSInv, FSTypes, StackedNoted, UnmountedOrStacked

\* syscall.Unmount takes the file system that was mounted last.
LEMMA PopProps ==
    ASSUME FSTypes, StackedNoted, NEW p \in Points, mounted[p] # <<>>, Pop(p)
    PROVE  /\ mounted' \in [Points -> Seq(Sources)]
           /\ \A q \in Points : Len(mounted'[q]) <= Len(mounted[q])
           /\ mounted'[p] # <<>> => p \in stacked
    <1>0. mounted[p] \in Seq(Sources) /\ Len(mounted[p]) \in Nat \ {0}
        BY DEF FSTypes
    <1>1. Front(mounted[p]) \in Seq(Sources) /\ Len(Front(mounted[p])) = Len(mounted[p]) - 1
        BY <1>0 DEF Front
    <1>2. mounted' = [mounted EXCEPT ![p] = Front(mounted[p])]
        BY DEF Pop
    <1>3. mounted'[p] = Front(mounted[p]) /\ \A q \in Points : q # p => mounted'[q] = mounted[q]
        BY <1>2 DEF FSTypes
    <1>4. mounted' \in [Points -> Seq(Sources)]
        BY <1>1, <1>2 DEF FSTypes
    <1>5. \A q \in Points : Len(mounted[q]) \in Nat
        BY DEF FSTypes
    <1>6. \A q \in Points : Len(mounted'[q]) <= Len(mounted[q])
        BY <1>1, <1>3, <1>5
    <1>7. mounted'[p] # <<>> => p \in stacked
        BY <1>1, <1>3, <1>5 DEF StackedNoted
    <1> QED
        BY <1>4, <1>6, <1>7

LEMMA FSInvStep ==
    ASSUME FSInv, FSNext \/ UNCHANGED <<fsVars, retryVars>>
    PROVE  FSInv'
    <1> USE DEF FSInv
    <1>1. ASSUME NEW p \in Points, NEW s \in Sources, Mount(p, s), UNCHANGED retryVars
          PROVE  FSInv'
        BY <1>1 DEF Mount, retryVars, NoOp, FSTypes, StackedNoted, UnmountedOrStacked
    <1>2. ASSUME NEW p \in Points, Umount(p), UNCHANGED retryVars
          PROVE  FSInv'
        BY <1>2 DEF Umount, retryVars, NoOp, FSTypes, StackedNoted, UnmountedOrStacked
    <1>3. CASE fsOp # NoOp /\ RetryBegin /\ UNCHANGED fsVars
        BY <1>3 DEF RetryBegin, fsVars, FSTypes, StackedNoted, UnmountedOrStacked
    <1>4. CASE fsOp # NoOp /\ CallSucceeds /\ SystemCall
        <2>1. Point \in Points /\ UNCHANGED <<fsOp, retryCtxDone>> /\ retryResult' = "nil"
            BY <1>4 DEF FSTypes, Point, CallSucceeds, RetryReturns, SystemCall
        <2>2. CASE /\ fsOp.name = "mount"
                   /\ mounted' = [mounted EXCEPT ![Point] = Append(@, fsOp.source)]
                   /\ stacked' = IF mounted[Point] # <<>> THEN stacked \union {Point} ELSE stacked
            <3>1. FSTypes'
                BY <1>4, <2>1, <2>2 DEF FSTypes
            <3>2. StackedNoted'
                <4>1. ASSUME NEW p \in Points, p # Point, Len(mounted'[p]) > 1
                      PROVE  p \in stacked'
                    BY <4>1, <2>2 DEF FSTypes, StackedNoted
                <4>2. ASSUME Len(mounted'[Point]) > 1
                      PROVE  Point \in stacked'
                    <5>1. Len(mounted'[Point]) = Len(mounted[Point]) + 1
                        BY <1>4, <2>1, <2>2 DEF FSTypes
                    <5>2. mounted[Point] # <<>>
                        BY <4>2, <5>1
                    <5> QED
                        BY <2>2, <5>2
                <4> QED
                    BY <4>1, <4>2 DEF StackedNoted
            <3>3. UnmountedOrStacked'
                BY <2>1, <2>2 DEF UnmountedOrStacked
            <3> QED
                BY <2>1, <3>1, <3>2, <3>3
        <2>3. CASE fsOp.name = "umount" /\ mounted[Point] # <<>> /\ Pop(Point) /\ UNCHANGED stacked
            <3>1. FSTypes'
                BY <1>4, <2>1, <2>3, PopProps DEF FSTypes
            <3>2. StackedNoted'
                <4>1. \A p \in Points : Len(mounted[p]) \in Nat /\ Len(mounted'[p]) \in Nat
                    BY <2>1, <2>3, PopProps DEF FSTypes
                <4> QED
                    BY <2>1, <2>3, <4>1, PopProps DEF StackedNoted
            <3>3. UnmountedOrStacked'
                BY <2>1, <2>3, PopProps DEF UnmountedOrStacked, Point
            <3> QED
                BY <2>1, <3>1, <3>2, <3>3
        <2> QED
            BY <1>4, <2>2, <2>3 DEF SystemCall
    <1>5. CASE fsOp # NoOp /\ CallFails /\ IF retryPC' = "wait" THEN forceUmount ELSE UNCHANGED fsVars
        <2>1. retryPC' # "wait" => retryPC' = "done" /\ retryResult' = "error"
            BY <1>5 DEF CallFails, RetryReturns
        <2>2. Point \in Points /\ UNCHANGED <<fsOp, retryCtxDone, stacked>>
            BY <1>5 DEF FSTypes, Point, CallFails, forceUmount, fsVars
        <2>3. CASE UNCHANGED mounted
            BY <2>1, <2>2, <2>3 DEF FSTypes, StackedNoted, UnmountedOrStacked
        <2>4. CASE retryPC' = "wait" /\ mounted[Point] # <<>> /\ Pop(Point)
            <3>1. FSTypes'
                BY <1>5, <2>2, <2>4, PopProps DEF FSTypes
            <3>2. StackedNoted'
                <4>1. \A p \in Points : Len(mounted[p]) \in Nat /\ Len(mounted'[p]) \in Nat
                    BY <2>2, <2>4, PopProps DEF FSTypes
                <4> QED
                    BY <2>2, <2>4, <4>1, PopProps DEF StackedNoted
            <3>3. UnmountedOrStacked'
                BY <2>4 DEF UnmountedOrStacked
            <3> QED
                BY <2>2, <3>1, <3>2, <3>3
        <2> QED
            BY <1>5, <2>3, <2>4 DEF forceUmount, fsVars
    <1>6. CASE fsOp # NoOp /\ DelayOver /\ UNCHANGED fsVars
        BY <1>6 DEF DelayOver, fsVars, FSTypes, StackedNoted, UnmountedOrStacked
    <1>7. CASE MountReturns /\ RetryEnd
        BY <1>7 DEF MountReturns, RetryEnd, FSTypes, StackedNoted, UnmountedOrStacked
    <1>8. CASE RemoveAll /\ RetryEnd
        BY <1>8 DEF RemoveAll, RetryEnd, FSTypes, StackedNoted, UnmountedOrStacked
    <1>9. CASE UNCHANGED <<fsVars, retryVars>>
        BY <1>9 DEF fsVars, retryVars, FSTypes, StackedNoted, UnmountedOrStacked, Point
    <1> QED
        BY <1>1, <1>2, <1>3, <1>4, <1>5, <1>6, <1>7, <1>8, <1>9 DEF FSNext

\* Umount removes the files of a mounted file system only when it could not
\* unmount it or when another one was mounted on the same point, whatever Mount
\* and Umount are called for and however the system calls fail (fs.Umount).
THEOREM UmountKeepsMountedFiles == FSSpec => MountedFilesKept
    <1>1. FSInv /\ [FSNext]_<<fsVars, retryVars>> => FSInv'
        BY FSInvStep
    <1>2. FSInv /\ [FSNext]_<<fsVars, retryVars>> =>
            [\A s \in Sources : intact[s] # intact'[s] =>
                retryResult = "error" \/ (retryResult = "nil" /\ Point \in stacked)]_<<fsVars, retryVars>>
        <2> SUFFICES ASSUME FSInv, FSNext, NEW s \in Sources, intact[s] # intact'[s]
                     PROVE  retryResult = "error" \/ (retryResult = "nil" /\ Point \in stacked)
            OBVIOUS
        <2>1. RemoveAll /\ RetryEnd
            BY DEF FSNext, Mount, Umount, SystemCall, forceUmount, MountReturns, fsVars
        <2>2. mounted[Point] # <<>>
            BY <2>1 DEF RemoveAll
        <2> QED
            BY <2>1, <2>2 DEF FSInv, UnmountedOrStacked, RemoveAll, RetryEnd
    <1> QED
        BY <1>1, <1>2, FSInvInit, PTL DEF FSSpec, MountedFilesKept

-----------------------------------------------------------------------------
(***************************************************************************)
(* The retry loop, alone or under Mount and Umount, and the quotas         *)
(***************************************************************************)

LimitsInv == RetryInv /\ QuotaInv /\ (component = "fs" => FSInv)

LEMMA LimitsInvStep ==
    ASSUME LimitsInv, MCNext \/ UNCHANGED allVars
    PROVE  LimitsInv'
    <1> USE DEF LimitsInv
    <1>1. CASE component = "retry" /\ RetryNext /\ UNCHANGED component /\ UNCHANGED quotaVars
        BY <1>1, RetryInvStep, QuotaInvStep
    <1>2. CASE component = "fs" /\ FSNext /\ UNCHANGED component /\ UNCHANGED quotaVars
        <2>1. FSInv' /\ QuotaInv'
            BY <1>2, FSInvStep, QuotaInvStep
        <2>2. RetryNext \/ (RetryEnd /\ ~ retryCtxDone) \/ UNCHANGED retryVars
            BY <1>2 DEF FSNext, RetryNext, FSInv
        <2> QED
            BY <2>1, <2>2, RetryInvStep
    <1>3. CASE component = "quota" /\ QuotaNext /\ UNCHANGED component /\ UNCHANGED retryVars
        BY <1>3, RetryInvStep, QuotaInvStep
    <1>4. CASE UNCHANGED <<component, retryVars, fsVars, quotaVars>>
        <2>1. UNCHANGED component /\ UNCHANGED retryVars /\ UNCHANGED quotaVars
                  /\ UNCHANGED <<fsVars, retryVars>>
            BY <1>4
        <2> QED
            BY <2>1, RetryInvStep, QuotaInvStep, FSInvStep
    <1> QED
        BY <1>1, <1>2, <1>3, <1>4 DEF MCNext, allVars, otherVars

\* Retry keeps to its number of calls, its delays and its context, alone and when
\* fs.Mount and fs.Umount use it; GetMountPoint finds the mount point of a
\* directory, whatever they have mounted; and a user never has more than the last
\* limit that SetUserFSQuota took without an error.
THEOREM LimitsAreKept == MCSpec => []FileSystemLimits
    <1>1. MCInit => LimitsInv
        BY RetryInvInit, QuotaInvInit, FSInvInit DEF MCInit, LimitsInv
    <1>2. LimitsInv /\ [MCNext]_allVars => LimitsInv'
        BY LimitsInvStep
    <1>3. LimitsInv => FileSystemLimits
        BY MountPointIsFound DEF LimitsInv, RetryInv, QuotaInv, FileSystemLimits
    <1> QED
        BY <1>1, <1>2, <1>3, PTL DEF MCSpec

\* Retry by itself: the number of calls, the delays, the callbacks and the result
\* keep to the limits that were given, whenever the context ends.
THEOREM RetriesAreLimited == RetrySpec => []RetryKeepsLimits
    <1>1. RetryInv /\ [RetryNext]_retryVars => RetryInv'
        BY RetryInvStep
    <1> QED
        BY <1>1, RetryInvInit, PTL DEF RetrySpec, RetryInv

\* SetUserFSQuota: a user never has more than the last limit that was taken
\* without an error, or what it had by then.
THEOREM QuotasAreKept == QuotaSpec => []QuotaKept
    <1>1. QuotaInv /\ [QuotaNext]_quotaVars => QuotaInv'
        BY QuotaInvStep
    <1> QED
        BY <1>1, QuotaInvInit, PTL DEF QuotaSpec, QuotaInv

-----------------------------------------------------------------------------
(***************************************************************************)
(* migration                                                               *)
(***************************************************************************)

MigrationTypes ==
    /\ release \in Versions
    /\ merged \in [Versions -> {"absent", "partial", "whole"}]
    /\ version \in Versions \union {NilVersion}
    /\ dirty \in BOOLEAN
    /\ migratePC \in {"stopped", "merge", "copy", "copyFile", "migrate", "run", "clean", "migrated",
                      "failed"}
    /\ copying \in 0 .. MaxVersion + 1
    /\ forced \in BOOLEAN
    /\ partialRun \in BOOLEAN

\* All files of the versions below the one that is copied are there; then those of
\* the release.
FilesCopied ==
    /\ migratePC = "merge" => copying = 0
    /\ migratePC \in {"copy", "copyFile"} =>
          /\ copying <= release + 1
          /\ \A v \in Versions : v < copying => merged[v] # "absent"
    /\ migratePC = "copyFile" => copying \in Versions /\ copying <= release
    /\ migratePC \in {"migrate", "run", "clean"} =>
          /\ version # NilVersion
          /\ \A v \in Versions : v <= release => merged[v] # "absent"

\* While a file is run the database is dirty, and otherwise the migration goes on
\* only if it is not.  A database that is not dirty has the tables of its version;
\* so has one of which the file was run.
SchemaFollows ==
    /\ migratePC \in {"run", "clean"} => dirty
    /\ migratePC \in {"migrate", "migrated"} => ~ dirty
    /\ migratePC = "migrated" => version = release
    /\ ~ forced /\ ~ partialRun =>
          /\ version = NilVersion => schema = 0 /\ ~ dirty
          /\ version # NilVersion /\ ~ dirty => schema = version
          /\ migratePC = "clean" => schema = version

MigrationInv == MigrationTypes /\ FilesCopied /\ SchemaFollows /\ DowngradeFindsFiles

LEMMA MigrationInvInit == MigrationInit => MigrationInv
    <1> SUFFICES ASSUME MigrationInit PROVE MigrationInv
        OBVIOUS
    <1> USE VersionAssumption
    <1>1. dirty \in BOOLEAN /\ forced \in BOOLEAN /\ partialRun \in BOOLEAN
        BY Zenon DEF MigrationInit
    <1>2. MigrationTypes
        BY <1>1 DEF MigrationInit, MigrationTypes, Versions
    <1>3. FilesCopied /\ SchemaFollows
        BY DEF MigrationInit, FilesCopied, SchemaFollows
    <1>4. DowngradeFindsFiles
        BY DEF MigrationInit, DowngradeFindsFiles, Versions, NilVersion
    <1> QED
        BY <1>2, <1>3, <1>4 DEF MigrationInv

\* The version that Migrate goes to next: one of those that are present, upwards
\* not above the release, downwards below the present one.
LEMMA NextVersionProps ==
    ASSUME MigrationInv, {version, release} \subseteq Present, version # release
    PROVE  /\ NextVersion \in Versions
           /\ version < release => NextVersion <= release
           /\ version > release => NextVersion < version
    <1> USE VersionAssumption DEF MigrationInv
    <1>0. Present \subseteq Versions /\ Versions \subseteq Nat /\ version \in Nat /\ release \in Nat
        BY DEF Present, Versions
    <1>1. CASE version < release
        <2> DEFINE Later == {v \in Present : v > version}
        <2>1. PICK v \in Later : \A w \in Later : v <= w
            <3>1. Later \subseteq Nat /\ Later # {}
                BY <1>0, <1>1
            <3> QED
                BY <3>1, LeastNatural
        <2>2. \E u \in Present : u > version /\ \A w \in Present : w > version => u <= w
            BY <2>1
        <2>3. /\ NextVersion \in Present
              /\ \A w \in Present : w > version => NextVersion <= w
            BY <1>1, <2>2 DEF NextVersion
        <2> QED
            BY <1>0, <1>1, <2>3
    <1>2. CASE version > release
        <2> DEFINE Earlier == {v \in Present : v < version}
        <2>1. PICK v \in Earlier : \A w \in Earlier : w <= v
            <3>1. release \in Earlier
                BY <1>2
            <3>2. Earlier \subseteq Nat
                BY <1>0
            <3>3. \A w \in Earlier : w <= version
                BY <1>0
            <3> HIDE DEF Earlier
            <3> QED
                BY <1>0, <3>1, <3>2, <3>3, GreatestNatural
        <2>2. \E u \in Present : u < version /\ \A w \in Present : w < version => w <= u
            BY <2>1
        <2>3. NextVersion \in Present /\ NextVersion < version
            <3>1. NextVersion = CHOOSE u \in Present :
                                    u < version /\ \A w \in Present : w < version => w <= u
                BY <1>0, <1>2 DEF NextVersion
            <3> QED
                BY <2>2, <3>1, Zenon
        <2> QED
            BY <1>0, <1>2, <2>3
    <1> QED
        BY <1>0, <1>1, <1>2

\* The steps that copy the files.  None of them takes a file away.
LEMMA CopyStep ==
    ASSUME MigrationInv, MergeMigrationFiles \/ copyFiles \/ copyFile
    PROVE  MigrationInv'
    <1> USE VersionAssumption
    <1>0. /\ MigrationTypes /\ FilesCopied /\ SchemaFollows /\ DowngradeFindsFiles
          /\ Versions \subseteq Nat /\ release \in Nat /\ release + 1 \in 0 .. MaxVersion + 1
        BY DEF MigrationInv, MigrationTypes, Versions
    <1>1. /\ UNCHANGED <<release, version, dirty, schema, crashes, forced, partialRun>>
          /\ migratePC \in {"merge", "copy", "copyFile"} /\ migratePC' \in {"copy", "copyFile", "failed"}
        BY <1>0 DEF MergeMigrationFiles, copyFiles, copyFile
    <1>2. SchemaFollows'
        BY <1>0, <1>1 DEF SchemaFollows
    <1>3. CASE MergeMigrationFiles
        <2>1. MigrationTypes' /\ DowngradeFindsFiles'
            BY <1>0, <1>1, <1>3 DEF MergeMigrationFiles, KeptFiles, MigrationTypes, DowngradeFindsFiles
        <2>2. FilesCopied'
            BY <1>0, <1>3 DEF MergeMigrationFiles, FilesCopied, MigrationTypes
        <2> QED
            BY <1>2, <2>1, <2>2 DEF MigrationInv
    <1>4. CASE copyFiles
        <2>1. copying \in Versions /\ copying <= release
            BY <1>0, <1>4 DEF copyFiles, MigrationTypes, Versions
        <2>2. CASE merged[copying] # "absent" /\ copying' = copying + 1 /\ UNCHANGED <<merged, migratePC>>
            <3>1. MigrationTypes' /\ DowngradeFindsFiles'
                BY <1>0, <1>1, <2>1, <2>2 DEF MigrationTypes, DowngradeFindsFiles, Versions
            <3>2. FilesCopied'
                BY <1>0, <1>1, <1>4, <2>1, <2>2 DEF copyFiles, FilesCopied
            <3> QED
                BY <1>2, <3>1, <3>2 DEF MigrationInv
        <2>3. CASE /\ merged[copying] = "absent"
                   /\ merged' = [merged EXCEPT ![copying] = "partial"]
                   /\ migratePC' = "copyFile"
                   /\ UNCHANGED copying
            <3>1. MigrationTypes' /\ DowngradeFindsFiles'
                BY <1>0, <1>1, <2>1, <2>3 DEF MigrationTypes, DowngradeFindsFiles
            <3>2. FilesCopied'
                BY <1>0, <1>1, <1>4, <2>1, <2>3 DEF copyFiles, FilesCopied, MigrationTypes
            <3> QED
                BY <1>2, <3>1, <3>2 DEF MigrationInv
        <2>4. CASE migratePC' = "failed" /\ UNCHANGED <<merged, copying>>
            BY <1>0, <1>1, <1>2, <2>4
               DEF MigrationInv, MigrationTypes, FilesCopied, DowngradeFindsFiles
        <2> QED
            BY <1>4, <2>2, <2>3, <2>4 DEF copyFiles
    <1>5. CASE copyFile
        <2>1. copying \in Versions /\ copying <= release
            BY <1>0, <1>5 DEF copyFile, FilesCopied
        <2>2. CASE /\ merged' = [merged EXCEPT ![copying] = "whole"]
                   /\ migratePC' = "copy"
                   /\ copying' = copying + 1
            <3>1. MigrationTypes' /\ DowngradeFindsFiles'
                BY <1>0, <1>1, <2>1, <2>2 DEF MigrationTypes, DowngradeFindsFiles, Versions
            <3>2. FilesCopied'
                BY <1>0, <1>1, <1>5, <2>1, <2>2 DEF copyFile, FilesCopied, MigrationTypes
            <3> QED
                BY <1>2, <3>1, <3>2 DEF MigrationInv
        <2>3. CASE migratePC' = "failed" /\ UNCHANGED <<merged, copying>>
            BY <1>0, <1>1, <1>2, <2>3
               DEF MigrationInv, MigrationTypes, FilesCopied, DowngradeFindsFiles
        <2> QED
            BY <1>5, <2>2, <2>3 DEF copyFile
    <1> QED
        BY <1>3, <1>4, <1>5

\* The steps of Migrate.
LEMMA MigrateStepInv ==
    ASSUME MigrationInv, DoMigrate \/ MigrateStep \/ RunFile \/ SetClean
    PROVE  MigrationInv'
    <1> USE VersionAssumption
    <1>0. /\ MigrationTypes /\ FilesCopied /\ SchemaFollows /\ DowngradeFindsFiles
          /\ Versions \subseteq Nat /\ release \in Nat
          /\ 0 \in Versions
        BY DEF MigrationInv, MigrationTypes, Versions
    <1>1. UNCHANGED <<release, merged, forced>>
        BY DEF DoMigrate, MigrateStep, RunFile, SetClean
    <1>2. CASE DoMigrate
        <2>1. \A v \in Versions : v <= release => merged[v] # "absent"
            BY <1>0, <1>2 DEF DoMigrate, FilesCopied
        <2>2. /\ version' \in Versions /\ version' # NilVersion
              /\ version = NilVersion => version' = 0
              /\ version # NilVersion => version' = version
            BY <1>0, <1>2 DEF DoMigrate, MigrationTypes, NilVersion
        <2>3. MigrationTypes'
            BY <1>0, <1>2, <2>2 DEF DoMigrate, MigrationTypes
        <2>4. FilesCopied'
            BY <1>1, <1>2, <2>1, <2>2 DEF DoMigrate, FilesCopied
        <2>5. SchemaFollows'
            BY <1>0, <1>2, <2>2 DEF DoMigrate, SchemaFollows, IsDirty
        <2>6. DowngradeFindsFiles'
            <3>1. CASE version = NilVersion
                BY <1>0, <1>1, <2>1, <2>2, <3>1 DEF DowngradeFindsFiles
            <3>2. CASE version # NilVersion
                BY <1>0, <1>1, <2>2, <3>2 DEF DowngradeFindsFiles
            <3> QED
                BY <3>1, <3>2
        <2> QED
            BY <2>3, <2>4, <2>5, <2>6 DEF MigrationInv
    <1>3. CASE MigrateStep
        <2>1. CASE /\ {version, release} \subseteq Present
                   /\ version # release
                   /\ version' = NextVersion
                   /\ dirty' = TRUE
                   /\ migratePC' = "run"
            <3>1. /\ version' \in Versions /\ version \in Versions
                  /\ version < release => version' <= release
                  /\ version > release => version' < version
                BY <2>1, NextVersionProps DEF Present
            <3>2. copying' \in 0 .. MaxVersion + 1
                BY <1>3, <2>1, <3>1 DEF MigrateStep, Versions
            <3>3. dirty' \in BOOLEAN
                BY <2>1, Zenon
            <3>4. MigrationTypes'
                BY <1>0, <1>1, <1>3, <2>1, <3>1, <3>2, <3>3 DEF MigrateStep, MigrationTypes
            <3>5. FilesCopied'
                BY <1>0, <1>1, <1>3, <2>1, <3>1 DEF MigrateStep, FilesCopied, NilVersion
            <3>6. SchemaFollows'
                BY <1>0, <2>1, <3>1 DEF SchemaFollows, NilVersion
            <3>7. DowngradeFindsFiles'
                BY <1>0, <1>1, <1>3, <2>1, <3>1 DEF MigrateStep, FilesCopied, DowngradeFindsFiles
            <3> QED
                BY <3>4, <3>5, <3>6, <3>7 DEF MigrationInv
        <2>2. CASE \/ version = release /\ migratePC' = "migrated" /\ UNCHANGED <<version, dirty>>
                   \/ migratePC' = "failed" /\ UNCHANGED <<version, dirty>>
            <3>1. migratePC = "migrate" /\ UNCHANGED <<copying, schema, partialRun>>
                BY <1>3, <2>2 DEF MigrateStep
            <3>2. MigrationTypes' /\ DowngradeFindsFiles'
                BY <1>0, <1>1, <2>2, <3>1 DEF MigrationTypes, DowngradeFindsFiles
            <3>3. FilesCopied' /\ SchemaFollows'
                BY <1>0, <1>1, <2>2, <3>1 DEF FilesCopied, SchemaFollows
            <3> QED
                BY <3>2, <3>3 DEF MigrationInv
        <2> QED
            BY <1>3, <2>1, <2>2 DEF MigrateStep
    <1>4. CASE RunFile
        <2>1. partialRun' \in BOOLEAN
            BY <1>0, <1>4, Zenon DEF RunFile, MigrationTypes
        <2>2. MigrationTypes' /\ DowngradeFindsFiles'
            BY <1>0, <1>4, <2>1 DEF RunFile, MigrationTypes, DowngradeFindsFiles
        <2>3. FilesCopied'
            BY <1>0, <1>4 DEF RunFile, FilesCopied
        <2>4. dirty
            BY <1>0, <1>4 DEF RunFile, SchemaFollows
        <2>5. SchemaFollows'
            BY <1>0, <1>4, <2>4 DEF RunFile, SchemaFollows
        <2> QED
            BY <2>2, <2>3, <2>5 DEF MigrationInv
    <1>5. CASE SetClean
        <2>1. dirty' \in BOOLEAN
            BY <1>0, <1>5, Zenon DEF SetClean, MigrationTypes
        <2>2. MigrationTypes' /\ DowngradeFindsFiles'
            BY <1>0, <1>5, <2>1 DEF SetClean, MigrationTypes, DowngradeFindsFiles
        <2>3. FilesCopied'
            BY <1>0, <1>5 DEF SetClean, FilesCopied
        <2>4. SchemaFollows'
            BY <1>0, <1>5 DEF SetClean, SchemaFollows, FilesCopied
        <2> QED
            BY <2>2, <2>3, <2>4 DEF MigrationInv
    <1> QED
        BY <1>2, <1>3, <1>4, <1>5

LEMMA MigrationInvStep ==
    ASSUME MigrationInv, MigrationNext \/ UNCHANGED migrationVars
    PROVE  MigrationInv'
    <1>0. /\ MigrationTypes /\ FilesCopied /\ SchemaFollows /\ DowngradeFindsFiles
        BY DEF MigrationInv
    <1>1. ASSUME NEW r \in Versions, StartRelease(r)
          PROVE  MigrationInv'
        <2>1. MigrationTypes'
            BY <1>0, <1>1, VersionAssumption DEF StartRelease, MigrationTypes
        <2>2. FilesCopied' /\ SchemaFollows' /\ DowngradeFindsFiles'
            BY <1>0, <1>1 DEF StartRelease, FilesCopied, SchemaFollows, DowngradeFindsFiles
        <2> QED
            BY <2>1, <2>2 DEF MigrationInv
    <1>2. CASE MergeMigrationFiles \/ copyFiles \/ copyFile
        BY <1>2, CopyStep
    <1>3. CASE DoMigrate \/ MigrateStep \/ RunFile \/ SetClean
        BY <1>3, MigrateStepInv
    <1>4. ASSUME NEW v \in Versions, SetDatabaseVersion(v)
          PROVE  MigrationInv'
        <2>1. dirty' \in BOOLEAN /\ forced' \in BOOLEAN /\ forced'
            BY <1>4, Zenon DEF SetDatabaseVersion
        <2>2. MigrationTypes'
            BY <1>0, <1>4, <2>1 DEF SetDatabaseVersion, MigrationTypes
        <2>3. FilesCopied' /\ SchemaFollows' /\ DowngradeFindsFiles'
            BY <1>4, <2>1 DEF SetDatabaseVersion, FilesCopied, SchemaFollows, DowngradeFindsFiles
        <2> QED
            BY <2>2, <2>3 DEF MigrationInv
    <1>5. CASE CrashMigration
        BY <1>0, <1>5 DEF CrashMigration, MigrationInv, MigrationTypes, FilesCopied, SchemaFollows,
                          DowngradeFindsFiles
    <1>6. CASE UNCHANGED migrationVars
        BY <1>0, <1>6 DEF migrationVars, MigrationInv, MigrationTypes, FilesCopied, SchemaFollows,
                          DowngradeFindsFiles
    <1> QED
        BY <1>1, <1>2, <1>3, <1>4, <1>5, <1>6 DEF MigrationNext

\* Any release can be started on the database that any other left, after whatever
\* upgrades, downgrades, failures and crashes: when DoMigrate lets the service go
\* on the database has its version, and the files that undo the versions of the
\* database are always in the merged directory (MergeMigrationFiles, DoMigrate).
THEOREM EveryReleaseStarts == MigrationSpec => []AnyReleaseStarts
    <1>1. MigrationInv /\ [MigrationNext]_migrationVars => MigrationInv'
        BY MigrationInvStep
    <1>2. MigrationInv => AnyReleaseStarts
        BY VersionAssumption
           DEF MigrationInv, MigrationTypes, SchemaFollows, AnyReleaseStarts, MigratedSchema, Versions,
               NilVersion
    <1> QED
        BY <1>1, <1>2, MigrationInvInit, PTL DEF MigrationSpec

-----------------------------------------------------------------------------
(***************************************************************************)
(* image: Download and CheckFileInfo                                       *)
(***************************************************************************)

Chunks == UNION {Range(c) : c \in Contents}

DownloadTypes ==
    /\ remote \in Contents
    /\ local \in Seq(Chunks) \union {NoFile}
    /\ imagePC \in {"idle", "transfer"} \union Readers
    /\ imagePC # "idle" => local \in Seq(Chunks)
    /\ accepted \in BOOLEAN

\* Nothing is accepted while a file is transferred, so what was accepted is never
\* written to.
AcceptedIsWhole ==
    /\ imagePC = "transfer" => ~ accepted
    /\ accepted => local = fileInfo

\* Without a crash, a failed removal or a resumed download the local file is a
\* whole one, or the beginning of the one that is transferred.
LocalIsBeginning ==
    ~ spoiled =>
        /\ imagePC # "transfer" => local = NoFile \/ local \in Contents
        /\ imagePC = "transfer" =>
              \/ local \in Contents /\ Len(local) >= Len(remote)
              \/ /\ Len(local) <= Len(remote)
                 /\ \A k \in 1 .. Len(local) : local[k] = remote[k]

DownloadInv == DownloadTypes /\ AcceptedIsWhole /\ LocalIsBeginning

LEMMA ContentsAreSequences == \A c \in Contents : c \in Seq(Chunks)
    BY ContentAssumption, SequencesTyped DEF Chunks

LEMMA DownloadInvInit == DownloadInit => DownloadInv
    <1> SUFFICES ASSUME DownloadInit PROVE DownloadInv
        OBVIOUS
    <1>1. accepted \in BOOLEAN
        BY Zenon DEF DownloadInit
    <1> QED
        BY <1>1 DEF DownloadInit, DownloadInv, DownloadTypes, AcceptedIsWhole, LocalIsBeginning

LEMMA DownloadInvStep ==
    ASSUME DownloadInv, DownloadNext \/ UNCHANGED downloadVars
    PROVE  DownloadInv'
    <1>0. /\ DownloadTypes /\ AcceptedIsWhole /\ LocalIsBeginning
          /\ remote \in Seq(Chunks) /\ Len(remote) \in Nat
        BY ContentsAreSequences DEF DownloadInv, DownloadTypes
    <1>1. CASE Publish
        <2>1. accepted' = FALSE /\ accepted' \in BOOLEAN
            BY <1>1, Zenon DEF Publish
        <2> QED
            BY <1>0, <1>1, <2>1 DEF Publish, DownloadInv, DownloadTypes, AcceptedIsWhole, LocalIsBeginning
    <1>2. CASE Download
        <2>1. accepted' = FALSE /\ accepted' \in BOOLEAN /\ imagePC' = "transfer" /\ imagePC = "idle"
                /\ UNCHANGED remote
            BY <1>2, Zenon DEF Download
        <2>2. local' \in Seq(Chunks)
            <3>1. local # NoFile => local \in Seq(Chunks)
                BY <1>0 DEF DownloadTypes
            <3>2. <<>> \in Seq(Chunks)
                OBVIOUS
            <3> QED
                BY <1>2, <3>1, <3>2, Zenon DEF Download
        <2>3. DownloadTypes' /\ AcceptedIsWhole'
            BY <1>0, <2>1, <2>2 DEF DownloadTypes, AcceptedIsWhole
        <2>4. CASE local' = <<>>
            BY <1>0, <2>1, <2>3, <2>4 DEF DownloadInv, LocalIsBeginning
        <2>5. CASE UNCHANGED local /\ spoiled'
            BY <2>3, <2>5 DEF DownloadInv, LocalIsBeginning
        <2>6. CASE local # NoFile /\ Len(local) >= Len(remote) /\ UNCHANGED <<local, spoiled>>
            BY <1>0, <2>1, <2>3, <2>6 DEF DownloadInv, LocalIsBeginning
        <2> QED
            BY <1>2, <2>4, <2>5, <2>6 DEF Download
    <1>3. CASE Transfer
        <2>1. /\ imagePC = "transfer" /\ local \in Seq(Chunks) /\ Len(local) < Len(remote)
              /\ local' = Append(local, remote[Len(local) + 1])
              /\ UNCHANGED <<remote, fileInfo, imagePC, accepted, spoiled>>
            BY <1>0, <1>3 DEF Transfer, DownloadTypes
        <2>2. /\ local' \in Seq(Chunks) /\ Len(local') = Len(local) + 1
              /\ \A k \in 1 .. Len(local) : local'[k] = local[k]
              /\ local'[Len(local) + 1] = remote[Len(local) + 1]
            <3>1. remote[Len(local) + 1] \in Chunks
                BY <1>0, <2>1
            <3> QED
                BY <2>1, <3>1, AppendProps
        <2>3. DownloadTypes' /\ AcceptedIsWhole'
            BY <1>0, <2>1, <2>2 DEF DownloadTypes, AcceptedIsWhole
        <2>4. LocalIsBeginning'
            <3> SUFFICES ASSUME ~ spoiled
                         PROVE  /\ Len(local') <= Len(remote)
                                /\ \A k \in 1 .. Len(local') : local'[k] = remote[k]
                BY <2>1 DEF LocalIsBeginning
            <3>1. \A k \in 1 .. Len(local) : local[k] = remote[k]
                BY <1>0, <2>1 DEF LocalIsBeginning
            <3> QED
                BY <1>0, <2>1, <2>2, <3>1
        <2> QED
            BY <2>3, <2>4 DEF DownloadInv
    <1>4. CASE DownloadComplete
        <2>1. /\ imagePC = "transfer" /\ imagePC' = "idle" /\ Len(local) = Len(remote)
              /\ UNCHANGED <<remote, fileInfo, local, accepted, spoiled>>
            BY <1>4 DEF DownloadComplete
        <2>2. local \in Seq(Chunks)
            BY <1>0, <2>1 DEF DownloadTypes
        <2>3. (\A k \in 1 .. Len(local) : local[k] = remote[k]) => local = remote
            BY <1>0, <2>1, <2>2
        <2>4. ~ spoiled => local \in Contents
            BY <1>0, <2>1, <2>3 DEF LocalIsBeginning, DownloadTypes
        <2> QED
            BY <1>0, <2>1, <2>4 DEF DownloadInv, DownloadTypes, AcceptedIsWhole, LocalIsBeginning
    <1>5. CASE DownloadFails
        BY <1>0, <1>5 DEF DownloadFails, RemoveFile, DownloadInv, DownloadTypes, AcceptedIsWhole,
                          LocalIsBeginning
    <1>6. CASE CrashInDownload
        BY <1>0, <1>6 DEF CrashInDownload, DownloadInv, DownloadTypes, AcceptedIsWhole, LocalIsBeginning
    <1>7. ASSUME NEW reader \in Readers, OpenFile(reader)
          PROVE  DownloadInv'
        BY <1>0, <1>7 DEF OpenFile, Readers, DownloadInv, DownloadTypes, AcceptedIsWhole, LocalIsBeginning
    <1>8. CASE Read
        BY <1>0, <1>8 DEF Read, Readers, DownloadInv, DownloadTypes, AcceptedIsWhole, LocalIsBeginning
    <1>9. CASE EndOfFile
        <2>1. /\ imagePC \in Readers /\ imagePC' = "idle" /\ hashed = Len(local) /\ local \in Seq(Chunks)
              /\ UNCHANGED <<remote, local, spoiled>>
            BY <1>0, <1>9 DEF EndOfFile, DownloadTypes, Readers
        <2>2. SubSeq(local, 1, hashed) = local
            BY <2>1
        <2>3. \/ fileInfo' = local /\ UNCHANGED accepted
              \/ accepted' = (local = fileInfo) /\ UNCHANGED fileInfo
            BY <1>9, <2>2 DEF EndOfFile, SumEqual
        <2>4. accepted' \in BOOLEAN
            BY <1>0, <2>3, Zenon DEF DownloadTypes
        <2>5. accepted' => local' = fileInfo'
            BY <1>0, <2>1, <2>3, Zenon DEF AcceptedIsWhole
        <2> QED
            BY <1>0, <2>1, <2>4, <2>5 DEF Readers, DownloadInv, DownloadTypes, AcceptedIsWhole,
                                          LocalIsBeginning
    <1>10. CASE UNCHANGED downloadVars
        BY <1>0, <1>10 DEF downloadVars, DownloadInv, DownloadTypes, AcceptedIsWhole, LocalIsBeginning
    <1> QED
        BY <1>1, <1>2, <1>3, <1>4, <1>5, <1>6, <1>7, <1>8, <1>9, <1>10 DEF DownloadNext

\* A file that passed CheckFileInfo or ValidateDigest is what the cloud announced,
\* although downloads crash, are resumed and find another file behind the URL; and
\* only a crash, a failed removal or a resumed download leaves anything but a whole
\* file behind (image.Download).
THEOREM AcceptedIsAnnounced == DownloadSpec => []DownloadIsTrusted
    <1>1. DownloadInv /\ [DownloadNext]_downloadVars => DownloadInv'
        BY DownloadInvStep
    <1>2. DownloadInv => DownloadIsTrusted
        BY DEF DownloadInv, AcceptedIsWhole, LocalIsBeginning, DownloadIsTrusted
    <1> QED
        BY <1>1, <1>2, DownloadInvInit, PTL DEF DownloadSpec

-----------------------------------------------------------------------------
(***************************************************************************)
(* image: Copy and its variants                                            *)
(***************************************************************************)

\* Writing at an offset leaves what is before it and puts the data behind.
LEMMA WriteAtProps ==
    ASSUME NEW S, NEW content \in Seq(S), NEW data \in Seq(S), NEW offset \in 0 .. Len(content)
    PROVE  /\ WriteAt(content, offset, data) \in Seq(S)
           /\ Len(WriteAt(content, offset, data)) >= offset + Len(data)
           /\ Len(content) <= offset + Len(data) =>
                 Len(WriteAt(content, offset, data)) = offset + Len(data)
           /\ \A k \in 1 .. offset : WriteAt(content, offset, data)[k] = content[k]
           /\ \A k \in 1 .. Len(data) : WriteAt(content, offset, data)[offset + k] = data[k]
    <1> DEFINE before == SubSeq(content, 1, offset)
               behind == SubSeq(content, offset + Len(data) + 1, Len(content))
    <1>1. before \in Seq(S) /\ Len(before) = offset /\ \A k \in 1 .. offset : before[k] = content[k]
        OBVIOUS
    <1>2. /\ behind \in Seq(S) /\ Len(behind) \in Nat
          /\ Len(content) <= offset + Len(data) => Len(behind) = 0
        OBVIOUS
    <1>3. WriteAt(content, offset, data) = before \o data \o behind
        BY DEF WriteAt
    <1> HIDE DEF before, behind
    <1>4. PICK head \in Seq(S) : /\ head = before \o data
                                 /\ Len(head) = offset + Len(data)
                                 /\ \A k \in 1 .. offset : head[k] = content[k]
                                 /\ \A k \in 1 .. Len(data) : head[offset + k] = data[k]
        <2>1. before \o data \in Seq(S) /\ Len(before \o data) = offset + Len(data)
            BY <1>1, ConcatProperties
        <2>2. \A k \in 1 .. offset : (before \o data)[k] = content[k]
            BY <1>1, ConcatProperties
        <2>3. \A k \in 1 .. Len(data) : (before \o data)[offset + k] = data[k]
            BY <1>1, ConcatProperties
        <2> QED
            BY <2>1, <2>2, <2>3
    <1>5. /\ head \o behind \in Seq(S) /\ Len(head \o behind) = Len(head) + Len(behind)
          /\ \A k \in 1 .. Len(head) : (head \o behind)[k] = head[k]
        BY <1>2, ConcatProperties
    <1>6. PICK all \in Seq(S) : /\ all = WriteAt(content, offset, data)
                                /\ Len(all) = Len(head) + Len(behind)
                                /\ \A k \in 1 .. Len(head) : all[k] = head[k]
        BY <1>3, <1>4, <1>5
    <1>7. \A k \in 1 .. offset : all[k] = content[k]
        BY <1>4, <1>6
    <1>8. \A k \in 1 .. Len(data) : all[offset + k] = data[k]
        BY <1>4, <1>6
    <1>9. Len(all) >= offset + Len(data) /\ (Len(content) <= offset + Len(data) => Len(all) = offset + Len(data))
        <2>1. Len(data) \in Nat /\ offset \in Nat /\ Len(all) = offset + Len(data) + Len(behind)
            BY <1>4, <1>6
        <2> QED
            BY <1>2, <2>1
    <1> QED
        BY <1>6, <1>7, <1>8, <1>9

CopyTypes ==
    /\ source \in Seq(Chunks)
    /\ destination \in Seq(Chunks)
    /\ buffer \in Seq(Chunks)
    /\ device \in BOOLEAN
    /\ copied \in 0 .. Len(source)

\* What was copied so far is there, and in a file nothing else.
CopiedSoFar ==
    /\ copied <= Len(destination)
    /\ \A k \in 1 .. copied : destination[k] = source[k]
    /\ copyPC = "open" => copied = 0
    /\ ~ device /\ copyPC \in {"read", "write"} => Len(destination) = copied
    /\ copyPC \in {"open", "read", "write"} => copyResult = "none"
    /\ copyPC # "compared" => comparison = "none"
    /\ copyResult = "nil" => copied = Len(source) /\ (~ device => Len(destination) = copied)

\* The buffer holds what comes next, and nothing only at the end.
BufferIsNext ==
    copyPC = "write" =>
        /\ copied + Len(buffer) <= Len(source)
        /\ \A k \in 1 .. Len(buffer) : buffer[k] = source[copied + k]
        /\ buffer = <<>> => copied = Len(source)

ComparisonAgrees ==
    /\ comparison = "nil" => destination = source
    /\ comparison = "mismatch" => destination # source

CopyInv == CopyTypes /\ CopiedSoFar /\ BufferIsNext /\ ComparisonAgrees

LEMMA CopyInvInit == CopyInit => CopyInv
    <1> SUFFICES ASSUME CopyInit PROVE CopyInv
        OBVIOUS
    <1>1. source \in Seq(Chunks) /\ destination \in Seq(Chunks) /\ copied \in 0 .. Len(source)
        <2>1. <<>> \in Seq(Chunks)
            OBVIOUS
        <2>2. source \in Seq(Chunks) /\ destination \in Seq(Chunks)
            BY <2>1, ContentsAreSequences, Zenon DEF CopyInit
        <2> QED
            BY <2>2 DEF CopyInit
    <1> QED
        BY <1>1 DEF CopyInit, CopyInv, CopyTypes, CopiedSoFar, BufferIsNext, ComparisonAgrees

LEMMA CopyInvStep ==
    ASSUME CopyInv, CopyNext \/ UNCHANGED copyVars
    PROVE  CopyInv'
    <1>0. /\ CopyTypes /\ CopiedSoFar /\ BufferIsNext /\ ComparisonAgrees
          /\ Len(source) \in Nat /\ Len(destination) \in Nat /\ Len(buffer) \in Nat /\ copied \in Nat
          /\ copied <= Len(source)
        BY DEF CopyInv, CopyTypes
    <1>1. CASE OpenCopy
        <2>1. destination' \in Seq(Chunks)
            <3>1. <<>> \in Seq(Chunks)
                OBVIOUS
            <3> QED
                BY <1>0, <1>1, <3>1, Zenon DEF OpenCopy, CopyTypes
        <2>2. CopyTypes'
            BY <1>0, <1>1, <2>1 DEF OpenCopy, CopyTypes
        <2>3. /\ copyPC = "open" /\ copyPC' \in {"read", "done"} /\ copied = 0
              /\ UNCHANGED <<source, device, copied, comparison>>
              /\ copyPC' = "done" => copyResult' = "error"
              /\ copyPC' = "read" => UNCHANGED copyResult /\ (~ device => destination' = <<>>)
            BY <1>0, <1>1 DEF OpenCopy, CopyReturns, CopiedSoFar
        <2>4. CopiedSoFar'
            BY <1>0, <2>1, <2>3 DEF CopiedSoFar
        <2> QED
            BY <1>0, <2>2, <2>3, <2>4 DEF CopyInv, CopiedSoFar, BufferIsNext, ComparisonAgrees
    <1>2. CASE CopyRead
        <2>0. /\ copyPC = "read" /\ copyPC' \in {"write", "done"}
              /\ UNCHANGED <<source, destination, device, copied, comparison>>
              /\ copyPC' = "write" => UNCHANGED copyResult
              /\ copyPC' = "done" => copyResult' = "error"
            BY <1>2 DEF CopyRead, CopyReturns
        <2>1. CopiedSoFar' /\ ComparisonAgrees'
            BY <1>0, <2>0 DEF CopiedSoFar, ComparisonAgrees
        <2>2. ASSUME NEW n \in 1 .. Len(source) - copied, buffer' = SubSeq(source, copied + 1, copied + n)
              PROVE  CopyTypes' /\ BufferIsNext'
            <3>1. /\ buffer' \in Seq(Chunks) /\ Len(buffer') = n
                  /\ \A k \in 1 .. n : buffer'[k] = source[copied + k]
                BY <1>0, <2>2 DEF CopyTypes
            <3>2. buffer' # <<>>
                BY <3>1
            <3> QED
                BY <1>0, <2>0, <3>1, <3>2 DEF CopyTypes, BufferIsNext
        <2>3. CASE copied = Len(source) /\ buffer' = <<>>
            BY <1>0, <2>0, <2>1, <2>3 DEF CopyInv, CopyTypes, BufferIsNext
        <2>4. CASE UNCHANGED buffer /\ copyPC' = "done"
            BY <1>0, <2>0, <2>1, <2>4 DEF CopyInv, CopyTypes, BufferIsNext
        <2> QED
            BY <1>2, <2>1, <2>2, <2>3, <2>4 DEF CopyRead, CopyReturns, CopyInv
    <1>3. CASE CopyWrite
        <2>0. copyPC = "write" /\ UNCHANGED <<source, device, buffer, comparison>>
            BY <1>3 DEF CopyWrite
        <2>1. CASE NothingRead /\ CopyReturns("nil") /\ UNCHANGED <<destination, copied>>
            BY <1>0, <2>0, <2>1 DEF NothingRead, CopyReturns, CopyInv, CopyTypes, CopiedSoFar,
                                    BufferIsNext, ComparisonAgrees
        <2>2. CASE /\ destination' = WriteAt(destination, copied, buffer)
                   /\ copied' = copied + Len(buffer)
                   /\ copyPC' = "read"
                   /\ UNCHANGED copyResult
            <3>1. /\ destination' \in Seq(Chunks) /\ Len(destination') \in Nat
                  /\ Len(destination') >= copied'
                  /\ Len(destination) <= copied' => Len(destination') = copied'
                  /\ \A k \in 1 .. copied : destination'[k] = destination[k]
                  /\ \A k \in 1 .. Len(buffer) : destination'[copied + k] = buffer[k]
                BY <1>0, <2>2, WriteAtProps DEF CopyTypes, CopiedSoFar
            <3>2. copied' \in 0 .. Len(source)
                BY <1>0, <2>0, <2>2 DEF BufferIsNext
            <3>3. CopyTypes'
                BY <1>0, <2>0, <3>1, <3>2 DEF CopyTypes
            <3>4. ASSUME NEW k \in 1 .. copied'
                  PROVE  destination'[k] = source[k]
                <4>1. CASE k <= copied
                    BY <1>0, <3>1, <4>1 DEF CopiedSoFar
                <4>2. CASE k > copied
                    <5>1. PICK j \in 1 .. Len(buffer) : k = copied + j
                        BY <1>0, <2>2, <4>2
                    <5>2. buffer[j] = source[copied + j]
                        BY <1>0, <2>0 DEF BufferIsNext
                    <5> QED
                        BY <3>1, <5>1, <5>2
                <4> QED
                    BY <1>0, <3>2, <4>1, <4>2
            <3>5. CopiedSoFar'
                BY <1>0, <2>0, <2>2, <3>1, <3>4 DEF CopiedSoFar
            <3> QED
                BY <1>0, <2>0, <2>2, <3>3, <3>5 DEF CopyInv, CopiedSoFar, BufferIsNext, ComparisonAgrees
        <2>3. ASSUME NEW n \in 0 .. Len(buffer) - 1,
                     destination' = WriteAt(destination, copied, SubSeq(buffer, 1, n)),
                     CopyReturns("error"), UNCHANGED copied
              PROVE  CopyInv'
            <3>1. SubSeq(buffer, 1, n) \in Seq(Chunks)
                BY <1>0 DEF CopyTypes
            <3>2. /\ destination' \in Seq(Chunks) /\ Len(destination') \in Nat
                  /\ Len(destination') >= copied
                  /\ \A k \in 1 .. copied : destination'[k] = destination[k]
                <4> DEFINE data == SubSeq(buffer, 1, n)
                <4>1. data \in Seq(Chunks) /\ Len(data) \in Nat
                    BY <3>1
                <4>2. destination' = WriteAt(destination, copied, data)
                    BY <2>3
                <4>3. destination \in Seq(Chunks) /\ copied \in 0 .. Len(destination)
                    BY <1>0 DEF CopyTypes, CopiedSoFar
                <4> HIDE DEF data
                <4>4. /\ destination' \in Seq(Chunks)
                      /\ Len(destination') >= copied + Len(data)
                      /\ \A k \in 1 .. copied : destination'[k] = destination[k]
                    BY <4>1, <4>2, <4>3, WriteAtProps
                <4> QED
                    BY <1>0, <4>1, <4>4
            <3>3. CopyTypes' /\ CopiedSoFar'
                BY <1>0, <2>0, <2>3, <3>2 DEF CopyReturns, CopyTypes, CopiedSoFar
            <3> QED
                BY <1>0, <2>0, <2>3, <3>3 DEF CopyReturns, CopyInv, CopiedSoFar, BufferIsNext,
                                             ComparisonAgrees
        <2> QED
            BY <1>3, <2>1, <2>2, <2>3 DEF CopyWrite
    <1>4. CASE CompareFiles
        BY <1>0, <1>4 DEF CompareFiles, SumEqual, CopyInv, CopyTypes, CopiedSoFar, BufferIsNext,
                          ComparisonAgrees
    <1>5. CASE UNCHANGED copyVars
        BY <1>0, <1>5 DEF copyVars, CopyInv, CopyTypes, CopiedSoFar, BufferIsNext, ComparisonAgrees
    <1> QED
        BY <1>1, <1>2, <1>3, <1>4, <1>5 DEF CopyNext

LEMMA CopyInvImplies == CopyInv => CopyIsExact
    <1> SUFFICES ASSUME CopyInv PROVE CopyIsExact
        OBVIOUS
    <1>1. SubSeq(destination, 1, copied) = SubSeq(source, 1, copied)
        BY DEF CopyInv, CopyTypes, CopiedSoFar
    <1>2. copyResult = "nil" /\ ~ device => destination = source
        BY DEF CopyInv, CopyTypes, CopiedSoFar
    <1> QED
        BY <1>1, <1>2 DEF CopyInv, CopiedSoFar, ComparisonAgrees, CopyIsExact

\* A copy that returns no error has copied everything, once and in order, however
\* the reader cuts it into pieces and whether io.EOF comes with the last piece or
\* after it, and CompareFiles agrees with that (image.Copy and its variants).
THEOREM CopiesAreExact == CopySpec => []CopyIsExact
    <1>1. CopyInv /\ [CopyNext]_copyVars => CopyInv'
        BY CopyInvStep
    <1> QED
        BY <1>1, CopyInvInit, CopyInvImplies, PTL DEF CopySpec

-----------------------------------------------------------------------------
(***************************************************************************)
(* image: UntarGZArchive and UnpackTarImage                                *)
(***************************************************************************)

ItemTypes == {"absent", "dir", "reg"} \union {archive[k].type : k \in DOMAIN archive}

UnpackTypes ==
    /\ archive \in Archives
    /\ position \in 0 .. Len(archive)
    /\ tree \in [Names -> [type : ItemTypes, size : Nat]]

\* Whatever was unpacked, by this attempt or an earlier one, is an item of the
\* archive, or a part of it.
SizesCovered ==
    \A n \in Names : tree[n].size # 0 =>
        \E k \in 1 .. Len(archive) : archive[k].name = n /\ tree[n].size <= Units(archive[k])

\* The items handled are in the destination, but for files replaced by later ones.
Placed(m) ==
    \A k \in 1 .. m :
        /\ archive[k].type = "dir" /\ archive[k].name # "./" => tree[archive[k].name].type = "dir"
        /\ archive[k].type = "reg" /\ (\A j \in k + 1 .. m : archive[j].name # archive[k].name) =>
              tree[archive[k].name] = [type |-> "reg", size |-> archive[k].size]

HandledArePlaced ==
    /\ unpacker # "none" \/ unpackResult = "nil" => Placed(position)
    /\ unpackResult = "nil" => unpacker = "none" /\ position = Len(archive)

UnpackInv == UnpackTypes /\ SizesCovered /\ HandledArePlaced

LEMMA ArchiveProps ==
    ASSUME UnpackTypes
    PROVE  /\ Len(archive) \in Nat /\ DOMAIN archive = 1 .. Len(archive)
           /\ \A k \in 1 .. Len(archive) :
                 /\ archive[k].name \in Names /\ archive[k].size \in Nat /\ archive[k].type \in ItemTypes
                 /\ archive[k].name = "./" => archive[k].type = "dir"
                 /\ Units(archive[k]) \in Nat
                 /\ archive[k].type = "dir" => Units(archive[k]) = 1
                 /\ archive[k].type = "reg" => Units(archive[k]) = archive[k].size
    <1>1. archive \in Seq(Range(archive)) /\ archive \in Archives
        BY ArchiveAssumption DEF UnpackTypes
    <1>2. Len(archive) \in Nat /\ DOMAIN archive = 1 .. Len(archive)
        BY <1>1
    <1>3. \A k \in 1 .. Len(archive) :
             /\ archive[k].name \in Names /\ archive[k].size \in Nat
             /\ archive[k].name = "./" => archive[k].type = "dir"
        BY <1>1, <1>2, ArchiveAssumption
    <1>4. \A k \in 1 .. Len(archive) : archive[k].type \in ItemTypes
        BY <1>2 DEF ItemTypes
    <1>5. \A k \in 1 .. Len(archive) :
             /\ Units(archive[k]) \in Nat
             /\ archive[k].type = "dir" => Units(archive[k]) = 1
             /\ archive[k].type = "reg" => Units(archive[k]) = archive[k].size
        BY <1>3 DEF Units
    <1> QED
        BY <1>2, <1>3, <1>4, <1>5

LEMMA UnpackInvInit == UnpackInit => UnpackInv
    <1> SUFFICES ASSUME UnpackInit PROVE UnpackInv
        OBVIOUS
    <1>1. Len(archive) \in Nat
        BY ArchiveAssumption DEF UnpackInit
    <1>2. Absent \in [type : ItemTypes, size : Nat] /\ Absent.size = 0
        BY DEF Absent, ItemTypes
    <1>3. UnpackTypes
        BY <1>1, <1>2 DEF UnpackInit, UnpackTypes
    <1>4. SizesCovered
        BY <1>2 DEF UnpackInit, SizesCovered
    <1>5. HandledArePlaced
        BY DEF UnpackInit, HandledArePlaced
    <1> QED
        BY <1>3, <1>4, <1>5 DEF UnpackInv

\* What is put under the name of an item is not larger than the item.
LEMMA PutKeeps ==
    ASSUME UnpackTypes, SizesCovered, position < Len(archive), archive' = archive, position' \in 0 .. Len(archive),
           \/ UNCHANGED tree
           \/ \E type \in ItemTypes : \E size \in 0 .. Units(Item) : Put(Item.name, type, size)
    PROVE  UnpackTypes' /\ SizesCovered'
    <1>0. /\ position + 1 \in 1 .. Len(archive) /\ Item = archive[position + 1]
          /\ Item.name \in Names /\ Units(Item) \in Nat /\ Len(archive) \in Nat
        <2>1. position + 1 \in 1 .. Len(archive) /\ Len(archive) \in Nat
            BY ArchiveProps DEF UnpackTypes
        <2> QED
            BY <2>1, ArchiveProps DEF Item
    <1>1. CASE UNCHANGED tree
        BY <1>1 DEF UnpackTypes, SizesCovered, ItemTypes
    <1>2. ASSUME NEW type \in ItemTypes, NEW size \in 0 .. Units(Item), Put(Item.name, type, size)
          PROVE  UnpackTypes' /\ SizesCovered'
        <2>1. [type |-> type, size |-> size] \in [type : ItemTypes, size : Nat]
            BY <1>0
        <2>2. /\ tree' \in [Names -> [type : ItemTypes, size : Nat]]
              /\ tree'[Item.name].size = size
              /\ \A n \in Names : n # Item.name => tree'[n] = tree[n]
            BY <1>0, <1>2, <2>1 DEF UnpackTypes, Put
        <2>3. ItemTypes' = ItemTypes
            BY DEF ItemTypes
        <2>4. UnpackTypes'
            BY <2>2, <2>3 DEF UnpackTypes
        <2>5. SizesCovered'
            <3> SUFFICES ASSUME NEW n \in Names, tree'[n].size # 0
                         PROVE  \E k \in 1 .. Len(archive) :
                                   archive[k].name = n /\ tree'[n].size <= Units(archive[k])
                BY DEF SizesCovered, Units
            <3>1. CASE n = Item.name
                <4>1. tree'[n].size <= Units(archive[position + 1]) /\ archive[position + 1].name = n
                    BY <1>0, <2>2, <3>1
                <4> QED
                    BY <1>0, <4>1
            <3>2. CASE n # Item.name
                BY <2>2, <3>2 DEF SizesCovered
            <3> QED
                BY <3>1, <3>2
        <2> QED
            BY <2>4, <2>5
    <1> QED
        BY <1>1, <1>2

\* An item was handled without an error.
LEMMA ItemPlaced ==
    ASSUME UnpackTypes, position < Len(archive), Placed(position),
           archive' = archive, position' = position + 1,
           \A n \in Names : n # Item.name => tree'[n] = tree[n],
           tree[Item.name].type = "dir" => tree'[Item.name].type = "dir",
           Item.type = "dir" /\ Item.name # "./" => tree'[Item.name].type = "dir",
           Item.type = "reg" => tree'[Item.name] = [type |-> "reg", size |-> Item.size]
    PROVE  Placed(position)'
    <1>0. position \in Nat /\ Len(archive) \in Nat
        BY ArchiveProps DEF UnpackTypes
    <1> DEFINE p == position + 1
    <1> SUFFICES ASSUME NEW k \in 1 .. p
                 PROVE  /\ archive[k].type = "dir" /\ archive[k].name # "./" => tree'[archive[k].name].type = "dir"
                        /\ archive[k].type = "reg" /\ (\A j \in k + 1 .. p : archive[j].name # archive[k].name) =>
                              tree'[archive[k].name] = [type |-> "reg", size |-> archive[k].size]
        BY DEF Placed
    <1>1. CASE k = p
        BY <1>1 DEF Item
    <1>2. CASE k # p
        <2>1. k \in 1 .. position /\ k \in 1 .. Len(archive)
            BY <1>0, <1>2
        <2>2. archive[k].name \in Names
            BY <2>1, ArchiveProps
        <2>3. archive[k].type = "dir" /\ archive[k].name # "./" => tree'[archive[k].name].type = "dir"
            BY <2>1, <2>2 DEF Placed
        <2>4. ASSUME archive[k].type = "reg", \A j \in k + 1 .. p : archive[j].name # archive[k].name
              PROVE  tree'[archive[k].name] = [type |-> "reg", size |-> archive[k].size]
            <3>1. archive[k].name # Item.name
                <4>1. p \in k + 1 .. p
                    BY <1>0, <2>1
                <4> QED
                    BY <2>4, <4>1 DEF Item
            <3>2. \A j \in k + 1 .. position : j \in k + 1 .. p
                BY <1>0
            <3>3. tree[archive[k].name] = [type |-> "reg", size |-> archive[k].size]
                BY <2>1, <2>4, <3>2 DEF Placed
            <3> QED
                BY <2>2, <3>1, <3>3
        <2> QED
            BY <2>3, <2>4
    <1> QED
        BY <1>1, <1>2

LEMMA UnpackInvStep ==
    ASSUME UnpackInv, UnpackNext \/ UNCHANGED unpackVars
    PROVE  UnpackInv'
    <1>0. UnpackTypes /\ SizesCovered /\ HandledArePlaced
        BY DEF UnpackInv
    <1>a. position \in Nat /\ Len(archive) \in Nat /\ position <= Len(archive)
        BY <1>0, ArchiveProps DEF UnpackTypes
    <1>1. ASSUME NEW how \in {"UntarGZArchive", "UnpackTarImage"}, Unpack(how) PROVE UnpackInv'
        <2>1. UNCHANGED <<archive, tree>> /\ position' = 0 /\ unpackResult' = "none" /\ unpacker' # "none"
            BY <1>1 DEF Unpack
        <2>2. UnpackTypes' /\ SizesCovered'
            BY <1>0, <1>a, <2>1 DEF UnpackTypes, SizesCovered, ItemTypes
        <2>3. HandledArePlaced'
            BY <2>1 DEF HandledArePlaced, Placed
        <2> QED
            BY <2>2, <2>3 DEF UnpackInv
    <1>2. CASE UnpackError
        <2>1. UNCHANGED <<archive, tree, position>> /\ unpackResult' = "error" /\ unpacker' = "none"
            BY <1>2 DEF UnpackError, UnpackFails
        <2> QED
            BY <1>0, <2>1 DEF UnpackInv, UnpackTypes, SizesCovered, ItemTypes, HandledArePlaced
    <1>b. ASSUME unpacker # "none", position < Len(archive)
          PROVE  /\ Placed(position) /\ unpackResult # "nil"
                 /\ Item.name \in Names /\ Item.size \in Nat /\ Item.type \in ItemTypes /\ Units(Item) \in Nat
                 /\ Item.name = "./" => Item.type = "dir"
                 /\ Item.type = "dir" => Units(Item) = 1
                 /\ Item.type = "reg" => Units(Item) = Item.size
                 /\ position + 1 \in 0 .. Len(archive) /\ position \in 0 .. Len(archive)
        <2>1. position + 1 \in 1 .. Len(archive)
            BY <1>a, <1>b
        <2>2. Placed(position) /\ unpackResult # "nil"
            BY <1>0, <1>b DEF HandledArePlaced
        <2>3. position + 1 \in 0 .. Len(archive) /\ position \in 0 .. Len(archive)
            BY <1>a, <1>b
        <2>4. Item = archive[position + 1]
            BY DEF Item
        <2> QED
            BY <1>0, <2>1, <2>2, <2>3, <2>4, ArchiveProps
    <1>3. CASE untarItem
        <2>0. unpacker # "none" /\ position < Len(archive)
            BY <1>3 DEF untarItem
        <2> DEFINE n == Item.name
        <2>1. CASE /\ \/ Item.type = "dir" /\ n = "./" /\ UNCHANGED tree
                      \/ Item.type = "dir" /\ n # "./" /\ tree[n].type = "absent" /\ Put(n, "dir", 1)
                      \/ Item.type = "reg" /\ tree[n].type # "dir" /\ Put(n, "reg", Item.size)
                      \/ Item.type \notin {"dir", "reg"} /\ UNCHANGED tree
                   /\ position' = position + 1
                   /\ UNCHANGED <<archive, unpacker, unpackResult>>
            <3>1. \/ UNCHANGED tree
                  \/ \E type \in ItemTypes : \E size \in 0 .. Units(Item) : Put(Item.name, type, size)
                BY <1>b, <2>0, <2>1
            <3>2. UnpackTypes' /\ SizesCovered'
                BY <1>0, <1>b, <2>0, <2>1, <3>1, PutKeeps
            <3>3. /\ \A m \in Names : m # n => tree'[m] = tree[m]
                  /\ tree[n].type = "dir" => tree'[n].type = "dir"
                  /\ Item.type = "dir" /\ n # "./" => tree'[n].type = "dir"
                  /\ Item.type = "reg" => tree'[n] = [type |-> "reg", size |-> Item.size]
                BY <1>0, <1>b, <2>0, <2>1 DEF Put, UnpackTypes
            <3>4. Placed(position)'
                BY <1>0, <1>b, <2>0, <2>1, <3>3, ItemPlaced
            <3> QED
                BY <1>b, <2>0, <2>1, <3>2, <3>4 DEF UnpackInv, HandledArePlaced
        <2>2. CASE /\ \/ Item.type = "dir" /\ n # "./" /\ UNCHANGED tree
                      \/ Item.type = "reg" /\ tree[n].type = "dir" /\ UNCHANGED tree
                      \/ /\ Item.type = "reg" /\ tree[n].type # "dir"
                         /\ \E size \in 0 .. Item.size : Put(n, "reg", size)
                   /\ UnpackFails
            <3>1. UNCHANGED <<archive, position>> /\ unpackResult' = "error" /\ unpacker' = "none"
                BY <2>2 DEF UnpackFails
            <3>2. \/ UNCHANGED tree
                  \/ \E type \in ItemTypes : \E size \in 0 .. Units(Item) : Put(Item.name, type, size)
                BY <1>b, <2>0, <2>2
            <3>3. UnpackTypes' /\ SizesCovered'
                BY <1>0, <1>b, <2>0, <3>1, <3>2, PutKeeps
            <3> QED
                BY <3>1, <3>3 DEF UnpackInv, HandledArePlaced
        <2> QED
            BY <1>3, <2>1, <2>2 DEF untarItem
    <1>4. CASE tarItem
        <2>0. /\ unpacker # "none" /\ position < Len(archive)
              /\ position' = position + 1 /\ UNCHANGED <<archive, unpacker, unpackResult>>
            BY <1>4 DEF tarItem
        <2>1. \/ Item.name = "./" /\ UNCHANGED tree
              \/ /\ tree[Item.name].type = "dir" => Item.type = "dir"
                 /\ Put(Item.name, Item.type, Units(Item))
            BY <1>4 DEF tarItem
        <2>2. UnpackTypes' /\ SizesCovered'
            <3>1. \/ UNCHANGED tree
                  \/ \E type \in ItemTypes : \E size \in 0 .. Units(Item) : Put(Item.name, type, size)
                BY <1>b, <2>0, <2>1
            <3> QED
                BY <1>0, <1>b, <2>0, <3>1, PutKeeps
        <2>3. /\ \A m \in Names : m # Item.name => tree'[m] = tree[m]
              /\ tree[Item.name].type = "dir" => tree'[Item.name].type = "dir"
              /\ Item.type = "dir" /\ Item.name # "./" => tree'[Item.name].type = "dir"
              /\ Item.type = "reg" => tree'[Item.name] = [type |-> "reg", size |-> Item.size]
            BY <1>0, <1>b, <2>0, <2>1 DEF Put, UnpackTypes
        <2>4. Placed(position)'
            BY <1>0, <1>b, <2>0, <2>3, ItemPlaced
        <2> QED
            BY <1>b, <2>0, <2>2, <2>4 DEF UnpackInv, HandledArePlaced
    <1>5. CASE UnpackDone
        <2>1. /\ unpacker # "none" /\ position = Len(archive) /\ unpacker' = "none" /\ unpackResult' = "nil"
              /\ UNCHANGED <<archive, position, tree>>
            BY <1>5 DEF UnpackDone
        <2>2. UnpackTypes' /\ SizesCovered'
            BY <1>0, <2>1 DEF UnpackTypes, SizesCovered, ItemTypes
        <2>3. Placed(position)'
            BY <1>0, <2>1 DEF HandledArePlaced, Placed
        <2> QED
            BY <2>1, <2>2, <2>3 DEF UnpackInv, HandledArePlaced
    <1>6. CASE UNCHANGED unpackVars
        BY <1>0, <1>6 DEF unpackVars, UnpackInv, UnpackTypes, SizesCovered, ItemTypes, HandledArePlaced, Placed
    <1> QED
        BY <1>1, <1>2, <1>3, <1>4, <1>5, <1>6 DEF UnpackNext

LEMMA UnpackInvImplies == UnpackInv => UnpackedWithinReserve
    <1> SUFFICES ASSUME UnpackInv PROVE UnpackedWithinReserve
        OBVIOUS
    <1>0. UnpackTypes /\ SizesCovered /\ HandledArePlaced
        BY DEF UnpackInv
    <1> DEFINE K == 1 .. Len(archive)
               g == [n \in Names |-> tree[n].size]
               f == [k \in K |-> Units(archive[k])]
               e == [n \in Names |-> CHOOSE k \in K : archive[k].name = n /\ tree[n].size <= Units(archive[k])]
    <1>1. Len(archive) \in Nat /\ DOMAIN archive = K /\ \A k \in K : Units(archive[k]) \in Nat
        BY <1>0, ArchiveProps
    <1>2. TreeSize <= GetUncompressedTarContentSize(archive)
        <2>1. IsFiniteSet(Names) /\ IsFiniteSet(K)
            <3>1. \A m \in Nat : IsFiniteSet(1 .. m)
                BY FS_Interval
            <3> QED
                BY <1>1, <3>1, ArchiveAssumption
        <2>2. \A n \in Names : tree[n].size \in Nat /\ g[n] = tree[n].size
            BY <1>0 DEF UnpackTypes
        <2>3. \A k \in K : f[k] \in Nat /\ f[k] = Units(archive[k])
            BY <1>1
        <2>4. ASSUME NEW n \in Names, g[n] # 0
              PROVE  e[n] \in K /\ archive[e[n]].name = n /\ g[n] <= f[e[n]]
            <3>1. \E k \in K : archive[k].name = n /\ tree[n].size <= Units(archive[k])
                BY <1>0, <2>2, <2>4 DEF SizesCovered
            <3>2. e[n] \in K /\ archive[e[n]].name = n /\ tree[n].size <= Units(archive[e[n]])
                BY <3>1
            <3> QED
                BY <2>2, <2>3, <3>2
        <2>5. TreeSize = SumFunctionOnSet(g, Names)
            BY DEF TreeSize, SumFunction
        <2>6. GetUncompressedTarContentSize(archive) = SumFunctionOnSet(f, K)
            BY <1>1 DEF GetUncompressedTarContentSize, SumFunction
        <2> HIDE DEF g, f, e, K
        <2>7. \A n \in Names : g[n] \in Nat
            BY <2>2
        <2>8. \A m, n \in Names : g[m] # 0 /\ g[n] # 0 /\ e[m] = e[n] => m = n
            BY <2>4
        <2>9. SumFunctionOnSet(g, Names) <= SumFunctionOnSet(f, K)
            BY <2>1, <2>3, <2>4, <2>7, <2>8, SumCovered
        <2> QED
            BY <2>5, <2>6, <2>9, Zenon
    <1>3. ASSUME unpackResult = "nil"
          PROVE  Placed(Len(archive))
        BY <1>0, <1>3 DEF HandledArePlaced
    <1> QED
        BY <1>1, <1>2, <1>3 DEF UnpackedWithinReserve, Placed

\* An archive that UntarGZArchive or UnpackTarImage unpacked without an error is in
\* the destination, and what is unpacked never takes more than the size
\* GetUncompressedTarContentSize gave to reserve space; a copy without an error has
\* copied everything once and in order: for all archives, names and contents.
THEOREM ContentsAreExact == MCSpec => []ContentIsExact
    <1> DEFINE Inv == UnpackInv /\ CopyInv
    <1>1. MCInit => Inv
        BY UnpackInvInit, CopyInvInit DEF MCInit
    <1>2. ASSUME Inv, [MCNext]_allVars PROVE Inv'
        <2>1. (UnpackNext \/ UNCHANGED unpackVars) /\ (CopyNext \/ UNCHANGED copyVars)
            BY <1>2, Zenon DEF MCNext, allVars, imageVars, otherVars
        <2> QED
            BY <1>2, <2>1, UnpackInvStep, CopyInvStep
    <1>3. Inv => ContentIsExact
        BY UnpackInvImplies, CopyInvImplies DEF ContentIsExact
    <1> QED
        BY <1>1, <1>2, <1>3, PTL DEF MCSpec

-----------------------------------------------------------------------------
(***************************************************************************)
(* utils/testtools and partition                                           *)
(***************************************************************************)

\* How far NewTestDisk is: the loop device is attached to a disk that has all its
\* partitions.
DiskInv ==
    /\ diskPC \in {"createDisk", "createParts", "setupDevice", "formatDisk", "ready", "closeOnError",
                   "closed"}
    /\ parts \in Nat
    /\ diskPC \in {"setupDevice", "formatDisk", "ready"} => parts = Partitions
    /\ diskPC \in {"formatDisk", "ready"} => loopDevice
    /\ diskPC = "closed" /\ ~ closeFailed => ~ diskFile /\ ~ loopDevice

\* Where CreateFilePartition is, while no step of it failed: what is mounted when,
\* and that the file is compressed when the content is in it.
PartitionInv ==
    /\ partPC \in {"mkfs", "mkdirTemp", "mount", "create", "umount", "gzip", "returned"}
    /\ ~ stepFailed =>
          /\ partPC \in {"mkdirTemp", "mount", "create", "umount"} => withContent
          /\ mountDir <=> partPC \in {"mount", "create", "umount"}
          /\ isMounted <=> partPC \in {"create", "umount"}
          /\ partPC # "returned" => archived = "none"
          /\ partPC = "gzip" /\ withContent => image = "content"
          /\ partPC = "returned" /\ archivate /\ withContent => archived = "content"

LEMMA DiskInvStep ==
    ASSUME DiskInv, TestDiskNext \/ UNCHANGED diskVars
    PROVE  DiskInv'
    <1> USE DiskAssumption DEF DiskInv, DiskError
    <1>1. CASE createDisk
        BY <1>1 DEF createDisk
    <1>2. CASE createParts
        BY <1>2 DEF createParts
    <1>3. CASE setupDevice
        BY <1>3 DEF setupDevice
    <1>4. CASE formatDisk
        BY <1>4 DEF formatDisk
    <1>5. CASE CloseDisk
        <2>1. diskPC' = "closed" /\ parts' = parts
            BY <1>5 DEF CloseDisk
        <2>2. closeFailed' \/ (~ diskFile' /\ ~ loopDevice')
            BY <1>5, Zenon DEF CloseDisk, MustDetach
        <2> QED
            BY <2>1, <2>2
    <1>6. CASE UNCHANGED diskVars
        BY <1>6 DEF diskVars
    <1> QED
        BY <1>1, <1>2, <1>3, <1>4, <1>5, <1>6 DEF TestDiskNext

LEMMA PartitionInvStep ==
    ASSUME PartitionInv, TestDiskNext \/ UNCHANGED partVars
    PROVE  PartitionInv'
    <1> USE DEF PartitionInv, PartFails, FirstDeferred
    <1>1. CASE MakeFileSystem
        BY <1>1 DEF MakeFileSystem
    <1>2. CASE MkdirTemp
        BY <1>2 DEF MkdirTemp
    <1>3. CASE MountFile
        BY <1>3 DEF MountFile
    <1>4. CASE contentCreator
        BY <1>4 DEF contentCreator
    <1>5. CASE UmountFile
        BY <1>5 DEF UmountFile
    <1>6. CASE Gzip
        BY <1>6 DEF Gzip
    <1>7. CASE UNCHANGED partVars
        BY <1>7 DEF partVars
    <1> QED
        BY <1>1, <1>2, <1>3, <1>4, <1>5, <1>6, <1>7 DEF TestDiskNext

\* The package partition finds the partitions of a loop device under its own name.
LEMMA PartitionsFound ==
    ASSUME loopDevice, parts = Partitions, NEW k \in 1 .. Partitions
    PROVE  /\ GetParentDevice(<<"loop", k>>) = "loop"
           /\ GetPartitionNum(<<"loop", k>>) = k
    <1>1. <<"loop", k>> \in SysBlock("loop") /\ <<"loop", k>> \notin SysBlock("other")
        BY DiskAssumption DEF SysBlock
    <1>2. \A d \in Disks : <<"loop", k>> \in SysBlock(d) <=> d = "loop"
        BY <1>1 DEF Disks
    <1>3. "loop" \in Disks
        BY DEF Disks
    <1>4. k # 0
        BY DiskAssumption
    <1> QED
        BY <1>2, <1>3, <1>4 DEF GetParentDevice, GetPartitionNum

\* In whatever order the three tags come, each is there once.
LEMMA TagsFound ==
    ASSUME NEW k, NEW tags \in TagsOf(k)
    PROVE  /\ GetPartInfo(tags) = [Label |-> k, PartUUID |-> k]
           /\ tags[getPartUUID(tags)].value = k
    <1> DEFINE label == [type |-> "LABEL", value |-> k]
               partUUID == [type |-> "PARTUUID", value |-> k]
               uuid == [type |-> "UUID", value |-> 0]
               T == {label, partUUID, uuid}
    <1>1. label # partUUID /\ label # uuid /\ partUUID # uuid
        BY SMT
    <1> HIDE DEF label, partUUID, uuid
    <1>2. IsFiniteSet(T) /\ Cardinality(T) = 3
        <2>1. IsFiniteSet({label}) /\ Cardinality({label}) = 1
            BY FS_Singleton
        <2>2. IsFiniteSet({label} \union {partUUID}) /\ Cardinality({label} \union {partUUID}) = 2
            BY <1>1, <2>1, FS_AddElement
        <2>3. /\ IsFiniteSet({label} \union {partUUID} \union {uuid})
              /\ Cardinality({label} \union {partUUID} \union {uuid}) = 3
            BY <1>1, <2>2, FS_AddElement
        <2>4. T = {label} \union {partUUID} \union {uuid}
            BY Zenon
        <2> QED
            BY <2>3, <2>4
    <1>3. /\ tags \in [1 .. 3 -> T]
          /\ \A i, j \in 1 .. 3 : i # j => tags[i] # tags[j]
        BY <1>2 DEF TagsOf, SetToSeqs, label, partUUID, uuid
    <1>4. PICK l \in 1 .. 3 : tags[l] = label
        BY <1>3
    <1>5. PICK p \in 1 .. 3 : tags[p] = partUUID
        BY <1>3
    <1>6. /\ DOMAIN tags = 1 .. 3 /\ Len(tags) = 3
          /\ \A j \in 1 .. 3 : tags[j] # label <=> j # l
          /\ \A j \in 1 .. 3 : tags[j] # partUUID <=> j # p
        BY <1>3, <1>4, <1>5
    <1>7. \A j \in 1 .. 3 : /\ tags[j].type = "LABEL" <=> j = l
                            /\ tags[j].type = "PARTUUID" <=> j = p
        <2>1. \A e \in T : (e.type = "LABEL" <=> e = label) /\ (e.type = "PARTUUID" <=> e = partUUID)
            BY DEF label, partUUID, uuid
        <2> QED
            BY <1>3, <1>6, <2>1
    <1>8. tags[l].value = k /\ tags[p].value = k
        BY <1>4, <1>5 DEF label, partUUID
    <1>9. LastOf(tags, "LABEL") = k
        <2>1. {j \in DOMAIN tags : tags[j].type = "LABEL"} = {l}
            BY <1>6, <1>7
        <2>2. (CHOOSE i \in {l} : \A j \in {l} : j <= i) = l
            OBVIOUS
        <2> QED
            BY <1>8, <2>1, <2>2 DEF LastOf
    <1>10. LastOf(tags, "PARTUUID") = k
        <2>1. {j \in DOMAIN tags : tags[j].type = "PARTUUID"} = {p}
            BY <1>6, <1>7
        <2>2. (CHOOSE i \in {p} : \A j \in {p} : j <= i) = p
            OBVIOUS
        <2> QED
            BY <1>8, <2>1, <2>2 DEF LastOf
    <1>11. getPartUUID(tags) = p
        <2>1. {j \in 1 .. Len(tags) : tags[j].type = "PARTUUID"} = {p}
            BY <1>6, <1>7
        <2>2. Min({p}) = p
            BY DEF Min
        <2> QED
            BY <2>1, <2>2 DEF getPartUUID, SelectInSeq
    <1> QED
        BY <1>8, <1>9, <1>10, <1>11 DEF GetPartInfo

\* NewTestDisk, Close and CreateFilePartition: a disk that is ready has all its
\* partitions, which the package partition finds under the right disk, number and
\* label in whatever order blkid gives the tags; whatever step failed, nothing is
\* left behind by a Close that did not fail; and the archive has what the test put
\* into the partition.  For any number of partitions.
THEOREM PartitionsAreClean == MCSpec => []TestPartitionsClean
    <1> DEFINE Inv == DiskInv /\ PartitionInv
    <1>1. MCInit => Inv
        BY DEF MCInit, TestDiskInit, PartitionInit, DiskInv, PartitionInv
    <1>2. ASSUME Inv, [MCNext]_allVars PROVE Inv'
        <2>1. (TestDiskNext \/ UNCHANGED diskVars) /\ (TestDiskNext \/ UNCHANGED partVars)
            BY <1>2, Zenon DEF MCNext, allVars, imageVars, otherVars
        <2> QED
            BY <1>2, <2>1, DiskInvStep, PartitionInvStep
    <1>3. ASSUME Inv PROVE TestPartitionsClean
        <2>1. ASSUME diskPC = "ready", NEW k \in 1 .. Partitions
              PROVE  /\ GetParentDevice(<<"loop", k>>) = "loop"
                     /\ GetPartitionNum(<<"loop", k>>) = k
            BY <1>3, <2>1, PartitionsFound DEF DiskInv
        <2>2. \A k \in 1 .. Partitions : \A tags \in TagsOf(k) :
                  /\ GetPartInfo(tags) = [Label |-> k, PartUUID |-> k]
                  /\ tags[getPartUUID(tags)].value = k
            BY TagsFound
        <2>3. diskPC = "closed" /\ ~ closeFailed => ~ diskFile /\ ~ loopDevice
            BY <1>3 DEF DiskInv
        <2>4. partPC = "returned" /\ ~ stepFailed =>
                  /\ ~ mountDir /\ ~ isMounted
                  /\ archivate /\ withContent => archived = "content"
            BY <1>3 DEF PartitionInv
        <2> QED
            BY <2>1, <2>2, <2>3, <2>4 DEF TestPartitionsClean
    <1> QED
        BY <1>1, <1>2, <1>3, PTL DEF MCSpec

-----------------------------------------------------------------------------
(***************************************************************************)
(* pbconvert, aostypes, aoserrors, alertutils, semverutils                 *)
(***************************************************************************)

\* Go's conversions to an unsigned integer and back, and to a narrower one.
LEMMA IntegerConversions ==
    /\ \A i \in Int64 : ToUInt64(i) \in UInt64 /\ ToInt64(ToUInt64(i)) = i
    /\ \A i \in Int32 : ToInt32(i) = i
    <1>0. Sign64 \in Nat \ {0} /\ Sign32 \in Nat \ {0}
        BY ConversionAssumption
    <1>1. ASSUME NEW M \in Nat \ {0}, NEW i \in -M .. M - 1
          PROVE  i % M = IF i >= 0 THEN i ELSE i + M
        <2>1. CASE i >= 0
            <3>1. i \in 0 .. M - 1
                BY <2>1
            <3> QED
                BY <2>1, <3>1
        <2>2. CASE i < 0
            <3>1. i \in -M .. -1
                BY <2>2
            <3> QED
                BY <2>2, <3>1
        <2> QED
            BY <2>1, <2>2
    <1>2. ASSUME NEW i \in Int64
          PROVE  ToUInt64(i) = IF i >= 0 THEN i ELSE i + 2 * Sign64
        <2>1. 2 * Sign64 \in Nat \ {0} /\ i \in -(2 * Sign64) .. 2 * Sign64 - 1
            BY <1>0 DEF Int64
        <2> QED
            BY <1>1, <2>1 DEF ToUInt64
    <1>3. ASSUME NEW i \in Int32
          PROVE  i % (2 * Sign32) = IF i >= 0 THEN i ELSE i + 2 * Sign32
        <2>1. 2 * Sign32 \in Nat \ {0} /\ i \in -(2 * Sign32) .. 2 * Sign32 - 1
            BY <1>0 DEF Int32
        <2> QED
            BY <1>1, <2>1
    <1>4. \A i \in Int64 : ToUInt64(i) \in UInt64 /\ ToInt64(ToUInt64(i)) = i
        BY <1>0, <1>2 DEF Int64, UInt64, ToInt64
    <1>5. \A i \in Int32 : ToInt32(i) = i
        BY <1>0, <1>3 DEF Int32, ToInt32
    <1> QED
        BY <1>4, <1>5

\* Lists have a length, fields of texts are numbers.
LEMMA ListsAndFields == MaxList \in Nat /\ MaxList + 1 \in Nat /\ \A f \in Fields : f \in Nat
    <1>1. MaxList \in Nat /\ Fields \subseteq 0 .. 99
        BY ConversionAssumption, Zenon
    <1> QED
        BY <1>1

LEMMA FilterSurvives ==
    ASSUME NEW v \in Filters
    PROVE  InstanceFilterFromPB(InstanceFilterToPB(v)) = v
    <1>1. PICK s \in OptionalIDs, u \in OptionalIDs, i \in Int64 : v = NewInstanceFilter(s, u, i)
        BY SMT DEF Filters
    <1>2. /\ v = [ServiceID |-> v.ServiceID, SubjectID |-> v.SubjectID, Instance |-> v.Instance]
          /\ v.ServiceID \in IDs \union {Null} /\ v.SubjectID \in IDs \union {Null}
        BY <1>1, ConversionAssumption DEF NewInstanceFilter, Set, OptionalIDs
    <1>3. v.Instance = InstanceFromPB(i)
        BY <1>1 DEF NewInstanceFilter, InstanceFromPB
    <1>4. InstanceFilterToPB(v).Instance = i
        <2>1. CASE i = -1
            BY <1>3, <2>1 DEF InstanceFilterToPB, InstanceFromPB
        <2>2. CASE i # -1
            <3>1. v.Instance = ToUInt64(i) /\ ToUInt64(i) \in UInt64 /\ ToInt64(ToUInt64(i)) = i
                BY <1>3, <2>2, IntegerConversions DEF InstanceFromPB
            <3>2. v.Instance # Null
                BY <3>1, ConversionAssumption
            <3> QED
                BY <3>1, <3>2 DEF InstanceFilterToPB
        <2> QED
            BY <2>1, <2>2
    <1>5. /\ Set(InstanceFilterToPB(v).ServiceId) = v.ServiceID
          /\ Set(InstanceFilterToPB(v).SubjectId) = v.SubjectID
        BY <1>2, ConversionAssumption DEF InstanceFilterToPB, Set
    <1> QED
        BY <1>2, <1>3, <1>4, <1>5 DEF InstanceFilterFromPB

LEMMA IdentSurvives ==
    ASSUME NEW v \in Idents
    PROVE  InstanceIdentFromPB(InstanceIdentToPB(v)) = v
    BY DEF Idents, InstanceIdentFromPB, InstanceIdentToPB

LEMMA ErrorInfoSurvives ==
    ASSUME NEW v \in ErrorInfos
    PROVE  ErrorInfoFromPB(ErrorInfoToPB(v)) = v
    BY IntegerConversions DEF ErrorInfos, ErrorInfoFromPB, ErrorInfoToPB

\* All of a network but its id, which one hop loses.
LEMMA NetworkSurvives ==
    ASSUME NEW n \in Networks, NEW id
    PROVE  NewNetworkParametersFromPB(NetworkParametersToPB([n EXCEPT !.NetworkID = id]))
               = [n EXCEPT !.NetworkID = ""]
    <1> DEFINE v == [n EXCEPT !.NetworkID = id]
               pb == NetworkParametersToPB(v)
    <1>1. n.FirewallRules \in Seq(Rules) /\ DOMAIN n.FirewallRules = 1 .. Len(n.FirewallRules)
        <2>1. n.FirewallRules \in BoundedSeq(Rules, MaxList)
            BY DEF Networks
        <2>2. PICK m \in 0 .. MaxList : n.FirewallRules \in [1 .. m -> Rules]
            BY <2>1, Zenon DEF BoundedSeq, SeqOf
        <2> QED
            <3>1. m \in Nat
                BY ListsAndFields
            <3> QED
                BY <2>2, <3>1
    <1>2. n = [NetworkID |-> n.NetworkID, IP |-> n.IP, VlanID |-> n.VlanID, FirewallRules |-> n.FirewallRules]
        BY DEF Networks
    <1>3. \A x : [n EXCEPT !.NetworkID = x]
                    = [NetworkID |-> x, IP |-> n.IP, VlanID |-> n.VlanID, FirewallRules |-> n.FirewallRules]
        BY <1>2
    <1>4. /\ pb.Ip = n.IP /\ pb.VlanId = n.VlanID
          /\ pb.Rules = [k \in DOMAIN n.FirewallRules |->
                            [DstIp |-> n.FirewallRules[k].DstIP, SrcIp |-> n.FirewallRules[k].SrcIP]]
        BY <1>3 DEF NetworkParametersToPB
    <1>5. [k \in DOMAIN pb.Rules |-> [DstIP |-> pb.Rules[k].DstIp, SrcIP |-> pb.Rules[k].SrcIp]] = n.FirewallRules
        <2>1. DOMAIN pb.Rules = DOMAIN n.FirewallRules
            BY <1>4
        <2>2. \A k \in DOMAIN n.FirewallRules :
                  [DstIP |-> pb.Rules[k].DstIp, SrcIP |-> pb.Rules[k].SrcIp] = n.FirewallRules[k]
            <3> SUFFICES ASSUME NEW k \in DOMAIN n.FirewallRules
                         PROVE  [DstIP |-> pb.Rules[k].DstIp, SrcIP |-> pb.Rules[k].SrcIp] = n.FirewallRules[k]
                OBVIOUS
            <3>1. n.FirewallRules[k] \in Rules
                BY <1>1
            <3>2. pb.Rules[k] = [DstIp |-> n.FirewallRules[k].DstIP, SrcIp |-> n.FirewallRules[k].SrcIP]
                BY <1>4
            <3> HIDE DEF pb
            <3> QED
                BY <3>1, <3>2 DEF Rules
        <2> QED
            <3> DEFINE F(k) == [DstIP |-> pb.Rules[k].DstIp, SrcIP |-> pb.Rules[k].SrcIp]
                       fr == n.FirewallRules
            <3>1. fr = [k \in DOMAIN fr |-> fr[k]]
                BY <1>1
            <3>2. \A k \in DOMAIN fr : F(k) = fr[k]
                BY <2>2
            <3> HIDE DEF F, fr
            <3>3. [k \in DOMAIN fr |-> F(k)] = fr
                BY <3>1, <3>2
            <3> QED
                BY <2>1, <3>3 DEF F, fr
    <1> HIDE DEF v, pb
    <1>7. NewNetworkParametersFromPB(pb) = [n EXCEPT !.NetworkID = ""]
        BY <1>3, <1>4, <1>5 DEF NewNetworkParametersFromPB
    <1> QED
        BY <1>7 DEF v, pb

LEMMA TimeSurvives ==
    ASSUME NEW t \in Times
    PROVE  UnmarshalTime(MarshalTime(t)) = t
    <1> DEFINE F == Fields \intersect 0 .. 59
    <1>1. t \in [hour : Fields \intersect 0 .. 23, minute : F, second : F]
        BY DEF Times
    <1>2. t = [hour |-> t.hour, minute |-> t.minute, second |-> t.second]
        BY <1>1
    <1> QED
        BY <1>2 DEF UnmarshalTime, MarshalTime

\* Durations in seconds, however large their fields are.
LEMMA DurationSurvives ==
    ASSUME NEW s \in Nat
    PROVE  UnmarshalDuration(MarshalDuration(s)) = s
    <1>1. (s \div 3600) * 3600 + ((s % 3600) \div 60) * 60 + (s % 60) = s
        OBVIOUS
    <1> QED
        BY <1>1 DEF UnmarshalDuration, MarshalDuration

LEMMA DurationsAreNumbers == Inputs("duration") \subseteq Nat
    <1>1. \A d \in ISOTexts : parseISO8601Duration(d) \in Nat /\ Alternative(d) \in ISOTexts
        <2> SUFFICES ASSUME NEW d \in ISOTexts
                     PROVE  parseISO8601Duration(d) \in Nat /\ Alternative(d) \in ISOTexts
            OBVIOUS
        <2>1. /\ d.year \in Nat /\ d.month \in Nat /\ d.week \in Nat /\ d.day \in Nat
              /\ d.hour \in Nat /\ d.minute \in Nat /\ d.second \in Nat
            BY ListsAndFields DEF ISOTexts
        <2>2. /\ d.year * Year \in Nat /\ d.month * Month \in Nat /\ d.week * Week \in Nat
              /\ d.day * Day \in Nat /\ d.hour * 3600 \in Nat /\ d.minute * 60 \in Nat
            BY <2>1 DEF Year, Month, Week, Day
        <2>3. parseISO8601Duration(d) \in Nat
            BY <2>1, <2>2 DEF parseISO8601Duration
        <2>4. Alternative(d) \in ISOTexts
            BY ConversionAssumption DEF ISOTexts, Alternative
        <2> QED
            BY <2>3, <2>4
    <1> QED
        BY <1>1 DEF Inputs

\* The chains of errors with the layer that Wrap gives them.
LEMMA WrapProps ==
    ASSUME NEW c \in Chains
    PROVE  /\ Wrap(Wrap(c)) = Wrap(c)
           /\ IsSuffix(c, Wrap(c))
           /\ \E k \in DOMAIN Wrap(c) : \A j \in DOMAIN Wrap(c) : Wrap(c)[j] = "aos" <=> j = k
    <1>0. c \in Seq(Layers) /\ c # <<>>
        <2>1. c \in BoundedSeq(Layers, MaxList + 1) /\ c # <<>>
            BY DEF Chains
        <2>2. PICK m \in 0 .. MaxList + 1 : c \in [1 .. m -> Layers]
            BY <2>1, Zenon DEF BoundedSeq, SeqOf
        <2> QED
            <3>1. m \in Nat
                BY ListsAndFields
            <3> QED
                BY <2>1, <2>2, <3>1
    <1>1. CASE \E k \in DOMAIN c : c[k] = "aos"
        <2>1. Wrap(c) = c
            BY <1>1 DEF Wrap
        <2>2. IsSuffix(c, c)
            <3>1. Reverse(c) \in Seq(Layers)
                BY <1>0 DEF Reverse
            <3> QED
                BY <3>1 DEF IsSuffix, IsPrefix
        <2>3. \E k \in DOMAIN c : \A j \in DOMAIN c : c[j] = "aos" <=> j = k
            BY <1>1 DEF Chains
        <2> QED
            BY <2>1, <2>2, <2>3
    <1>2. CASE ~ \E k \in DOMAIN c : c[k] = "aos"
        <2> DEFINE w == <<"aos">> \o c
        <2>1. c \in Seq(Layers) /\ c # <<>>
            BY <1>0
        <2>2. /\ w \in Seq(Layers) /\ Len(w) = Len(c) + 1 /\ w[1] = "aos"
              /\ \A j \in 1 .. Len(c) : w[j + 1] = c[j]
            <3>1. <<"aos">> \in Seq(Layers) /\ Len(<<"aos">>) = 1 /\ <<"aos">>[1] = "aos"
                BY DEF Layers
            <3> HIDE DEF w
            <3> DEFINE a == <<"aos">>
            <3>2. w = a \o c
                BY DEF w
            <3> HIDE DEF a
            <3> QED
                BY <2>1, <3>1, <3>2 DEF a
        <2>3. Wrap(c) = w
            BY <1>2, <2>1 DEF Wrap
        <2> HIDE DEF w
        <2>4. Wrap(w) = w
            BY <2>2 DEF Wrap
        <2>5. \A j \in DOMAIN w : w[j] = "aos" <=> j = 1
            <3>1. \A j \in 2 .. Len(w) : w[j] = c[j - 1] /\ j - 1 \in DOMAIN c
                BY <2>1, <2>2
            <3> QED
                BY <1>2, <2>2, <3>1
        <2>6. IsSuffix(c, w)
            <3>1. /\ Reverse(c) \in Seq(Layers) /\ Len(Reverse(c)) = Len(c)
                  /\ \A j \in 1 .. Len(c) : Reverse(c)[j] = c[Len(c) - j + 1]
                BY <2>1 DEF Reverse
            <3>2. /\ Reverse(w) \in Seq(Layers) /\ Len(Reverse(w)) = Len(w)
                  /\ \A j \in 1 .. Len(w) : Reverse(w)[j] = w[Len(w) - j + 1]
                BY <2>2 DEF Reverse
            <3>3. \A j \in 1 .. Len(c) : Reverse(w)[j] = Reverse(c)[j]
                <4> SUFFICES ASSUME NEW j \in 1 .. Len(c) PROVE Reverse(w)[j] = Reverse(c)[j]
                    OBVIOUS
                <4>1. Len(c) - j + 1 \in 1 .. Len(c) /\ Len(w) - j + 1 = (Len(c) - j + 1) + 1
                    BY <2>1, <2>2
                <4>2. j \in 1 .. Len(w)
                    BY <2>1, <2>2
                <4> QED
                    BY <2>2, <3>1, <3>2, <4>1, <4>2
            <3> QED
                BY <2>1, <2>2, <3>1, <3>2, <3>3 DEF IsSuffix, IsPrefix
        <2> QED
            BY <2>2, <2>3, <2>4, <2>5, <2>6
    <1> QED
        BY <1>1, <1>2

\* Only the times of alerts that are equal differ, so the order does not matter.
LEMMA AlertsAgree ==
    ASSUME NEW a \in Alerts, NEW b \in Alerts
    PROVE  AlertsPayloadEqual(a, b) <=> a.type # "other" /\ a.type = b.type /\ a.payload = b.payload
    <1>1. /\ a = [type |-> a.type, payload |-> a.payload, timestamp |-> a.timestamp]
          /\ b = [type |-> b.type, payload |-> b.payload, timestamp |-> b.timestamp]
          /\ a.type \in AlertTypes \union {"other"}
        BY DEF Alerts
    <1>2. [a EXCEPT !.timestamp = b.timestamp] = b <=> a.type = b.type /\ a.payload = b.payload
        BY <1>1
    <1>3. a.type \in AlertTypes <=> a.type # "other"
        BY <1>1 DEF AlertTypes
    <1> QED
        BY <1>2, <1>3 DEF AlertsPayloadEqual

\* The three functions say the same of two versions.
LEMMA VersionsAgree ==
    ASSUME NEW v \in VersionTexts, NEW w \in VersionTexts
    PROVE  /\ LessThan(v, w) = "yes" <=> Compare(v, w) = "-1"
           /\ GreaterThan(v, w) = "yes" <=> Compare(v, w) = "1"
           /\ Compare(v, w) = "0" => LessThan(w, v) = "no"
           /\ "error" \in {LessThan(v, w), GreaterThan(v, w), Compare(v, w)} <=> ~ (v.valid /\ w.valid)
    <1>1. ~ (Before(v, w) /\ Before(w, v))
        <2>1. v.number \in Nat /\ w.number \in Nat
            BY ListsAndFields DEF VersionTexts
        <2> QED
            BY <2>1 DEF Before
    <1> QED
        BY <1>1 DEF LessThan, GreaterThan, Compare, Parsed

\* An attribute that was sent is found: the last of its name.
LEMMA AttributesFound ==
    ASSUME NEW attrs \in PBAttrs
    PROVE  /\ IsMainNode(NodeInfoFromPB(attrs)) <=> \E k \in DOMAIN attrs : attrs[k].Name = "MainNode"
           /\ \A k \in DOMAIN attrs : attrToStringSlice(NodeInfoFromPB(attrs), attrs[k].Name) \in IDs
    <1> DEFINE names == {attrs[k].Name : k \in DOMAIN attrs}
               info == NodeInfoFromPB(attrs)
               Of(n) == {k \in DOMAIN attrs : attrs[k].Name = n}
               last(n) == CHOOSE k \in DOMAIN attrs : attrs[k].Name = n
                              /\ \A j \in DOMAIN attrs : attrs[j].Name = n => j <= k
    <1>1. PICK m \in 0 .. MaxList : attrs \in [1 .. m -> [Name : AttrNames, Value : IDs]]
        BY Zenon DEF PBAttrs, BoundedSeq, SeqOf
    <1>0. m \in Nat
        BY ListsAndFields
    <1>2. DOMAIN info = names
        BY DEF NodeInfoFromPB
    <1>3. ASSUME NEW n \in names
          PROVE  info[n] \in IDs
        <2>1. Of(n) \in SUBSET Nat /\ Of(n) # {} /\ \A k \in Of(n) : k <= m
            BY <1>0, <1>1
        <2>2. \E k \in Of(n) : \A j \in Of(n) : j <= k
            BY <1>0, <2>1, GreatestNatural
        <2>3. \E k \in DOMAIN attrs : attrs[k].Name = n
                  /\ \A j \in DOMAIN attrs : attrs[j].Name = n => j <= k
            BY <2>2
        <2>4. last(n) \in DOMAIN attrs
            BY <2>3
        <2>5. info[n] = attrs[last(n)].Value
            BY DEF NodeInfoFromPB
        <2> HIDE DEF last, info
        <2> QED
            BY <1>1, <2>4, <2>5
    <1> HIDE DEF info
    <1>4. IsMainNode(info) <=> \E k \in DOMAIN attrs : attrs[k].Name = "MainNode"
        BY <1>2 DEF IsMainNode
    <1>5. \A k \in DOMAIN attrs : attrToStringSlice(info, attrs[k].Name) \in IDs
        BY <1>2, <1>3 DEF attrToStringSlice
    <1> QED
        BY <1>4, <1>5 DEF info

\* Values of these kinds are the same after a hop; of these a hop gives the answers.
KeptKinds == {"filter", "ident", "errorInfo", "time", "duration"}
AnswerKinds == {"alerts", "versions", "node"}

\* The value of a kind after any number of hops is that after the first.
ConversionInv ==
    /\ kind \in Kinds
    /\ original \in Inputs(kind)
    /\ hops \in Nat
    /\ hops = 0 => value = original
    /\ kind \in KeptKinds => value = original
    /\ kind = "network" /\ hops > 0 => value = [original EXCEPT !.NetworkID = ""]
    /\ kind = "error" /\ hops > 0 => value = Wrap(original)
    /\ kind \in AnswerKinds /\ hops > 0 => value = Through(kind, original)

LEMMA ConversionInvInit == ConversionInit => ConversionInv
    BY DEF ConversionInit, ConversionInv

LEMMA ConversionInvStep ==
    ASSUME ConversionInv, Hop \/ UNCHANGED conversionVars
    PROVE  ConversionInv'
    <1>1. CASE UNCHANGED conversionVars
        <2>1. kind' = kind /\ original' = original /\ value' = value /\ hops' = hops
            BY <1>1 DEF conversionVars
        <2>2. Inputs(kind)' = Inputs(kind)
            BY <2>1, Zenon DEF Inputs
        <2>3. Through(kind, original)' = Through(kind, original)
            BY <2>1, Zenon DEF Through
        <2> QED
            BY <2>1, <2>2, <2>3 DEF ConversionInv
    <1>2. CASE Hop
        <2>1. kind' = kind /\ original' = original /\ value' = Through(kind, value) /\ hops' = hops + 1
            BY <1>2 DEF Hop
        <2>2. Inputs(kind)' = Inputs(kind)
            BY <2>1, Zenon DEF Inputs
        <2>3. hops \in Nat
            BY DEF ConversionInv
        <2>8. hops' \in Nat /\ hops' > 0 /\ hops' # 0
            BY <2>1, <2>3
        <2>9. hops = 0 \/ hops > 0
            BY <2>3
        <2>4. ASSUME kind \in KeptKinds PROVE value' = original
            <3>1. value = original /\ original \in Inputs(kind)
                BY <2>4 DEF ConversionInv
            <3>2. CASE kind = "filter"
                BY <2>1, <3>1, <3>2, FilterSurvives DEF Inputs, Through
            <3>3. CASE kind = "ident"
                BY <2>1, <3>1, <3>3, IdentSurvives DEF Inputs, Through
            <3>4. CASE kind = "errorInfo"
                BY <2>1, <3>1, <3>4, ErrorInfoSurvives DEF Inputs, Through
            <3>5. CASE kind = "time"
                BY <2>1, <3>1, <3>5, TimeSurvives DEF Inputs, Through
            <3>6. CASE kind = "duration"
                BY <2>1, <3>1, <3>6, DurationSurvives, DurationsAreNumbers DEF Through
            <3> QED
                BY <2>4, <3>2, <3>3, <3>4, <3>5, <3>6 DEF KeptKinds
        <2>5. ASSUME kind = "network" PROVE value' = [original EXCEPT !.NetworkID = ""]
            <3>1. original \in Networks
                BY <2>5 DEF ConversionInv, Inputs
            <3>2. value = original \/ value = [original EXCEPT !.NetworkID = ""]
                BY <2>9, <2>5, Zenon DEF ConversionInv
            <3>3. original = [original EXCEPT !.NetworkID = original.NetworkID]
                BY <3>1 DEF Networks
            <3>4. value' = NewNetworkParametersFromPB(NetworkParametersToPB(value))
                BY <2>1, <2>5 DEF Through
            <3>5. \E id : value = [original EXCEPT !.NetworkID = id]
                BY <3>2, <3>3, Zenon
            <3> QED
                BY <3>1, <3>4, <3>5, NetworkSurvives, Zenon
        <2>6. ASSUME kind = "error" PROVE value' = Wrap(original)
            <3>1. original \in Chains
                BY <2>6 DEF ConversionInv, Inputs
            <3>2. value = original \/ value = Wrap(original)
                BY <2>9, <2>6, Zenon DEF ConversionInv
            <3> QED
                BY <2>1, <2>6, <3>1, <3>2, WrapProps DEF Through
        <2>7. ASSUME kind \in AnswerKinds PROVE value' = Through(kind, original)'
            BY <2>1, <2>7 DEF Through, AnswerKinds
        <2> QED
            <3>1. (kind \in Kinds /\ original \in Inputs(kind))'
                BY <2>1, <2>2, Zenon DEF ConversionInv
            <3>2. (kind \in KeptKinds => value = original)'
                BY <2>1, <2>4, Zenon
            <3>3. (kind = "network" => value = [original EXCEPT !.NetworkID = ""])'
                BY <2>1, <2>5, Zenon
            <3>4. (kind = "error" => value = Wrap(original))'
                BY <2>1, <2>6, Zenon
            <3>5. (kind \in AnswerKinds => value = Through(kind, original))'
                BY <2>1, <2>7, Zenon
            <3> QED
                BY <2>8, <3>1, <3>2, <3>3, <3>4, <3>5, Zenon DEF ConversionInv
    <1> QED
        BY <1>1, <1>2

LEMMA ConversionInvImplies == ConversionInv => ConversionsFaithful
    <1> SUFFICES ASSUME ConversionInv PROVE ConversionsFaithful
        OBVIOUS
    <1>1. ValuesSurviveHops
        <2>1. CASE kind = "network"
            BY <2>1 DEF ConversionInv, ValuesSurviveHops
        <2>2. CASE kind = "error"
            <3>1. original \in Chains /\ (hops > 0 => value = Wrap(original))
                BY <2>2 DEF ConversionInv, Inputs
            <3> QED
                BY <2>2, <3>1, WrapProps DEF ValuesSurviveHops
        <2>3. CASE kind \in KeptKinds
            BY <2>3 DEF ConversionInv, ValuesSurviveHops, KeptKinds
        <2>4. CASE kind \in AnswerKinds
            BY <2>4 DEF ValuesSurviveHops, AnswerKinds
        <2> QED
            BY <2>1, <2>2, <2>3, <2>4 DEF ConversionInv, Kinds, KeptKinds, AnswerKinds
    <1>2. AnswersAgree
        <2> SUFFICES ASSUME hops > 0 PROVE AnswersAgree
            BY DEF AnswersAgree
        <2>1. CASE kind = "alerts"
            <3>1. original \in Alerts \X Alerts
                BY <2>1 DEF ConversionInv, Inputs
            <3>2. original[1] \in Alerts /\ original[2] \in Alerts
                BY <3>1
            <3>3. value = <<AlertsPayloadEqual(original[1], original[2]),
                            AlertsPayloadEqual(original[2], original[1])>>
                BY <2>1 DEF ConversionInv, AnswerKinds, Through
            <3>4. value[1] = AlertsPayloadEqual(original[1], original[2])
                      /\ value[2] = AlertsPayloadEqual(original[2], original[1])
                BY <3>3, Zenon
            <3>5. value[1] \in BOOLEAN /\ value[2] \in BOOLEAN
                BY <3>4, Zenon DEF AlertsPayloadEqual
            <3>6. value[1] <=> value[2]
                BY <3>2, <3>4, AlertsAgree
            <3>7. value[1] = value[2]
                BY <3>5, <3>6, Zenon
            <3>8. value[1] <=> original[1].type # "other" /\ original[1].type = original[2].type
                                  /\ original[1].payload = original[2].payload
                BY <3>2, <3>4, AlertsAgree
            <3> QED
                BY <2>1, <3>7, <3>8 DEF AnswersAgree
        <2>2. CASE kind = "versions"
            <3>1. original \in VersionTexts \X VersionTexts
                BY <2>2 DEF ConversionInv, Inputs
            <3>2. original[1] \in VersionTexts /\ original[2] \in VersionTexts
                BY <3>1
            <3>3. value = <<LessThan(original[1], original[2]), GreaterThan(original[1], original[2]),
                            Compare(original[1], original[2])>>
                BY <2>2 DEF ConversionInv, AnswerKinds, Through
            <3> QED
                BY <2>2, <3>2, <3>3, VersionsAgree DEF AnswersAgree
        <2>3. CASE kind = "node"
            <3>1. original \in PBAttrs /\ value = NodeInfoFromPB(original)
                BY <2>3 DEF ConversionInv, Inputs, AnswerKinds, Through
            <3> QED
                BY <2>3, <3>1, AttributesFound, ConversionAssumption DEF AnswersAgree
        <2>4. CASE kind \in KeptKinds \union {"network", "error"}
            BY <2>4 DEF AnswersAgree, KeptKinds
        <2> QED
            BY <2>1, <2>2, <2>3, <2>4 DEF ConversionInv, Kinds, KeptKinds
    <1> QED
        BY <1>1, <1>2 DEF ConversionsFaithful

\* pbconvert, aostypes, aoserrors, alertutils and semverutils: a value is the same
\* after any number of hops, whatever the width of the integers, but for the network
\* id; an error keeps its cause and gets one Aos layer; and the answers about alerts,
\* versions and attributes agree with each other.
THEOREM ValuesAreConvertedFaithfully == MCSpec => []ConversionsFaithful
    <1>1. MCInit => ConversionInv
        BY ConversionInvInit DEF MCInit
    <1>2. ASSUME ConversionInv, [MCNext]_allVars PROVE ConversionInv'
        <2>1. Hop \/ UNCHANGED conversionVars
            BY <1>2, Zenon DEF MCNext, allVars, imageVars, otherVars
        <2> QED
            BY <1>2, <2>1, ConversionInvStep
    <1> QED
        BY <1>1, <1>2, ConversionInvImplies, PTL DEF MCSpec

-----------------------------------------------------------------------------
(***************************************************************************)
(* spaceallocator: what sorting a list and leaving out elements does       *)
(***************************************************************************)

LEMMA ListFacts ==
    ASSUME NEW L \in Seq(Items)
    PROVE  /\ Len(L) \in Nat /\ DOMAIN L = 1 .. Len(L)
           /\ \A k \in 1 .. Len(L) : L[k] \in Items /\ L[k] \in Nat
           /\ IsFiniteSet(1 .. Len(L)) /\ Cardinality(1 .. Len(L)) = Len(L)
    <1>1. Len(L) \in Nat /\ DOMAIN L = 1 .. Len(L) /\ \A k \in 1 .. Len(L) : L[k] \in Items
        OBVIOUS
    <1>2. \A x \in Items : x \in Nat
        BY Zenon, ConstantsAssumption
    <1>3. \A m \in Nat : IsFiniteSet(1 .. m) /\ Cardinality(1 .. m) = m
        BY FS_Interval
    <1> QED
        BY <1>1, <1>2, <1>3

\* The positions of a list are ordered, and so are they by the age of their items.
LEMMA byTimestampProps ==
    ASSUME NEW L \in Seq(Items)
    PROVE  /\ byTimestamp(L) \in Seq(Items) /\ Len(byTimestamp(L)) = Len(L)
           /\ \A j, k \in 1 .. Len(L) : j < k => byTimestamp(L)[j] <= byTimestamp(L)[k]
           /\ \A x : (\E k \in 1 .. Len(L) : byTimestamp(L)[k] = x) <=> \E k \in 1 .. Len(L) : L[k] = x
           /\ (\A j, k \in 1 .. Len(L) : L[j] = L[k] => j = k) =>
                  \A j, k \in 1 .. Len(L) : byTimestamp(L)[j] = byTimestamp(L)[k] => j = k
    <1> DEFINE D == 1 .. Len(L)
               R == {r \in D \X D : L[r[1]] < L[r[2]] \/ (L[r[1]] = L[r[2]] /\ r[1] <= r[2])}
               order == InOrder(D, R)
    <1>0. Len(L) \in Nat /\ DOMAIN L = D /\ \A k \in D : L[k] \in Items /\ L[k] \in Nat
        BY ListFacts
    <1>1. IsFiniteSet(D) /\ Cardinality(D) = Len(L)
        BY ListFacts
    <1>2. \A x, y \in D : <<x, y>> \in R <=> L[x] < L[y] \/ (L[x] = L[y] /\ x <= y)
        OBVIOUS
    <1>3. OrdersAll(D, R)
        <2> HIDE DEF R
        <2> QED
            BY <1>0, <1>2 DEF OrdersAll
    <1> HIDE DEF R
    <1>4. /\ order \in [D -> D]
          /\ \A x \in D : \E k \in D : order[k] = x
          /\ \A j, k \in D : j < k => order[j] # order[k] /\ <<order[j], order[k]>> \in R
        BY <1>1, <1>3, InOrderProps
    <1>5. byTimestamp(L) = Rearranged(L, order)
        BY <1>0 DEF byTimestamp, R
    <1> HIDE DEF order
    <1>6. Len(order) = Len(L)
        BY <1>0, <1>4
    <1>7. byTimestamp(L) = [k \in D |-> L[order[k]]]
        BY <1>5, <1>6 DEF Rearranged
    <1>8. byTimestamp(L) \in Seq(Items) /\ Len(byTimestamp(L)) = Len(L)
        <2>1. byTimestamp(L) \in [D -> Items]
            BY <1>0, <1>4, <1>7
        <2> QED
            BY <1>0, <2>1
    <1>a. \A k \in D : order[k] \in D /\ byTimestamp(L)[k] = L[order[k]]
        BY <1>4, <1>7
    <1>9. ASSUME NEW j \in D, NEW k \in D, j < k PROVE byTimestamp(L)[j] <= byTimestamp(L)[k]
        <2>1. <<order[j], order[k]>> \in R /\ order[j] \in D /\ order[k] \in D
            BY <1>4, <1>9, <1>a
        <2>2. L[order[j]] < L[order[k]] \/ L[order[j]] = L[order[k]]
            BY <1>2, <2>1
        <2>3. L[order[j]] \in Nat /\ L[order[k]] \in Nat
            BY <1>0, <2>1
        <2> QED
            BY <1>a, <2>2, <2>3
    <1> HIDE DEF D
    <1>10. \A x : (\E k \in D : byTimestamp(L)[k] = x) <=> \E k \in D : L[k] = x
        <2>1. ASSUME NEW k \in D PROVE \E j \in D : byTimestamp(L)[j] = L[k]
            BY <1>4, <1>a
        <2>2. ASSUME NEW k \in D PROVE \E j \in D : byTimestamp(L)[k] = L[j]
            BY <1>a
        <2> QED
            BY <2>1, <2>2
    <1>11. ASSUME \A j, k \in D : L[j] = L[k] => j = k, NEW j \in D, NEW k \in D,
                  byTimestamp(L)[j] = byTimestamp(L)[k]
           PROVE  j = k
        <2>1. order[j] = order[k]
            BY <1>11, <1>a
        <2>2. ~ (j < k) /\ ~ (k < j)
            BY <1>4, <2>1
        <2>3. j \in Nat /\ k \in Nat
            BY <1>0 DEF D
        <2> QED
            BY <2>2, <2>3
    <1> QED
        BY <1>8, <1>9, <1>10, <1>11 DEF D

\* What is left of a list without the positions P.
LEMMA WithoutProps ==
    ASSUME NEW L \in Seq(Items), NEW P
    PROVE  /\ Without(L, P) \in Seq(Items)
           /\ Len(Without(L, P)) <= Len(L)
           /\ \A x : (\E k \in 1 .. Len(Without(L, P)) : Without(L, P)[k] = x)
                     <=> \E k \in (1 .. Len(L)) \ P : L[k] = x
           /\ (\A j, k \in 1 .. Len(L) : L[j] = L[k] => j = k) =>
                  \A j, k \in 1 .. Len(Without(L, P)) : Without(L, P)[j] = Without(L, P)[k] => j = k
    <1> DEFINE D == 1 .. Len(L)
               K == D \ P
               n == Cardinality(K)
               R == {r \in D \X D : r[1] <= r[2]}
               order == InOrder(K, R)
    <1>0. Len(L) \in Nat /\ DOMAIN L = D /\ \A k \in D : L[k] \in Items
        BY ListFacts
    <1>1. IsFiniteSet(D) /\ Cardinality(D) = Len(L)
        BY ListFacts
    <1>2. IsFiniteSet(K) /\ n <= Len(L) /\ n \in Nat
        BY <1>1, FS_Subset, FS_CardinalityType
    <1>3. OrdersAll(K, R)
        BY <1>0 DEF OrdersAll
    <1>4. /\ order \in [1 .. n -> K]
          /\ \A x \in K : \E k \in 1 .. n : order[k] = x
          /\ \A j, k \in 1 .. n : j < k => order[j] # order[k]
        <2> HIDE DEF K, R
        <2>1. /\ InOrder(K, R) \in [1 .. Cardinality(K) -> K]
              /\ \A x \in K : \E k \in 1 .. Cardinality(K) : InOrder(K, R)[k] = x
              /\ \A j, k \in 1 .. Cardinality(K) :
                    j < k => /\ InOrder(K, R)[j] # InOrder(K, R)[k]
                             /\ <<InOrder(K, R)[j], InOrder(K, R)[k]>> \in R
            BY <1>2, <1>3, InOrderProps
        <2> QED
            BY <2>1
    <1>5. Without(L, P) = Rearranged(L, order)
        BY <1>0 DEF Without
    <1> HIDE DEF order, R, n
    <1>6. Len(order) = n
        BY <1>2, <1>4
    <1>7. Without(L, P) = [k \in 1 .. n |-> L[order[k]]]
        BY <1>5, <1>6 DEF Rearranged
    <1>8. Without(L, P) \in Seq(Items) /\ Len(Without(L, P)) = n
        <2>1. Without(L, P) \in [1 .. n -> Items]
            BY <1>0, <1>4, <1>7
        <2> QED
            BY <1>2, <2>1
    <1>9. \A x : (\E k \in 1 .. n : Without(L, P)[k] = x) <=> \E k \in K : L[k] = x
        BY <1>4, <1>7
    <1>10. ASSUME \A j, k \in D : L[j] = L[k] => j = k, NEW j \in 1 .. n, NEW k \in 1 .. n,
                  Without(L, P)[j] = Without(L, P)[k]
           PROVE  j = k
        BY <1>2, <1>4, <1>7, <1>10
    <1> QED
        BY <1>2, <1>8, <1>9, <1>10

-----------------------------------------------------------------------------
(***************************************************************************)
(* spaceallocator: the inductive invariant.  Where the properties exclude  *)
(* a failed ItemRemover or an account that was started between a removal   *)
(* and its FreeSpace, so does the invariant.                               *)
(***************************************************************************)

Steps == InProgress \union {"absent", "partition", "present", "removed", "free"}

\* The types of the module, and the fields of its two structs.
SpaceTypes ==
    /\ instance \in [Allocators -> {"none", "open", "closed"}]
    /\ part \in [allocatorCount : Nat, allocationCount : Nat, availableSize : Nat,
                 outdatedItems : Seq(Items), partLimit : 0 .. 100]
    /\ alloc \in [Allocators -> [allocationCount : Nat, allocatedSize : Nat]]
    /\ disk \in SUBSET Items
    /\ failures \in 0 .. MaxFailures
    /\ step \in [Items -> Steps]
    /\ overlap \in SUBSET (Allocators \union {"part"})

Opened == {a \in Allocators : instance[a] = "open"}

\* The partition counts its allocators and adds up their limits.
AllocatorsCounted ==
    /\ part.allocatorCount = Cardinality(Opened)
    /\ part.partLimit = SumFunctionOnSet(PartLimit, Opened)

\* Only items of open allocators are being worked on.
WorkIsOpen ==
    \A i \in Items : step[i] \notin {"absent", "present"} => instance[Owner[i]] = "open"

\* The allocations of allocator a that allocateDone has not ended.
Counted(a) ==
    {i \in Items : Owner[i] = a /\ step[i] \in {"partition", "granted", "stored", "release", "done"}}

\* An allocator counts no allocation too few; one too many stays for each that
\* failed in the partition's account.
AllocationsCounted ==
    \A a \in Allocators : sizeLimit(a) # 0 => Cardinality(Counted(a)) <= alloc[a].allocationCount

DiskFits == SumSize(disk) <= TotalSize

\* An outdated item is on the list once, and nobody works on it.
ListedIdle ==
    failures = 0 =>
        /\ \A j, k \in 1 .. Len(part.outdatedItems) :
              part.outdatedItems[j] = part.outdatedItems[k] => j = k
        /\ \A k \in 1 .. Len(part.outdatedItems) : step[part.outdatedItems[k]] = "present"

\* What is on the disk follows from the steps.
DiskFollowsSteps ==
    failures = 0 =>
        \A i \in Items :
            /\ step[i] \in {"absent", "partition", "granted", "release", "removed", "free"} => i \notin disk
            /\ step[i] \in {"present", "stored"} => i \in disk

\* The items whose space the partition's account must not count as available:
\* they are on the disk, promised, or removed and not yet reported.
Taken == {i \in Items : i \in disk \/ step[i] \in {"granted", "release", "removed", "free"}}

PartitionCovered ==
    part.allocationCount > 0 /\ "part" \notin overlap /\ failures = 0 =>
        part.availableSize + SumSize(Taken) <= TotalSize

\* The same for the account of allocator a.
TakenFrom(a) ==
    {i \in Items : Owner[i] = a /\ (i \in disk \/ step[i] \in {"partition", "granted", "removed"})}

AllocatorsCovered ==
    \A a \in Allocators :
        sizeLimit(a) # 0 /\ alloc[a].allocationCount > 0 /\ a \notin overlap /\ failures = 0 =>
            SumSize(TakenFrom(a)) <= alloc[a].allocatedSize

SpaceInv ==
    /\ SpaceTypes /\ AllocatorsCounted /\ WorkIsOpen /\ PartitionCountExact /\ AllocationsCounted
    /\ DiskFits /\ ListedIdle /\ DiskFollowsSteps /\ PartitionCovered /\ AllocatorsCovered

-----------------------------------------------------------------------------
(***************************************************************************)
(* spaceallocator: sizes, sums and counts                                  *)
(***************************************************************************)
LEMMA ItemFacts ==
    /\ \A i \in Items : i \in Nat /\ Owner[i] \in Allocators /\ Size[i] \in Nat /\ Size[i] > 0
    /\ TotalSize \in Nat /\ MaxFailures \in Nat
    <1>1. \A i \in Items : i \in Nat
        BY ConstantsAssumption, Zenon
    <1>2. \A i \in Items : Owner[i] \in Allocators
        <2>1. Owner \in [Items -> Allocators]
            BY ConstantsAssumption, Zenon
        <2> QED
            BY <2>1
    <1>3. \A i \in Items : Size[i] \in Nat /\ Size[i] > 0
        <2>1. Size \in [Items -> Nat \ {0}]
            BY ConstantsAssumption, Zenon
        <2> QED
            BY <2>1
    <1>4. TotalSize \in Nat /\ MaxFailures \in Nat
        BY ConstantsAssumption, Zenon
    <1> QED
        BY <1>1, <1>2, <1>3, <1>4

LEMMA LimitFacts ==
    ASSUME NEW a \in Allocators
    PROVE  PartLimit[a] \in Nat /\ PartLimit[a] <= 100 /\ sizeLimit(a) \in Nat
    <1>1. PartLimit[a] \in 0 .. 100
        <2>1. PartLimit \in [Allocators -> 0 .. 100]
            BY ConstantsAssumption, Zenon
        <2> QED
            BY <2>1
    <1>2. TotalSize * PartLimit[a] \in Nat
        BY <1>1, ItemFacts
    <1>3. \A x \in Nat : x \div 100 \in Nat
        OBVIOUS
    <1> QED
        BY <1>1, <1>2, <1>3 DEF sizeLimit

\* The sum of sizes over sets of items.
LEMMA SumSizeFacts ==
    ASSUME NEW S \in SUBSET Items
    PROVE  /\ IsFiniteSet(S)
           /\ SumSize(S) \in Nat
           /\ SumSize({}) = 0
           /\ \A i \in S : SumSize(S) = SumSize(S \ {i}) + Size[i] /\ SumSize(S \ {i}) \in Nat
           /\ \A i \in Items \ S : SumSize(S \union {i}) = SumSize(S) + Size[i]
           /\ \A R \in SUBSET S : /\ SumSize(R) \in Nat /\ SumSize(S \ R) \in Nat
                                  /\ SumSize(S) = SumSize(S \ R) + SumSize(R)
    <1>0. IsFiniteSet(Items) /\ \A i \in Items : Size[i] \in Nat
        BY ItemFacts, ConstantsAssumption, Zenon
    <1>1. IsFiniteSet(S)
        BY <1>0, FS_Subset
    <1>2. /\ SumSize({}) = 0
          /\ \A T \in SUBSET Items : SumSize(T) \in Nat
          /\ \A T \in SUBSET Items : \A x \in T : SumSize(T) = Size[x] + SumSize(T \ {x})
        BY <1>0, SumProps DEF SumSize
    <1>3. ASSUME NEW i \in S PROVE SumSize(S) = SumSize(S \ {i}) + Size[i] /\ SumSize(S \ {i}) \in Nat
        <2>1. S \ {i} \in SUBSET Items /\ i \in Items
            OBVIOUS
        <2> QED
            BY <1>0, <1>2, <2>1
    <1>4. ASSUME NEW i \in Items \ S PROVE SumSize(S \union {i}) = SumSize(S) + Size[i]
        <2>1. S \union {i} \in SUBSET Items /\ (S \union {i}) \ {i} = S
            OBVIOUS
        <2>2. SumSize(S \union {i}) = Size[i] + SumSize((S \union {i}) \ {i})
            BY <1>2, <2>1
        <2> QED
            BY <1>0, <1>2, <2>1, <2>2
    <1>5. ASSUME NEW R \in SUBSET S
          PROVE  /\ SumSize(R) \in Nat /\ SumSize(S \ R) \in Nat
                 /\ SumSize(S) = SumSize(S \ R) + SumSize(R)
        BY <1>0, <1>1, SumWithout DEF SumSize
    <1> QED
        BY <1>1, <1>2, <1>3, <1>4, <1>5

\* The number of items in a set when one comes in or goes out.
LEMMA CountFacts ==
    ASSUME NEW S \in SUBSET Items, NEW i \in Items
    PROVE  /\ Cardinality(S) \in Nat
           /\ Cardinality(S \union {i}) = IF i \in S THEN Cardinality(S) ELSE Cardinality(S) + 1
           /\ Cardinality(S \ {i}) = IF i \in S THEN Cardinality(S) - 1 ELSE Cardinality(S)
           /\ i \in S => Cardinality(S) > 0
           /\ Cardinality(S) = 0 => S = {}
    <1>0. IsFiniteSet(S)
        BY SumSizeFacts
    <1>1. Cardinality(S) \in Nat /\ (Cardinality(S) = 0 <=> S = {})
        BY <1>0, FS_CardinalityType, FS_EmptySet
    <1>2. Cardinality(S \union {i}) = IF i \in S THEN Cardinality(S) ELSE Cardinality(S) + 1
        BY <1>0, FS_AddElement
    <1>3. Cardinality(S \ {i}) = IF i \in S THEN Cardinality(S) - 1 ELSE Cardinality(S)
        BY <1>0, FS_RemoveElement
    <1>4. i \in S => Cardinality(S) > 0
        BY <1>1
    <1> QED
        BY <1>1, <1>2, <1>3, <1>4

\* The sizes at some positions of a list; when no item is on it twice they are
\* the sizes of the items there.
LEMMA SizeAtFacts ==
    ASSUME NEW L \in Seq(Items), NEW P \in SUBSET (1 .. Len(L))
    PROVE  /\ SizeAt(L, P) \in Nat
           /\ ItemsAt(L, P) \in SUBSET Items
           /\ \A Q \in SUBSET P : SizeAt(L, Q) \in Nat /\ SizeAt(L, Q) <= SizeAt(L, P)
           /\ (\A j, k \in 1 .. Len(L) : L[j] = L[k] => j = k) => SizeAt(L, P) = SumSize(ItemsAt(L, P))
    <1> DEFINE g == [p \in DOMAIN L |-> Size[L[p]]]
    <1>0. DOMAIN L = 1 .. Len(L) /\ IsFiniteSet(1 .. Len(L)) /\ \A p \in P : L[p] \in Items
        BY ListFacts
    <1>1. IsFiniteSet(P)
        BY <1>0, FS_Subset
    <1>2. \A p \in P : g[p] = Size[L[p]] /\ Size[L[p]] \in Nat
        BY <1>0, ItemFacts
    <1>3. \A Q : SizeAt(L, Q) = SumFunctionOnSet(g, Q)
        BY DEF SizeAt
    <1> HIDE DEF g
    <1>4. ASSUME NEW Q \in SUBSET P PROVE SizeAt(L, Q) \in Nat /\ SizeAt(L, Q) <= SizeAt(L, P)
        <2>1. /\ SumFunctionOnSet(g, Q) \in Nat
              /\ SumFunctionOnSet(g, P \ Q) \in Nat
              /\ SumFunctionOnSet(g, P) = SumFunctionOnSet(g, P \ Q) + SumFunctionOnSet(g, Q)
            BY <1>1, <1>2, SumWithout
        <2>2. SumFunctionOnSet(g, Q) <= SumFunctionOnSet(g, P)
            BY <2>1
        <2> QED
            BY <1>3, <2>1, <2>2
    <1>5. ASSUME \A j, k \in 1 .. Len(L) : L[j] = L[k] => j = k
          PROVE  SizeAt(L, P) = SumSize(ItemsAt(L, P))
        <2>1. \A p, q \in P : L[p] = L[q] => p = q
            BY <1>5
        <2>2. SumFunctionOnSet(g, P) = SumFunctionOnSet(Size, {L[p] : p \in P})
            BY <1>1, <1>2, <2>1, SumImage
        <2> QED
            BY <1>3, <2>2, Zenon DEF SumSize, ItemsAt
    <1>6. ItemsAt(L, P) \in SUBSET Items
        BY <1>0 DEF ItemsAt
    <1> QED
        BY <1>4, <1>5, <1>6

\* The items that are removed were on the list; the loop visits only candidates.
LEMMA VictimFacts ==
    ASSUME NEW L \in Seq(Items), NEW owners, NEW required \in Int,
           NEW stop \in Stops(Victims(L, owners, required))
    PROVE  LET victims == Victims(L, owners, required)
               removed == Removed(victims, stop)
           IN  /\ victims \in SUBSET (1 .. Len(L))
               /\ removed \in SUBSET victims
               /\ stop = 0 => removed = victims
               /\ stop # 0 => stop \in 1 .. Len(L) /\ failures < MaxFailures
               /\ \A p \in victims : Owner[L[p]] \in owners
               /\ \A p \in victims, q \in 1 .. Len(L) :
                     q < p /\ Owner[L[q]] \in owners => q \in victims
    <1> DEFINE cands == Candidates(L, owners)
               victims == Victims(L, owners, required)
               before(p) == {r \in cands : r < p}
    <1>0. Len(L) \in Nat /\ DOMAIN L = 1 .. Len(L)
        BY ListFacts
    <1>1. cands \in SUBSET (1 .. Len(L)) /\ \A q \in 1 .. Len(L) : q \in cands <=> Owner[L[q]] \in owners
        BY <1>0 DEF Candidates
    <1>2. victims = {p \in cands : SizeAt(L, before(p)) < required}
        BY DEF Victims
    <1> HIDE DEF cands, victims
    <1>3. ASSUME NEW p \in victims, NEW q \in 1 .. Len(L), q < p, Owner[L[q]] \in owners
          PROVE  q \in victims
        <2>1. q \in cands /\ p \in cands /\ SizeAt(L, before(p)) < required /\ p \in 1 .. Len(L)
            BY <1>1, <1>2, <1>3
        <2>2. before(q) \in SUBSET before(p) /\ before(p) \in SUBSET (1 .. Len(L))
            BY <1>0, <1>1, <1>3, <2>1
        <2> HIDE DEF before
        <2>3. /\ SizeAt(L, before(q)) \in Nat /\ SizeAt(L, before(p)) \in Nat
              /\ SizeAt(L, before(q)) <= SizeAt(L, before(p))
            BY <2>2, SizeAtFacts
        <2>4. SizeAt(L, before(q)) < required
            BY <2>1, <2>3
        <2> QED
            BY <1>2, <2>1, <2>4
    <1>4. victims \in SUBSET (1 .. Len(L)) /\ \A p \in victims : Owner[L[p]] \in owners
        BY <1>1, <1>2
    <1>5. stop \in {0} \union IF failures < MaxFailures THEN victims ELSE {}
        BY DEF Stops, victims
    <1> QED
        BY <1>3, <1>4, <1>5 DEF Removed, victims

-----------------------------------------------------------------------------
(***************************************************************************)
(* spaceallocator: a step of the goroutine of item i                       *)
(***************************************************************************)
\* Item i goes to step s; other items only become absent, by the ItemRemover.
Moves(i, s) ==
    /\ step' \in [Items -> Steps]
    /\ step'[i] = s
    /\ \A j \in Items \ {i} : step'[j] = step[j] \/ (step[j] = "present" /\ step'[j] = "absent")

\* The steps an allocator counts.
Counting == {"partition", "granted", "stored", "release", "done"}

\* One if x is in X.
One(x, X) == IF x \in X THEN 1 ELSE 0

LEMMA MoveSets ==
    ASSUME NEW i \in Items, NEW s, Moves(i, s), NEW X, "absent" \notin X, "present" \notin X
    PROVE  {j \in Items : step'[j] \in X} =
               IF s \in X THEN {j \in Items : step[j] \in X} \union {i}
               ELSE {j \in Items : step[j] \in X} \ {i}
    BY DEF Moves

\* How the number of items in a set changes when item i comes, goes or stays.
LEMMA CountMove ==
    ASSUME NEW S \in SUBSET Items, NEW i \in Items, NEW T, NEW X, NEW old, NEW new,
           old \in X <=> i \in S,
           T = IF new \in X THEN S \union {i} ELSE S \ {i}
    PROVE  /\ Cardinality(S) \in Nat /\ Cardinality(T) \in Nat
           /\ Cardinality(T) = Cardinality(S) + One(new, X) - One(old, X)
    <1>1. /\ Cardinality(S) \in Nat
          /\ Cardinality(S \union {i}) = IF i \in S THEN Cardinality(S) ELSE Cardinality(S) + 1
          /\ Cardinality(S \ {i}) = IF i \in S THEN Cardinality(S) - 1 ELSE Cardinality(S)
          /\ i \in S => Cardinality(S) > 0
        BY CountFacts
    <1>2. CASE new \in X /\ old \in X
        BY <1>1, <1>2 DEF One
    <1>3. CASE new \in X /\ old \notin X
        BY <1>1, <1>3 DEF One
    <1>4. CASE new \notin X /\ old \in X
        BY <1>1, <1>4 DEF One
    <1>5. CASE new \notin X /\ old \notin X
        BY <1>1, <1>5 DEF One
    <1> QED
        BY <1>2, <1>3, <1>4, <1>5

\* The counts of the partition and of the allocators stay right when they change
\* with the step of the item.
LEMMA MoveCounts ==
    ASSUME SpaceInv, SpaceTypes', NEW i \in Items, NEW s \in Steps, Moves(i, s), UNCHANGED instance,
           instance[Owner[i]] = "open",
           part'.allocatorCount = part.allocatorCount, part'.partLimit = part.partLimit,
           part'.allocationCount
               = part.allocationCount + One(s, InProgress) - One(step[i], InProgress),
           \A a \in Allocators \ {Owner[i]} : alloc'[a].allocationCount = alloc[a].allocationCount,
           sizeLimit(Owner[i]) # 0 =>
               alloc'[Owner[i]].allocationCount
                   >= alloc[Owner[i]].allocationCount + One(s, Counting) - One(step[i], Counting)
    PROVE  AllocatorsCounted' /\ WorkIsOpen' /\ PartitionCountExact' /\ AllocationsCounted'
    <1>0. SpaceTypes /\ AllocatorsCounted /\ WorkIsOpen /\ PartitionCountExact /\ AllocationsCounted
        BY DEF SpaceInv
    <1>1. AllocatorsCounted'
        BY <1>0 DEF AllocatorsCounted, Opened
    <1>2. WorkIsOpen'
        BY <1>0, ItemFacts DEF WorkIsOpen, Moves
    <1>3. PartitionCountExact'
        <2> DEFINE work == {j \in Items : step[j] \in InProgress}
                   next == {j \in Items : step'[j] \in InProgress}
        <2>0. "absent" \notin InProgress /\ "present" \notin InProgress
            BY DEF InProgress
        <2>1. next = IF s \in InProgress THEN work \union {i} ELSE work \ {i}
            BY <2>0, MoveSets
        <2>2. work \in SUBSET Items /\ (step[i] \in InProgress <=> i \in work)
            OBVIOUS
        <2>4. part.allocationCount = Cardinality(work)
            BY <1>0 DEF PartitionCountExact
        <2> HIDE DEF work, next
        <2>5. Cardinality(next) = Cardinality(work) + One(s, InProgress) - One(step[i], InProgress)
            BY <2>1, <2>2, CountMove
        <2> QED
            BY <2>4, <2>5 DEF PartitionCountExact, InProgress, next
    <1>4. ASSUME NEW a \in Allocators, sizeLimit(a) # 0
          PROVE  Cardinality(Counted(a)') <= alloc'[a].allocationCount
        <2>1. /\ Counted(a) \in SUBSET Items /\ Cardinality(Counted(a)) <= alloc[a].allocationCount
              /\ alloc[a].allocationCount \in Nat /\ alloc'[a].allocationCount \in Nat
            BY <1>0, <1>4 DEF AllocationsCounted, Counted, SpaceTypes
        <2>2. CASE a # Owner[i]
            <3>1. Counted(a)' = Counted(a)
                BY <2>2 DEF Counted, Moves
            <3> QED
                BY <2>1, <2>2, <3>1
        <2>3. CASE a = Owner[i]
            <3>1. Counted(a)' = IF s \in Counting THEN Counted(a) \union {i} ELSE Counted(a) \ {i}
                BY <2>3 DEF Counted, Moves, Counting
            <3>2. step[i] \in Counting <=> i \in Counted(a)
                BY <2>3 DEF Counted, Counting
            <3>3. alloc'[a].allocationCount
                      >= alloc[a].allocationCount + One(s, Counting) - One(step[i], Counting)
                BY <1>4, <2>3
            <3>4. /\ Cardinality(Counted(a)) \in Nat /\ Cardinality(Counted(a)') \in Nat
                  /\ Cardinality(Counted(a)')
                        = Cardinality(Counted(a)) + One(s, Counting) - One(step[i], Counting)
                <4>1. PICK S \in SUBSET Items : S = Counted(a)
                    BY <2>1
                <4>2. PICK T : T = Counted(a)'
                    OBVIOUS
                <4>3. T = IF s \in Counting THEN S \union {i} ELSE S \ {i}
                    BY <3>1, <4>1, <4>2
                <4>4. step[i] \in Counting <=> i \in S
                    BY <3>2, <4>1
                <4>5. /\ Cardinality(S) \in Nat /\ Cardinality(T) \in Nat
                      /\ Cardinality(T) = Cardinality(S) + One(s, Counting) - One(step[i], Counting)
                    <5>1. \A X, old, new :
                              (old \in X <=> i \in S) /\ T = (IF new \in X THEN S \union {i} ELSE S \ {i})
                                  => /\ Cardinality(S) \in Nat /\ Cardinality(T) \in Nat
                                     /\ Cardinality(T) = Cardinality(S) + One(new, X) - One(old, X)
                        BY CountMove
                    <5> QED
                        BY <4>3, <4>4, <5>1
                <4> QED
                    BY <4>1, <4>2, <4>5
            <3>5. One(s, Counting) \in Nat /\ One(step[i], Counting) \in Nat
                BY DEF One
            <3> QED
                BY <2>1, <3>3, <3>4, <3>5
        <2> QED
            BY <2>2, <2>3
    <1>5. AllocationsCounted'
        BY <1>4 DEF AllocationsCounted, sizeLimit
    <1> QED
        BY <1>1, <1>2, <1>3, <1>5

LEMMA SingleMove ==
    ASSUME SpaceTypes, NEW i \in Items, NEW s \in Steps, step' = [step EXCEPT ![i] = s]
    PROVE  Moves(i, s) /\ \A j \in Items \ {i} : step'[j] = step[j]
    BY DEF SpaceTypes, Moves

\* What item i adds to the sum over S.
Weight(i, S) == IF i \in S THEN Size[i] ELSE 0

\* How a sum changes when item i comes, goes or stays.
LEMMA SumMove ==
    ASSUME NEW S \in SUBSET Items, NEW T \in SUBSET Items, NEW i \in Items,
           \A j \in Items \ {i} : j \in S <=> j \in T
    PROVE  /\ SumSize(S) \in Nat /\ SumSize(T) \in Nat /\ Weight(i, S) \in Nat /\ Weight(i, T) \in Nat
           /\ SumSize(T) + Weight(i, S) = SumSize(S) + Weight(i, T)
    <1> DEFINE U == S \ {i}
    <1>0. Size[i] \in Nat
        BY ItemFacts
    <1>1. U \in SUBSET Items /\ T \ {i} = U
        OBVIOUS
    <1>2. SumSize(S) = SumSize(U) + Weight(i, S) /\ SumSize(U) \in Nat
        <2>1. CASE i \in S
            BY <2>1, SumSizeFacts DEF Weight
        <2>2. CASE i \notin S
            <3>1. U = S
                BY <2>2
            <3> HIDE DEF U
            <3> QED
                BY <2>2, <3>1, SumSizeFacts DEF Weight
        <2> QED
            BY <2>1, <2>2
    <1> HIDE DEF U
    <1>3. SumSize(T) = SumSize(U) + Weight(i, T)
        <2>1. CASE i \in T
            BY <1>1, <2>1, SumSizeFacts DEF Weight
        <2>2. CASE i \notin T
            <3>1. U = T
                BY <1>1, <2>2
            <3> QED
                BY <1>2, <2>2, <3>1, SumSizeFacts DEF Weight
        <2> QED
            BY <2>1, <2>2
    <1>4. Weight(i, S) \in Nat /\ Weight(i, T) \in Nat
        BY <1>0 DEF Weight
    <1> QED
        BY <1>2, <1>3, <1>4, SumSizeFacts

LEMMA SmallerSum ==
    ASSUME NEW S \in SUBSET Items, NEW R \in SUBSET S
    PROVE  SumSize(R) \in Nat /\ SumSize(S) \in Nat /\ SumSize(R) <= SumSize(S)
    <1>1. /\ SumSize(R) \in Nat /\ SumSize(S \ R) \in Nat
          /\ SumSize(S) = SumSize(S \ R) + SumSize(R)
        BY SumSizeFacts
    <1> QED
        BY <1>1

\* A step of one item that does not touch the list of outdated items.
LEMMA MoveLists ==
    ASSUME SpaceInv, NEW i \in Items, NEW s \in Steps, step' = [step EXCEPT ![i] = s],
           part'.outdatedItems = part.outdatedItems, UNCHANGED failures,
           \A k \in 1 .. Len(part.outdatedItems) : part.outdatedItems[k] = i => step[i] # "present",
           \A j \in Items \ {i} : j \in disk' <=> j \in disk,
           failures = 0 =>
               /\ s \in {"absent", "partition", "granted", "release", "removed", "free"} => i \notin disk'
               /\ s \in {"present", "stored"} => i \in disk'
    PROVE  ListedIdle' /\ DiskFollowsSteps'
    <1>0. SpaceTypes /\ ListedIdle /\ DiskFollowsSteps
        BY DEF SpaceInv
    <1>1. step'[i] = s /\ \A j \in Items \ {i} : step'[j] = step[j]
        BY <1>0, SingleMove DEF Moves
    <1>2. part.outdatedItems \in Seq(Items)
        BY <1>0 DEF SpaceTypes
    <1>3. ListedIdle'
        <2> SUFFICES ASSUME failures = 0,
                            NEW k \in 1 .. Len(part.outdatedItems)
                     PROVE  step'[part.outdatedItems[k]] = "present"
            BY <1>0 DEF ListedIdle
        <2>1. step[part.outdatedItems[k]] = "present" /\ part.outdatedItems[k] \in Items
            BY <1>0, <1>2, ListFacts DEF ListedIdle
        <2> QED
            BY <1>1, <2>1
    <1>4. DiskFollowsSteps'
        BY <1>0, <1>1 DEF DiskFollowsSteps
    <1> QED
        BY <1>3, <1>4

\* How the sums of both accounts change in it.
LEMMA MoveSums ==
    ASSUME SpaceInv, SpaceTypes', NEW i \in Items, NEW s \in Steps, step' = [step EXCEPT ![i] = s],
           \A j \in Items \ {i} : j \in disk' <=> j \in disk
    PROVE  /\ Taken \in SUBSET Items /\ Taken' \in SUBSET Items
           /\ SumSize(Taken) \in Nat /\ SumSize(Taken') \in Nat
           /\ Weight(i, Taken) \in Nat /\ Weight(i, Taken') \in Nat
           /\ SumSize(Taken') + Weight(i, Taken) = SumSize(Taken) + Weight(i, Taken')
           /\ \A a \in Allocators :
                 /\ TakenFrom(a) \in SUBSET Items /\ TakenFrom(a)' \in SUBSET Items
                 /\ SumSize(TakenFrom(a)) \in Nat /\ SumSize(TakenFrom(a)') \in Nat
                 /\ Weight(i, TakenFrom(a)) \in Nat /\ Weight(i, TakenFrom(a)') \in Nat
                 /\ SumSize(TakenFrom(a)') + Weight(i, TakenFrom(a))
                       = SumSize(TakenFrom(a)) + Weight(i, TakenFrom(a)')
    <1>0. SpaceTypes
        BY DEF SpaceInv
    <1>1. \A j \in Items \ {i} : step'[j] = step[j]
        BY <1>0, SingleMove
    <1>2. PICK S \in SUBSET Items, T \in SUBSET Items : S = Taken /\ T = Taken'
        BY DEF Taken
    <1>3. \A j \in Items \ {i} : j \in S <=> j \in T
        BY <1>1, <1>2 DEF Taken
    <1>4. /\ SumSize(S) \in Nat /\ SumSize(T) \in Nat /\ Weight(i, S) \in Nat /\ Weight(i, T) \in Nat
          /\ SumSize(T) + Weight(i, S) = SumSize(S) + Weight(i, T)
        BY <1>3, SumMove
    <1>5. ASSUME NEW a \in Allocators
          PROVE  /\ TakenFrom(a) \in SUBSET Items /\ TakenFrom(a)' \in SUBSET Items
                 /\ SumSize(TakenFrom(a)) \in Nat /\ SumSize(TakenFrom(a)') \in Nat
                 /\ Weight(i, TakenFrom(a)) \in Nat /\ Weight(i, TakenFrom(a)') \in Nat
                 /\ SumSize(TakenFrom(a)') + Weight(i, TakenFrom(a))
                       = SumSize(TakenFrom(a)) + Weight(i, TakenFrom(a)')
        <2>2. PICK A \in SUBSET Items, B \in SUBSET Items : A = TakenFrom(a) /\ B = TakenFrom(a)'
            BY DEF TakenFrom
        <2>3. \A j \in Items \ {i} : j \in A <=> j \in B
            BY <1>1, <2>2 DEF TakenFrom
        <2>4. /\ SumSize(A) \in Nat /\ SumSize(B) \in Nat /\ Weight(i, A) \in Nat /\ Weight(i, B) \in Nat
              /\ SumSize(B) + Weight(i, A) = SumSize(A) + Weight(i, B)
            BY <2>3, SumMove
        <2> QED
            BY <2>2, <2>4
    <1> QED
        BY <1>2, <1>4, <1>5


\* The partition's account stays covered if it gives up what the item takes.
LEMMA MovePartition ==
    ASSUME SpaceInv, SpaceTypes', NEW i \in Items, NEW s \in Steps, step' = [step EXCEPT ![i] = s],
           \A j \in Items \ {i} : j \in disk' <=> j \in disk,
           part'.allocationCount > 0 /\ "part" \notin overlap' /\ failures' = 0 =>
               /\ part.allocationCount > 0 /\ "part" \notin overlap /\ failures = 0
               /\ part'.availableSize + Weight(i, Taken') <= part.availableSize + Weight(i, Taken)
    PROVE  PartitionCovered'
    <1>0. SpaceTypes /\ PartitionCovered
        BY DEF SpaceInv
    <1>1. /\ SumSize(Taken) \in Nat /\ SumSize(Taken') \in Nat
          /\ Weight(i, Taken) \in Nat /\ Weight(i, Taken') \in Nat
          /\ SumSize(Taken') + Weight(i, Taken) = SumSize(Taken) + Weight(i, Taken')
        BY MoveSums
    <1>2. part.availableSize \in Nat /\ part'.availableSize \in Nat /\ TotalSize \in Nat
        BY <1>0, ItemFacts DEF SpaceTypes
    <1>3. ASSUME part'.allocationCount > 0, "part" \notin overlap', failures' = 0
          PROVE  part'.availableSize + SumSize(Taken') <= TotalSize
        <2>1. part.availableSize + SumSize(Taken) <= TotalSize
            BY <1>0, <1>3 DEF PartitionCovered
        <2>2. part'.availableSize + Weight(i, Taken') <= part.availableSize + Weight(i, Taken)
            BY <1>3
        <2> QED
            BY <1>1, <1>2, <2>1, <2>2
    <1> QED
        BY <1>3 DEF PartitionCovered, SumSize

\* So does an allocator's.
LEMMA MoveAllocators ==
    ASSUME SpaceInv, SpaceTypes', NEW i \in Items, NEW s \in Steps, step' = [step EXCEPT ![i] = s],
           \A j \in Items \ {i} : j \in disk' <=> j \in disk,
           \A a \in Allocators :
               sizeLimit(a) # 0 /\ alloc'[a].allocationCount > 0 /\ a \notin overlap' /\ failures' = 0 =>
                   \/ SumSize(TakenFrom(a)') <= alloc'[a].allocatedSize
                   \/ /\ alloc[a].allocationCount > 0 /\ a \notin overlap /\ failures = 0
                      /\ alloc[a].allocatedSize + Weight(i, TakenFrom(a)')
                             <= alloc'[a].allocatedSize + Weight(i, TakenFrom(a))
    PROVE  AllocatorsCovered'
    <1>0. SpaceTypes /\ AllocatorsCovered
        BY DEF SpaceInv
    <1>3. ASSUME NEW a \in Allocators, sizeLimit(a) # 0, alloc'[a].allocationCount > 0,
                 a \notin overlap', failures' = 0
          PROVE  SumSize(TakenFrom(a)') <= alloc'[a].allocatedSize
        <2>1. CASE /\ alloc[a].allocationCount > 0 /\ a \notin overlap /\ failures = 0
                   /\ alloc[a].allocatedSize + Weight(i, TakenFrom(a)')
                          <= alloc'[a].allocatedSize + Weight(i, TakenFrom(a))
            <3>1. SumSize(TakenFrom(a)) <= alloc[a].allocatedSize
                BY <1>0, <1>3, <2>1 DEF AllocatorsCovered
            <3>2. /\ SumSize(TakenFrom(a)) \in Nat /\ SumSize(TakenFrom(a)') \in Nat
                  /\ Weight(i, TakenFrom(a)) \in Nat /\ Weight(i, TakenFrom(a)') \in Nat
                  /\ SumSize(TakenFrom(a)') + Weight(i, TakenFrom(a))
                        = SumSize(TakenFrom(a)) + Weight(i, TakenFrom(a)')
                BY MoveSums
            <3>3. alloc[a].allocatedSize \in Nat /\ alloc'[a].allocatedSize \in Nat
                BY <1>0 DEF SpaceTypes
            <3> QED
                BY <2>1, <3>1, <3>2, <3>3
        <2> QED
            BY <1>3, <2>1
    <1> QED
        BY <1>3 DEF AllocatorsCovered, SumSize, sizeLimit

LEMMA AddToSum ==
    ASSUME NEW S \in SUBSET Items, NEW i \in Items
    PROVE  SumSize(S) \in Nat /\ SumSize(S \union {i}) \in Nat /\ SumSize(S \union {i}) <= SumSize(S) + Size[i]
    <1>1. S \union {i} \in SUBSET Items /\ Size[i] \in Nat
        BY ItemFacts
    <1>2. CASE i \in S
        <2>1. S \union {i} = S
            BY <1>2
        <2>2. SumSize(S) \in Nat
            BY SumSizeFacts
        <2>3. SumSize(S \union {i}) = SumSize(S)
            BY <2>1, Zenon
        <2> QED
            BY <1>1, <2>2, <2>3
    <1>3. CASE i \notin S
        <2>1. SumSize(S) \in Nat /\ SumSize(S \union {i}) = SumSize(S) + Size[i]
            BY <1>3, SumSizeFacts
        <2> QED
            BY <1>1, <2>1
    <1> QED
        BY <1>2, <1>3

-----------------------------------------------------------------------------
(***************************************************************************)
(* spaceallocator: the actions, one by one                                 *)
(***************************************************************************)

\* Steps of the caller that no account sees.
LEMMA UnseenMove ==
    ASSUME SpaceInv, NEW i \in Items, NEW s \in Steps, step' = [step EXCEPT ![i] = s],
           UNCHANGED <<instance, part, alloc, failures, overlap>>,
           instance[Owner[i]] = "open", DiskFits', disk' \in SUBSET Items,
           s \in InProgress <=> step[i] \in InProgress, s \in Counting <=> step[i] \in Counting,
           \A k \in 1 .. Len(part.outdatedItems) : part.outdatedItems[k] = i => step[i] # "present",
           \A j \in Items \ {i} : j \in disk' <=> j \in disk,
           failures = 0 =>
               /\ s \in {"absent", "partition", "granted", "release", "removed", "free"} => i \notin disk'
               /\ s \in {"present", "stored"} => i \in disk',
           failures = 0 =>
               /\ i \in Taken <=> i \in Taken'
               /\ \A a \in Allocators : i \in TakenFrom(a) <=> i \in TakenFrom(a)'
    PROVE  SpaceInv'
    <1>0. SpaceTypes
        BY DEF SpaceInv
    <1>3. SpaceTypes'
        BY <1>0 DEF SpaceTypes
    <1>4. Moves(i, s)
        BY <1>0, SingleMove
    <1>5. AllocatorsCounted' /\ WorkIsOpen' /\ PartitionCountExact' /\ AllocationsCounted'
        <2>2. /\ One(s, InProgress) = One(step[i], InProgress) /\ One(step[i], InProgress) \in Nat
              /\ One(s, Counting) = One(step[i], Counting) /\ One(step[i], Counting) \in Nat
            BY DEF One
        <2>3. /\ part.allocationCount \in Nat /\ \A a \in Allocators : alloc[a].allocationCount \in Nat
              /\ Owner[i] \in Allocators
            BY <1>0, ItemFacts DEF SpaceTypes
        <2> QED
            BY <1>3, <1>4, <2>2, <2>3, MoveCounts
    <1>6. ListedIdle' /\ DiskFollowsSteps'
        BY MoveLists
    <1>8. PartitionCovered'
        <2>2. failures = 0 =>
                  part'.availableSize + Weight(i, Taken') <= part.availableSize + Weight(i, Taken)
            BY <1>0, ItemFacts DEF Weight, SpaceTypes
        <2> QED
            BY <1>3, <2>2, MovePartition
    <1>9. AllocatorsCovered'
        <2>1. ASSUME NEW a \in Allocators, failures = 0
              PROVE  alloc[a].allocatedSize + Weight(i, TakenFrom(a)')
                         <= alloc'[a].allocatedSize + Weight(i, TakenFrom(a))
            BY <1>0, <2>1, ItemFacts DEF Weight, SpaceTypes
        <2> QED
            BY <1>3, <2>1, MoveAllocators
    <1> QED
        BY <1>3, <1>5, <1>6, <1>8, <1>9 DEF SpaceInv

LEMMA StoreKeeps ==
    ASSUME SpaceInv, NEW i \in Items, Store(i)
    PROVE  SpaceInv'
    <1>0. SpaceTypes /\ WorkIsOpen /\ DiskFits
        BY DEF SpaceInv
    <1>1. /\ step' = [step EXCEPT ![i] = "stored"] /\ step[i] = "granted" /\ "stored" \in Steps
          /\ disk' = disk \union {i} /\ UNCHANGED <<instance, part, alloc, failures, overlap>>
        BY DEF Store, Steps, InProgress
    <1>2. step'[i] = "stored" /\ disk' \in SUBSET Items /\ instance[Owner[i]] = "open"
        BY <1>0, <1>1 DEF SpaceTypes, WorkIsOpen
    <1>3. DiskFits'
        <2>1. disk \in SUBSET Items /\ Size[i] <= TotalSize - SumSize(disk)
            BY <1>0 DEF SpaceTypes, Store, GetAvailableSize
        <2>2. /\ SumSize(disk) \in Nat /\ SumSize(disk \union {i}) \in Nat
              /\ SumSize(disk \union {i}) <= SumSize(disk) + Size[i]
            BY <2>1, AddToSum
        <2>3. SumSize(disk \union {i}) <= TotalSize
            BY <2>1, <2>2, ItemFacts
        <2> QED
            BY <1>1, <2>3 DEF DiskFits, SumSize
    <1>4. "stored" \in InProgress /\ "granted" \in InProgress /\ "stored" \in Counting /\ "granted" \in Counting
        BY DEF InProgress, Counting
    <1>5. i \in Taken /\ i \in Taken' /\ \A a \in Allocators : i \in TakenFrom(a) <=> i \in TakenFrom(a)'
        BY <1>1, <1>2 DEF Taken, TakenFrom
    <1> QED
        BY <1>1, <1>2, <1>3, <1>4, <1>5, UnseenMove

LEMMA SmallerDiskFits ==
    ASSUME SpaceInv, disk' \in SUBSET disk
    PROVE  DiskFits'
    <1>1. disk \in SUBSET Items /\ SumSize(disk) <= TotalSize
        BY DEF SpaceInv, SpaceTypes, DiskFits
    <1>2. SumSize(disk') \in Nat /\ SumSize(disk) \in Nat /\ SumSize(disk') <= SumSize(disk)
        BY <1>1, SmallerSum
    <1>3. SumSize(disk') <= TotalSize
        BY <1>1, <1>2, ItemFacts
    <1> QED
        BY <1>3 DEF DiskFits, SumSize

LEMMA DiscardKeeps ==
    ASSUME SpaceInv, NEW i \in Items, Discard(i)
    PROVE  SpaceInv'
    <1>0. SpaceTypes /\ WorkIsOpen
        BY DEF SpaceInv
    <1>1. /\ step' = [step EXCEPT ![i] = "granted"] /\ step[i] = "stored" /\ "granted" \in Steps
          /\ disk' = disk \ {i} /\ UNCHANGED <<instance, part, alloc, failures, overlap>>
        BY DEF Discard, Steps, InProgress
    <1>2. step'[i] = "granted" /\ disk' \in SUBSET Items /\ instance[Owner[i]] = "open"
        BY <1>0, <1>1 DEF SpaceTypes, WorkIsOpen
    <1>3. DiskFits'
        BY <1>1, SmallerDiskFits
    <1>4. "stored" \in InProgress /\ "granted" \in InProgress /\ "stored" \in Counting /\ "granted" \in Counting
        BY DEF InProgress, Counting
    <1>5. failures = 0 =>
              /\ i \in Taken <=> i \in Taken'
              /\ \A a \in Allocators : i \in TakenFrom(a) <=> i \in TakenFrom(a)'
        BY <1>1, <1>2 DEF SpaceInv, DiskFollowsSteps, Taken, TakenFrom
    <1> QED
        BY <1>1, <1>2, <1>3, <1>4, <1>5, UnseenMove

LEMMA AcceptKeeps ==
    ASSUME SpaceInv, NEW i \in Items, Accept(i)
    PROVE  SpaceInv'
    <1>0. SpaceTypes /\ WorkIsOpen /\ DiskFits
        BY DEF SpaceInv
    <1>1. /\ step' = [step EXCEPT ![i] = "done"] /\ step[i] = "stored" /\ "done" \in Steps
          /\ UNCHANGED <<instance, part, alloc, disk, failures, overlap>>
        BY DEF Accept, Steps, InProgress
    <1>2. step'[i] = "done" /\ disk' \in SUBSET Items /\ instance[Owner[i]] = "open"
        BY <1>0, <1>1 DEF SpaceTypes, WorkIsOpen
    <1>3. DiskFits'
        BY <1>0, <1>1 DEF DiskFits, SumSize
    <1>4. "stored" \in InProgress /\ "done" \in InProgress /\ "stored" \in Counting /\ "done" \in Counting
        BY DEF InProgress, Counting
    <1>5. failures = 0 =>
              /\ i \in Taken <=> i \in Taken'
              /\ \A a \in Allocators : i \in TakenFrom(a) <=> i \in TakenFrom(a)'
        BY <1>1, <1>2 DEF Taken, TakenFrom
    <1> QED
        BY <1>1, <1>2, <1>3, <1>4, <1>5, UnseenMove

LEMMA OwnerRemovesKeeps ==
    ASSUME SpaceInv, NEW i \in Items, OwnerRemoves(i)
    PROVE  SpaceInv'
    <1>0. SpaceTypes /\ WorkIsOpen
        BY DEF SpaceInv
    <1>1. /\ step' = [step EXCEPT ![i] = "removed"] /\ step[i] = "present" /\ "removed" \in Steps
          /\ disk' = disk \ {i} /\ UNCHANGED <<instance, part, alloc, failures, overlap>>
          /\ i \notin ToSet(part.outdatedItems) /\ instance[Owner[i]] = "open"
        BY DEF OwnerRemoves, Steps, InProgress
    <1>2. step'[i] = "removed" /\ disk' \in SUBSET Items
        BY <1>0, <1>1 DEF SpaceTypes, WorkIsOpen
    <1>3. DiskFits'
        BY <1>1, SmallerDiskFits
    <1>4. /\ "present" \notin InProgress /\ "removed" \notin InProgress
          /\ "present" \notin Counting /\ "removed" \notin Counting
        BY DEF InProgress, Counting
    <1>5. failures = 0 =>
              /\ i \in Taken <=> i \in Taken'
              /\ \A a \in Allocators : i \in TakenFrom(a) <=> i \in TakenFrom(a)'
        BY <1>1, <1>2 DEF SpaceInv, DiskFollowsSteps, Taken, TakenFrom
    <1>6. \A k \in 1 .. Len(part.outdatedItems) : part.outdatedItems[k] # i
        <2>1. part.outdatedItems \in Seq(Items)
            BY <1>0 DEF SpaceTypes
        <2> QED
            BY <1>1, <2>1, ListFacts DEF ToSet
    <1> QED
        BY <1>1, <1>2, <1>3, <1>4, <1>5, <1>6, UnseenMove

\* The first half of Release and of FreeSpace: the allocator's account.
LEMMA FreeInAllocatorKeeps ==
    ASSUME SpaceInv, NEW i \in Items, ReleaseInAllocator(i) \/ FreeSpaceInAllocator(i)
    PROVE  SpaceInv'
    <1> DEFINE o == Owner[i]
    <1>0. SpaceTypes /\ WorkIsOpen /\ DiskFits /\ DiskFollowsSteps
        BY DEF SpaceInv
    <1>1. PICK s \in {"release", "free"} :
              /\ step' = [step EXCEPT ![i] = s]
              /\ (s = "release" /\ step[i] = "granted") \/ (s = "free" /\ step[i] = "removed")
        BY DEF ReleaseInAllocator, FreeSpaceInAllocator
    <1>2. /\ alloc' = [alloc EXCEPT ![o] = CreditAllocator(o, Size[i])]
          /\ UNCHANGED <<instance, part, disk, failures, overlap>>
        BY DEF ReleaseInAllocator, FreeSpaceInAllocator, freeInAllocator
    <1>3. s \in Steps /\ step'[i] = s /\ instance[o] = "open"
        BY <1>0, <1>1 DEF Steps, InProgress, SpaceTypes, WorkIsOpen
    <1>4. o \in Allocators /\ Size[i] \in Nat
        BY ItemFacts
    <1>5. /\ alloc[o] \in [allocationCount : Nat, allocatedSize : Nat]
          /\ CreditAllocator(o, Size[i]) \in [allocationCount : Nat, allocatedSize : Nat]
          /\ CreditAllocator(o, Size[i]).allocationCount = alloc[o].allocationCount
          /\ sizeLimit(o) # 0 /\ alloc[o].allocationCount > 0 =>
                 alloc[o].allocatedSize <= CreditAllocator(o, Size[i]).allocatedSize + Size[i]
        <2>1. alloc[o] \in [allocationCount : Nat, allocatedSize : Nat]
            BY <1>0, <1>4 DEF SpaceTypes
        <2> HIDE DEF o
        <2> QED
            BY <1>4, <2>1 DEF CreditAllocator, Minus
    <1> HIDE DEF o
    <1>6. /\ alloc' \in [Allocators -> [allocationCount : Nat, allocatedSize : Nat]]
          /\ alloc'[o] = CreditAllocator(o, Size[i])
          /\ \A a \in Allocators \ {o} : alloc'[a] = alloc[a]
          /\ \A a \in Allocators : alloc'[a].allocationCount = alloc[a].allocationCount
        BY <1>0, <1>2, <1>4, <1>5 DEF SpaceTypes
    <1>7. SpaceTypes'
        BY <1>0, <1>1, <1>2, <1>3, <1>6 DEF SpaceTypes
    <1>8. AllocatorsCounted' /\ WorkIsOpen' /\ PartitionCountExact' /\ AllocationsCounted'
        <2>1. Moves(i, s)
            BY <1>0, <1>1, <1>3, SingleMove
        <2>2. /\ One(s, InProgress) = One(step[i], InProgress) /\ One(step[i], InProgress) \in Nat
              /\ One(s, Counting) = One(step[i], Counting) /\ One(step[i], Counting) \in Nat
            BY <1>1 DEF One, InProgress, Counting
        <2>3. part.allocationCount \in Nat /\ \A a \in Allocators : alloc[a].allocationCount \in Nat
            BY <1>0 DEF SpaceTypes
        <2> QED
            BY <1>2, <1>3, <1>4, <1>6, <1>7, <2>1, <2>2, <2>3, MoveCounts DEF o
    <1>9. failures = 0 => i \notin disk
        BY <1>0, <1>1 DEF DiskFollowsSteps
    <1>10. ListedIdle' /\ DiskFollowsSteps'
        BY <1>1, <1>2, <1>3, <1>9, MoveLists
    <1>11. DiskFits'
        BY <1>0, <1>2 DEF DiskFits, SumSize
    <1>12. PartitionCovered'
        <2>1. part.availableSize + Weight(i, Taken') <= part.availableSize + Weight(i, Taken)
            <3>1. i \in Taken
                BY <1>1 DEF Taken
            <3>2. i \in Taken'
                BY <1>1, <1>3 DEF Taken
            <3> QED
                BY <1>0, <1>4, <3>1, <3>2 DEF Weight, SpaceTypes
        <2> QED
            BY <1>1, <1>2, <1>3, <1>7, <2>1, MovePartition
    <1>13. AllocatorsCovered'
        <2>1. ASSUME NEW a \in Allocators, sizeLimit(a) # 0, alloc[a].allocationCount > 0, failures = 0
              PROVE  alloc[a].allocatedSize + Weight(i, TakenFrom(a)')
                         <= alloc'[a].allocatedSize + Weight(i, TakenFrom(a))
            <3>1. i \notin TakenFrom(a)'
                BY <1>1, <1>2, <1>3, <1>9, <2>1 DEF TakenFrom
            <3>2. CASE a = o
                <4>1. i \in TakenFrom(a)
                    BY <1>1, <3>2 DEF TakenFrom, o
                <4> QED
                    BY <1>4, <1>5, <1>6, <2>1, <3>1, <3>2, <4>1 DEF Weight
            <3>3. CASE a # o
                <4>1. i \notin TakenFrom(a)
                    BY <3>3 DEF TakenFrom, o
                <4>2. alloc'[a] = alloc[a] /\ alloc[a].allocatedSize \in Nat
                    BY <1>0, <1>6, <3>3 DEF SpaceTypes
                <4> QED
                    BY <3>1, <4>1, <4>2 DEF Weight
            <3> QED
                BY <3>2, <3>3
        <2> QED
            BY <1>1, <1>2, <1>3, <1>6, <1>7, <2>1, MoveAllocators
    <1> QED
        BY <1>7, <1>8, <1>10, <1>11, <1>12, <1>13 DEF SpaceInv

\* The second half: the partition's account.
LEMMA FreeInPartitionKeeps ==
    ASSUME SpaceInv, NEW i \in Items, ReleaseInPartition(i) \/ FreeSpaceInPartition(i)
    PROVE  SpaceInv'
    <1>0. SpaceTypes /\ WorkIsOpen /\ DiskFits /\ DiskFollowsSteps
        BY DEF SpaceInv
    <1>1. PICK s \in {"done", "absent"} :
              /\ step' = [step EXCEPT ![i] = s]
              /\ (s = "done" /\ step[i] = "release") \/ (s = "absent" /\ step[i] = "free")
        BY DEF ReleaseInPartition, FreeSpaceInPartition
    <1>2. /\ part' = [part EXCEPT !.availableSize =
                         IF part.allocationCount > 0 THEN part.availableSize + Size[i]
                         ELSE part.availableSize]
          /\ UNCHANGED <<instance, alloc, disk, failures, overlap>>
        BY DEF ReleaseInPartition, FreeSpaceInPartition, freeInPartition
    <1>3. s \in Steps /\ step'[i] = s /\ instance[Owner[i]] = "open"
        BY <1>0, <1>1 DEF Steps, InProgress, SpaceTypes, WorkIsOpen
    <1>4. Owner[i] \in Allocators /\ Size[i] \in Nat
        BY ItemFacts
    <1>5. /\ part' \in [allocatorCount : Nat, allocationCount : Nat, availableSize : Nat,
                        outdatedItems : Seq(Items), partLimit : 0 .. 100]
          /\ part'.allocatorCount = part.allocatorCount /\ part'.partLimit = part.partLimit
          /\ part'.allocationCount = part.allocationCount /\ part'.outdatedItems = part.outdatedItems
          /\ part.allocationCount > 0 => part'.availableSize = part.availableSize + Size[i]
          /\ part.availableSize \in Nat /\ part.allocationCount \in Nat
        <2>1. /\ part \in [allocatorCount : Nat, allocationCount : Nat, availableSize : Nat,
                           outdatedItems : Seq(Items), partLimit : 0 .. 100]
              /\ part.availableSize \in Nat /\ part.allocationCount \in Nat
            BY <1>0 DEF SpaceTypes
        <2>2. PICK x \in Nat : /\ part' = [part EXCEPT !.availableSize = x]
                               /\ part.allocationCount > 0 => x = part.availableSize + Size[i]
            <3>1. CASE part.allocationCount > 0
                <4>1. part.availableSize + Size[i] \in Nat
                    BY <1>4, <2>1
                <4>2. part' = [part EXCEPT !.availableSize = part.availableSize + Size[i]]
                    BY <1>2, <3>1, Zenon
                <4> QED
                    BY <4>1, <4>2, Zenon
            <3>2. CASE ~ (part.allocationCount > 0)
                <4>1. part' = [part EXCEPT !.availableSize = part.availableSize]
                    BY <1>2, <3>2, Zenon
                <4> QED
                    BY <2>1, <3>2, <4>1, Zenon
            <3> QED
                BY <3>1, <3>2
        <2> QED
            BY <2>1, <2>2
    <1>7. SpaceTypes'
        BY <1>0, <1>1, <1>2, <1>3, <1>5 DEF SpaceTypes
    <1>8. AllocatorsCounted' /\ WorkIsOpen' /\ PartitionCountExact' /\ AllocationsCounted'
        <2>1. Moves(i, s)
            BY <1>0, <1>1, <1>3, SingleMove
        <2>2. /\ One(s, InProgress) = One(step[i], InProgress) /\ One(step[i], InProgress) \in Nat
              /\ One(s, Counting) = One(step[i], Counting) /\ One(step[i], Counting) \in Nat
            BY <1>1 DEF One, InProgress, Counting
        <2>3. \A a \in Allocators : alloc[a].allocationCount \in Nat
            BY <1>0 DEF SpaceTypes
        <2> QED
            BY <1>2, <1>3, <1>4, <1>5, <1>7, <2>1, <2>2, <2>3, MoveCounts
    <1>9. failures = 0 => i \notin disk
        BY <1>0, <1>1 DEF DiskFollowsSteps
    <1>10. ListedIdle' /\ DiskFollowsSteps'
        BY <1>1, <1>2, <1>3, <1>5, <1>9, MoveLists
    <1>11. DiskFits'
        BY <1>0, <1>2 DEF DiskFits, SumSize
    <1>12. PartitionCovered'
        <2>1. ASSUME part.allocationCount > 0, failures = 0
              PROVE  part'.availableSize + Weight(i, Taken') <= part.availableSize + Weight(i, Taken)
            <3>1. i \in Taken
                BY <1>1 DEF Taken
            <3>2. i \notin Taken'
                BY <1>1, <1>2, <1>3, <1>9, <2>1 DEF Taken
            <3> QED
                BY <1>4, <1>5, <2>1, <3>1, <3>2 DEF Weight
        <2> QED
            BY <1>1, <1>2, <1>3, <1>5, <1>7, <2>1, MovePartition
    <1>13. AllocatorsCovered'
        <2>1. ASSUME NEW a \in Allocators, failures = 0
              PROVE  alloc[a].allocatedSize + Weight(i, TakenFrom(a)')
                         <= alloc'[a].allocatedSize + Weight(i, TakenFrom(a))
            <3>1. i \notin TakenFrom(a)' /\ i \notin TakenFrom(a)
                BY <1>1, <1>2, <1>3, <1>9, <2>1 DEF TakenFrom
            <3>2. alloc'[a] = alloc[a] /\ alloc[a].allocatedSize \in Nat
                BY <1>0, <1>2 DEF SpaceTypes
            <3> QED
                BY <3>1, <3>2 DEF Weight
        <2> QED
            BY <1>1, <1>2, <1>3, <1>7, <2>1, MoveAllocators
    <1> QED
        BY <1>7, <1>8, <1>10, <1>11, <1>12, <1>13 DEF SpaceInv

\* Accept and Release end the allocation in the allocator's account ...
LEMMA DoneInAllocatorKeeps ==
    ASSUME SpaceInv, NEW i \in Items, DoneInAllocator(i)
    PROVE  SpaceInv'
    <1> DEFINE o == Owner[i]
    <1>0. SpaceTypes /\ WorkIsOpen /\ DiskFits /\ AllocationsCounted
        BY DEF SpaceInv
    <1>1. /\ step' = [step EXCEPT ![i] = "doneInPartition"] /\ step[i] = "done"
          /\ alloc' = [alloc EXCEPT ![o].allocationCount = IF sizeLimit(o) = 0 THEN @ ELSE @ - 1]
          /\ UNCHANGED <<instance, part, disk, failures, overlap>>
        BY DEF DoneInAllocator
    <1>2. "doneInPartition" \in Steps /\ step'[i] = "doneInPartition" /\ instance[o] = "open"
        BY <1>0, <1>1 DEF Steps, InProgress, SpaceTypes, WorkIsOpen
    <1>3. o \in Allocators /\ Size[i] \in Nat
        BY ItemFacts
    <1>4. /\ alloc[o] \in [allocationCount : Nat, allocatedSize : Nat]
          /\ sizeLimit(o) # 0 => alloc[o].allocationCount >= 1
        <2>1. alloc[o] \in [allocationCount : Nat, allocatedSize : Nat]
            BY <1>0, <1>3 DEF SpaceTypes
        <2>2. Counted(o) \in SUBSET Items /\ i \in Counted(o)
            BY <1>1 DEF Counted
        <2>3. Cardinality(Counted(o)) \in Nat /\ Cardinality(Counted(o)) > 0
            BY <2>2, CountFacts
        <2>4. sizeLimit(o) # 0 => Cardinality(Counted(o)) <= alloc[o].allocationCount
            BY <1>0, <1>3 DEF AllocationsCounted
        <2> QED
            BY <2>1, <2>3, <2>4
    <1> HIDE DEF o
    <1>5. /\ alloc' \in [Allocators -> [allocationCount : Nat, allocatedSize : Nat]]
          /\ \A a \in Allocators \ {o} : alloc'[a] = alloc[a]
          /\ \A a \in Allocators : alloc'[a].allocatedSize = alloc[a].allocatedSize
          /\ sizeLimit(o) # 0 => alloc'[o].allocationCount = alloc[o].allocationCount - 1
          /\ \A a \in Allocators : alloc[a].allocationCount \in Nat /\ alloc'[a].allocationCount <= alloc[a].allocationCount
        <2>0. alloc \in [Allocators -> [allocationCount : Nat, allocatedSize : Nat]]
            BY <1>0 DEF SpaceTypes
        <2>1. CASE sizeLimit(o) = 0
            BY <1>1, <1>3, <2>0, <2>1
        <2>2. CASE sizeLimit(o) # 0
            <3>1. alloc[o].allocationCount - 1 \in Nat
                BY <1>4, <2>2
            <3> QED
                BY <1>1, <1>3, <1>4, <2>0, <2>2, <3>1
        <2> QED
            BY <2>1, <2>2
    <1>7. SpaceTypes'
        BY <1>0, <1>1, <1>2, <1>5 DEF SpaceTypes
    <1>8. AllocatorsCounted' /\ WorkIsOpen' /\ PartitionCountExact' /\ AllocationsCounted'
        <2>1. Moves(i, "doneInPartition")
            BY <1>0, <1>1, <1>2, SingleMove
        <2>2. /\ One("doneInPartition", InProgress) = 1 /\ One(step[i], InProgress) = 1
              /\ One("doneInPartition", Counting) = 0 /\ One(step[i], Counting) = 1
            BY <1>1 DEF One, InProgress, Counting
        <2>3. part.allocationCount \in Nat
            BY <1>0 DEF SpaceTypes
        <2> QED
            BY <1>1, <1>2, <1>3, <1>5, <1>7, <2>1, <2>2, <2>3, MoveCounts DEF o
    <1>10. ListedIdle' /\ DiskFollowsSteps'
        BY <1>1, <1>2, MoveLists
    <1>11. DiskFits'
        BY <1>0, <1>1 DEF DiskFits, SumSize
    <1>12. PartitionCovered'
        <2>1. i \in Taken <=> i \in Taken'
            BY <1>1, <1>2 DEF Taken
        <2>2. part.availableSize + Weight(i, Taken') <= part.availableSize + Weight(i, Taken)
            BY <1>0, <1>3, <2>1 DEF Weight, SpaceTypes
        <2> QED
            BY <1>1, <1>2, <1>7, <2>2, MovePartition
    <1>13. AllocatorsCovered'
        <2>1. ASSUME NEW a \in Allocators
              PROVE  alloc[a].allocatedSize + Weight(i, TakenFrom(a)')
                         <= alloc'[a].allocatedSize + Weight(i, TakenFrom(a))
            <3>1. i \in TakenFrom(a) <=> i \in TakenFrom(a)'
                BY <1>1, <1>2 DEF TakenFrom
            <3> QED
                BY <1>0, <1>3, <1>5, <3>1 DEF Weight, SpaceTypes
        <2>2. \A a \in Allocators : alloc'[a].allocationCount > 0 => alloc[a].allocationCount > 0
            BY <1>5, <1>7 DEF SpaceTypes
        <2> QED
            BY <1>1, <1>2, <1>7, <2>1, <2>2, MoveAllocators
    <1> QED
        BY <1>7, <1>8, <1>10, <1>11, <1>12, <1>13 DEF SpaceInv

\* ... and in the partition's.
LEMMA DoneInPartitionKeeps ==
    ASSUME SpaceInv, NEW i \in Items, DoneInPartition(i)
    PROVE  SpaceInv'
    <1>0. SpaceTypes /\ WorkIsOpen /\ DiskFits /\ PartitionCountExact
        BY DEF SpaceInv
    <1>1. PICK s \in {"present", "absent"} : step' = [step EXCEPT ![i] = s] /\ (s = "present" <=> i \in disk)
        BY DEF DoneInPartition
    <1>2. /\ step[i] = "doneInPartition"
          /\ part' = [part EXCEPT !.allocationCount = part.allocationCount - 1]
          /\ UNCHANGED <<instance, alloc, disk, failures, overlap>>
        BY DEF DoneInPartition, allocateDone
    <1>3. s \in Steps /\ step'[i] = s /\ instance[Owner[i]] = "open"
        BY <1>0, <1>1, <1>2 DEF Steps, InProgress, SpaceTypes, WorkIsOpen
    <1>4. Owner[i] \in Allocators /\ Size[i] \in Nat
        BY ItemFacts
    <1>5. part.allocationCount >= 1 /\ part.allocationCount \in Nat
        <2> DEFINE work == {j \in Items : step[j] \in InProgress}
        <2>1. work \in SUBSET Items /\ i \in work
            BY <1>2 DEF InProgress
        <2>2. Cardinality(work) = part.allocationCount
            BY <1>0 DEF PartitionCountExact
        <2> HIDE DEF work
        <2>3. Cardinality(work) \in Nat /\ Cardinality(work) > 0
            BY <2>1, CountFacts
        <2> QED
            BY <2>2, <2>3
    <1>6. /\ part' \in [allocatorCount : Nat, allocationCount : Nat, availableSize : Nat,
                        outdatedItems : Seq(Items), partLimit : 0 .. 100]
          /\ part'.allocatorCount = part.allocatorCount /\ part'.partLimit = part.partLimit
          /\ part'.allocationCount = part.allocationCount - 1 /\ part'.outdatedItems = part.outdatedItems
          /\ part'.availableSize = part.availableSize /\ part.availableSize \in Nat
        <2>1. part.allocationCount - 1 \in Nat
            BY <1>5
        <2> QED
            BY <1>0, <1>2, <2>1 DEF SpaceTypes
    <1>7. SpaceTypes'
        BY <1>0, <1>1, <1>2, <1>3, <1>6 DEF SpaceTypes
    <1>8. AllocatorsCounted' /\ WorkIsOpen' /\ PartitionCountExact' /\ AllocationsCounted'
        <2>1. Moves(i, s)
            BY <1>0, <1>1, <1>3, SingleMove
        <2>2. /\ One(s, InProgress) = 0 /\ One(step[i], InProgress) = 1
              /\ One(s, Counting) = 0 /\ One(step[i], Counting) = 0
            BY <1>1, <1>2 DEF One, InProgress, Counting
        <2>3. \A a \in Allocators : alloc[a].allocationCount \in Nat
            BY <1>0 DEF SpaceTypes
        <2> QED
            BY <1>2, <1>3, <1>4, <1>5, <1>6, <1>7, <2>1, <2>2, <2>3, MoveCounts
    <1>10. ListedIdle' /\ DiskFollowsSteps'
        BY <1>1, <1>2, <1>3, <1>6, MoveLists
    <1>11. DiskFits'
        BY <1>0, <1>2 DEF DiskFits, SumSize
    <1>12. PartitionCovered'
        <2>1. i \in Taken <=> i \in Taken'
            BY <1>1, <1>2, <1>3 DEF Taken
        <2>2. part'.availableSize + Weight(i, Taken') <= part.availableSize + Weight(i, Taken)
            BY <1>4, <1>6, <2>1 DEF Weight
        <2>3. part.allocationCount > 0
            BY <1>5
        <2> QED
            BY <1>1, <1>2, <1>3, <1>7, <2>2, <2>3, MovePartition
    <1>13. AllocatorsCovered'
        <2>1. ASSUME NEW a \in Allocators
              PROVE  alloc[a].allocatedSize + Weight(i, TakenFrom(a)')
                         <= alloc'[a].allocatedSize + Weight(i, TakenFrom(a))
            <3>1. i \in TakenFrom(a) <=> i \in TakenFrom(a)'
                BY <1>1, <1>2, <1>3 DEF TakenFrom
            <3> QED
                BY <1>0, <1>2, <1>4, <3>1 DEF Weight, SpaceTypes
        <2> QED
            BY <1>1, <1>2, <1>3, <1>7, <2>1, MoveAllocators
    <1> QED
        BY <1>7, <1>8, <1>10, <1>11, <1>12, <1>13 DEF SpaceInv

\* Steps that change nothing but the list of outdated items.
LEMMA ListChange ==
    ASSUME SpaceInv, NEW L \in Seq(Items), part' = [part EXCEPT !.outdatedItems = L],
           UNCHANGED <<instance, alloc, disk, step, failures, overlap>>,
           failures = 0 => /\ \A j, k \in 1 .. Len(L) : L[j] = L[k] => j = k
                           /\ \A k \in 1 .. Len(L) : step[L[k]] = "present"
    PROVE  SpaceInv'
    <1>0. /\ SpaceTypes /\ AllocatorsCounted /\ WorkIsOpen /\ PartitionCountExact /\ AllocationsCounted
          /\ DiskFits /\ ListedIdle /\ DiskFollowsSteps /\ PartitionCovered /\ AllocatorsCovered
        BY DEF SpaceInv
    <1>1. /\ part' \in [allocatorCount : Nat, allocationCount : Nat, availableSize : Nat,
                        outdatedItems : Seq(Items), partLimit : 0 .. 100]
          /\ part'.allocatorCount = part.allocatorCount /\ part'.partLimit = part.partLimit
          /\ part'.allocationCount = part.allocationCount /\ part'.outdatedItems = L
          /\ part'.availableSize = part.availableSize
        BY <1>0 DEF SpaceTypes
    <1>2. SpaceTypes'
        BY <1>0, <1>1 DEF SpaceTypes
    <1>3. AllocatorsCounted' /\ WorkIsOpen' /\ DiskFits' /\ DiskFollowsSteps'
        BY <1>0, <1>1 DEF AllocatorsCounted, Opened, WorkIsOpen, DiskFits, SumSize, DiskFollowsSteps
    <1>4. PartitionCountExact' /\ AllocationsCounted'
        BY <1>0, <1>1 DEF PartitionCountExact, AllocationsCounted, Counted, sizeLimit
    <1>5. ListedIdle'
        BY <1>1 DEF ListedIdle
    <1>6. PartitionCovered' /\ AllocatorsCovered'
        BY <1>0, <1>1 DEF PartitionCovered, AllocatorsCovered, Taken, TakenFrom, SumSize, sizeLimit
    <1> QED
        BY <1>2, <1>3, <1>4, <1>5, <1>6 DEF SpaceInv

LEMMA AddOutdatedItemKeeps ==
    ASSUME SpaceInv, NEW i \in Items, AddOutdatedItem(i)
    PROVE  SpaceInv'
    <1> DEFINE L == part.outdatedItems
    <1>1. L \in Seq(Items) /\ ListedIdle
        BY DEF SpaceInv, SpaceTypes
    <1>2. /\ step[i] = "present" /\ i \notin ToSet(L) /\ part' = [part EXCEPT !.outdatedItems = Append(L, i)]
          /\ UNCHANGED <<instance, alloc, disk, step, failures, overlap>>
        BY DEF AddOutdatedItem
    <1>3. failures = 0 => /\ \A j, k \in 1 .. Len(L) : L[j] = L[k] => j = k
                          /\ \A k \in 1 .. Len(L) : step[L[k]] = "present"
        BY <1>1 DEF ListedIdle
    <1>4. \A k \in 1 .. Len(L) : L[k] # i
        BY <1>1, <1>2, ListFacts DEF ToSet
    <1> HIDE DEF L
    <1>5. /\ Append(L, i) \in Seq(Items) /\ Len(Append(L, i)) = Len(L) + 1 /\ Len(L) \in Nat
          /\ \A j \in 1 .. Len(L) : Append(L, i)[j] = L[j]
          /\ Append(L, i)[Len(L) + 1] = i
        BY <1>1, AppendProps, ListFacts
    <1>6. PICK M \in Seq(Items) : M = Append(L, i)
        BY <1>5
    <1>7. failures = 0 => /\ \A j, k \in 1 .. Len(M) : M[j] = M[k] => j = k
                          /\ \A k \in 1 .. Len(M) : step[M[k]] = "present"
        <2>1. \A k \in 1 .. Len(M) : k \in 1 .. Len(L) \/ k = Len(L) + 1
            BY <1>5, <1>6
        <2> QED
            BY <1>2, <1>3, <1>4, <1>5, <1>6, <2>1
    <1>8. part' = [part EXCEPT !.outdatedItems = M]
        BY <1>2, <1>6
    <1> QED
        BY <1>2, <1>7, <1>8, ListChange

LEMMA RestoreOutdatedItemKeeps ==
    ASSUME SpaceInv, NEW i \in Items, RestoreOutdatedItem(i)
    PROVE  SpaceInv'
    <1> DEFINE L == part.outdatedItems
    <1>1. L \in Seq(Items) /\ ListedIdle
        BY DEF SpaceInv, SpaceTypes
    <1>2. /\ i \in ToSet(L) /\ part' = [part EXCEPT !.outdatedItems = RemoveFirst(L, i)]
          /\ UNCHANGED <<instance, alloc, disk, step, failures, overlap>>
        BY DEF RestoreOutdatedItem
    <1>3. failures = 0 => /\ \A j, k \in 1 .. Len(L) : L[j] = L[k] => j = k
                          /\ \A k \in 1 .. Len(L) : step[L[k]] = "present"
        BY <1>1 DEF ListedIdle
    <1> HIDE DEF L
    <1>4. PICK k \in 1 .. Len(L) : RemoveFirst(L, i) = RemoveAt(L, k)
        <2> DEFINE I == {j \in 1 .. Len(L) : L[j] = i}
        <2>1. I # {} /\ I \subseteq Nat
            BY <1>1, <1>2, ListFacts DEF ToSet
        <2>2. RemoveFirst(L, i) = RemoveAt(L, Min(I))
            BY <2>1 DEF RemoveFirst, SelectInSeq
        <2> HIDE DEF I
        <2>3. \E x \in I : \A y \in I : x <= y
            BY <2>1, LeastNatural
        <2>4. Min(I) \in I
            BY <2>3 DEF Min
        <2> QED
            BY <2>2, <2>4 DEF I
    <1>5. PICK M \in Seq(Items) : M = RemoveAt(L, k)
        BY <1>1, RemoveAtProps
    <1>6. /\ Len(M) = Len(L) - 1 /\ Len(L) \in Nat
          /\ \A j \in 1 .. k - 1 : M[j] = L[j]
          /\ \A j \in k .. Len(L) - 1 : M[j] = L[j + 1]
        BY <1>1, <1>5, RemoveAtProps, ListFacts
    <1>7. failures = 0 => /\ \A p, q \in 1 .. Len(M) : M[p] = M[q] => p = q
                          /\ \A p \in 1 .. Len(M) : step[M[p]] = "present"
        <2> DEFINE at(p) == IF p < k THEN p ELSE p + 1
        <2>1. \A p \in 1 .. Len(M) : at(p) \in 1 .. Len(L) /\ M[p] = L[at(p)]
            BY <1>6
        <2>2. \A p, q \in 1 .. Len(M) : at(p) = at(q) => p = q
            BY <1>6
        <2> HIDE DEF at
        <2>3. ASSUME failures = 0, NEW p \in 1 .. Len(M), NEW q \in 1 .. Len(M), M[p] = M[q]
              PROVE  p = q
            <3>1. L[at(p)] = L[at(q)] /\ at(p) \in 1 .. Len(L) /\ at(q) \in 1 .. Len(L)
                BY <2>1, <2>3
            <3>2. at(p) = at(q)
                BY <1>3, <2>3, <3>1
            <3> QED
                BY <2>2, <3>2
        <2>4. ASSUME failures = 0, NEW p \in 1 .. Len(M)
              PROVE  step[M[p]] = "present"
            BY <1>3, <2>1, <2>4
        <2> QED
            BY <2>3, <2>4
    <1>8. part' = [part EXCEPT !.outdatedItems = M]
        BY <1>2, <1>4, <1>5
    <1> QED
        BY <1>2, <1>7, <1>8, ListChange

\* Steps that change the instances and the partition object only.
LEMMA InstanceChange ==
    ASSUME SpaceInv, SpaceTypes', AllocatorsCounted', WorkIsOpen', PartitionCountExact',
           UNCHANGED <<alloc, disk, step, failures, overlap>>,
           \/ /\ part'.allocationCount = part.allocationCount
              /\ part'.availableSize = part.availableSize /\ part'.outdatedItems = part.outdatedItems
           \/ part'.allocationCount = 0 /\ part'.outdatedItems = <<>>
    PROVE  SpaceInv'
    <1>0. AllocationsCounted /\ DiskFits /\ ListedIdle /\ DiskFollowsSteps /\ PartitionCovered /\ AllocatorsCovered
        BY DEF SpaceInv
    <1>1. DiskFits' /\ DiskFollowsSteps'
        BY <1>0 DEF DiskFits, SumSize, DiskFollowsSteps
    <1>2. AllocationsCounted' /\ AllocatorsCovered'
        BY <1>0 DEF AllocationsCounted, Counted, sizeLimit, AllocatorsCovered, TakenFrom, SumSize
    <1>3. ListedIdle'
        <2>1. CASE part'.outdatedItems = part.outdatedItems
            BY <1>0, <2>1 DEF ListedIdle
        <2>2. CASE part'.outdatedItems = <<>>
            <3>1. Len(part'.outdatedItems) = 0
                BY <2>2
            <3> QED
                BY <3>1 DEF ListedIdle
        <2> QED
            BY <2>1, <2>2
    <1>4. PartitionCovered'
        BY <1>0 DEF PartitionCovered, Taken, SumSize
    <1> QED
        BY <1>1, <1>2, <1>3, <1>4 DEF SpaceInv

\* The allocators that are open, and their limits, when one more is opened.
LEMMA OpenedFacts ==
    ASSUME NEW S \in SUBSET Allocators, NEW a \in Allocators
    PROVE  /\ Cardinality(S) \in Nat /\ (Cardinality(S) = 0 <=> S = {})
           /\ SumFunctionOnSet(PartLimit, {}) = 0 /\ SumFunctionOnSet(PartLimit, S) \in Nat
           /\ SumFunctionOnSet(PartLimit, S \ {a}) \in Nat
           /\ a \in S => /\ SumFunctionOnSet(PartLimit, S) = PartLimit[a] + SumFunctionOnSet(PartLimit, S \ {a})
                         /\ Cardinality(S \ {a}) = Cardinality(S) - 1
           /\ a \notin S => /\ SumFunctionOnSet(PartLimit, S \union {a}) = PartLimit[a] + SumFunctionOnSet(PartLimit, S)
                            /\ Cardinality(S \union {a}) = Cardinality(S) + 1
    <1>1. IsFiniteSet(Allocators) /\ \A b \in Allocators : PartLimit[b] \in Nat
        BY ConstantsAssumption, LimitFacts
    <1>2. IsFiniteSet(S)
        BY <1>1, FS_Subset
    <1>3. /\ SumFunctionOnSet(PartLimit, {}) = 0
          /\ \A T \in SUBSET Allocators : SumFunctionOnSet(PartLimit, T) \in Nat
          /\ \A T \in SUBSET Allocators : \A x \in T :
                SumFunctionOnSet(PartLimit, T) = PartLimit[x] + SumFunctionOnSet(PartLimit, T \ {x})
        BY <1>1, SumProps
    <1>4. Cardinality(S) \in Nat /\ (Cardinality(S) = 0 <=> S = {})
        BY <1>2, FS_CardinalityType, FS_EmptySet
    <1>5. S \ {a} \in SUBSET Allocators /\ S \union {a} \in SUBSET Allocators /\ a \in S \union {a}
        OBVIOUS
    <1>6. ASSUME a \notin S PROVE SumFunctionOnSet(PartLimit, S \union {a}) = PartLimit[a] + SumFunctionOnSet(PartLimit, S)
        <2>1. (S \union {a}) \ {a} = S
            BY <1>6
        <2>2. SumFunctionOnSet(PartLimit, S \union {a})
                  = PartLimit[a] + SumFunctionOnSet(PartLimit, (S \union {a}) \ {a})
            BY <1>3, <1>5
        <2> QED
            BY <2>1, <2>2, Zenon
    <1>7. a \in S => Cardinality(S \ {a}) = Cardinality(S) - 1
        BY <1>2, FS_RemoveElement
    <1>8. a \notin S => Cardinality(S \union {a}) = Cardinality(S) + 1
        BY <1>2, FS_AddElement
    <1>9. SumFunctionOnSet(PartLimit, S) \in Nat /\ SumFunctionOnSet(PartLimit, S \ {a}) \in Nat
        BY <1>3, <1>5
    <1>10. a \in S => SumFunctionOnSet(PartLimit, S) = PartLimit[a] + SumFunctionOnSet(PartLimit, S \ {a})
        BY <1>3
    <1> QED
        BY <1>3, <1>4, <1>6, <1>7, <1>8, <1>9, <1>10

LEMMA NewKeeps ==
    ASSUME SpaceInv, NEW a \in Allocators, New(a)
    PROVE  SpaceInv'
    <1>0. SpaceTypes /\ AllocatorsCounted /\ WorkIsOpen /\ PartitionCountExact
        BY DEF SpaceInv
    <1>1. /\ instance[a] = "none" /\ part.partLimit + PartLimit[a] <= 100
          /\ instance' = [instance EXCEPT ![a] = "open"]
          /\ part' = [part EXCEPT !.partLimit = part.partLimit + PartLimit[a],
                                  !.allocatorCount = part.allocatorCount + 1]
          /\ UNCHANGED <<alloc, disk, step, failures, overlap>>
        BY DEF New, addPartLimit
    <1>2. PartLimit[a] \in Nat /\ part.partLimit \in 0 .. 100 /\ part.allocatorCount \in Nat
        BY <1>0, LimitFacts DEF SpaceTypes
    <1>3. /\ part' \in [allocatorCount : Nat, allocationCount : Nat, availableSize : Nat,
                        outdatedItems : Seq(Items), partLimit : 0 .. 100]
          /\ part'.allocatorCount = part.allocatorCount + 1 /\ part'.partLimit = part.partLimit + PartLimit[a]
          /\ part'.allocationCount = part.allocationCount /\ part'.outdatedItems = part.outdatedItems
          /\ part'.availableSize = part.availableSize
        <2>1. part.partLimit + PartLimit[a] \in 0 .. 100 /\ part.allocatorCount + 1 \in Nat
            BY <1>1, <1>2
        <2> QED
            BY <1>0, <1>1, <2>1 DEF SpaceTypes
    <1>4. SpaceTypes'
        BY <1>0, <1>1, <1>3 DEF SpaceTypes
    <1>5. AllocatorsCounted'
        <2>1. Opened' = Opened \union {a} /\ a \notin Opened /\ Opened \in SUBSET Allocators
            BY <1>0, <1>1 DEF Opened, SpaceTypes
        <2>2. PICK S \in SUBSET Allocators : S = Opened
            BY <2>1
        <2>3. /\ SumFunctionOnSet(PartLimit, S) \in Nat /\ Cardinality(S) \in Nat
              /\ SumFunctionOnSet(PartLimit, S \union {a}) = PartLimit[a] + SumFunctionOnSet(PartLimit, S)
              /\ Cardinality(S \union {a}) = Cardinality(S) + 1
            BY <2>1, <2>2, OpenedFacts
        <2>4. part.allocatorCount = Cardinality(S) /\ part.partLimit = SumFunctionOnSet(PartLimit, S)
            BY <1>0, <2>2 DEF AllocatorsCounted
        <2>5. part'.allocatorCount = Cardinality(S \union {a}) /\ part'.partLimit = SumFunctionOnSet(PartLimit, S \union {a})
            BY <1>2, <1>3, <2>3, <2>4
        <2> QED
            BY <2>1, <2>2, <2>5, Zenon DEF AllocatorsCounted
    <1>6. WorkIsOpen'
        <2>1. \A b \in Allocators : instance[b] = "open" => instance'[b] = "open"
            BY <1>0, <1>1 DEF SpaceTypes
        <2> QED
            BY <1>0, <1>1, <2>1, ItemFacts DEF WorkIsOpen
    <1>7. PartitionCountExact'
        BY <1>0, <1>1, <1>3 DEF PartitionCountExact
    <1> QED
        BY <1>1, <1>3, <1>4, <1>5, <1>6, <1>7, InstanceChange

LEMMA CloseKeeps ==
    ASSUME SpaceInv, NEW a \in Allocators, Close(a)
    PROVE  SpaceInv'
    <1>0. SpaceTypes /\ AllocatorsCounted /\ WorkIsOpen /\ PartitionCountExact
        BY DEF SpaceInv
    <1>1. /\ instance[a] = "open" /\ Idle(a) /\ instance' = [instance EXCEPT ![a] = "closed"]
          /\ UNCHANGED <<alloc, disk, step, failures, overlap>>
        BY DEF Close
    <1>2. instance' \in [Allocators -> {"none", "open", "closed"}] /\ instance'[a] = "closed"
          /\ \A b \in Allocators \ {a} : instance'[b] = instance[b]
        BY <1>0, <1>1 DEF SpaceTypes
    <1>3. WorkIsOpen'
        BY <1>0, <1>1, <1>2, ItemFacts DEF WorkIsOpen, Idle
    <1>4. Opened' = Opened \ {a} /\ a \in Opened /\ Opened \in SUBSET Allocators
        BY <1>1, <1>2 DEF Opened
    <1>5. PICK S \in SUBSET Allocators : S = Opened
        BY <1>4
    <1>6. /\ Cardinality(S) \in Nat /\ (Cardinality(S \ {a}) = 0 <=> S \ {a} = {})
          /\ SumFunctionOnSet(PartLimit, {}) = 0 /\ SumFunctionOnSet(PartLimit, S \ {a}) \in Nat
          /\ SumFunctionOnSet(PartLimit, S) = PartLimit[a] + SumFunctionOnSet(PartLimit, S \ {a})
          /\ Cardinality(S \ {a}) = Cardinality(S) - 1 /\ Cardinality(S \ {a}) \in Nat
        <2>1. a \in S /\ S \ {a} \in SUBSET Allocators
            BY <1>4, <1>5
        <2>2. PICK T \in SUBSET Allocators : T = S \ {a}
            BY <2>1
        <2>3. Cardinality(T) \in Nat /\ (Cardinality(T) = 0 <=> T = {})
            BY OpenedFacts
        <2> QED
            BY <2>1, <2>2, <2>3, OpenedFacts
    <1>7. part.allocatorCount = Cardinality(S) /\ part.partLimit = SumFunctionOnSet(PartLimit, S)
        BY <1>0, <1>5 DEF AllocatorsCounted
    <1>8. PartLimit[a] \in Nat /\ part.partLimit \in 0 .. 100
        BY <1>0, LimitFacts DEF SpaceTypes
    <1>9. CASE part.allocatorCount = 1
        <2>1. part' = newPart
            BY <1>9 DEF Close
        <2>2. /\ part' \in [allocatorCount : Nat, allocationCount : Nat, availableSize : Nat,
                            outdatedItems : Seq(Items), partLimit : 0 .. 100]
              /\ part'.allocatorCount = 0 /\ part'.partLimit = 0
              /\ part'.allocationCount = 0 /\ part'.outdatedItems = <<>>
            <3>1. <<>> \in Seq(Items)
                OBVIOUS
            <3> QED
                BY <2>1, <3>1 DEF newPart
        <2>3. S \ {a} = {}
            BY <1>6, <1>7, <1>9
        <2>4. SpaceTypes'
            BY <1>0, <1>1, <1>2, <2>2 DEF SpaceTypes
        <2>5. AllocatorsCounted'
            <3>1. Opened' = {}
                BY <1>4, <1>5, <2>3
            <3>2. Cardinality({}) = 0
                BY <1>6, <2>3
            <3> QED
                BY <1>6, <2>2, <3>1, <3>2 DEF AllocatorsCounted
        <2>6. PartitionCountExact'
            <3>1. \A i \in Items : step[i] \notin InProgress
                <4>1. \A b \in Allocators : instance[b] = "open" => b = a
                    BY <1>5, <2>3 DEF Opened
                <4> QED
                    BY <1>0, <1>1, <4>1, ItemFacts DEF WorkIsOpen, Idle, InProgress
            <3>2. {i \in Items : step'[i] \in InProgress} = {}
                BY <1>1, <3>1
            <3>3. Cardinality({}) = 0
                BY <1>6, <2>3
            <3> QED
                BY <2>2, <3>2, <3>3 DEF PartitionCountExact, InProgress
        <2> QED
            BY <1>1, <1>3, <2>2, <2>4, <2>5, <2>6, InstanceChange
    <1>10. CASE part.allocatorCount # 1
        <2>1. part' = [part EXCEPT !.partLimit = part.partLimit - PartLimit[a],
                                   !.allocatorCount = part.allocatorCount - 1]
            BY <1>10 DEF Close
        <2>2. /\ part' \in [allocatorCount : Nat, allocationCount : Nat, availableSize : Nat,
                            outdatedItems : Seq(Items), partLimit : 0 .. 100]
              /\ part'.allocatorCount = part.allocatorCount - 1 /\ part'.partLimit = part.partLimit - PartLimit[a]
              /\ part'.allocationCount = part.allocationCount /\ part'.outdatedItems = part.outdatedItems
              /\ part'.availableSize = part.availableSize
            <3>1. part.partLimit - PartLimit[a] \in 0 .. 100 /\ part.allocatorCount - 1 \in Nat
                BY <1>6, <1>7, <1>8
            <3> QED
                BY <1>0, <2>1, <3>1 DEF SpaceTypes
        <2>3. SpaceTypes'
            BY <1>0, <1>1, <1>2, <2>2 DEF SpaceTypes
        <2>4. AllocatorsCounted'
            <3>1. part'.allocatorCount = Cardinality(S \ {a}) /\ part'.partLimit = SumFunctionOnSet(PartLimit, S \ {a})
                BY <1>6, <1>7, <1>8, <2>2
            <3> QED
                BY <1>4, <1>5, <3>1, Zenon DEF AllocatorsCounted
        <2>5. PartitionCountExact'
            BY <1>0, <1>1, <2>2 DEF PartitionCountExact
        <2> QED
            BY <1>1, <1>3, <2>2, <2>3, <2>4, <2>5, InstanceChange
    <1> QED
        BY <1>9, <1>10

LEMMA SpaceInvInit == Init => SpaceInv
    <1> SUFFICES ASSUME Init PROVE SpaceInv
        OBVIOUS
    <1>1. /\ instance = [a \in Allocators |-> "none"] /\ part = newPart
          /\ alloc = [a \in Allocators |-> [allocationCount |-> 0, allocatedSize |-> 0]]
          /\ disk \in SUBSET Items /\ SumSize(disk) <= TotalSize /\ failures = 0 /\ overlap = {}
          /\ step = [i \in Items |-> IF i \in disk THEN "present" ELSE "absent"]
        BY DEF Init
    <1>2. /\ part \in [allocatorCount : Nat, allocationCount : Nat, availableSize : Nat,
                       outdatedItems : Seq(Items), partLimit : 0 .. 100]
          /\ part.allocatorCount = 0 /\ part.partLimit = 0 /\ part.allocationCount = 0
          /\ part.outdatedItems = <<>> /\ Len(part.outdatedItems) = 0
        <2>1. <<>> \in Seq(Items) /\ Len(<<>>) = 0
            OBVIOUS
        <2> QED
            BY <1>1, <2>1 DEF newPart
    <1>3. step \in [Items -> Steps] /\ \A i \in Items : step[i] = "present" \/ step[i] = "absent"
        BY <1>1 DEF Steps
    <1>4. SpaceTypes
        BY <1>1, <1>2, <1>3, ItemFacts DEF SpaceTypes
    <1>5. Cardinality({}) = 0 /\ SumFunctionOnSet(PartLimit, {}) = 0
        <2>1. Cardinality({}) = 0
            BY FS_EmptySet
        <2>2. IsFiniteSet({})
            BY FS_EmptySet
        <2> QED
            BY <2>1, <2>2, SumProps
    <1>6. AllocatorsCounted
        <2>1. Opened = {}
            BY <1>1 DEF Opened
        <2> QED
            BY <1>2, <1>5, <2>1 DEF AllocatorsCounted
    <1>7. WorkIsOpen
        BY <1>3 DEF WorkIsOpen
    <1>8. PartitionCountExact
        <2>1. {i \in Items : step[i] \in InProgress} = {}
            BY <1>3 DEF InProgress
        <2> QED
            BY <1>2, <1>5, <2>1 DEF PartitionCountExact
    <1>9. AllocationsCounted
        <2>1. \A a \in Allocators : Counted(a) = {}
            BY <1>3 DEF Counted
        <2> QED
            BY <1>1, <1>5, <2>1 DEF AllocationsCounted
    <1>10. DiskFits /\ DiskFollowsSteps
        BY <1>1 DEF DiskFits, DiskFollowsSteps
    <1>11. ListedIdle
        BY <1>2 DEF ListedIdle
    <1>12. PartitionCovered /\ AllocatorsCovered
        BY <1>1, <1>2 DEF PartitionCovered, AllocatorsCovered
    <1> QED
        BY <1>4, <1>6, <1>7, <1>8, <1>9, <1>10, <1>11, <1>12 DEF SpaceInv

-----------------------------------------------------------------------------
(***************************************************************************)
(* spaceallocator: removal of outdated items                               *)
(***************************************************************************)

\* The list the removal loops go through.
Sorted == byTimestamp(part.outdatedItems)

LEMMA SortedFacts ==
    ASSUME SpaceInv
    PROVE  /\ Sorted \in Seq(Items)
           /\ failures = 0 => /\ \A j, k \in 1 .. Len(Sorted) : Sorted[j] = Sorted[k] => j = k
                              /\ \A k \in 1 .. Len(Sorted) : step[Sorted[k]] = "present"
           /\ \A j, k \in 1 .. Len(Sorted) : j < k => Sorted[j] <= Sorted[k]
           /\ \A x : (\E k \in 1 .. Len(Sorted) : Sorted[k] = x) <=> x \in ToSet(part.outdatedItems)
    <1> DEFINE L == part.outdatedItems
    <1>1. L \in Seq(Items) /\ ListedIdle
        BY DEF SpaceInv, SpaceTypes
    <1>2. failures = 0 => /\ \A j, k \in 1 .. Len(L) : L[j] = L[k] => j = k
                          /\ \A k \in 1 .. Len(L) : step[L[k]] = "present"
        BY <1>1 DEF ListedIdle
    <1>3. \A x : x \in ToSet(L) <=> \E k \in 1 .. Len(L) : L[k] = x
        BY <1>1, ListFacts DEF ToSet
    <1>4. Sorted = byTimestamp(L)
        BY DEF Sorted
    <1> HIDE DEF L
    <1>5. /\ Sorted \in Seq(Items) /\ Len(Sorted) = Len(L)
          /\ \A j, k \in 1 .. Len(L) : j < k => Sorted[j] <= Sorted[k]
          /\ \A x : (\E k \in 1 .. Len(L) : Sorted[k] = x) <=> \E k \in 1 .. Len(L) : L[k] = x
          /\ (\A j, k \in 1 .. Len(L) : L[j] = L[k] => j = k) =>
                 \A j, k \in 1 .. Len(L) : Sorted[j] = Sorted[k] => j = k
        BY <1>1, <1>4, byTimestampProps
    <1>6. failures = 0 => \A k \in 1 .. Len(Sorted) : step[Sorted[k]] = "present"
        BY <1>2, <1>5
    <1>7. failures = 0 => \A j, k \in 1 .. Len(Sorted) : Sorted[j] = Sorted[k] => j = k
        BY <1>2, <1>5
    <1>8. \A x : (\E k \in 1 .. Len(Sorted) : Sorted[k] = x) <=> x \in ToSet(L)
        BY <1>3, <1>5
    <1> QED
        BY <1>5, <1>6, <1>7, <1>8 DEF L

\* The ItemRemover takes the items at the positions P from the disk.
LEMMA RemoverFacts ==
    ASSUME SpaceInv, NEW i \in Items, step[i] # "present", NEW s \in Steps,
           NEW P \in SUBSET (1 .. Len(Sorted)), RemoveFromDisk(ItemsAt(Sorted, P), i, s)
    PROVE  /\ Moves(i, s) /\ step'[i] = s /\ disk' \in SUBSET Items /\ DiskFits'
           /\ ItemsAt(Sorted, P) \in SUBSET Items /\ SizeAt(Sorted, P) \in Nat
           /\ failures = 0 =>
                 /\ ItemsAt(Sorted, P) \in SUBSET disk
                 /\ SizeAt(Sorted, P) = SumSize(ItemsAt(Sorted, P))
                 /\ i \notin ItemsAt(Sorted, P)
                 /\ \A j \in ItemsAt(Sorted, P) : step[j] = "present" /\ step'[j] = "absent"
                 /\ \A j \in Items \ {i} : j \notin ItemsAt(Sorted, P) => step'[j] = step[j]
    <1>0. SpaceTypes /\ DiskFollowsSteps
        BY DEF SpaceInv
    <1>1. PICK R : R = ItemsAt(Sorted, P)
        OBVIOUS
    <1>2. /\ disk' = disk \ R
          /\ step' = [j \in Items |->
                        IF j = i THEN s
                        ELSE IF j \in R /\ step[j] = "present" THEN "absent" ELSE step[j]]
        BY <1>1 DEF RemoveFromDisk
    <1>3. Sorted \in Seq(Items) /\ (failures = 0 => \A j, k \in 1 .. Len(Sorted) : Sorted[j] = Sorted[k] => j = k)
        BY SortedFacts
    <1>4. R \in SUBSET Items /\ SizeAt(Sorted, P) \in Nat /\ (failures = 0 => SizeAt(Sorted, P) = SumSize(R))
        BY <1>1, <1>3, SizeAtFacts
    <1>5. Moves(i, s) /\ step'[i] = s
        <2>1. step \in [Items -> Steps] /\ "absent" \in Steps
            BY <1>0 DEF SpaceTypes, Steps
        <2> QED
            BY <1>2, <2>1 DEF Moves
    <1>6. disk' \in SUBSET Items /\ DiskFits'
        BY <1>0, <1>2, SmallerDiskFits DEF SpaceTypes
    <1>7. failures = 0 => \A j \in R : step[j] = "present"
        BY <1>1, SortedFacts DEF ItemsAt
    <1>8. failures = 0 => /\ R \in SUBSET disk /\ i \notin R
                          /\ \A j \in R : step[j] = "present" /\ step'[j] = "absent"
                          /\ \A j \in Items \ {i} : j \notin R => step'[j] = step[j]
        BY <1>0, <1>2, <1>4, <1>7 DEF DiskFollowsSteps
    <1> QED
        BY <1>1, <1>4, <1>5, <1>6, <1>8

\* When it does not fail, the list names what is left.
LEMMA RemovedLists ==
    ASSUME SpaceInv, NEW i \in Items, step[i] \in {"absent", "partition"}, NEW s \in {"partition", "granted"},
           NEW P \in SUBSET (1 .. Len(Sorted)), RemoveFromDisk(ItemsAt(Sorted, P), i, s),
           UNCHANGED failures, part'.outdatedItems = Without(Sorted, P)
    PROVE  ListedIdle' /\ DiskFollowsSteps'
    <1> SUFFICES ASSUME failures = 0
                 PROVE  /\ \A j, k \in 1 .. Len(Without(Sorted, P)) :
                               Without(Sorted, P)[j] = Without(Sorted, P)[k] => j = k
                        /\ \A k \in 1 .. Len(Without(Sorted, P)) : step'[Without(Sorted, P)[k]] = "present"
                        /\ DiskFollowsSteps'
        BY DEF ListedIdle, DiskFollowsSteps
    <1>0. DiskFollowsSteps /\ step[i] # "present" /\ s \in Steps
        BY DEF SpaceInv, Steps, InProgress
    <1>1. PICK R : R = ItemsAt(Sorted, P)
        OBVIOUS
    <1>2. /\ step'[i] = s /\ disk' = disk \ R /\ R \in SUBSET disk /\ i \notin R
          /\ \A j \in R : step[j] = "present" /\ step'[j] = "absent"
          /\ \A j \in Items \ {i} : j \notin R => step'[j] = step[j]
        BY <1>0, <1>1, RemoverFacts DEF RemoveFromDisk
    <1>3. Sorted \in Seq(Items) /\ \A j, k \in 1 .. Len(Sorted) : Sorted[j] = Sorted[k] => j = k
        BY SortedFacts
    <1>4. /\ \A x : (\E k \in 1 .. Len(Without(Sorted, P)) : Without(Sorted, P)[k] = x)
                     => \E k \in (1 .. Len(Sorted)) \ P : Sorted[k] = x
          /\ \A j, k \in 1 .. Len(Without(Sorted, P)) : Without(Sorted, P)[j] = Without(Sorted, P)[k] => j = k
        BY <1>3, WithoutProps
    <1>5. ASSUME NEW k \in 1 .. Len(Without(Sorted, P)) PROVE step'[Without(Sorted, P)[k]] = "present"
        <2>1. PICK m \in (1 .. Len(Sorted)) \ P : Sorted[m] = Without(Sorted, P)[k]
            BY <1>4, <1>5
        <2>2. Sorted[m] \in Items /\ step[Sorted[m]] = "present"
            BY <1>3, SortedFacts, ListFacts
        <2>3. Sorted[m] \notin R
            BY <1>1, <1>3, <2>1 DEF ItemsAt
        <2>4. Sorted[m] # i
            BY <1>0, <2>2
        <2> QED
            BY <1>2, <2>1, <2>2, <2>3, <2>4
    <1>6. DiskFollowsSteps'
        BY <1>0, <1>2 DEF DiskFollowsSteps
    <1> QED
        BY <1>4, <1>5, <1>6

\* The loop over the whole list frees as much as is required, if there is as much.
LEMMA VictimsSuffice ==
    ASSUME NEW L \in Seq(Items), NEW required \in Int, required <= SizeAt(L, 1 .. Len(L))
    PROVE  required <= SizeAt(L, Victims(L, Allocators, required))
    <1> DEFINE n == Len(L)
               victims == Victims(L, Allocators, required)
               before(p) == {r \in 1 .. n : r < p}
    <1>0. n \in Nat /\ DOMAIN L = 1 .. n /\ \A k \in 1 .. n : L[k] \in Items
        BY ListFacts
    <1>1. Candidates(L, Allocators) = 1 .. n
        BY <1>0, ItemFacts DEF Candidates
    <1>2. victims = {p \in 1 .. n : SizeAt(L, before(p)) < required}
        BY <1>1, Zenon DEF Victims
    <1>3. \A Q \in SUBSET (1 .. n) : SizeAt(L, Q) \in Nat /\ \A T \in SUBSET Q : SizeAt(L, T) \in Nat /\ SizeAt(L, T) <= SizeAt(L, Q)
        BY SizeAtFacts
    <1>4. victims \in SUBSET (1 .. n)
        BY <1>2
    <1> HIDE DEF victims
    <1>5. CASE victims = 1 .. n
        BY <1>5 DEF victims
    <1>6. CASE victims # 1 .. n
        <2> DEFINE rest == (1 .. n) \ victims
        <2>0. rest # {}
            BY <1>4, <1>6, Zenon
        <2>1. rest # {} /\ rest \subseteq Nat
            BY <1>0, <2>0
        <2>2. PICK p \in rest : \A q \in rest : p <= q
            BY <2>1, LeastNatural
        <2>3. p \in 1 .. n /\ before(p) \in SUBSET victims
            BY <1>0, <2>2
        <2>4. ~ (SizeAt(L, before(p)) < required)
            BY <1>2, <2>2
        <2> HIDE DEF before, rest
        <2>5. SizeAt(L, before(p)) \in Nat /\ SizeAt(L, victims) \in Nat /\ SizeAt(L, before(p)) <= SizeAt(L, victims)
            BY <1>3, <1>4, <2>3
        <2> QED
            BY <2>4, <2>5 DEF victims
    <1> QED
        BY <1>5, <1>6

\* What freeSpace does to the account of allocator a.
LEMMA CreditFacts ==
    ASSUME SpaceInv, NEW a \in Allocators, NEW x \in Nat
    PROVE  /\ alloc[a] \in [allocationCount : Nat, allocatedSize : Nat]
           /\ CreditAllocator(a, x) \in [allocationCount : Nat, allocatedSize : Nat]
           /\ CreditAllocator(a, x).allocationCount = alloc[a].allocationCount
           /\ sizeLimit(a) # 0 /\ alloc[a].allocationCount > 0 =>
                  alloc[a].allocatedSize <= CreditAllocator(a, x).allocatedSize + x
    <1>1. alloc[a] \in [allocationCount : Nat, allocatedSize : Nat]
        BY DEF SpaceInv, SpaceTypes
    <1> QED
        BY <1>1 DEF CreditAllocator, Minus

-----------------------------------------------------------------------------
(***************************************************************************)
(* spaceallocator: AllocateSpace                                           *)
(***************************************************************************)

\* What allocateSpace reads as the size of the allocator's directory covers it,
\* whether it is the account or, when nothing is in progress, the disk.
LEMMA AllocatedSizeFacts ==
    ASSUME SpaceInv, NEW a \in Allocators
    PROVE  /\ AllocatedSize(a) \in Nat
           /\ alloc[a].allocationCount > 0 => AllocatedSize(a) = alloc[a].allocatedSize /\ OverlapOf(a) = overlap
           /\ sizeLimit(a) # 0 /\ failures = 0 /\ a \notin OverlapOf(a) =>
                  SumSize(TakenFrom(a)) <= AllocatedSize(a)
           /\ OverlapOf(a) \in SUBSET (Allocators \union {"part"})
           /\ \A x : x # a => (x \in OverlapOf(a) <=> x \in overlap)
    <1>0. SpaceTypes /\ AllocationsCounted /\ AllocatorsCovered
        BY DEF SpaceInv
    <1>1. alloc[a].allocationCount \in Nat /\ alloc[a].allocatedSize \in Nat /\ disk \in SUBSET Items
        BY <1>0 DEF SpaceTypes
    <1>2. GetDirSize(a) \in Nat
        <2>1. PICK S \in SUBSET Items : S = {i \in disk : Owner[i] = a}
            BY <1>1
        <2>2. SumSize(S) \in Nat
            BY SumSizeFacts
        <2> QED
            BY <2>1, <2>2 DEF GetDirSize
    <1>3. AllocatedSize(a) \in Nat
        BY <1>1, <1>2 DEF AllocatedSize
    <1>4. alloc[a].allocationCount > 0 => AllocatedSize(a) = alloc[a].allocatedSize /\ OverlapOf(a) = overlap
        BY <1>1 DEF AllocatedSize, OverlapOf
    <1>5. OverlapOf(a) \in SUBSET (Allocators \union {"part"})
        BY <1>0 DEF OverlapOf, SpaceTypes
    <1>6. \A x : x # a => (x \in OverlapOf(a) <=> x \in overlap)
        BY DEF OverlapOf
    <1>7. ASSUME sizeLimit(a) # 0, failures = 0, a \notin OverlapOf(a)
          PROVE  SumSize(TakenFrom(a)) <= AllocatedSize(a)
        <2>1. CASE alloc[a].allocationCount > 0
            BY <1>0, <1>4, <1>7, <2>1 DEF AllocatorsCovered
        <2>2. CASE ~ (alloc[a].allocationCount > 0)
            <3>1. alloc[a].allocationCount = 0 /\ Unreported(a) = {}
                BY <1>1, <1>7, <2>2 DEF OverlapOf
            <3>2. Counted(a) = {}
                <4>1. PICK S \in SUBSET Items : S = Counted(a)
                    BY DEF Counted
                <4>2. Cardinality(S) <= 0
                    BY <1>0, <1>7, <3>1, <4>1 DEF AllocationsCounted
                <4>3. IsFiniteSet(S)
                    BY SumSizeFacts
                <4>4. Cardinality(S) \in Nat /\ (Cardinality(S) = 0 <=> S = {})
                    BY <4>3, FS_CardinalityType, FS_EmptySet
                <4> QED
                    BY <4>1, <4>2, <4>4
            <3>3. TakenFrom(a) = {i \in disk : Owner[i] = a}
                BY <1>1, <3>1, <3>2 DEF TakenFrom, Counted, Unreported
            <3>4. AllocatedSize(a) = SumSize(TakenFrom(a))
                BY <3>1, <3>3, Zenon DEF AllocatedSize, GetDirSize
            <3> QED
                BY <1>3, <3>4
        <2> QED
            BY <2>1, <2>2
    <1> QED
        BY <1>3, <1>4, <1>5, <1>6, <1>7

\* A step of item i that changes the account of its allocator only.
LEMMA AllocatorMove ==
    ASSUME SpaceInv, NEW i \in Items, step[i] = "absent", NEW s \in {"absent", "partition"},
           step' = [step EXCEPT ![i] = s], instance[Owner[i]] = "open",
           NEW A \in [allocationCount : Nat, allocatedSize : Nat],
           alloc' = [alloc EXCEPT ![Owner[i]] = A],
           UNCHANGED <<instance, part, disk, failures>>,
           overlap' \in SUBSET (Allocators \union {"part"}),
           \A x : x # Owner[i] => (x \in overlap' <=> x \in overlap),
           sizeLimit(Owner[i]) # 0 =>
               /\ A.allocationCount >= alloc[Owner[i]].allocationCount + One(s, Counting)
               /\ A.allocationCount > 0 /\ failures = 0 /\ Owner[i] \notin overlap' =>
                      /\ SumSize(TakenFrom(Owner[i])) <= A.allocatedSize
                      /\ s = "partition" =>
                             SumSize(TakenFrom(Owner[i])) + Size[i] <= A.allocatedSize
    PROVE  SpaceInv'
    <1> DEFINE o == Owner[i]
    <1>0. SpaceTypes /\ DiskFits /\ DiskFollowsSteps
        BY DEF SpaceInv
    <1>1. o \in Allocators /\ Size[i] \in Nat /\ "part" # o
        BY ItemFacts, ConstantsAssumption
    <1>2. /\ alloc' \in [Allocators -> [allocationCount : Nat, allocatedSize : Nat]]
          /\ alloc'[o] = A /\ \A a \in Allocators \ {o} : alloc'[a] = alloc[a]
        BY <1>0, <1>1 DEF SpaceTypes
    <1>3. s \in Steps /\ step'[i] = s
        BY <1>0 DEF Steps, SpaceTypes
    <1>4. SpaceTypes'
        BY <1>0, <1>2, <1>3 DEF SpaceTypes
    <1>5. AllocatorsCounted' /\ WorkIsOpen' /\ PartitionCountExact' /\ AllocationsCounted'
        <2>1. Moves(i, s)
            BY <1>0, <1>3, SingleMove
        <2>2. /\ One(s, InProgress) = 0 /\ One(step[i], InProgress) = 0 /\ One(step[i], Counting) = 0
              /\ One(s, Counting) \in Nat
            BY DEF One, InProgress, Counting
        <2>3. part.allocationCount \in Nat /\ alloc[o].allocationCount \in Nat
            BY <1>0, <1>1 DEF SpaceTypes
        <2>4. sizeLimit(o) # 0 =>
                  alloc'[o].allocationCount
                      >= alloc[o].allocationCount + One(s, Counting) - One(step[i], Counting)
            BY <1>2, <2>2, <2>3
        <2> QED
            BY <1>2, <1>3, <1>4, <2>1, <2>2, <2>3, <2>4, MoveCounts
    <1>6. failures = 0 => i \notin disk
        BY <1>0 DEF DiskFollowsSteps
    <1>7. ListedIdle' /\ DiskFollowsSteps'
        BY <1>3, <1>6, MoveLists
    <1>8. DiskFits'
        BY <1>0 DEF DiskFits, SumSize
    <1>9. PartitionCovered'
        <2>1. i \in Taken <=> i \in Taken'
            BY <1>3 DEF Taken
        <2>2. part.availableSize + Weight(i, Taken') <= part.availableSize + Weight(i, Taken)
            BY <1>0, <1>1, <2>1 DEF Weight, SpaceTypes
        <2> QED
            BY <1>1, <1>3, <1>4, <2>2, MovePartition
    <1>10. ASSUME NEW a \in Allocators, sizeLimit(a) # 0, alloc'[a].allocationCount > 0, a \notin overlap', failures' = 0
           PROVE  \/ SumSize(TakenFrom(a)') <= alloc'[a].allocatedSize
                  \/ /\ alloc[a].allocationCount > 0 /\ a \notin overlap /\ failures = 0
                     /\ alloc[a].allocatedSize + Weight(i, TakenFrom(a)')
                            <= alloc'[a].allocatedSize + Weight(i, TakenFrom(a))
        <2>1. CASE a # o
            <3>1. i \notin TakenFrom(a) /\ i \notin TakenFrom(a)'
                BY <2>1 DEF TakenFrom
            <3>2. alloc'[a] = alloc[a] /\ alloc[a].allocatedSize \in Nat
                BY <1>0, <1>2, <2>1 DEF SpaceTypes
            <3> QED
                BY <1>10, <2>1, <3>1, <3>2 DEF Weight
        <2>2. CASE a = o
            <3>1. i \notin TakenFrom(a) /\ (i \in TakenFrom(a)' <=> s = "partition")
                BY <1>3, <1>6, <1>10, <2>2 DEF TakenFrom
            <3>2. /\ SumSize(TakenFrom(a)) \in Nat /\ SumSize(TakenFrom(a)') \in Nat
                  /\ SumSize(TakenFrom(a)') + Weight(i, TakenFrom(a))
                        = SumSize(TakenFrom(a)) + Weight(i, TakenFrom(a)')
                BY <1>3, <1>4, MoveSums
            <3>3. /\ SumSize(TakenFrom(a)) <= A.allocatedSize
                  /\ s = "partition" => SumSize(TakenFrom(a)) + Size[i] <= A.allocatedSize
                BY <1>2, <1>10, <2>2
            <3>4. SumSize(TakenFrom(a)') <= A.allocatedSize
                BY <1>1, <3>1, <3>2, <3>3 DEF Weight
            <3> QED
                BY <1>2, <2>2, <3>4
        <2> QED
            BY <2>1, <2>2
    <1>11. AllocatorsCovered'
        BY <1>3, <1>4, <1>10, MoveAllocators
    <1> QED
        BY <1>4, <1>5, <1>7, <1>8, <1>9, <1>11 DEF SpaceInv

\* AllocateFromAllocator when nothing is removed: no limit, enough space, or none.
LEMMA AllocateWithoutRemoval ==
    ASSUME SpaceInv, NEW i \in Items, step[i] = "absent", instance[Owner[i]] = "open", UNCHANGED instance,
           LET a == Owner[i] IN
           \/ /\ sizeLimit(a) = 0
              /\ step' = [step EXCEPT ![i] = "partition"]
              /\ UNCHANGED <<part, alloc, disk, failures, overlap>>
           \/ /\ sizeLimit(a) # 0
              /\ alloc' = [alloc EXCEPT ![a].allocatedSize = AllocatedSize(a) + Size[i],
                                        ![a].allocationCount = @ + 1]
              /\ step' = [step EXCEPT ![i] = "partition"]
              /\ overlap' = OverlapOf(a)
              /\ UNCHANGED <<part, disk, failures>>
           \/ /\ sizeLimit(a) # 0
              /\ alloc' = [alloc EXCEPT ![a].allocatedSize = AllocatedSize(a)]
              /\ overlap' = OverlapOf(a)
              /\ UNCHANGED <<part, disk, step, failures>>
    PROVE  SpaceInv'
    <1>0. SpaceTypes
        BY DEF SpaceInv
    <1>1. PICK a \in Allocators : a = Owner[i]
        BY ItemFacts
    <1>2. Size[i] \in Nat /\ alloc \in [Allocators -> [allocationCount : Nat, allocatedSize : Nat]]
        BY <1>0, ItemFacts DEF SpaceTypes
    <1>3. /\ AllocatedSize(a) \in Nat
          /\ sizeLimit(a) # 0 /\ failures = 0 /\ a \notin OverlapOf(a) => SumSize(TakenFrom(a)) <= AllocatedSize(a)
          /\ OverlapOf(a) \in SUBSET (Allocators \union {"part"})
          /\ \A x : x # a => (x \in OverlapOf(a) <=> x \in overlap)
        BY AllocatedSizeFacts
    <1>4. One("partition", Counting) = 1 /\ One("absent", Counting) = 0
        BY DEF One, Counting
    <1>5. SumSize(TakenFrom(a)) \in Nat
        <2>1. PICK S \in SUBSET Items : S = TakenFrom(a)
            BY DEF TakenFrom
        <2>2. SumSize(S) \in Nat
            BY SumSizeFacts
        <2> QED
            BY <2>1, <2>2
    <1>6. CASE /\ sizeLimit(a) = 0
               /\ step' = [step EXCEPT ![i] = "partition"]
               /\ UNCHANGED <<part, alloc, disk, failures, overlap>>
        <2>1. PICK A \in [allocationCount : Nat, allocatedSize : Nat] : A = alloc[a]
            BY <1>2
        <2>2. alloc' = [alloc EXCEPT ![a] = A]
            BY <1>2, <1>6, <2>1
        <2>3. overlap' \in SUBSET (Allocators \union {"part"})
            BY <1>0, <1>6 DEF SpaceTypes
        <2> QED
            BY <1>1, <1>6, <2>2, <2>3, AllocatorMove
    <1>7. CASE /\ sizeLimit(a) # 0
               /\ alloc' = [alloc EXCEPT ![a].allocatedSize = AllocatedSize(a) + Size[i],
                                         ![a].allocationCount = @ + 1]
               /\ step' = [step EXCEPT ![i] = "partition"]
               /\ overlap' = OverlapOf(a)
               /\ UNCHANGED <<part, disk, failures>>
        <2>1. PICK A \in [allocationCount : Nat, allocatedSize : Nat] :
                  /\ A.allocationCount = alloc[a].allocationCount + 1
                  /\ A.allocatedSize = AllocatedSize(a) + Size[i]
                  /\ alloc' = [alloc EXCEPT ![a] = A]
            <3> DEFINE A == [alloc[a] EXCEPT !.allocatedSize = AllocatedSize(a) + Size[i],
                                             !.allocationCount = alloc[a].allocationCount + 1]
            <3>1. /\ alloc[a].allocationCount + 1 \in Nat /\ AllocatedSize(a) + Size[i] \in Nat
                BY <1>2, <1>3
            <3>2. /\ A \in [allocationCount : Nat, allocatedSize : Nat]
                  /\ A.allocationCount = alloc[a].allocationCount + 1
                  /\ A.allocatedSize = AllocatedSize(a) + Size[i]
                BY <1>2, <3>1
            <3>3. alloc' = [alloc EXCEPT ![a] = A]
                BY <1>2, <1>7
            <3> QED
                BY <3>2, <3>3
        <2>2. A.allocationCount >= alloc[a].allocationCount + One("partition", Counting)
            BY <1>2, <1>4, <2>1
        <2>3. failures = 0 /\ a \notin overlap' =>
                  /\ SumSize(TakenFrom(a)) <= A.allocatedSize
                  /\ SumSize(TakenFrom(a)) + Size[i] <= A.allocatedSize
            BY <1>2, <1>3, <1>5, <1>7, <2>1
        <2> QED
            BY <1>1, <1>3, <1>7, <2>1, <2>2, <2>3, AllocatorMove
    <1>8. CASE /\ sizeLimit(a) # 0
               /\ alloc' = [alloc EXCEPT ![a].allocatedSize = AllocatedSize(a)]
               /\ overlap' = OverlapOf(a)
               /\ UNCHANGED <<part, disk, step, failures>>
        <2>1. PICK A \in [allocationCount : Nat, allocatedSize : Nat] :
                  /\ A.allocationCount = alloc[a].allocationCount
                  /\ A.allocatedSize = AllocatedSize(a)
                  /\ alloc' = [alloc EXCEPT ![a] = A]
            <3> DEFINE A == [alloc[a] EXCEPT !.allocatedSize = AllocatedSize(a)]
            <3>1. /\ A \in [allocationCount : Nat, allocatedSize : Nat]
                  /\ A.allocationCount = alloc[a].allocationCount /\ A.allocatedSize = AllocatedSize(a)
                BY <1>2, <1>3
            <3>2. alloc' = [alloc EXCEPT ![a] = A]
                BY <1>2, <1>8
            <3> QED
                BY <3>1, <3>2
        <2>2. A.allocationCount >= alloc[a].allocationCount + One("absent", Counting)
            BY <1>2, <1>4, <2>1
        <2>3. failures = 0 /\ a \notin overlap' => SumSize(TakenFrom(a)) <= A.allocatedSize
            BY <1>3, <1>8, <2>1
        <2>4. step' = [step EXCEPT ![i] = "absent"]
            BY <1>0, <1>8 DEF SpaceTypes
        <2> QED
            BY <1>1, <1>3, <1>8, <2>1, <2>2, <2>3, <2>4, AllocatorMove
    <1> QED
        BY <1>1, <1>6, <1>7, <1>8

\* The list stays a list of items when the remover fails.
LEMMA CompactedListType ==
    ASSUME NEW L \in Seq(Items), NEW victims, NEW stop \in 0 .. Len(L)
    PROVE  CompactedList(L, victims, stop) \in Seq(Items)
    <1> DEFINE front == SubSeq(L, 1, stop - 1)
               kept == Without(front, Removed(victims, stop))
    <1>0. Len(L) \in Nat
        BY ListFacts
    <1>1. CASE stop = 0
        BY <1>1, WithoutProps DEF CompactedList
    <1>2. CASE stop # 0
        <2>1. front \in Seq(Items) /\ Len(front) = stop - 1
            BY <1>0, <1>2
        <2> HIDE DEF front
        <2>2. kept \in Seq(Items) /\ Len(kept) <= Len(front)
            BY <2>1, WithoutProps
        <2>3. CompactedList(L, victims, stop) = kept \o SubSeq(L, Len(kept) + 1, Len(L))
            BY <1>2 DEF CompactedList, front
        <2> HIDE DEF kept
        <2>4. PICK m \in Nat : m = Len(kept)
            BY <2>2
        <2>5. SubSeq(L, m + 1, Len(L)) \in Seq(Items)
            BY <1>0, <2>1, <2>2, <2>4
        <2>6. kept \o SubSeq(L, m + 1, Len(L)) \in Seq(Items)
            BY <2>2, <2>5, ConcatProperties
        <2> QED
            BY <2>3, <2>4, <2>6
    <1> QED
        BY <1>1, <1>2

\* Arithmetic of an account that is credited for what was removed.
LEMMA MinusFacts ==
    ASSUME NEW x \in Nat, NEW y \in Nat
    PROVE  Minus(x, y) \in Nat /\ x <= Minus(x, y) + y
    BY DEF Minus

\* AllocateFromAllocator removes items of its allocator a, up to where it stops.
AllocatorRemoves(i, a, required, stop) ==
    LET V == Victims(Sorted, {a}, required)
        P == Removed(V, stop)
    IN  /\ failures' = IF stop = 0 THEN failures ELSE failures + 1
        /\ RemoveFromDisk(ItemsAt(Sorted, P), i, IF stop = 0 THEN "partition" ELSE "absent")
        /\ part' = [part EXCEPT
               !.outdatedItems = CompactedList(Sorted, V, stop),
               !.availableSize = IF part.allocationCount > 0 THEN @ + SizeAt(Sorted, P) ELSE @]
        /\ alloc' = [alloc EXCEPT ![a] =
               IF stop = 0
               THEN [allocatedSize   |-> Minus(AllocatedSize(a), SizeAt(Sorted, P)) + Size[i],
                     allocationCount |-> @.allocationCount + 1]
               ELSE [@ EXCEPT !.allocatedSize = AllocatedSize(a)]]

LEMMA AllocateWithRemoval ==
    ASSUME SpaceInv, NEW i \in Items, NEW a \in Allocators, a = Owner[i], step[i] = "absent",
           instance[a] = "open", UNCHANGED instance,
           sizeLimit(a) # 0, overlap' = OverlapOf(a), NEW required \in Int,
           NEW stop \in Stops(Victims(Sorted, {a}, required)), AllocatorRemoves(i, a, required, stop)
    PROVE  SpaceInv'
    <1>v. PICK V, P : V = Victims(Sorted, {a}, required) /\ P = Removed(V, stop)
        OBVIOUS
    <1>f. failures' = IF stop = 0 THEN failures ELSE failures + 1
        BY DEF AllocatorRemoves
    <1>r. RemoveFromDisk(ItemsAt(Sorted, P), i, IF stop = 0 THEN "partition" ELSE "absent")
        BY <1>v DEF AllocatorRemoves
    <1>p. part' = [part EXCEPT
               !.outdatedItems = CompactedList(Sorted, V, stop),
               !.availableSize = IF part.allocationCount > 0 THEN part.availableSize + SizeAt(Sorted, P)
                                 ELSE part.availableSize]
        BY <1>v, Zenon DEF AllocatorRemoves
    <1>a. alloc' = [alloc EXCEPT ![a] =
               IF stop = 0
               THEN [allocatedSize   |-> Minus(AllocatedSize(a), SizeAt(Sorted, P)) + Size[i],
                     allocationCount |-> alloc[a].allocationCount + 1]
               ELSE [alloc[a] EXCEPT !.allocatedSize = AllocatedSize(a)]]
        BY <1>v, Zenon DEF AllocatorRemoves
    <1>0. SpaceTypes /\ DiskFollowsSteps /\ PartitionCovered /\ AllocatorsCovered
        BY DEF SpaceInv
    <1>1. /\ part \in [allocatorCount : Nat, allocationCount : Nat, availableSize : Nat,
                       outdatedItems : Seq(Items), partLimit : 0 .. 100]
          /\ alloc \in [Allocators -> [allocationCount : Nat, allocatedSize : Nat]]
          /\ failures \in Nat /\ failures <= MaxFailures /\ MaxFailures \in Nat
          /\ Size[i] \in Nat /\ "part" # a /\ TotalSize \in Nat
        <2>1. "part" # a
            BY ConstantsAssumption
        <2> QED
            BY <1>0, <2>1, ItemFacts DEF SpaceTypes
    <1>2. Sorted \in Seq(Items)
        BY SortedFacts
    <1>3. /\ V \in SUBSET (1 .. Len(Sorted)) /\ P \in SUBSET V
          /\ stop = 0 => P = V
          /\ stop # 0 => stop \in 1 .. Len(Sorted) /\ failures < MaxFailures
          /\ \A p \in V : Owner[Sorted[p]] = a
        <2>1. LET victims == Victims(Sorted, {a}, required)
                  removed == Removed(victims, stop)
              IN  /\ victims \in SUBSET (1 .. Len(Sorted)) /\ removed \in SUBSET victims
                  /\ stop = 0 => removed = victims
                  /\ stop # 0 => stop \in 1 .. Len(Sorted) /\ failures < MaxFailures
                  /\ \A p \in victims : Owner[Sorted[p]] \in {a}
            <3>1. PICK L \in Seq(Items) : L = Sorted
                BY <1>2
            <3>2. PICK owners : owners = {a}
                OBVIOUS
            <3>3. stop \in Stops(Victims(L, owners, required))
                BY <3>1, <3>2
            <3>4. LET victims == Victims(L, owners, required)
                      removed == Removed(victims, stop)
                  IN  /\ victims \in SUBSET (1 .. Len(L)) /\ removed \in SUBSET victims
                      /\ stop = 0 => removed = victims
                      /\ stop # 0 => stop \in 1 .. Len(L) /\ failures < MaxFailures
                      /\ \A p \in victims : Owner[L[p]] \in owners
                BY <3>3, VictimFacts
            <3> QED
                BY <3>1, <3>2, <3>4
        <2> QED
            BY <1>v, <2>1
    <1>4. PICK s \in {"partition", "absent"} :
              /\ s = IF stop = 0 THEN "partition" ELSE "absent"
              /\ RemoveFromDisk(ItemsAt(Sorted, P), i, s) /\ s \in Steps
        <2>1. CASE stop = 0
            BY <1>r, <2>1 DEF Steps
        <2>2. CASE stop # 0
            BY <1>r, <2>2 DEF Steps
        <2> QED
            BY <2>1, <2>2
    <1>5. PICK R, freed : R = ItemsAt(Sorted, P) /\ freed = SizeAt(Sorted, P)
        OBVIOUS
    <1>6. /\ Moves(i, s) /\ step'[i] = s /\ disk' \in SUBSET Items /\ DiskFits' /\ disk' = disk \ R
          /\ R \in SUBSET Items /\ freed \in Nat
          /\ failures = 0 =>
                /\ R \in SUBSET disk /\ freed = SumSize(R) /\ i \notin R
                /\ \A j \in R : step[j] = "present" /\ step'[j] = "absent"
                /\ \A j \in Items \ {i} : j \notin R => step'[j] = step[j]
        <2>1. P \in SUBSET (1 .. Len(Sorted)) /\ step[i] # "present"
            BY <1>3
        <2>2. disk' = disk \ R
            BY <1>5, <1>r DEF RemoveFromDisk
        <2>3. /\ Moves(i, s) /\ step'[i] = s /\ disk' \in SUBSET Items /\ DiskFits'
              /\ ItemsAt(Sorted, P) \in SUBSET Items /\ SizeAt(Sorted, P) \in Nat
              /\ failures = 0 =>
                    /\ ItemsAt(Sorted, P) \in SUBSET disk
                    /\ SizeAt(Sorted, P) = SumSize(ItemsAt(Sorted, P))
                    /\ i \notin ItemsAt(Sorted, P)
                    /\ \A j \in ItemsAt(Sorted, P) : step[j] = "present" /\ step'[j] = "absent"
                    /\ \A j \in Items \ {i} : j \notin ItemsAt(Sorted, P) => step'[j] = step[j]
            <3>1. s \in Steps /\ RemoveFromDisk(ItemsAt(Sorted, P), i, s)
                BY <1>4
            <3> QED
                BY <2>1, <3>1, RemoverFacts
        <2> QED
            BY <1>5, <2>2, <2>3, Zenon
    <1>7. /\ AllocatedSize(a) \in Nat
          /\ failures = 0 /\ a \notin overlap' => SumSize(TakenFrom(a)) <= AllocatedSize(a)
          /\ overlap' \in SUBSET (Allocators \union {"part"})
          /\ \A x : x # a => (x \in overlap' <=> x \in overlap)
        BY AllocatedSizeFacts
    <1>8. /\ part' \in [allocatorCount : Nat, allocationCount : Nat, availableSize : Nat,
                        outdatedItems : Seq(Items), partLimit : 0 .. 100]
          /\ part'.allocatorCount = part.allocatorCount /\ part'.partLimit = part.partLimit
          /\ part'.allocationCount = part.allocationCount
          /\ part'.outdatedItems = CompactedList(Sorted, V, stop)
          /\ part.allocationCount > 0 => part'.availableSize = part.availableSize + freed
        <2>1. stop \in 0 .. Len(Sorted)
            <3>1. Len(Sorted) \in Nat
                BY <1>2, ListFacts
            <3> QED
                BY <1>3, <3>1
        <2>2. PICK N \in Seq(Items) : N = CompactedList(Sorted, V, stop)
            BY <1>2, <2>1, CompactedListType
        <2>3. PICK y \in Nat : /\ y = IF part.allocationCount > 0 THEN part.availableSize + freed
                                      ELSE part.availableSize
                               /\ part.allocationCount > 0 => y = part.availableSize + freed
            BY <1>1, <1>6
        <2>4. part' = [part EXCEPT !.outdatedItems = N, !.availableSize = y]
            BY <1>p, <1>5, <2>2, <2>3, Zenon
        <2> QED
            BY <1>1, <2>2, <2>3, <2>4
    <1>9. PICK A \in [allocationCount : Nat, allocatedSize : Nat] :
              /\ alloc' = [alloc EXCEPT ![a] = A]
              /\ A.allocationCount = IF stop = 0 THEN alloc[a].allocationCount + 1 ELSE alloc[a].allocationCount
              /\ stop = 0 => A.allocatedSize = Minus(AllocatedSize(a), freed) + Size[i]
        <2>0. alloc[a] \in [allocationCount : Nat, allocatedSize : Nat]
            BY <1>1
        <2>1. CASE stop = 0
            <3> DEFINE A == [allocatedSize   |-> Minus(AllocatedSize(a), freed) + Size[i],
                             allocationCount |-> alloc[a].allocationCount + 1]
            <3>0. Minus(AllocatedSize(a), freed) \in Nat
                BY <1>6, <1>7, MinusFacts
            <3>1. Minus(AllocatedSize(a), freed) + Size[i] \in Nat /\ alloc[a].allocationCount + 1 \in Nat
                <4>1. \A x, y \in Nat : x + y \in Nat
                    OBVIOUS
                <4>2. alloc[a].allocationCount + 1 \in Nat
                    BY <2>0
                <4> QED
                    BY <1>1, <3>0, <4>1, <4>2, Zenon
            <3>2. /\ A \in [allocationCount : Nat, allocatedSize : Nat]
                  /\ A.allocationCount = alloc[a].allocationCount + 1
                  /\ A.allocatedSize = Minus(AllocatedSize(a), freed) + Size[i]
                BY <3>1
            <3>3. alloc' = [alloc EXCEPT ![a] = A]
                BY <1>a, <1>5, <2>1, Zenon
            <3> HIDE DEF A
            <3> QED
                BY <2>1, <3>2, <3>3
        <2>2. CASE stop # 0
            <3> DEFINE A == [alloc[a] EXCEPT !.allocatedSize = AllocatedSize(a)]
            <3>1. A \in [allocationCount : Nat, allocatedSize : Nat] /\ A.allocationCount = alloc[a].allocationCount
                BY <1>7, <2>0
            <3>2. alloc' = [alloc EXCEPT ![a] = A]
                BY <1>a, <2>2, Zenon
            <3> HIDE DEF A
            <3> QED
                BY <2>2, <3>1, <3>2
        <2> QED
            BY <2>1, <2>2
    <1>10. /\ alloc' \in [Allocators -> [allocationCount : Nat, allocatedSize : Nat]]
           /\ alloc'[a] = A /\ \A b \in Allocators \ {a} : alloc'[b] = alloc[b]
        <2>1. alloc \in [Allocators -> [allocationCount : Nat, allocatedSize : Nat]] /\ alloc' = [alloc EXCEPT ![a] = A]
            BY <1>1, <1>9
        <2> QED
            BY <2>1
    <1>11. failures' \in 0 .. MaxFailures /\ (failures' = 0 => stop = 0 /\ failures = 0)
        <2>1. CASE stop = 0
            BY <1>f, <1>1, <2>1
        <2>2. CASE stop # 0
            BY <1>f, <1>1, <1>3, <2>2
        <2> QED
            BY <2>1, <2>2
    <1>12. SpaceTypes'
        BY <1>0, <1>6, <1>7, <1>8, <1>10, <1>11 DEF SpaceTypes, Moves
    <1>13. AllocatorsCounted' /\ WorkIsOpen' /\ PartitionCountExact' /\ AllocationsCounted'
        <2>1. /\ One(s, InProgress) = 0 /\ One(step[i], InProgress) = 0 /\ One(step[i], Counting) = 0
              /\ One(s, Counting) = IF stop = 0 THEN 1 ELSE 0
            BY <1>4 DEF One, InProgress, Counting
        <2>2. alloc'[a].allocationCount >= alloc[a].allocationCount + One(s, Counting) - One(step[i], Counting)
            BY <1>1, <1>9, <1>10, <2>1
        <2>3. part.allocationCount \in Nat
            BY <1>1
        <2>4. part'.allocationCount = part.allocationCount + One(s, InProgress) - One(step[i], InProgress)
            BY <1>8, <2>1, <2>3
        <2> QED
            BY <1>4, <1>6, <1>8, <1>10, <1>12, <2>2, <2>4, MoveCounts
    <1>14. CASE failures' # 0
        <2>1. ListedIdle' /\ DiskFollowsSteps' /\ PartitionCovered' /\ AllocatorsCovered'
            BY <1>14 DEF ListedIdle, DiskFollowsSteps, PartitionCovered, AllocatorsCovered
        <2> QED
            BY <1>6, <1>12, <1>13, <2>1 DEF SpaceInv
    <1>15. CASE failures' = 0
        <2>1. /\ stop = 0 /\ failures = 0 /\ s = "partition" /\ i \notin disk
              /\ R \in SUBSET disk /\ freed = SumSize(R) /\ i \notin R
              /\ \A j \in R : step[j] = "present" /\ step'[j] = "absent"
              /\ \A j \in Items \ {i} : j \notin R => step'[j] = step[j]
            BY <1>0, <1>4, <1>6, <1>11, <1>15 DEF DiskFollowsSteps
        <2>2. ListedIdle' /\ DiskFollowsSteps'
            <3>1. part'.outdatedItems = Without(Sorted, P)
                BY <1>3, <1>8, <2>1 DEF CompactedList
            <3>2. P \in SUBSET (1 .. Len(Sorted)) /\ failures' = failures
                BY <1>3, <1>15, <2>1
            <3> QED
                BY <1>4, <2>1, <3>1, <3>2, RemovedLists
        <2>3. \A j \in R : Owner[j] = a
            BY <1>3, <1>5 DEF ItemsAt
        <2>4. PartitionCovered'
            <3> SUFFICES ASSUME part'.allocationCount > 0, "part" \notin overlap'
                         PROVE  part'.availableSize + SumSize(Taken') <= TotalSize
                BY DEF PartitionCovered, SumSize
            <3>1. PICK S \in SUBSET Items, T \in SUBSET Items : S = Taken /\ T = Taken'
                BY DEF Taken
            <3>2. T = S \ R
                BY <1>6, <2>1, <3>1 DEF Taken
            <3>3. R \in SUBSET S
                BY <1>6, <2>1, <3>1 DEF Taken
            <3>4. SumSize(S) \in Nat /\ SumSize(R) \in Nat /\ SumSize(S \ R) \in Nat /\ SumSize(S) = SumSize(S \ R) + SumSize(R)
                BY <3>3, SumSizeFacts
            <3>5. part.availableSize + SumSize(S) <= TotalSize
                BY <1>0, <1>1, <1>7, <1>8, <2>1, <3>1 DEF PartitionCovered
            <3>6. part'.availableSize + SumSize(S \ R) <= TotalSize
                BY <1>1, <1>8, <2>1, <3>4, <3>5
            <3> QED
                BY <3>1, <3>2, <3>6
        <2>5. ASSUME NEW b \in Allocators, sizeLimit(b) # 0, alloc'[b].allocationCount > 0, b \notin overlap'
              PROVE  SumSize(TakenFrom(b)') <= alloc'[b].allocatedSize
            <3>1. PICK S \in SUBSET Items, T \in SUBSET Items : S = TakenFrom(b) /\ T = TakenFrom(b)'
                BY DEF TakenFrom
            <3>2. CASE b # a
                <4>1. T = S
                    BY <1>6, <2>1, <2>3, <3>1, <3>2 DEF TakenFrom
                <4>2. SumSize(S) <= alloc[b].allocatedSize
                    BY <1>0, <1>7, <1>10, <2>1, <2>5, <3>1, <3>2 DEF AllocatorsCovered
                <4> QED
                    BY <1>10, <3>1, <3>2, <4>1, <4>2
            <3>3. CASE b = a
                <4>1. T = (S \ R) \union {i} /\ R \in SUBSET S
                    BY <1>6, <2>1, <2>3, <3>1, <3>3 DEF TakenFrom
                <4>2. SumSize(S) \in Nat /\ SumSize(R) \in Nat /\ SumSize(S \ R) \in Nat /\ SumSize(S) = SumSize(S \ R) + SumSize(R)
                    BY <4>1, SumSizeFacts
                <4>3. PICK U \in SUBSET Items : U = S \ R
                    OBVIOUS
                <4>4. SumSize(U \union {i}) \in Nat /\ SumSize(U \union {i}) <= SumSize(U) + Size[i]
                    BY AddToSum
                <4>5. SumSize(T) <= SumSize(S \ R) + Size[i] /\ SumSize(T) \in Nat
                    BY <4>1, <4>3, <4>4
                <4>6. SumSize(S) <= AllocatedSize(a)
                    BY <1>7, <2>1, <2>5, <3>1, <3>3
                <4>7. /\ Minus(AllocatedSize(a), freed) \in Nat
                      /\ AllocatedSize(a) <= Minus(AllocatedSize(a), freed) + freed
                    BY <1>6, <1>7, MinusFacts
                <4>8. SumSize(T) <= Minus(AllocatedSize(a), freed) + Size[i]
                    <5>1. PICK x \in Nat, m \in Nat : x = AllocatedSize(a) /\ m = Minus(AllocatedSize(a), freed)
                        BY <1>7, <4>7
                    <5>2. SumSize(S) <= x /\ x <= m + SumSize(R)
                        BY <2>1, <4>6, <4>7, <5>1
                    <5>3. SumSize(T) <= m + Size[i]
                        <6>1. \A t, u, z, r : t \in Nat /\ u \in Nat /\ z \in Nat /\ r \in Nat
                                  /\ t <= u + z /\ u + r <= x /\ x <= m + r => t <= m + z
                            OBVIOUS
                        <6>2. Size[i] \in Nat
                            BY <1>1
                        <6>3. SumSize(S \ R) + SumSize(R) <= x
                            BY <4>2, <5>2
                        <6> QED
                            BY <4>2, <4>5, <5>2, <6>1, <6>2, <6>3
                    <5> QED
                        BY <5>1, <5>3
                <4> QED
                    BY <1>9, <1>10, <2>1, <3>1, <3>3, <4>8
            <3> QED
                BY <3>2, <3>3
        <2>6. AllocatorsCovered'
            BY <2>5 DEF AllocatorsCovered, SumSize, sizeLimit
        <2> QED
            BY <1>6, <1>12, <1>13, <2>2, <2>4, <2>6 DEF SpaceInv
    <1> QED
        BY <1>14, <1>15

LEMMA AllocateFromAllocatorKeeps ==
    ASSUME SpaceInv, NEW i \in Items, AllocateFromAllocator(i)
    PROVE  SpaceInv'
    <1>0. PICK a \in Allocators : a = Owner[i]
        BY ItemFacts
    <1>1. step[i] = "absent" /\ instance[a] = "open" /\ UNCHANGED instance
        BY <1>0 DEF AllocateFromAllocator
    <1>2. PICK required : required = AllocatedSize(a) + Size[i] - sizeLimit(a)
        OBVIOUS
    <1>3. required \in Int
        BY <1>2, AllocatedSizeFacts, LimitFacts, ItemFacts
    <1>4. \/ /\ sizeLimit(a) = 0
             /\ step' = [step EXCEPT ![i] = "partition"]
             /\ UNCHANGED <<part, alloc, disk, failures, overlap>>
          \/ /\ sizeLimit(a) # 0
             /\ alloc' = [alloc EXCEPT ![a].allocatedSize = AllocatedSize(a) + Size[i],
                                       ![a].allocationCount = @ + 1]
             /\ step' = [step EXCEPT ![i] = "partition"]
             /\ overlap' = OverlapOf(a)
             /\ UNCHANGED <<part, disk, failures>>
          \/ /\ sizeLimit(a) # 0
             /\ alloc' = [alloc EXCEPT ![a].allocatedSize = AllocatedSize(a)]
             /\ overlap' = OverlapOf(a)
             /\ UNCHANGED <<part, disk, step, failures>>
          \/ /\ sizeLimit(a) # 0 /\ overlap' = OverlapOf(a)
             /\ \E stop \in Stops(Victims(Sorted, {a}, required)) : AllocatorRemoves(i, a, required, stop)
        BY <1>0, <1>2, Zenon DEF AllocateFromAllocator, AllocatorRemoves, Sorted
    <1>5. CASE /\ sizeLimit(a) # 0 /\ overlap' = OverlapOf(a)
               /\ \E stop \in Stops(Victims(Sorted, {a}, required)) : AllocatorRemoves(i, a, required, stop)
        BY <1>0, <1>1, <1>3, <1>5, AllocateWithRemoval
    <1> QED
        BY <1>0, <1>1, <1>4, <1>5, AllocateWithoutRemoval, Zenon

\* What allocateSpace reads as available on the partition is there.
LEMMA AvailableSizeFacts ==
    ASSUME SpaceInv
    PROVE  /\ AvailableSize \in Nat
           /\ part.allocationCount > 0 => AvailableSize = part.availableSize /\ OverlapOfPart = overlap
           /\ failures = 0 /\ "part" \notin OverlapOfPart => AvailableSize + SumSize(Taken) <= TotalSize
           /\ OverlapOfPart \in SUBSET (Allocators \union {"part"})
           /\ \A x : x # "part" => (x \in OverlapOfPart <=> x \in overlap)
    <1>0. SpaceTypes /\ DiskFits /\ PartitionCountExact /\ PartitionCovered
        BY DEF SpaceInv
    <1>1. part.allocationCount \in Nat /\ part.availableSize \in Nat /\ disk \in SUBSET Items /\ TotalSize \in Nat
        BY <1>0, ItemFacts DEF SpaceTypes
    <1>2. SumSize(disk) \in Nat /\ SumSize(disk) <= TotalSize
        BY <1>0, <1>1, SumSizeFacts DEF DiskFits
    <1>3. AvailableSize \in Nat
        BY <1>1, <1>2 DEF AvailableSize, GetAvailableSize
    <1>4. part.allocationCount > 0 => AvailableSize = part.availableSize /\ OverlapOfPart = overlap
        BY <1>1 DEF AvailableSize, OverlapOfPart
    <1>5. OverlapOfPart \in SUBSET (Allocators \union {"part"})
        BY <1>0 DEF OverlapOfPart, SpaceTypes
    <1>6. \A x : x # "part" => (x \in OverlapOfPart <=> x \in overlap)
        BY DEF OverlapOfPart
    <1>7. ASSUME failures = 0, "part" \notin OverlapOfPart
          PROVE  AvailableSize + SumSize(Taken) <= TotalSize
        <2>1. CASE part.allocationCount > 0
            BY <1>0, <1>4, <1>7, <2>1 DEF PartitionCovered
        <2>2. CASE ~ (part.allocationCount > 0)
            <3>1. part.allocationCount = 0 /\ \A i \in Items : step[i] \notin {"removed", "free"}
                BY <1>1, <1>7, <2>2 DEF OverlapOfPart
            <3>2. \A i \in Items : step[i] \notin InProgress
                <4>1. PICK S \in SUBSET Items : S = {i \in Items : step[i] \in InProgress}
                    OBVIOUS
                <4>2. Cardinality(S) = 0
                    BY <1>0, <3>1, <4>1 DEF PartitionCountExact
                <4>3. IsFiniteSet(S)
                    BY SumSizeFacts
                <4>4. S = {}
                    BY <4>2, <4>3, FS_EmptySet
                <4> QED
                    BY <4>1, <4>4
            <3>3. Taken = disk
                BY <1>1, <3>1, <3>2 DEF Taken, InProgress
            <3>4. AvailableSize = TotalSize - SumSize(Taken)
                BY <3>1, <3>3, Zenon DEF AvailableSize, GetAvailableSize
            <3>5. SumSize(Taken) \in Nat
                BY <1>2, <3>3
            <3> QED
                BY <1>1, <3>4, <3>5
        <2> QED
            BY <2>1, <2>2
    <1> QED
        BY <1>3, <1>4, <1>5, <1>6, <1>7

\* AllocateFromPartition when nothing is removed: enough space, or none.
LEMMA PartitionWithoutRemoval ==
    ASSUME SpaceInv, NEW i \in Items, step[i] = "partition", UNCHANGED <<instance, alloc, disk, failures>>,
           overlap' = OverlapOfPart,
           \/ /\ Size[i] - AvailableSize <= 0
              /\ part' = [part EXCEPT !.availableSize = AvailableSize - Size[i], !.allocationCount = @ + 1]
              /\ step' = [step EXCEPT ![i] = "granted"]
           \/ /\ part' = [part EXCEPT !.availableSize = AvailableSize]
              /\ step' = [step EXCEPT ![i] = "absent"]
    PROVE  SpaceInv'
    <1>0. SpaceTypes /\ WorkIsOpen /\ DiskFits /\ DiskFollowsSteps /\ PartitionCovered
        BY DEF SpaceInv
    <1>1. /\ part \in [allocatorCount : Nat, allocationCount : Nat, availableSize : Nat,
                       outdatedItems : Seq(Items), partLimit : 0 .. 100]
          /\ Size[i] \in Nat /\ Owner[i] \in Allocators /\ TotalSize \in Nat
        BY <1>0, ItemFacts DEF SpaceTypes
    <1>2. /\ AvailableSize \in Nat
          /\ part.allocationCount > 0 => AvailableSize = part.availableSize /\ OverlapOfPart = overlap
          /\ failures = 0 /\ "part" \notin OverlapOfPart => AvailableSize + SumSize(Taken) <= TotalSize
          /\ OverlapOfPart \in SUBSET (Allocators \union {"part"})
          /\ \A a \in Allocators : a \in OverlapOfPart <=> a \in overlap
        BY AvailableSizeFacts, ConstantsAssumption
    <1>3. PICK s \in {"granted", "absent"}, x \in Nat, n \in Nat :
              /\ step' = [step EXCEPT ![i] = s]
              /\ part' = [part EXCEPT !.availableSize = x, !.allocationCount = n]
              /\ s = "granted" => x = AvailableSize - Size[i] /\ n = part.allocationCount + 1
              /\ s = "absent" => x = AvailableSize /\ n = part.allocationCount
        <2>1. CASE /\ Size[i] - AvailableSize <= 0
                   /\ part' = [part EXCEPT !.availableSize = AvailableSize - Size[i], !.allocationCount = @ + 1]
                   /\ step' = [step EXCEPT ![i] = "granted"]
            <3>1. AvailableSize - Size[i] \in Nat /\ part.allocationCount + 1 \in Nat
                BY <1>1, <1>2, <2>1
            <3> QED
                BY <2>1, <3>1
        <2>2. CASE /\ part' = [part EXCEPT !.availableSize = AvailableSize]
                   /\ step' = [step EXCEPT ![i] = "absent"]
            <3>1. part.allocationCount \in Nat
                BY <1>1
            <3>2. part' = [part EXCEPT !.availableSize = AvailableSize, !.allocationCount = part.allocationCount]
                BY <1>1, <2>2
            <3> QED
                BY <1>2, <2>2, <3>1, <3>2
        <2> QED
            BY <2>1, <2>2
    <1>4. s \in Steps /\ step'[i] = s /\ instance[Owner[i]] = "open"
        BY <1>0, <1>3 DEF Steps, InProgress, SpaceTypes, WorkIsOpen
    <1>5. /\ part' \in [allocatorCount : Nat, allocationCount : Nat, availableSize : Nat,
                        outdatedItems : Seq(Items), partLimit : 0 .. 100]
          /\ part'.allocatorCount = part.allocatorCount /\ part'.partLimit = part.partLimit
          /\ part'.allocationCount = n /\ part'.outdatedItems = part.outdatedItems
          /\ part'.availableSize = x
        BY <1>1, <1>3
    <1>6. SpaceTypes'
        BY <1>0, <1>2, <1>3, <1>4, <1>5 DEF SpaceTypes
    <1>7. AllocatorsCounted' /\ WorkIsOpen' /\ PartitionCountExact' /\ AllocationsCounted'
        <2>1. Moves(i, s)
            BY <1>0, <1>3, <1>4, SingleMove
        <2>2. /\ One(s, InProgress) = (IF s = "granted" THEN 1 ELSE 0) /\ One(step[i], InProgress) = 0
              /\ One(step[i], Counting) = 1 /\ One(s, Counting) \in {0, 1}
            BY <1>3 DEF One, InProgress, Counting
        <2>3. part'.allocationCount = part.allocationCount + One(s, InProgress) - One(step[i], InProgress)
            BY <1>1, <1>3, <1>5, <2>2
        <2>4. alloc'[Owner[i]].allocationCount
                  >= alloc[Owner[i]].allocationCount + One(s, Counting) - One(step[i], Counting)
            <3>1. alloc'[Owner[i]].allocationCount = alloc[Owner[i]].allocationCount /\ alloc[Owner[i]].allocationCount \in Nat
                BY <1>0, <1>1 DEF SpaceTypes
            <3> QED
                BY <2>2, <3>1
        <2> QED
            BY <1>4, <1>5, <1>6, <2>1, <2>3, <2>4, MoveCounts
    <1>8. failures = 0 => i \notin disk
        BY <1>0 DEF DiskFollowsSteps
    <1>9. ListedIdle' /\ DiskFollowsSteps'
        BY <1>3, <1>4, <1>5, <1>8, MoveLists
    <1>10. DiskFits'
        BY <1>0 DEF DiskFits, SumSize
    <1>11. PartitionCovered'
        <2> SUFFICES ASSUME part'.allocationCount > 0, "part" \notin overlap', failures = 0
                     PROVE  part'.availableSize + SumSize(Taken') <= TotalSize
            BY DEF PartitionCovered, SumSize
        <2>1. AvailableSize + SumSize(Taken) <= TotalSize
            BY <1>2
        <2>2. i \notin Taken /\ (i \in Taken' <=> s = "granted")
            BY <1>3, <1>4, <1>8 DEF Taken
        <2>3. /\ SumSize(Taken) \in Nat /\ SumSize(Taken') \in Nat
              /\ SumSize(Taken') + Weight(i, Taken) = SumSize(Taken) + Weight(i, Taken')
            BY <1>3, <1>4, <1>6, MoveSums
        <2>4. SumSize(Taken') = IF s = "granted" THEN SumSize(Taken) + Size[i] ELSE SumSize(Taken)
            BY <1>1, <2>2, <2>3 DEF Weight
        <2> QED
            <3>1. PICK t \in Nat, u \in Nat, v \in Nat, z \in Nat :
                      t = SumSize(Taken) /\ u = SumSize(Taken') /\ v = AvailableSize /\ z = Size[i]
                BY <1>1, <1>2, <2>3
            <3>2. v + t <= TotalSize /\ u = (IF s = "granted" THEN t + z ELSE t)
                BY <2>1, <2>4, <3>1
            <3>3. x = IF s = "granted" THEN v - z ELSE v
                BY <1>3, <3>1
            <3>4. x + u <= TotalSize
                <4>1. TotalSize \in Nat
                    BY <1>1
                <4> QED
                    BY <3>2, <3>3, <4>1
            <3> QED
                BY <1>5, <3>1, <3>4
    <1>12. AllocatorsCovered'
        <2>1. ASSUME NEW a \in Allocators, failures = 0
              PROVE  alloc[a].allocatedSize + Weight(i, TakenFrom(a)')
                         <= alloc'[a].allocatedSize + Weight(i, TakenFrom(a))
            <3>1. i \in TakenFrom(a)' => i \in TakenFrom(a)
                BY <1>3, <1>4, <1>8, <2>1 DEF TakenFrom
            <3>2. alloc'[a] = alloc[a] /\ alloc[a].allocatedSize \in Nat
                BY <1>0 DEF SpaceTypes
            <3> QED
                BY <1>1, <3>1, <3>2 DEF Weight
        <2> QED
            BY <1>2, <1>3, <1>4, <1>6, <2>1, MoveAllocators
    <1> QED
        BY <1>6, <1>7, <1>9, <1>10, <1>11, <1>12 DEF SpaceInv

\* AllocateFromPartition removes the oldest items, up to where it stops.
PartitionRemoves(i, required, stop) ==
    LET V == Victims(Sorted, Allocators, required)
        P == Removed(V, stop)
        of(a) == {p \in P : Owner[Sorted[p]] = a}
    IN  /\ failures' = IF stop = 0 THEN failures ELSE failures + 1
        /\ RemoveFromDisk(ItemsAt(Sorted, P), i, IF stop = 0 THEN "granted" ELSE "absent")
        /\ alloc' = [a \in Allocators |->
                       IF of(a) = {} THEN alloc[a] ELSE CreditAllocator(a, SizeAt(Sorted, of(a)))]
        /\ part' = [part EXCEPT
               !.outdatedItems = TrimmedList(Sorted, V, stop),
               !.availableSize = IF stop = 0 THEN AvailableSize + SizeAt(Sorted, P) - Size[i] ELSE AvailableSize,
               !.allocationCount = IF stop = 0 THEN @ + 1 ELSE @]

LEMMA PartitionWithRemoval ==
    ASSUME SpaceInv, NEW i \in Items, step[i] = "partition", UNCHANGED instance,
           overlap' = OverlapOfPart,
           NEW required \in Int, required = Size[i] - AvailableSize,
           required <= SizeAt(Sorted, 1 .. Len(Sorted)),
           NEW stop \in Stops(Victims(Sorted, Allocators, required)), PartitionRemoves(i, required, stop)
    PROVE  SpaceInv'
    <1>v. PICK V, P : V = Victims(Sorted, Allocators, required) /\ P = Removed(V, stop)
        OBVIOUS
    <1> DEFINE of(a) == {p \in P : Owner[Sorted[p]] = a}
    <1>f. failures' = IF stop = 0 THEN failures ELSE failures + 1
        BY DEF PartitionRemoves
    <1>r. RemoveFromDisk(ItemsAt(Sorted, P), i, IF stop = 0 THEN "granted" ELSE "absent")
        BY <1>v DEF PartitionRemoves
    <1>p. part' = [part EXCEPT
               !.outdatedItems = TrimmedList(Sorted, V, stop),
               !.availableSize = IF stop = 0 THEN AvailableSize + SizeAt(Sorted, P) - Size[i] ELSE AvailableSize,
               !.allocationCount = IF stop = 0 THEN part.allocationCount + 1 ELSE part.allocationCount]
        BY <1>v, Zenon DEF PartitionRemoves
    <1>a. alloc' = [a \in Allocators |->
                      IF of(a) = {} THEN alloc[a] ELSE CreditAllocator(a, SizeAt(Sorted, of(a)))]
        BY <1>v, Zenon DEF PartitionRemoves
    <1> HIDE DEF of
    <1>0. SpaceTypes /\ WorkIsOpen /\ DiskFollowsSteps /\ PartitionCovered /\ AllocatorsCovered
        BY DEF SpaceInv
    <1>1. /\ part \in [allocatorCount : Nat, allocationCount : Nat, availableSize : Nat,
                       outdatedItems : Seq(Items), partLimit : 0 .. 100]
          /\ alloc \in [Allocators -> [allocationCount : Nat, allocatedSize : Nat]]
          /\ failures \in Nat /\ failures <= MaxFailures /\ MaxFailures \in Nat
          /\ Size[i] \in Nat /\ Owner[i] \in Allocators /\ TotalSize \in Nat
          /\ instance[Owner[i]] = "open"
        <2>1. instance[Owner[i]] = "open"
            BY <1>0 DEF WorkIsOpen
        <2> QED
            BY <1>0, <2>1, ItemFacts DEF SpaceTypes
    <1>2. Sorted \in Seq(Items)
        BY SortedFacts
    <1>3. /\ V \in SUBSET (1 .. Len(Sorted)) /\ P \in SUBSET V
          /\ stop = 0 => P = V
          /\ stop # 0 => stop \in 1 .. Len(Sorted) /\ failures < MaxFailures
        <2>1. PICK L \in Seq(Items) : L = Sorted
            BY <1>2
        <2>2. stop \in Stops(Victims(L, Allocators, required))
            BY <2>1
        <2>3. LET victims == Victims(L, Allocators, required)
                  removed == Removed(victims, stop)
              IN  /\ victims \in SUBSET (1 .. Len(L)) /\ removed \in SUBSET victims
                  /\ stop = 0 => removed = victims
                  /\ stop # 0 => stop \in 1 .. Len(L) /\ failures < MaxFailures
            BY <2>2, VictimFacts
        <2> QED
            BY <1>v, <2>1, <2>3
    <1>4. PICK s \in {"granted", "absent"} :
              /\ s = IF stop = 0 THEN "granted" ELSE "absent"
              /\ RemoveFromDisk(ItemsAt(Sorted, P), i, s) /\ s \in Steps
        <2>1. CASE stop = 0
            BY <1>r, <2>1 DEF Steps, InProgress
        <2>2. CASE stop # 0
            BY <1>r, <2>2 DEF Steps, InProgress
        <2> QED
            BY <2>1, <2>2
    <1>5. PICK R, freed : R = ItemsAt(Sorted, P) /\ freed = SizeAt(Sorted, P)
        OBVIOUS
    <1>6. /\ Moves(i, s) /\ step'[i] = s /\ disk' \in SUBSET Items /\ DiskFits' /\ disk' = disk \ R
          /\ R \in SUBSET Items /\ freed \in Nat
          /\ failures = 0 =>
                /\ R \in SUBSET disk /\ freed = SumSize(R) /\ i \notin R
                /\ \A j \in R : step[j] = "present" /\ step'[j] = "absent"
                /\ \A j \in Items \ {i} : j \notin R => step'[j] = step[j]
        <2>1. P \in SUBSET (1 .. Len(Sorted)) /\ step[i] # "present"
            BY <1>3
        <2>2. disk' = disk \ R
            BY <1>5, <1>r DEF RemoveFromDisk
        <2>3. /\ Moves(i, s) /\ step'[i] = s /\ disk' \in SUBSET Items /\ DiskFits'
              /\ ItemsAt(Sorted, P) \in SUBSET Items /\ SizeAt(Sorted, P) \in Nat
              /\ failures = 0 =>
                    /\ ItemsAt(Sorted, P) \in SUBSET disk
                    /\ SizeAt(Sorted, P) = SumSize(ItemsAt(Sorted, P))
                    /\ i \notin ItemsAt(Sorted, P)
                    /\ \A j \in ItemsAt(Sorted, P) : step[j] = "present" /\ step'[j] = "absent"
                    /\ \A j \in Items \ {i} : j \notin ItemsAt(Sorted, P) => step'[j] = step[j]
            <3>1. s \in Steps /\ RemoveFromDisk(ItemsAt(Sorted, P), i, s)
                BY <1>4
            <3> QED
                BY <2>1, <3>1, RemoverFacts
        <2> QED
            BY <1>5, <2>2, <2>3, Zenon
    <1>7. /\ AvailableSize \in Nat
          /\ failures = 0 /\ "part" \notin overlap' => AvailableSize + SumSize(Taken) <= TotalSize
          /\ overlap' \in SUBSET (Allocators \union {"part"})
          /\ \A a \in Allocators : a \in overlap' <=> a \in overlap
        BY AvailableSizeFacts, ConstantsAssumption
    <1>8. /\ part' \in [allocatorCount : Nat, allocationCount : Nat, availableSize : Nat,
                        outdatedItems : Seq(Items), partLimit : 0 .. 100]
          /\ part'.allocatorCount = part.allocatorCount /\ part'.partLimit = part.partLimit
          /\ part'.allocationCount = (IF stop = 0 THEN part.allocationCount + 1 ELSE part.allocationCount)
          /\ part'.outdatedItems = TrimmedList(Sorted, V, stop)
          /\ stop = 0 => part'.availableSize = AvailableSize + freed - Size[i]
        <2>1. PICK N \in Seq(Items) : N = TrimmedList(Sorted, V, stop)
            BY <1>2, WithoutProps DEF TrimmedList
        <2>2. PICK n \in Nat : n = IF stop = 0 THEN part.allocationCount + 1 ELSE part.allocationCount
            BY <1>1
        <2>3. stop = 0 => AvailableSize + freed - Size[i] \in Nat
            <3> SUFFICES ASSUME stop = 0 PROVE AvailableSize + freed - Size[i] \in Nat
                OBVIOUS
            <3>1. PICK L \in Seq(Items) : L = Sorted
                BY <1>2
            <3>2. required <= SizeAt(L, Victims(L, Allocators, required))
                BY <3>1, VictimsSuffice
            <3>3. required <= freed
                BY <1>v, <1>3, <1>5, <3>1, <3>2
            <3>4. PICK v \in Nat, z \in Nat : v = AvailableSize /\ z = Size[i]
                BY <1>1, <1>7
            <3>5. z - v <= freed /\ freed \in Nat
                BY <1>6, <3>3, <3>4
            <3>6. v + freed - z \in Nat
                BY <3>5
            <3> QED
                BY <3>4, <3>6
        <2>4. PICK y \in Nat : /\ y = IF stop = 0 THEN AvailableSize + freed - Size[i] ELSE AvailableSize
                               /\ stop = 0 => y = AvailableSize + freed - Size[i]
            <3>1. CASE stop = 0
                BY <2>3, <3>1
            <3>2. CASE stop # 0
                BY <1>7, <3>2
            <3> QED
                BY <3>1, <3>2
        <2>5. part' = [part EXCEPT !.outdatedItems = N, !.availableSize = y, !.allocationCount = n]
            BY <1>p, <1>5, <2>1, <2>2, <2>4, Zenon
        <2> QED
            BY <1>1, <2>1, <2>2, <2>4, <2>5
    <1>9. ASSUME NEW a \in Allocators
          PROVE  /\ alloc'[a] \in [allocationCount : Nat, allocatedSize : Nat]
                 /\ alloc'[a].allocationCount = alloc[a].allocationCount
                 /\ of(a) \in SUBSET (1 .. Len(Sorted)) /\ SizeAt(Sorted, of(a)) \in Nat
                 /\ sizeLimit(a) # 0 /\ alloc[a].allocationCount > 0 =>
                        alloc[a].allocatedSize <= alloc'[a].allocatedSize + SizeAt(Sorted, of(a))
        <2>1. of(a) \in SUBSET (1 .. Len(Sorted))
            BY <1>3 DEF of
        <2>2. PICK Q \in SUBSET (1 .. Len(Sorted)) : Q = of(a)
            BY <2>1
        <2>3. PICK x \in Nat : x = SizeAt(Sorted, Q)
            BY <1>2, SizeAtFacts
        <2>4. alloc'[a] = IF of(a) = {} THEN alloc[a] ELSE CreditAllocator(a, x)
            BY <1>a, <2>2, <2>3, Zenon
        <2>5. alloc[a] \in [allocationCount : Nat, allocatedSize : Nat]
            BY <1>1
        <2>6. /\ CreditAllocator(a, x) \in [allocationCount : Nat, allocatedSize : Nat]
              /\ CreditAllocator(a, x).allocationCount = alloc[a].allocationCount
              /\ sizeLimit(a) # 0 /\ alloc[a].allocationCount > 0 =>
                     alloc[a].allocatedSize <= CreditAllocator(a, x).allocatedSize + x
            BY CreditFacts
        <2>7. CASE of(a) = {}
            <3>1. alloc'[a] = alloc[a]
                BY <2>4, <2>7
            <3> QED
                BY <2>2, <2>3, <2>5, <3>1
        <2>8. CASE of(a) # {}
            <3>1. alloc'[a] = CreditAllocator(a, x)
                BY <2>4, <2>8
            <3> QED
                BY <2>2, <2>3, <2>6, <3>1
        <2> QED
            BY <2>7, <2>8
    <1>10. alloc' \in [Allocators -> [allocationCount : Nat, allocatedSize : Nat]]
        <2>1. alloc' = [a \in Allocators |-> alloc'[a]]
            BY <1>a
        <2> QED
            BY <1>9, <2>1
    <1>11. failures' \in 0 .. MaxFailures /\ (failures' = 0 => stop = 0 /\ failures = 0)
        <2>1. CASE stop = 0
            BY <1>f, <1>1, <2>1
        <2>2. CASE stop # 0
            BY <1>f, <1>1, <1>3, <2>2
        <2> QED
            BY <2>1, <2>2
    <1>12. SpaceTypes'
        BY <1>0, <1>6, <1>7, <1>8, <1>10, <1>11 DEF SpaceTypes, Moves
    <1>13. AllocatorsCounted' /\ WorkIsOpen' /\ PartitionCountExact' /\ AllocationsCounted'
        <2>1. /\ One(s, InProgress) = (IF stop = 0 THEN 1 ELSE 0) /\ One(step[i], InProgress) = 0
              /\ One(step[i], Counting) = 1 /\ One(s, Counting) \in {0, 1}
            BY <1>4 DEF One, InProgress, Counting
        <2>2. alloc'[Owner[i]].allocationCount
                  >= alloc[Owner[i]].allocationCount + One(s, Counting) - One(step[i], Counting)
            <3>1. /\ alloc'[Owner[i]].allocationCount = alloc[Owner[i]].allocationCount
                  /\ alloc[Owner[i]].allocationCount \in Nat
                BY <1>1, <1>9
            <3> QED
                BY <2>1, <3>1
        <2>3. part.allocationCount \in Nat
            BY <1>1
        <2>4. part'.allocationCount = part.allocationCount + One(s, InProgress) - One(step[i], InProgress)
            BY <1>8, <2>1, <2>3
        <2>5. instance[Owner[i]] = "open"
            BY <1>1
        <2> QED
            BY <1>4, <1>6, <1>8, <1>9, <1>12, <2>2, <2>4, <2>5, MoveCounts
    <1>14. CASE failures' # 0
        <2>1. ListedIdle' /\ DiskFollowsSteps' /\ PartitionCovered' /\ AllocatorsCovered'
            BY <1>14 DEF ListedIdle, DiskFollowsSteps, PartitionCovered, AllocatorsCovered
        <2> QED
            BY <1>6, <1>12, <1>13, <2>1 DEF SpaceInv
    <1>15. CASE failures' = 0
        <2>1. /\ stop = 0 /\ failures = 0 /\ s = "granted" /\ i \notin disk
              /\ R \in SUBSET disk /\ freed = SumSize(R) /\ i \notin R
              /\ \A j \in R : step[j] = "present" /\ step'[j] = "absent"
              /\ \A j \in Items \ {i} : j \notin R => step'[j] = step[j]
            BY <1>0, <1>4, <1>6, <1>11, <1>15 DEF DiskFollowsSteps
        <2>2. ListedIdle' /\ DiskFollowsSteps'
            <3>1. part'.outdatedItems = Without(Sorted, P)
                BY <1>3, <1>8, <2>1 DEF TrimmedList
            <3>2. P \in SUBSET (1 .. Len(Sorted)) /\ failures' = failures
                BY <1>3, <1>15, <2>1
            <3> QED
                BY <1>4, <2>1, <3>1, <3>2, RemovedLists
        <2>4. PartitionCovered'
            <3> SUFFICES ASSUME "part" \notin overlap'
                         PROVE  part'.availableSize + SumSize(Taken') <= TotalSize
                BY DEF PartitionCovered, SumSize
            <3>1. PICK S \in SUBSET Items, T \in SUBSET Items : S = Taken /\ T = Taken'
                BY DEF Taken
            <3>2. T = (S \ R) \union {i} /\ R \in SUBSET S
                BY <1>6, <2>1, <3>1 DEF Taken
            <3>3. SumSize(S) \in Nat /\ SumSize(R) \in Nat /\ SumSize(S \ R) \in Nat /\ SumSize(S) = SumSize(S \ R) + SumSize(R)
                BY <3>2, SumSizeFacts
            <3>4. PICK U \in SUBSET Items : U = S \ R
                OBVIOUS
            <3>5. SumSize(U \union {i}) \in Nat /\ SumSize(U \union {i}) <= SumSize(U) + Size[i]
                BY AddToSum
            <3>6. PICK v \in Nat, z \in Nat, t \in Nat, u \in Nat, r \in Nat :
                      /\ v = AvailableSize /\ z = Size[i] /\ t = SumSize(T) /\ u = SumSize(S \ R) /\ r = SumSize(R)
                BY <1>1, <1>7, <3>2, <3>3, <3>4, <3>5
            <3>7. v + (u + r) <= TotalSize
                BY <1>7, <2>1, <3>1, <3>3, <3>6
            <3>8. t <= u + z
                BY <3>2, <3>4, <3>5, <3>6
            <3>9. part'.availableSize = v + r - z /\ TotalSize \in Nat
                BY <1>1, <1>8, <2>1, <3>6
            <3>10. v + r - z + t <= TotalSize
                BY <3>7, <3>8, <3>9
            <3> QED
                BY <3>1, <3>6, <3>9, <3>10
        <2>5. ASSUME NEW b \in Allocators, sizeLimit(b) # 0, alloc'[b].allocationCount > 0, b \notin overlap'
              PROVE  SumSize(TakenFrom(b)') <= alloc'[b].allocatedSize
            <3>1. PICK S \in SUBSET Items, T \in SUBSET Items : S = TakenFrom(b) /\ T = TakenFrom(b)'
                BY DEF TakenFrom
            <3>2. PICK Q \in SUBSET (1 .. Len(Sorted)) : Q = of(b)
                BY <1>9
            <3>20. PICK B : B = ItemsAt(Sorted, Q)
                OBVIOUS
            <3>3. \A j : j \in B <=> j \in R /\ Owner[j] = b
                BY <1>5, <3>2, <3>20 DEF ItemsAt, of
            <3>4. T = S \ B /\ B \in SUBSET S
                BY <1>6, <2>1, <3>1, <3>3 DEF TakenFrom
            <3>5. SumSize(S) \in Nat /\ SumSize(B) \in Nat /\ SumSize(S \ B) \in Nat /\ SumSize(S) = SumSize(S \ B) + SumSize(B)
                BY <3>4, SumSizeFacts
            <3>6. SizeAt(Sorted, Q) = SumSize(B)
                BY <1>2, <2>1, <3>20, SortedFacts, SizeAtFacts
            <3>7. alloc[b].allocationCount > 0 /\ SumSize(S) <= alloc[b].allocatedSize
                BY <1>0, <1>7, <1>9, <2>1, <2>5, <3>1 DEF AllocatorsCovered
            <3>8. PICK x \in Nat, y \in Nat : x = alloc[b].allocatedSize /\ y = alloc'[b].allocatedSize
                BY <1>1, <1>10
            <3>9. x <= y + SumSize(B)
                BY <1>9, <2>5, <3>2, <3>6, <3>7, <3>8
            <3>10. SumSize(T) <= y
                <4>1. \A u, r \in Nat : u + r <= x /\ x <= y + r => u <= y
                    OBVIOUS
                <4>2. SumSize(S \ B) + SumSize(B) <= x
                    BY <3>5, <3>7, <3>8
                <4> QED
                    BY <3>4, <3>5, <3>9, <4>1, <4>2
            <3> QED
                BY <3>1, <3>8, <3>10
        <2>6. AllocatorsCovered'
            BY <2>5 DEF AllocatorsCovered, SumSize, sizeLimit
        <2> QED
            BY <1>6, <1>12, <1>13, <2>2, <2>4, <2>6 DEF SpaceInv
    <1> QED
        BY <1>14, <1>15

LEMMA AllocateFromPartitionKeeps ==
    ASSUME SpaceInv, NEW i \in Items, AllocateFromPartition(i)
    PROVE  SpaceInv'
    <1>1. step[i] = "partition" /\ UNCHANGED instance /\ overlap' = OverlapOfPart
        BY DEF AllocateFromPartition
    <1>2. PICK required : required = Size[i] - AvailableSize
        OBVIOUS
    <1>3. required \in Int
        BY <1>2, AvailableSizeFacts, ItemFacts
    <1>4. DOMAIN Sorted = 1 .. Len(Sorted)
        BY SortedFacts, ListFacts
    <1>5. \/ /\ required <= 0
             /\ part' = [part EXCEPT !.availableSize = AvailableSize - Size[i], !.allocationCount = @ + 1]
             /\ step' = [step EXCEPT ![i] = "granted"]
             /\ UNCHANGED <<alloc, disk, failures>>
          \/ /\ part' = [part EXCEPT !.availableSize = AvailableSize]
             /\ step' = [step EXCEPT ![i] = "absent"]
             /\ UNCHANGED <<alloc, disk, failures>>
          \/ /\ required <= SizeAt(Sorted, DOMAIN Sorted)
             /\ \E stop \in Stops(Victims(Sorted, Allocators, required)) : PartitionRemoves(i, required, stop)
        <2>1. \/ /\ Size[i] - AvailableSize <= 0
                 /\ part' = [part EXCEPT !.availableSize = AvailableSize - Size[i], !.allocationCount = @ + 1]
                 /\ step' = [step EXCEPT ![i] = "granted"]
                 /\ UNCHANGED <<alloc, disk, failures>>
              \/ /\ part' = [part EXCEPT !.availableSize = AvailableSize]
                 /\ step' = [step EXCEPT ![i] = "absent"]
                 /\ UNCHANGED <<alloc, disk, failures>>
              \/ /\ Size[i] - AvailableSize <= SizeAt(Sorted, DOMAIN Sorted)
                 /\ \E stop \in Stops(Victims(Sorted, Allocators, Size[i] - AvailableSize)) :
                        PartitionRemoves(i, Size[i] - AvailableSize, stop)
            BY Zenon DEF AllocateFromPartition, PartitionRemoves, Sorted
        <2> QED
            BY <1>2, <2>1, Zenon
    <1>6. CASE /\ required <= SizeAt(Sorted, DOMAIN Sorted)
               /\ \E stop \in Stops(Victims(Sorted, Allocators, required)) : PartitionRemoves(i, required, stop)
        BY <1>1, <1>2, <1>3, <1>4, <1>6, PartitionWithRemoval
    <1> QED
        BY <1>1, <1>2, <1>5, <1>6, PartitionWithoutRemoval

-----------------------------------------------------------------------------
(***************************************************************************)
(* spaceallocator: the theorems                                            *)
(***************************************************************************)
LEMMA SpaceInvStep == SpaceInv /\ [Next]_vars => SpaceInv'
    <1> SUFFICES ASSUME SpaceInv, [Next]_vars PROVE SpaceInv'
        OBVIOUS
    <1>1. CASE UNCHANGED vars
        <2>1. UNCHANGED <<instance, part, alloc, disk, step, failures, overlap>>
            BY <1>1 DEF vars
        <2>2. /\ SpaceTypes' /\ AllocatorsCounted' /\ WorkIsOpen' /\ PartitionCountExact'
              /\ DiskFits' /\ ListedIdle' /\ DiskFollowsSteps'
            BY <2>1 DEF SpaceInv, SpaceTypes, AllocatorsCounted, Opened, WorkIsOpen, PartitionCountExact,
                        DiskFits, SumSize, ListedIdle, DiskFollowsSteps
        <2>3. AllocationsCounted' /\ PartitionCovered' /\ AllocatorsCovered'
            BY <2>1 DEF SpaceInv, AllocationsCounted, Counted, sizeLimit, PartitionCovered, Taken, SumSize,
                        AllocatorsCovered, TakenFrom
        <2> QED
            BY <2>2, <2>3 DEF SpaceInv
    <1>2. ASSUME NEW a \in Allocators, New(a) \/ Close(a) PROVE SpaceInv'
        BY <1>2, NewKeeps, CloseKeeps
    <1>3. ASSUME NEW i \in Items, ItemStep(i) PROVE SpaceInv'
        BY <1>3, AllocateFromAllocatorKeeps, AllocateFromPartitionKeeps, StoreKeeps, DiscardKeeps,
           FreeInAllocatorKeeps, FreeInPartitionKeeps, AcceptKeeps, DoneInAllocatorKeeps,
           DoneInPartitionKeeps, OwnerRemovesKeeps, AddOutdatedItemKeeps, RestoreOutdatedItemKeeps
           DEF ItemStep
    <1> QED
        BY <1>1, <1>2, <1>3 DEF Next

LEMMA SpaceInvHolds == Spec => []SpaceInv
    BY SpaceInvInit, SpaceInvStep, PTL DEF Spec

\* The accounts and the counters are unsigned in the code: none of them ever
\* wraps below zero, for any sizes, limits and interleaving of the callers.
THEOREM SpaceTypeCorrect == Spec => []TypeOK
    <1>1. SpaceInv => TypeOK
        <2> SUFFICES ASSUME SpaceInv PROVE TypeOK
            OBVIOUS
        <2>1. SpaceTypes
            BY DEF SpaceInv
        <2> QED
            BY <2>1 DEF SpaceTypes, TypeOK, Steps
    <1> QED
        BY <1>1, SpaceInvHolds, PTL

\* Two disjoint sets within a third.
LEMMA DisjointWithin ==
    ASSUME NEW S \in SUBSET Items, NEW A \in SUBSET S, NEW B \in SUBSET S, A \intersect B = {}
    PROVE  SumSize(A) \in Nat /\ SumSize(B) \in Nat /\ SumSize(S) \in Nat /\ SumSize(A) + SumSize(B) <= SumSize(S)
    <1>1. PICK U \in SUBSET Items : U = A \union B
        OBVIOUS
    <1>2. U \ B = A /\ B \in SUBSET U /\ U \in SUBSET S
        BY <1>1
    <1>3. SumSize(B) \in Nat /\ SumSize(U \ B) \in Nat /\ SumSize(U) = SumSize(U \ B) + SumSize(B)
        BY <1>2, SumSizeFacts
    <1>4. SumSize(U) \in Nat /\ SumSize(S) \in Nat /\ SumSize(U) <= SumSize(S)
        BY <1>2, SmallerSum
    <1>5. SumSize(U \ B) = SumSize(A)
        BY <1>2, Zenon
    <1> QED
        BY <1>3, <1>4, <1>5

\* Neither account ever promises space that is not there, and the partition
\* counts exactly the allocations in progress (AllocateSpace, Accept, Release,
\* FreeSpace and the removal of outdated items, by any number of goroutines).
THEOREM AccountsAlwaysCover == Spec => []AccountsCoverUse
    <1>1. SpaceInv => AccountsCoverUse
        <2> SUFFICES ASSUME SpaceInv PROVE AccountsCoverUse
            OBVIOUS
        <2>0. /\ SpaceTypes /\ PartitionCountExact /\ DiskFits /\ DiskFollowsSteps
              /\ PartitionCovered /\ AllocatorsCovered
            BY DEF SpaceInv
        <2>1. disk \in SUBSET Items /\ part.availableSize \in Nat /\ TotalSize \in Nat
            BY <2>0, ItemFacts DEF SpaceTypes
        <2>2. ASSUME part.allocationCount > 0, "part" \notin overlap, failures = 0
              PROVE  part.availableSize + SumSize({i \in Items : step[i] \in {"granted", "release"}})
                         <= GetAvailableSize
            <3>1. PICK S \in SUBSET Items, G \in SUBSET Items :
                      S = Taken /\ G = {i \in Items : step[i] \in {"granted", "release"}}
                BY DEF Taken
            <3>2. G \in SUBSET S /\ disk \in SUBSET S /\ disk \intersect G = {}
                BY <2>0, <2>1, <2>2, <3>1 DEF DiskFollowsSteps, Taken
            <3>3. PICK D \in SUBSET S : D = disk
                BY <3>2
            <3>4. SumSize(D) \in Nat /\ SumSize(G) \in Nat /\ SumSize(S) \in Nat /\ SumSize(D) + SumSize(G) <= SumSize(S)
                BY <3>2, <3>3, DisjointWithin
            <3>5. part.availableSize + SumSize(S) <= TotalSize
                BY <2>0, <2>2, <3>1 DEF PartitionCovered
            <3>6. part.availableSize + SumSize(G) <= TotalSize - SumSize(D)
                BY <2>1, <3>4, <3>5
            <3> QED
                BY <3>1, <3>3, <3>6 DEF GetAvailableSize
        <2>3. ASSUME NEW a \in Allocators, sizeLimit(a) > 0, alloc[a].allocationCount > 0,
                     a \notin overlap, failures = 0
              PROVE  GetDirSize(a) + SumSize({i \in Items : Owner[i] = a /\ step[i] \in {"partition", "granted"}})
                         <= alloc[a].allocatedSize
            <3>1. PICK S \in SUBSET Items, G \in SUBSET Items, D \in SUBSET Items :
                      /\ S = TakenFrom(a) /\ D = {i \in disk : Owner[i] = a}
                      /\ G = {i \in Items : Owner[i] = a /\ step[i] \in {"partition", "granted"}}
                BY <2>1 DEF TakenFrom
            <3>2. G \in SUBSET S /\ D \in SUBSET S /\ D \intersect G = {}
                BY <2>0, <2>1, <2>3, <3>1 DEF DiskFollowsSteps, TakenFrom
            <3>4. SumSize(D) \in Nat /\ SumSize(G) \in Nat /\ SumSize(S) \in Nat /\ SumSize(D) + SumSize(G) <= SumSize(S)
                BY <3>2, DisjointWithin
            <3>5. sizeLimit(a) # 0
                BY <2>3, LimitFacts
            <3>6. SumSize(S) <= alloc[a].allocatedSize /\ alloc[a].allocatedSize \in Nat
                BY <2>0, <2>3, <3>1, <3>5 DEF AllocatorsCovered, SpaceTypes
            <3>7. SumSize(D) + SumSize(G) <= alloc[a].allocatedSize
                BY <3>4, <3>6
            <3> QED
                BY <3>1, <3>7 DEF GetDirSize
        <2> QED
            BY <2>0, <2>2, <2>3 DEF AccountsCoverUse, PartitionNotOvercommitted, AllocatorAccountCovers
    <1> QED
        BY <1>1, SpaceInvHolds, PTL

\* Whatever the list of outdated items names is on the disk, as long as the
\* ItemRemover has not failed.
THEOREM ListedItemsAreThere == Spec => []ListedUnlessRemoverFailed
    <1>1. SpaceInv => ListedUnlessRemoverFailed
        <2> SUFFICES ASSUME SpaceInv, failures = 0, NEW x \in Listed PROVE x \in disk
            BY DEF ListedUnlessRemoverFailed
        <2>1. part.outdatedItems \in Seq(Items) /\ ListedIdle /\ DiskFollowsSteps
            BY DEF SpaceInv, SpaceTypes
        <2>2. PICK k \in 1 .. Len(part.outdatedItems) : part.outdatedItems[k] = x
            BY <2>1, ListFacts DEF Listed, ToSet
        <2>3. x \in Items /\ step[x] = "present"
            BY <2>1, <2>2, ListFacts DEF ListedIdle
        <2> QED
            BY <2>1, <2>3 DEF DiskFollowsSteps
    <1> QED
        BY <1>1, SpaceInvHolds, PTL

\* The victims among the items of owners are older than those that stay.
LEMMA VictimsAreOldest ==
    ASSUME SpaceInv, failures = 0, NEW owners, NEW required \in Int,
           NEW V, V = Victims(Sorted, owners, required),
           NEW i \in ItemsAt(Sorted, V), NEW j \in Listed, j \notin ItemsAt(Sorted, V), Owner[j] \in owners
    PROVE  i < j
    <1>1. PICK L \in Seq(Items) : L = Sorted
        BY SortedFacts
    <1>2. 0 \in Stops(Victims(L, owners, required))
        BY DEF Stops
    <1>3. LET victims == Victims(L, owners, required)
          IN  /\ victims \in SUBSET (1 .. Len(L))
              /\ \A p \in victims, q \in 1 .. Len(L) : q < p /\ Owner[L[q]] \in owners => q \in victims
        BY <1>2, VictimFacts
    <1>4. /\ V \in SUBSET (1 .. Len(L))
          /\ \A p \in V, q \in 1 .. Len(L) : q < p /\ Owner[L[q]] \in owners => q \in V
        BY <1>1, <1>3
    <1>5. PICK p \in V : L[p] = i
        BY <1>1 DEF ItemsAt
    <1>6. PICK q \in 1 .. Len(L) : L[q] = j
        BY <1>1, SortedFacts DEF Listed
    <1>7. q \notin V
        BY <1>1, <1>6 DEF ItemsAt
    <1>8. p \in 1 .. Len(L) /\ Len(L) \in Nat
        BY <1>4, ListFacts
    <1>9. p < q
        <2>1. ~ (q < p)
            BY <1>4, <1>5, <1>6, <1>7
        <2>2. p # q
            BY <1>5, <1>7
        <2> QED
            BY <1>8, <2>1, <2>2
    <1>10. L[p] <= L[q] /\ L[p] # L[q]
        BY <1>1, <1>8, <1>9, SortedFacts
    <1>11. L[p] \in Nat /\ L[q] \in Nat
        BY <1>8, ListFacts
    <1> QED
        BY <1>5, <1>6, <1>10, <1>11

\* An outdated item leaves the disk only by the removal loops.
LEMMA OnlyLoopsRemove ==
    ASSUME SpaceInv, failures = 0, [Next]_vars, NEW i \in (disk \ disk') \intersect Listed
    PROVE  \E k \in Items : AllocateFromAllocator(k) \/ AllocateFromPartition(k)
    <1>1. step[i] = "present" /\ i \in disk /\ i \notin disk' /\ i \in ToSet(part.outdatedItems)
        <2>1. part.outdatedItems \in Seq(Items) /\ ListedIdle
            BY DEF SpaceInv, SpaceTypes
        <2> QED
            BY <2>1, ListFacts DEF Listed, ToSet, ListedIdle
    <1>2. disk' # disk
        BY <1>1
    <1>3. PICK k \in Items : ItemStep(k)
        BY <1>2 DEF Next, New, Close, vars
    <1>4. ~ Discard(k) /\ ~ OwnerRemoves(k) /\ ~ Store(k)
        BY <1>1 DEF Discard, OwnerRemoves, Store
    <1> QED
        BY <1>2, <1>3, <1>4 DEF ItemStep, ReleaseInAllocator, ReleaseInPartition, Accept, DoneInAllocator,
               DoneInPartition, FreeSpaceInAllocator, FreeSpaceInPartition, AddOutdatedItem, RestoreOutdatedItem

\* A loop that removes something is one of those modelled by AllocatorRemoves ...
LEMMA AllocatorLoop ==
    ASSUME SpaceInv, NEW k \in Items, AllocateFromAllocator(k), disk' # disk
    PROVE  \E required \in Int : \E stop \in Stops(Victims(Sorted, {Owner[k]}, required)) :
               AllocatorRemoves(k, Owner[k], required, stop)
    <1>0. Owner[k] \in Allocators
        BY ItemFacts
    <1>1. PICK required : required = AllocatedSize(Owner[k]) + Size[k] - sizeLimit(Owner[k])
        OBVIOUS
    <1>2. required \in Int
        BY <1>0, <1>1, AllocatedSizeFacts, LimitFacts, ItemFacts
    <1>3. \/ UNCHANGED disk
          \/ \E stop \in Stops(Victims(Sorted, {Owner[k]}, required)) :
                 AllocatorRemoves(k, Owner[k], required, stop)
        BY <1>1, Zenon DEF AllocateFromAllocator, AllocatorRemoves, Sorted
    <1> QED
        BY <1>2, <1>3

\* ... or by PartitionRemoves.
LEMMA PartitionLoop ==
    ASSUME SpaceInv, NEW k \in Items, AllocateFromPartition(k), disk' # disk
    PROVE  \E required \in Int : \E stop \in Stops(Victims(Sorted, Allocators, required)) :
               PartitionRemoves(k, required, stop)
    <1>2. Size[k] - AvailableSize \in Int
        BY AvailableSizeFacts, ItemFacts
    <1>3. \/ UNCHANGED disk
          \/ \E stop \in Stops(Victims(Sorted, Allocators, Size[k] - AvailableSize)) :
                 PartitionRemoves(k, Size[k] - AvailableSize, stop)
        BY Zenon DEF AllocateFromPartition, PartitionRemoves, Sorted
    <1> QED
        BY <1>2, <1>3, Zenon

\* The oldest outdated item is removed first, whichever account is short of
\* space (removeOutdatedItems of the allocator and of the partition).
THEOREM OldestAlwaysFirst == Spec => OldestRemovedFirst
    <1> DEFINE A == failures' = 0 =>
                        \A i \in (disk \ disk') \intersect Listed, j \in disk' \intersect Listed :
                            i < j \/ (Owner[i] # Owner[j] /\ RemovedByAllocator(i))
    <1>1. ASSUME SpaceInv, SpaceInv', [Next]_vars PROVE A
        <2> SUFFICES ASSUME failures' = 0,
                            NEW i \in (disk \ disk') \intersect Listed, NEW j \in disk' \intersect Listed
                     PROVE  i < j \/ (Owner[i] # Owner[j] /\ RemovedByAllocator(i))
            OBVIOUS
        <2>0. /\ failures \in Nat /\ disk' # disk /\ disk \in SUBSET Items /\ j \in Items
              /\ step \in [Items -> Steps]
            BY <1>1 DEF SpaceInv, SpaceTypes
        <2>1. PICK k \in Items : AllocateFromAllocator(k) \/ AllocateFromPartition(k)
            <3>1. failures = 0
                <4>1. \/ failures' = failures \/ failures' = failures + 1
                    BY <1>1 DEF Next, New, Close, vars, ItemStep, Store, Discard, ReleaseInAllocator,
                           ReleaseInPartition, Accept, DoneInAllocator, DoneInPartition, OwnerRemoves,
                           FreeSpaceInAllocator, FreeSpaceInPartition, AddOutdatedItem,
                           RestoreOutdatedItem, AllocateFromAllocator, AllocateFromPartition
                <4> QED
                    BY <2>0, <4>1
            <3> QED
                BY <1>1, <3>1, OnlyLoopsRemove
        <2>2. CASE AllocateFromAllocator(k)
            <3>0. PICK a : a = Owner[k]
                OBVIOUS
            <3>r. PICK required \in Int :
                      \E stop \in Stops(Victims(Sorted, {a}, required)) : AllocatorRemoves(k, a, required, stop)
                BY <1>1, <2>0, <2>2, <3>0, AllocatorLoop
            <3>1. PICK stop \in Stops(Victims(Sorted, {a}, required)) : AllocatorRemoves(k, a, required, stop)
                BY <3>r
            <3>2. PICK V : V = Victims(Sorted, {a}, required)
                OBVIOUS
            <3>3. failures' = (IF stop = 0 THEN failures ELSE failures + 1)
                BY <3>1 DEF AllocatorRemoves
            <3>4. stop = 0 /\ failures = 0
                BY <2>0, <3>3
            <3>5. Removed(V, 0) = V
                BY DEF Removed
            <3>6. RemoveFromDisk(ItemsAt(Sorted, V), k, "partition")
                BY <3>1, <3>2, <3>4, <3>5 DEF AllocatorRemoves
            <3>7. disk' = disk \ ItemsAt(Sorted, V) /\ step'[k] = "partition"
                BY <3>6 DEF RemoveFromDisk
            <3>8. i \in ItemsAt(Sorted, V) /\ j \notin ItemsAt(Sorted, V) /\ j \in Listed
                BY <3>7
            <3>9. CASE Owner[j] = a
                <4>1. PICK owners : owners = {a}
                    OBVIOUS
                <4>2. V = Victims(Sorted, owners, required) /\ Owner[j] \in owners
                    BY <3>2, <3>9, <4>1
                <4> QED
                    BY <1>1, <3>4, <3>8, <4>2, VictimsAreOldest
            <3>10. CASE Owner[j] # a
                <4>1. Owner[i] = a
                    <5>0. PICK owners : owners = {a}
                        OBVIOUS
                    <5>1. PICK L \in Seq(Items) : L = Sorted
                        BY <1>1, SortedFacts
                    <5>2. 0 \in Stops(Victims(L, owners, required))
                        BY DEF Stops
                    <5>3. \A p \in Victims(L, owners, required) : Owner[L[p]] \in owners
                        BY <5>2, VictimFacts
                    <5> QED
                        BY <3>2, <3>8, <5>0, <5>1, <5>3 DEF ItemsAt
                <4>2. step[k] = "absent"
                    BY <2>2 DEF AllocateFromAllocator
                <4>3. RemovedByAllocator(i)
                    BY <3>0, <3>7, <4>1, <4>2 DEF RemovedByAllocator
                <4> QED
                    BY <3>10, <4>1, <4>3
            <3> QED
                BY <3>9, <3>10
        <2>3. CASE AllocateFromPartition(k)
            <3>r. PICK required \in Int :
                      \E stop \in Stops(Victims(Sorted, Allocators, required)) : PartitionRemoves(k, required, stop)
                BY <1>1, <2>0, <2>3, PartitionLoop
            <3>1. PICK stop \in Stops(Victims(Sorted, Allocators, required)) : PartitionRemoves(k, required, stop)
                BY <3>r
            <3>2. PICK V : V = Victims(Sorted, Allocators, required)
                OBVIOUS
            <3>3. failures' = (IF stop = 0 THEN failures ELSE failures + 1)
                BY <3>1 DEF PartitionRemoves
            <3>4. stop = 0 /\ failures = 0
                BY <2>0, <3>3
            <3>5. Removed(V, 0) = V
                BY DEF Removed
            <3>6. RemoveFromDisk(ItemsAt(Sorted, V), k, "granted")
                BY <3>1, <3>2, <3>4, <3>5 DEF PartitionRemoves
            <3>7. disk' = disk \ ItemsAt(Sorted, V)
                BY <3>6 DEF RemoveFromDisk
            <3>8. i \in ItemsAt(Sorted, V) /\ j \notin ItemsAt(Sorted, V) /\ j \in Listed /\ Owner[j] \in Allocators
                BY <2>0, <3>7, ItemFacts
            <3> QED
                BY <1>1, <3>2, <3>4, <3>8, VictimsAreOldest
        <2> QED
            BY <2>1, <2>2, <2>3
    <1>2. SpaceInv /\ SpaceInv' /\ [Next]_vars => [A]_vars
        BY <1>1
    <1> QED
        BY <1>2, SpaceInvHolds, PTL DEF Spec, OldestRemovedFirst

=============================================================================
