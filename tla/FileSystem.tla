----------------------------- MODULE FileSystem -----------------------------
(***************************************************************************)
(* utils/fs: mount points.  Mount and Umount retry the system call three   *)
(* times, with module Retry's loop and a context that is never done, and   *)
(* unmount by force between the tries.                                     *)
(*                                                                         *)
(* A mount point is a path, a sequence of names.  What is mounted on it    *)
(* last hides what was mounted before.                                     *)
(***************************************************************************)
EXTENDS Retry, SequencesExt

CONSTANTS
    Points,        \* mount points
    Dirs,          \* directories to look up
    Sources,       \* file systems
    WithDots,      \* names that contain ".."
    MaxMounts      \* bound: file systems mounted on one point

ASSUME PathAssumption ==
    /\ \A path \in Points \union Dirs : path \in Seq(Range(path))
    /\ MaxMounts \in Nat

VARIABLES
    mounted,       \* mounted[p]: file systems mounted on p, the last one on top
    pointExists,   \* pointExists[p]: the directory p exists
    intact,        \* intact[s]: nobody removed the files of file system s
    fsOp,          \* the call: its name, mount point and file system
    stacked        \* history: points on which two file systems were mounted

fsVars == <<mounted, pointExists, intact, fsOp, stacked>>

NoOp == [name |-> "none", point |-> <<>>, source |-> "none"]

FSInit ==
    /\ mounted = [p \in Points |-> <<>>]
    /\ pointExists = [p \in Points |-> FALSE]
    /\ intact = [s \in Sources |-> TRUE]
    /\ fsOp = NoOp
    /\ stacked = {}

\* Mount, after os.MkdirAll; OverlayMount, after it has made a new work
\* directory.  Both return early when a directory cannot be made.
Mount(p, s) ==
    /\ retryPC = "idle" /\ fsOp = NoOp
    /\ Len(mounted[p]) < MaxMounts
    /\ pointExists' = [pointExists EXCEPT ![p] = TRUE]
    /\ fsOp' = [name |-> "mount", point |-> p, source |-> s]
    /\ UNCHANGED <<mounted, intact, stacked>>

\* Fault: the directory is removed before the system call.
UmountRemovesFirst(p) ==
    /\ retryPC = "idle" /\ fsOp = NoOp
    /\ pointExists[p] /\ mounted[p] # <<>>
    /\ intact' = [intact EXCEPT ![Last(mounted[p])] = FALSE]
    /\ fsOp' = [name |-> "umount", point |-> p, source |-> "none"]
    /\ UNCHANGED <<mounted, pointExists, stacked>>

Umount(p) ==
    /\ retryPC = "idle" /\ fsOp = NoOp
    /\ pointExists[p]
    /\ fsOp' = [name |-> "umount", point |-> p, source |-> "none"]
    /\ UNCHANGED <<mounted, pointExists, intact, stacked>>

Point == fsOp.point

Pop(p) == mounted' = [mounted EXCEPT ![p] = Front(@)]

\* syscall.Mount and syscall.Unmount succeed.
SystemCall ==
    /\ \/ /\ fsOp.name = "mount"
          /\ mounted' = [mounted EXCEPT ![Point] = Append(@, fsOp.source)]
          /\ stacked' = IF mounted[Point] # <<>> THEN stacked \union {Point} ELSE stacked
       \/ /\ fsOp.name = "umount"
          /\ mounted[Point] # <<>>
          /\ Pop(Point)
          /\ UNCHANGED stacked
    /\ UNCHANGED <<pointExists, intact, fsOp>>

\* retryCbk: forceUmount, whose error is ignored
forceUmount ==
    /\ \/ mounted[Point] # <<>> /\ Pop(Point)
       \/ UNCHANGED mounted
    /\ UNCHANGED <<pointExists, intact, fsOp, stacked>>

MountReturns ==
    /\ fsOp.name = "mount"
    /\ fsOp' = NoOp
    /\ UNCHANGED <<mounted, pointExists, intact, stacked>>

(***************************************************************************)
(* The deferred os.RemoveAll of Umount, whether the file system was        *)
(* unmounted or not: it removes the files of a file system that is still   *)
(* mounted, and then fails.                                                *)
(***************************************************************************)
RemoveAll ==
    /\ fsOp.name = "umount"
    /\ \/ /\ mounted[Point] = <<>>
          /\ pointExists' = [pointExists EXCEPT ![Point] = FALSE]
          /\ UNCHANGED intact
       \/ /\ mounted[Point] # <<>>
          /\ intact' = [intact EXCEPT ![Last(mounted[Point])] = FALSE]
          /\ UNCHANGED pointExists
       \/ UNCHANGED <<pointExists, intact>>
    /\ fsOp' = NoOp
    /\ UNCHANGED <<mounted, stacked>>

\* The steps of the loop with those of the file system.
FSNext ==
    \/ \E p \in Points, s \in Sources : Mount(p, s) /\ UNCHANGED retryVars
    \/ \E p \in Points : Umount(p) /\ UNCHANGED retryVars
    \/ fsOp # NoOp /\ RetryBegin /\ UNCHANGED fsVars
    \/ fsOp # NoOp /\ CallSucceeds /\ SystemCall
    \/ fsOp # NoOp /\ CallFails /\ IF retryPC' = "wait" THEN forceUmount ELSE UNCHANGED fsVars
    \/ fsOp # NoOp /\ DelayOver /\ UNCHANGED fsVars
    \/ MountReturns /\ RetryEnd
    \/ RemoveAll /\ RetryEnd

FSSpec == RetryInit /\ FSInit /\ [][FSNext]_<<fsVars, retryVars>>

-----------------------------------------------------------------------------
(***************************************************************************)
(* GetMountPoint: the longest mount point from which the relative path to  *)
(* the directory has no "..".  Mount points above one directory are        *)
(* prefixes of each other, so the longest text is the longest path.        *)
(***************************************************************************)

\* Fault: only the length counts.
AnyPoint(p, dir) == TRUE

Above(p, dir) ==
    /\ IsPrefix(p, dir)
    /\ \A k \in Len(p) + 1 .. Len(dir) : dir[k] \notin WithDots

InUse == {p \in Points : mounted[p] # <<>>}

PointsAbove(dir) == {p \in InUse : Above(p, dir)}

GetMountPoint(dir) ==
    IF PointsAbove(dir) = {} THEN "error"
    ELSE CHOOSE p \in PointsAbove(dir) : \A q \in PointsAbove(dir) : Len(q) <= Len(p)

-----------------------------------------------------------------------------
(***************************************************************************)
(* Properties                                                              *)
(***************************************************************************)

\* Umount removes the files of a mounted file system only when it could not
\* unmount it or when another one was mounted on the same point, whatever Mount
\* and Umount are called for and however the system calls fail.
MountedFilesKept ==
    [][\A s \in Sources : intact[s] # intact'[s] =>
          retryResult = "error" \/ (retryResult = "nil" /\ Point \in stacked)]_<<fsVars, retryVars>>

\* The mount point found for a directory is the one that holds it.
MountPointFound ==
    \A dir \in Dirs : (\A k \in DOMAIN dir : dir[k] \notin WithDots) =>
        LET found == GetMountPoint(dir) IN
        IF \E p \in InUse : IsPrefix(p, dir)
        THEN /\ IsPrefix(found, dir)
             /\ \A p \in InUse : IsPrefix(p, dir) => IsPrefix(p, found)
        ELSE found = "error"

\* "Umount umount mount point and remove it": an error means that this was not
\* done.
UmountErrorMeansMounted ==
    [][\A p \in Points : pointExists[p] /\ ~ pointExists'[p] => retryResult = "nil"]_<<fsVars, retryVars>>

=============================================================================
