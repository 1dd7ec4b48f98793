------------------------------ MODULE TestDisk ------------------------------
(***************************************************************************)
(* utils/testtools: disks and partitions in files, for the tests of the    *)
(* services, made with commands that may fail one by one; and the package  *)
(* partition, which finds out what they are.                               *)
(***************************************************************************)
EXTENDS Naturals, SequencesExt

CONSTANT Partitions   \* number of partitions of a disk

ASSUME DiskAssumption == Partitions \in Nat

VARIABLES
    diskPC,        \* the next step of NewTestDisk, or where it ended
    diskFile,      \* the disk's file exists
    loopDevice,    \* a loop device is attached to it
    parts,         \* number of partitions made
    formatted,     \* number of partitions formatted
    closeFailed    \* history: a step of Close failed

diskVars == <<diskPC, diskFile, loopDevice, parts, formatted, closeFailed>>

TestDiskInit ==
    /\ diskPC = "createDisk"
    /\ diskFile = FALSE
    /\ loopDevice = FALSE
    /\ parts = 0
    /\ formatted = 0
    /\ closeFailed = FALSE

\* The deferred function of NewTestDisk calls Close after any error.
DiskError == diskPC' = "closeOnError"

createDisk ==
    /\ diskPC = "createDisk"
    /\ diskFile' \in BOOLEAN
    /\ \/ diskFile' /\ diskPC' = "createParts"
       \/ DiskError
    /\ UNCHANGED <<loopDevice, parts, formatted, closeFailed>>

createParts ==
    /\ diskPC = "createParts"
    /\ \/ parts < Partitions /\ parts' = parts + 1 /\ UNCHANGED diskPC
       \/ parts = Partitions /\ diskPC' = "setupDevice" /\ UNCHANGED parts
       \/ DiskError /\ UNCHANGED parts
    /\ UNCHANGED <<diskFile, loopDevice, formatted, closeFailed>>

setupDevice ==
    /\ diskPC = "setupDevice"
    /\ \/ loopDevice' = TRUE /\ diskPC' = "formatDisk"
       \/ DiskError /\ UNCHANGED loopDevice
    /\ UNCHANGED <<diskFile, parts, formatted, closeFailed>>

\* getPartUUID and mkfs for each partition
formatDisk ==
    /\ diskPC = "formatDisk"
    /\ \/ formatted < parts /\ formatted' = formatted + 1 /\ UNCHANGED diskPC
       \/ formatted = parts /\ diskPC' = "ready" /\ UNCHANGED formatted
       \/ DiskError /\ UNCHANGED formatted
    /\ UNCHANGED <<diskFile, loopDevice, parts, closeFailed>>

\* Fault: the device is detached only from a disk that is ready.
DetachWhenReady == loopDevice /\ diskPC = "ready"

MustDetach == loopDevice

\* TestDisk.Close, by the deferred function or by the test: when losetup fails
\* the file stays too.
CloseDisk ==
    /\ diskPC \in {"closeOnError", "ready"}
    /\ \/ /\ diskFile' = FALSE
          /\ loopDevice' = (loopDevice /\ ~ MustDetach)
          /\ UNCHANGED closeFailed
       \/ /\ MustDetach
          /\ closeFailed' = TRUE
          /\ UNCHANGED <<diskFile, loopDevice>>
       \/ \* os.RemoveAll fails
          /\ loopDevice' = (loopDevice /\ ~ MustDetach)
          /\ closeFailed' = TRUE
          /\ UNCHANGED diskFile
    /\ diskPC' = "closed"
    /\ UNCHANGED <<parts, formatted>>

-----------------------------------------------------------------------------
(***************************************************************************)
(* The package partition.  A partition is its disk's name with a number;   *)
(* number 0 stands for the other entries of a disk's directory in sysfs.   *)
(* There is another disk with one partition.                               *)
(***************************************************************************)
Disks == {"loop", "other"}

SysBlock(d) ==
    {<<d, 0>>} \union
    IF d = "other" THEN {<<d, 1>>}
    ELSE IF loopDevice THEN {<<d, k>> : k \in 1 .. parts} ELSE {}

GetParentDevice(p) ==
    IF \E d \in Disks : p \in SysBlock(d) THEN CHOOSE d \in Disks : p \in SysBlock(d) ELSE "error"

\* Only a partition has the file "partition"; a number that no partition has
\* stands for an error.
GetPartitionNum(p) ==
    IF p[2] # 0 /\ (\E d \in Disks : p \in SysBlock(d)) THEN p[2] ELSE Partitions + 1

\* The tags of partition k after formatDisk, in any order: external.
TagsOf(k) ==
    SetToSeqs({[type |-> "LABEL", value |-> k], [type |-> "PARTUUID", value |-> k],
               [type |-> "UUID", value |-> 0]})

\* The loop over the tags leaves the value of the last one of a type.
LastOf(tags, type) ==
    LET found == {k \in DOMAIN tags : tags[k].type = type} IN
    IF found = {} THEN 0 ELSE tags[CHOOSE k \in found : \A j \in found : j <= k].value

GetPartInfo(tags) == [Label |-> LastOf(tags, "LABEL"), PartUUID |-> LastOf(tags, "PARTUUID")]

\* The first field that begins with "PARTUUID=".
getPartUUID(tags) == SelectInSeq(tags, LAMBDA tag : tag.type = "PARTUUID")

-----------------------------------------------------------------------------
(***************************************************************************)
(* CreateFilePartition: the deferred functions run last in, first out, so  *)
(* the file is unmounted before it is compressed.  The error of gzip       *)
(* replaces the one that is being returned.                                *)
(***************************************************************************)
VARIABLES
    partPC,
    image,         \* content of the file: "none", "empty" or "content"
    archived,      \* content of the archive
    mountDir,      \* the temporary mount point exists
    isMounted,
    archivate,     \* argument
    withContent,   \* argument contentCreator is given
    partErr,       \* the named result err
    stepFailed     \* history: a step failed

partVars == <<partPC, image, archived, mountDir, isMounted, archivate, withContent, partErr,
              stepFailed>>

PartitionInit ==
    /\ partPC = "mkfs"
    /\ image = "none"
    /\ archived = "none"
    /\ mountDir = FALSE
    /\ isMounted = FALSE
    /\ archivate \in BOOLEAN
    /\ withContent \in BOOLEAN
    /\ partErr = FALSE
    /\ stepFailed = FALSE

\* Fault: the file is compressed before it is unmounted.
CompressFirst == IF archivate THEN "gzip" ELSE IF mountDir THEN "umount" ELSE "returned"

FirstDeferred == IF mountDir THEN "umount" ELSE IF archivate THEN "gzip" ELSE "returned"

PartFails(next) ==
    /\ partErr' = TRUE
    /\ stepFailed' = TRUE
    /\ partPC' = next

\* dd and mkfs
MakeFileSystem ==
    /\ partPC = "mkfs"
    /\ \/ /\ image' = "empty"
          /\ partPC' = IF withContent THEN "mkdirTemp" ELSE FirstDeferred
          /\ UNCHANGED <<partErr, stepFailed>>
       \/ PartFails("returned") /\ UNCHANGED image
    /\ UNCHANGED <<archived, mountDir, isMounted, archivate, withContent>>

MkdirTemp ==
    /\ partPC = "mkdirTemp"
    /\ \/ mountDir' = TRUE /\ partPC' = "mount" /\ UNCHANGED <<partErr, stepFailed>>
       \/ PartFails(FirstDeferred) /\ UNCHANGED mountDir
    /\ UNCHANGED <<image, archived, isMounted, archivate, withContent>>

MountFile ==
    /\ partPC = "mount"
    /\ \/ isMounted' = TRUE /\ partPC' = "create" /\ UNCHANGED <<partErr, stepFailed>>
       \/ PartFails(FirstDeferred) /\ UNCHANGED isMounted
    /\ UNCHANGED <<image, archived, mountDir, archivate, withContent>>

contentCreator ==
    /\ partPC = "create"
    /\ \/ partPC' = FirstDeferred /\ UNCHANGED <<partErr, stepFailed>>
       \/ PartFails(FirstDeferred)
    /\ UNCHANGED <<image, archived, mountDir, isMounted, archivate, withContent>>

\* sync, umount and the removal of the mount point; errors are logged.  What is
\* still mounted loses its files.
UmountFile ==
    /\ partPC = "umount"
    /\ \/ /\ image' = IF isMounted /\ ~ stepFailed THEN "content" ELSE image
          /\ isMounted' = FALSE
          /\ mountDir' = FALSE
          /\ UNCHANGED stepFailed
       \/ /\ isMounted
          /\ stepFailed' = TRUE
          /\ UNCHANGED <<image, isMounted, mountDir>>
    /\ partPC' = IF archivate /\ archived = "none" THEN "gzip" ELSE "returned"
    /\ UNCHANGED <<archived, archivate, withContent, partErr>>

Gzip ==
    /\ partPC = "gzip"
    /\ \/ archived' = image /\ partErr' = FALSE /\ UNCHANGED stepFailed
       \/ partErr' = TRUE /\ stepFailed' = TRUE /\ UNCHANGED archived
    /\ partPC' = "returned"
    /\ UNCHANGED <<image, mountDir, isMounted, archivate, withContent>>

TestDiskNext ==
    \/ /\ createDisk \/ createParts \/ setupDevice \/ formatDisk \/ CloseDisk
       /\ UNCHANGED partVars
    \/ /\ MakeFileSystem \/ MkdirTemp \/ MountFile \/ contentCreator \/ UmountFile \/ Gzip
       /\ UNCHANGED diskVars

-----------------------------------------------------------------------------
(***************************************************************************)
(* Properties                                                              *)
(***************************************************************************)

\* A disk that is ready has all its partitions, which the package partition finds
\* under the right disk, number and label in whatever order blkid gives the tags.
\* However far NewTestDisk came before it failed, neither the file nor a loop
\* device is left, unless Close itself failed; and when no step of
\* CreateFilePartition failed the archive has what the test put into the
\* partition, and the mount point is gone.
TestPartitionsClean ==
    /\ diskPC = "ready" => \A k \in 1 .. Partitions :
          /\ GetParentDevice(<<"loop", k>>) = "loop"
          /\ GetPartitionNum(<<"loop", k>>) = k
          /\ \A tags \in TagsOf(k) :
                /\ GetPartInfo(tags) = [Label |-> k, PartUUID |-> k]
                /\ tags[getPartUUID(tags)].value = k
    /\ diskPC = "closed" /\ ~ closeFailed => ~ diskFile /\ ~ loopDevice
    /\ partPC = "returned" /\ ~ stepFailed =>
          /\ ~ mountDir /\ ~ isMounted
          /\ archivate /\ withContent => archived = "content"

\* CreateFilePartition returns an error when it could not create the content.
ErrorIsReturned == partPC = "returned" /\ withContent /\ ~ partErr => image = "content"

=============================================================================
