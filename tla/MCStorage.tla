----------------------------- MODULE MCStorage -----------------------------
(***************************************************************************)
(* The helpers that keep no state of their own between two calls: images,  *)
(* retries, mounts, quotas, migrations, test disks, conversions.  A        *)
(* behaviour is one of them; they share no state, but for Mount and        *)
(* Umount, which use the loop of Retry.                                    *)
(***************************************************************************)
EXTENDS Image, FileSystem, Quota, Migration, TestDisk, Conversions

VARIABLE component

allVars == <<component, downloadVars, unpackVars, copyVars, retryVars, fsVars, quotaVars, migrationVars,
             diskVars, partVars, conversionVars>>

MCContents == {<<"a", "b">>, <<"a", "c">>, <<"a", "b", "d">>}

Dir(n) == [type |-> "dir", name |-> n, size |-> 0]
Reg(n, s) == [type |-> "reg", name |-> n, size |-> s]
Link(n) == [type |-> "symlink", name |-> n, size |-> 0]

MCArchives ==
    BoundedSeq({Dir("./"), Dir("x"), Reg("x", 1), Reg("y", 2), Reg("y", 1), Link("x")}, 3)

MCPoints == {<<>>, <<"a">>, <<"a", "b">>}
MCDirs == {<<"a", "b", "c">>, <<"a", "d">>, <<"ab">>, <<"a", "x..">>}

Fixed == <<"a", "b">>

\* The components that do not run have fixed inputs.
MCInit ==
    /\ component \in {"download", "unpack", "copy", "retry", "fs", "quota", "migration",
                      "testdisk", "conversion"}
    /\ DownloadInit /\ (component # "download" => remote = Fixed /\ fileInfo = Fixed)
    /\ UnpackInit /\ (component # "unpack" => archive = <<>>)
    /\ CopyInit /\ (component # "copy" => source = Fixed /\ destination = Fixed /\ device)
    /\ RetryInit /\ (component # "retry" => maxTry = 3 /\ maxDelay = 0)
    /\ FSInit
    /\ QuotaInit /\ (component # "quota" => supported)
    /\ MigrationInit
    /\ TestDiskInit
    /\ PartitionInit /\ (component # "testdisk" => archivate /\ withContent)
    /\ ConversionInit /\ (component # "conversion" => kind = "error" /\ original = <<"cause">>)

imageVars == <<downloadVars, unpackVars, copyVars>>
otherVars == <<quotaVars, migrationVars, diskVars, partVars, conversionVars>>

MCNext ==
    /\ UNCHANGED component
    /\ \/ /\ component = "download" /\ DownloadNext
          /\ UNCHANGED <<unpackVars, copyVars, retryVars, fsVars, otherVars>>
       \/ /\ component = "unpack" /\ UnpackNext
          /\ UNCHANGED <<downloadVars, copyVars, retryVars, fsVars, otherVars>>
       \/ /\ component = "copy" /\ CopyNext
          /\ UNCHANGED <<downloadVars, unpackVars, retryVars, fsVars, otherVars>>
       \/ component = "retry" /\ RetryNext /\ UNCHANGED <<imageVars, fsVars, otherVars>>
       \/ component = "fs" /\ FSNext /\ UNCHANGED <<imageVars, otherVars>>
       \/ /\ component = "quota" /\ QuotaNext
          /\ UNCHANGED <<imageVars, retryVars, fsVars, migrationVars, diskVars, partVars, conversionVars>>
       \/ /\ component = "migration" /\ MigrationNext
          /\ UNCHANGED <<imageVars, retryVars, fsVars, quotaVars, diskVars, partVars, conversionVars>>
       \/ /\ component = "testdisk" /\ TestDiskNext
          /\ UNCHANGED <<imageVars, retryVars, fsVars, quotaVars, migrationVars, conversionVars>>
       \/ /\ component = "conversion" /\ Hop
          /\ UNCHANGED <<imageVars, retryVars, fsVars, quotaVars, migrationVars, diskVars, partVars>>

MCSpec == MCInit /\ [][MCNext]_allVars

\* The retry loop keeps its limits, the mount point of a directory is found
\* whatever Mount and Umount, which use the loop, have done (GetMountPoint), and
\* quotas that were set hold (SetUserFSQuota).
FileSystemLimits == RetryKeepsLimits /\ MountPointFound /\ QuotaKept

=============================================================================
