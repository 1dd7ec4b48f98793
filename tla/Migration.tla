----------------------------- MODULE Migration -----------------------------
(***************************************************************************)
(* migration: the database schema of a service.  A release of the service  *)
(* ships the migration files of the versions 0 to its own.  When it starts *)
(* it merges them into a directory that keeps the files of all releases,   *)
(* then migrates the database to its version: upwards with the files of    *)
(* the new versions, downwards with those of the versions that are undone. *)
(*                                                                         *)
(* The migration library, external, marks the database dirty while it runs *)
(* a file, in a transaction, and is modelled as far as DoMigrate uses it.  *)
(* The process may crash at any step.                                      *)
(***************************************************************************)
EXTENDS Integers, FiniteSets

CONSTANTS
    MaxVersion,    \* bound: latest version
    MaxCrashes     \* bound: crashes

ASSUME VersionAssumption == MaxVersion \in Nat

Versions == 0 .. MaxVersion
NilVersion == -1

VARIABLES
    release,       \* version of the service that is installed
    merged,        \* merged[v]: file of version v in the merged directory
    version,       \* version that the database names, or NilVersion
    dirty,
    schema,        \* version that the tables really have
    migratePC,     \* where the service is
    copying,       \* version whose file is copied next
    crashes,
    forced,        \* history: SetDatabaseVersion was called
    partialRun     \* history: a file was run that was not whole

migrationVars == <<release, merged, version, dirty, schema, migratePC, copying, crashes, forced,
                   partialRun>>

MigrationInit ==
    /\ release = 0
    /\ merged = [v \in Versions |-> "absent"]
    /\ version = NilVersion
    /\ dirty = FALSE
    /\ schema = 0
    /\ migratePC = "stopped"
    /\ copying = 0
    /\ crashes = 0
    /\ forced = FALSE
    /\ partialRun = FALSE

-----------------------------------------------------------------------------
\* Another release of the service is installed and started.
StartRelease(r) ==
    /\ migratePC \in {"stopped", "migrated", "failed"}
    /\ release' = r
    /\ migratePC' = "merge"
    /\ copying' = 0
    /\ UNCHANGED <<merged, version, dirty, schema, crashes, forced, partialRun>>

\* Fault: the merged directory is made anew.
MergeAnew == [v \in Versions |-> "absent"]

KeptFiles == merged

(***************************************************************************)
(* MergeMigrationFiles: a file that exists is not copied again; copyFile   *)
(* creates the file, then copies the data.                                 *)
(***************************************************************************)
MergeMigrationFiles ==
    /\ migratePC = "merge"
    /\ migratePC' = "copy"
    /\ merged' = KeptFiles
    /\ UNCHANGED <<release, version, dirty, schema, copying, crashes, forced, partialRun>>

copyFiles ==
    /\ migratePC = "copy"
    /\ copying <= release
    /\ \/ /\ merged[copying] # "absent"
          /\ copying' = copying + 1
          /\ UNCHANGED <<merged, migratePC>>
       \/ /\ merged[copying] = "absent"
          /\ merged' = [merged EXCEPT ![copying] = "partial"]
          /\ migratePC' = "copyFile"
          /\ UNCHANGED copying
       \/ \* the file cannot be created
          /\ merged[copying] = "absent"
          /\ migratePC' = "failed"
          /\ UNCHANGED <<merged, copying>>
    /\ UNCHANGED <<release, version, dirty, schema, crashes, forced, partialRun>>

copyFile ==
    /\ migratePC = "copyFile"
    /\ \/ /\ merged' = [merged EXCEPT ![copying] = "whole"]
          /\ migratePC' = "copy"
          /\ copying' = copying + 1
       \/ /\ migratePC' = "failed"
          /\ UNCHANGED <<merged, copying>>
    /\ UNCHANGED <<release, version, dirty, schema, crashes, forced, partialRun>>

(***************************************************************************)
(* DoMigrate                                                               *)
(***************************************************************************)

\* Fault: the dirty flag is not looked at.
MigrateAnyway == FALSE

IsDirty == dirty

\* A database without a version gets version 0; a dirty one is refused.
DoMigrate ==
    /\ migratePC = "copy"
    /\ copying = release + 1
    /\ version' = IF version = NilVersion THEN 0 ELSE version
    /\ migratePC' = IF IsDirty THEN "failed"
                    ELSE IF version' = release THEN "migrated" ELSE "migrate"
    /\ UNCHANGED <<release, merged, dirty, schema, copying, crashes, forced, partialRun>>

\* Migrate needs the files of the version it starts from and of the target.
Present == {v \in Versions : merged[v] # "absent"}

NextVersion ==
    IF version < release
    THEN CHOOSE v \in Present : v > version /\ \A w \in Present : w > version => v <= w
    ELSE CHOOSE v \in Present : v < version /\ \A w \in Present : w < version => w <= v

\* The file of the version that is reached upwards, or left downwards.
FileToRun(from, to) == IF from < to THEN merged[to] ELSE merged[from]

MigrateStep ==
    /\ migratePC = "migrate"
    /\ \/ /\ {version, release} \subseteq Present
          /\ version # release
          /\ version' = NextVersion
          /\ dirty' = TRUE
          /\ migratePC' = "run"
       \/ /\ version = release
          /\ migratePC' = "migrated"
          /\ UNCHANGED <<version, dirty>>
       \/ \* a file is missing, or the database fails
          /\ migratePC' = "failed"
          /\ UNCHANGED <<version, dirty>>
    /\ copying' = IF migratePC' = "run" THEN version ELSE copying
    /\ UNCHANGED <<release, merged, schema, crashes, forced, partialRun>>

\* The file is run in a transaction: it changes the schema, or fails.  Half a
\* file may do nothing and be no error.
RunFile ==
    /\ migratePC = "run"
    /\ \/ /\ schema' = IF FileToRun(copying, version) = "whole" THEN version ELSE schema
          /\ partialRun' = (partialRun \/ FileToRun(copying, version) # "whole")
          /\ migratePC' = "clean"
       \/ /\ migratePC' = "failed"
          /\ UNCHANGED <<schema, partialRun>>
    /\ UNCHANGED <<release, merged, version, dirty, copying, crashes, forced>>

SetClean ==
    /\ migratePC = "clean"
    /\ \/ dirty' = FALSE /\ migratePC' = "migrate"
       \/ migratePC' = "failed" /\ UNCHANGED dirty
    /\ UNCHANGED <<release, merged, version, schema, copying, crashes, forced, partialRun>>

\* SetDatabaseVersion forces a version and clears the dirty flag.
SetDatabaseVersion(v) ==
    /\ migratePC \in {"stopped", "failed"}
    /\ version' = v
    /\ dirty' = FALSE
    /\ forced' = TRUE
    /\ UNCHANGED <<release, merged, schema, migratePC, copying, crashes, partialRun>>

CrashMigration ==
    /\ migratePC \notin {"stopped", "migrated", "failed"}
    /\ crashes < MaxCrashes
    /\ crashes' = crashes + 1
    /\ migratePC' = "stopped"
    /\ UNCHANGED <<release, merged, version, dirty, schema, copying, forced, partialRun>>

MigrationNext ==
    \/ \E r \in Versions : StartRelease(r)
    \/ MergeMigrationFiles \/ copyFiles \/ copyFile \/ DoMigrate \/ MigrateStep \/ RunFile \/ SetClean
    \/ \E v \in Versions : SetDatabaseVersion(v)
    \/ CrashMigration

MigrationSpec == MigrationInit /\ [][MigrationNext]_migrationVars

-----------------------------------------------------------------------------
(***************************************************************************)
(* Properties                                                              *)
(***************************************************************************)

\* When the service goes on after DoMigrate the database has the version of the
\* release, whatever upgrades, downgrades, failures and crashes there were
\* before, unless somebody forced a version or a half copied file was run.
MigratedSchema ==
    migratePC = "migrated" =>
        /\ version = release
        /\ ~ forced /\ ~ partialRun => schema = release /\ ~ dirty

\* "MergeMigrationFiles merged the migration files with the previous state": the
\* files of all versions of the database are kept, so that an older release can
\* undo them although it does not ship them.
DowngradeFindsFiles ==
    ~ forced => \A v \in Versions : v <= version => merged[v] # "absent"

\* Both of the above: any release can be started on the database any other left.
AnyReleaseStarts == MigratedSchema /\ DowngradeFindsFiles

\* What a release runs are its migration files, whole.
WholeFilesRun == ~ partialRun

=============================================================================
