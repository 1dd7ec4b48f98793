------------------------------- MODULE Quota -------------------------------
(***************************************************************************)
(* utils/fs: the file system quota of a user, and the disk usage of an     *)
(* instance that resourcemonitor reads through it.                         *)
(*                                                                         *)
(* The quota library and the kernel are external.  The question whether    *)
(* quotas are supported may fail, and the code takes that for a no; the    *)
(* kernel refuses what a user writes beyond a hard limit, and a limit of   *)
(* zero is none.                                                           *)
(***************************************************************************)
EXTENDS Integers, FiniteSetsExt

CONSTANTS
    QuotaUsers,    \* users, one for each instance
    Limits,        \* limits that are set
    MaxBytes       \* bound: what a user may write

ASSUME QuotaAssumption == MaxBytes \in Nat /\ Limits \subseteq 0 .. MaxBytes - 1

VARIABLES
    supported,     \* the file system has user quotas
    hardLimit,     \* hardLimit[u]: the kernel's limit
    bytesUsed,     \* bytesUsed[u]: what u has written
    promised,      \* history: what u may have, by the last limit that was set without an error
    reported       \* reported[u]: the last value of GetUserFSQuotaUsage

quotaVars == <<supported, hardLimit, bytesUsed, promised, reported>>

QuotaInit ==
    /\ supported \in BOOLEAN
    /\ hardLimit = [u \in QuotaUsers |-> 0]
    /\ bytesUsed = [u \in QuotaUsers |-> 0]
    /\ promised = [u \in QuotaUsers |-> MaxBytes]
    /\ reported = [u \in QuotaUsers |-> 0]

\* fsquota.UserQuotasSupported, with its error dropped.
UserQuotasSupported == {supported, FALSE}

\* Fault: no limit is set where quotas seem not to be supported.
UnneededAnyLimit(limit, answer) == ~ answer

Unneeded(limit, answer) == limit = 0 /\ ~ answer

SetsNothing(u) == UNCHANGED hardLimit

\* fsquota.SetUserQuota, which fails without quotas and may fail with them.
SetUserQuota(u, limit) == supported /\ hardLimit' = [hardLimit EXCEPT ![u] = limit]

\* An error leaves everything as it was.
SetUserFSQuota(u, limit) ==
    \E answer \in UserQuotasSupported :
        /\ IF Unneeded(limit, answer) THEN SetsNothing(u) ELSE SetUserQuota(u, limit)
        /\ promised' = [promised EXCEPT ![u] = IF limit = 0 THEN MaxBytes ELSE Max({limit, bytesUsed[u]})]
        /\ UNCHANGED <<supported, bytesUsed, reported>>

GetUserFSQuotaUsage(u) ==
    \E answer \in UserQuotasSupported :
        /\ reported' = [reported EXCEPT ![u] = IF answer THEN bytesUsed[u] ELSE 0]
        /\ UNCHANGED <<supported, hardLimit, bytesUsed, promised>>

\* What the poll of an instance's partition reads; after an error it keeps the
\* last value.
getInstanceDiskUsage(u) == GetUserFSQuotaUsage(u)

WriteByte(u) ==
    /\ bytesUsed[u] < MaxBytes
    /\ hardLimit[u] = 0 \/ bytesUsed[u] < hardLimit[u]
    /\ bytesUsed' = [bytesUsed EXCEPT ![u] = @ + 1]
    /\ UNCHANGED <<supported, hardLimit, promised, reported>>

RemoveByte(u) ==
    /\ bytesUsed[u] > 0
    /\ bytesUsed' = [bytesUsed EXCEPT ![u] = @ - 1]
    /\ UNCHANGED <<supported, hardLimit, promised, reported>>

QuotaNext ==
    \E u \in QuotaUsers :
        \/ \E limit \in Limits : SetUserFSQuota(u, limit)
        \/ getInstanceDiskUsage(u)
        \/ WriteByte(u)
        \/ RemoveByte(u)

QuotaSpec == QuotaInit /\ [][QuotaNext]_quotaVars

-----------------------------------------------------------------------------
(***************************************************************************)
(* Properties                                                              *)
(***************************************************************************)

\* A user never has more than the last limit that SetUserFSQuota took without an
\* error, or what it had by then, although the question whether quotas are
\* supported may fail at any call.
QuotaKept == \A u \in QuotaUsers : bytesUsed[u] <= promised[u]

\* "SetUserFSQuota sets file system quota for user": zero lifts the limit.
ZeroLiftsLimit ==
    [][\A u \in QuotaUsers :
          bytesUsed[u] < MaxBytes /\ promised[u] < MaxBytes /\ promised'[u] = MaxBytes =>
              hardLimit'[u] = 0]_quotaVars

\* "GetUserFSQuotaUsage gets file system user usage", where there are quotas.
UsageIsRead ==
    [][\A u \in QuotaUsers :
          supported /\ reported'[u] # reported[u] => reported'[u] = bytesUsed[u]]_quotaVars

=============================================================================
