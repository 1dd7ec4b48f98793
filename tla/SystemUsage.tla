---------------------------- MODULE SystemUsage ----------------------------
(***************************************************************************)
(* resourcemonitor/cgroupssystemusage.go, xensystemusage.go, averagecalc.go *)
(* and utils/xentop: where the values of a poll come from.  One instance   *)
(* and the node are polled; the CPU usage of the instance is a counter of  *)
(* its control group, or a column of xentop's table.  Values that could    *)
(* not be read stay, or become zero, as in the code; every value then goes *)
(* into a sliding average.                                                 *)
(*                                                                         *)
(* Time and CPU time have the same unit.  A float is exact here: sums of   *)
(* averages are fractions.                                                 *)
(***************************************************************************)
EXTENDS Integers, Sequences

CONSTANTS
    CPUCount,        \* cpuCount
    MaxDMIPs,        \* nodeInfo.MaxDMIPs
    PollPeriod,
    AverageWindows,  \* values of Config.AverageWindow
    Domains,         \* names in xentop's table, the instance's among them
    Instance,
    MaxClock         \* bound: time of the last poll

ASSUME UsageAssumption ==
    /\ CPUCount \in Nat \ {0}
    /\ MaxDMIPs \in Nat \ {0}
    /\ PollPeriod \in Nat \ {0}
    /\ AverageWindows \subseteq Nat
    /\ Instance \in Domains
    /\ MaxClock \in Nat

VARIABLES
    source,          \* Config.Source
    clock, used,     \* time, and the counter of the instance's control group
    lastPoll,        \* time of the last poll
    prevCPU, prevTime,
    systemInfos,     \* xenSystemUsage.systemInfos
    cpu,             \* instance.monitoring.CPU
    nodeCPU,         \* nodeMonitoring.CPU
    fresh,           \* history: the last poll read the CPU usage of the instance
    calc,            \* instance.averageData.cpu
    windowCount,
    lowest, highest  \* history: bounds of the values given to calc

usageVars == <<source, clock, used, lastPoll, prevCPU, prevTime, systemInfos, cpu, nodeCPU, fresh, calc,
               windowCount, lowest, highest>>

Unread == -1         \* Go's zero time, and a value that is not there
Uint64 == 2^12       \* stands for 2^64

Round(a, b) == (2 * a + b) \div (2 * b)

(***************************************************************************)
(* New: the window is a number of polls, at least one.                     *)
(***************************************************************************)
averageWindowCount(window) ==
    IF window \div PollPeriod = 0 THEN 1 ELSE window \div PollPeriod

\* Config.Source names the source, and the default is cgroups.
getSourceSystemUsage(name) == IF name = "xentop" THEN "xentop" ELSE "cgroups"

\* The node's values start at zero; a node without MaxDMIPs is refused.
setupNodeMonitoring == MaxDMIPs # 0 /\ nodeCPU = 0

newAverageCalc == [num |-> 0, den |-> 1, count |-> 0]

UsageInit ==
    /\ source \in {getSourceSystemUsage(name) : name \in {"xentop", ""}}
    /\ clock = 1
    /\ used = 0
    /\ lastPoll = 0
    /\ prevCPU = 0
    /\ prevTime = Unread
    /\ systemInfos = [d \in Domains |-> Unread]
    /\ cpu = 0
    /\ setupNodeMonitoring
    /\ fresh = FALSE
    /\ calc = newAverageCalc
    /\ windowCount \in {averageWindowCount(w) : w \in AverageWindows}
    /\ lowest = Unread
    /\ highest = Unread

cpuToDMIPs(percent) == Round(percent * MaxDMIPs, 100)

-----------------------------------------------------------------------------
(***************************************************************************)
(* The instance uses the CPUs, and may start again in a new control group. *)
(***************************************************************************)
Work(d) ==
    /\ clock < MaxClock
    /\ source = "cgroups" \/ d = 0
    /\ clock' = clock + 1
    /\ used' = used + d
    /\ UNCHANGED <<source, lastPoll, prevCPU, prevTime, systemInfos, cpu, nodeCPU, fresh, calc,
                   windowCount, lowest, highest>>

RestartInstance ==
    /\ used > 0
    /\ used' = 0
    /\ UNCHANGED <<source, clock, lastPoll, prevCPU, prevTime, systemInfos, cpu, nodeCPU, fresh, calc,
                   windowCount, lowest, highest>>

(***************************************************************************)
(* averageCalc.calculate: a sum of values until the window is full, then   *)
(* the average replaces the oldest value.                                  *)
(***************************************************************************)

\* Fault: the oldest value is not taken out.
GrowSum(value) == [calc EXCEPT !.num = @ + value * calc.den]

SlideSum(value) ==
    [calc EXCEPT !.num = @ * (calc.count - 1) + value * calc.den * calc.count,
                 !.den = @ * calc.count]

calculate(value) ==
    IF calc.count < windowCount
    THEN [calc EXCEPT !.num = @ + value * calc.den, !.count = @ + 1]
    ELSE SlideSum(value)

getIntValue == IF calc.count = 0 THEN 0 ELSE Round(calc.num, calc.den * calc.count)

\* What GetAverageMonitoring reports.
toMonitoringData == getIntValue

updateMonitoringData(value) ==
    /\ calc' = calculate(value)
    /\ lowest' = IF lowest = Unread \/ value < lowest THEN value ELSE lowest
    /\ highest' = IF value > highest THEN value ELSE highest

(***************************************************************************)
(* getCurrentSystemData: a usage that cannot be read counts as zero.       *)
(***************************************************************************)
getSystemCPUUsage(total) == Round(total, CPUCount)

getCurrentSystemData == \E total \in {0, 100 * CPUCount} : nodeCPU' = cpuToDMIPs(getSystemCPUUsage(total))

(***************************************************************************)
(* cgroupsSystemUsage.FillSystemInfo: the files are there, with the field  *)
(* or line looked for, or nothing changes.                                 *)
(***************************************************************************)

\* Fault: a counter that started again is not noticed.
SamePrevCPU == prevCPU

BasePrevCPU == IF prevCPU > used THEN 0 ELSE prevCPU

\* The time since Go's zero time is the longest duration there is.
CPUPercent ==
    IF prevTime = Unread THEN 0
    ELSE Round(((used - BasePrevCPU) % Uint64) * 100, (clock - prevTime) * CPUCount)

FillFromCgroups ==
    \/ /\ cpu' = cpuToDMIPs(CPUPercent)
       /\ prevCPU' = used
       /\ prevTime' = clock
       /\ fresh' = TRUE
    \/ /\ cpu' = cpuToDMIPs(cpu)
       /\ fresh' = FALSE
       /\ UNCHANGED <<prevCPU, prevTime>>

PollCgroups ==
    /\ source = "cgroups"
    /\ lastPoll < clock
    /\ lastPoll' = clock
    /\ getCurrentSystemData
    /\ FillFromCgroups
    /\ updateMonitoringData(cpu')
    /\ UNCHANGED <<source, clock, used, systemInfos, windowCount>>

(***************************************************************************)
(* xentop.GetSystemInfos: a table with one row for each domain.  An output *)
(* without the header, a row without all its columns or with a number that *)
(* cannot be parsed makes the whole table an error; a column that is not   *)
(* available counts as zero.                                               *)
(***************************************************************************)
NotAvailable == -2

Rows == [name : Domains, columns : {"all", "some", "bad"}, CPU : {NotAvailable, 50, 100}]

Tables == {[header |-> h, rows |-> r] : h \in BOOLEAN, r \in UNION {[1 .. n -> Rows] : n \in 0 .. 1}}
          \union {[header |-> TRUE, rows |-> <<x, y>>] :
                    x \in [name : {Instance}, columns : {"all"}, CPU : {50}], y \in Rows}

fillDomainInfo(row) == IF row.CPU = NotAvailable THEN 0 ELSE row.CPU

GetSystemInfosFails(table) ==
    \/ ~ table.header
    \/ \E k \in DOMAIN table.rows : table.rows[k].columns # "all"

GetSystemInfos(table) ==
    [d \in Domains |->
        LET ofDomain == {k \in DOMAIN table.rows : table.rows[k].name = d} IN
        IF ofDomain = {} THEN Unread
        ELSE fillDomainInfo(table.rows[CHOOSE k \in ofDomain : \A j \in ofDomain : j <= k])]

(***************************************************************************)
(* CacheSystemInfos keeps the old table when there is no new one;          *)
(* FillSystemInfo leaves an instance alone that is not in the table.       *)
(***************************************************************************)
CacheSystemInfos ==
    \E table \in Tables :
        systemInfos' = IF GetSystemInfosFails(table) THEN systemInfos ELSE GetSystemInfos(table)

FillFromXentop ==
    /\ cpu' = cpuToDMIPs(IF systemInfos'[Instance] = Unread THEN cpu ELSE systemInfos'[Instance])
    /\ fresh' = (systemInfos'[Instance] # Unread)

PollXentop ==
    /\ source = "xentop"
    /\ lastPoll < clock
    /\ lastPoll' = clock
    /\ CacheSystemInfos
    /\ getCurrentSystemData
    /\ FillFromXentop
    /\ updateMonitoringData(cpu')
    /\ UNCHANGED <<source, clock, used, prevCPU, prevTime, windowCount>>

UsageNext ==
    \/ \E d \in 0 .. CPUCount : Work(d)
    \/ RestartInstance
    \/ PollCgroups
    \/ PollXentop

UsageSpec == UsageInit /\ [][UsageNext]_usageVars

-----------------------------------------------------------------------------
(***************************************************************************)
(* Properties                                                              *)
(***************************************************************************)

\* A CPU usage that was read is one the node can have, whatever polls failed
\* before and however often the instance started again (FillSystemInfo): it
\* does not wrap around and does not count CPU time twice.
CPUWithinNode == fresh => cpu \in 0 .. MaxDMIPs

\* The average lies between the least and the greatest value it was given, at
\* every fill of the window and after it slid any number of times.
AverageWithinValues ==
    calc.count > 0 =>
        /\ lowest * calc.den * calc.count <= calc.num
        /\ calc.num <= highest * calc.den * calc.count
        /\ toMonitoringData \in lowest .. highest

\* Both of the above: a value that is reported is one the node could have.
UsagePlausible == CPUWithinNode /\ AverageWithinValues

\* "Can't fill system usage info" leaves the last value: a CPU usage never
\* exceeds what the node has.
CPUNeverExceedsNode == cpu <= MaxDMIPs

=============================================================================
