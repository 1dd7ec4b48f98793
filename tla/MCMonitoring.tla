---------------------------- MODULE MCMonitoring ----------------------------
(***************************************************************************)
(* What the resource monitor does with one value: read it, average it, and *)
(* check it against its thresholds.  A behaviour runs the readers with the *)
(* average, or an alert processor; the values of the alert processor are   *)
(* arbitrary, so nothing is lost by running them apart.                    *)
(***************************************************************************)
EXTENDS AlertProcessor, SystemUsage

VARIABLE component

allVars == <<component, alertVars, usageVars>>

MCInit ==
    \/ /\ component = "alerts"
       /\ AlertInit
       /\ UsageInit
       /\ source = "cgroups"
       /\ \A w \in AverageWindows : windowCount <= averageWindowCount(w)
    \/ /\ component = "usage"
       /\ AlertInit
       /\ UsageInit
       /\ \A t \in Timeouts : minTimeout <= t

MCNext ==
    /\ UNCHANGED component
    /\ \/ component = "alerts" /\ AlertNext /\ UNCHANGED usageVars
       \/ component = "usage" /\ UsageNext /\ UNCHANGED alertVars

MCSpec == MCInit /\ [][MCNext]_allVars

=============================================================================
