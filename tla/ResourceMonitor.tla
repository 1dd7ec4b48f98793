-------------------------- MODULE ResourceMonitor --------------------------
(***************************************************************************)
(* resourcemonitor/resourcemonitor.go: the run goroutine polls the         *)
(* resource usage, checks the alert processors and sends the data to a     *)
(* bounded channel, all under the monitor's mutex; a client starts and     *)
(* stops the monitoring of instances; a new node config replaces the list  *)
(* of alert processors; Close stops everything.                            *)
(*                                                                         *)
(* An alert rule is the name of what it watches; Known are the names the   *)
(* node has a source for.  The order of the processors in the list does    *)
(* not matter, all are checked at the same time: the list is a set of its  *)
(* elements, and an element remembers its list, as container/list does.    *)
(* What a processor does with a value is module AlertProcessor.            *)
(***************************************************************************)
EXTENDS Integers, SequencesExt

CONSTANTS
    Instances,      \* instance ids
    Node,           \* the owner of the processors of setupSystemAlerts
    Configs,        \* rule sequences a node config or an instance may have
    Known,          \* rule names with a source
    ChannelSize,    \* monitoringChannelSize
    MaxConfigs,     \* bound: number of node config changes
    None

ASSUME ConstantsAssumption ==
    /\ Node \notin Instances
    /\ ChannelSize \in Nat \ {0}
    /\ MaxConfigs \in Nat
    /\ \A c \in Configs : c \in Seq(Range(c)) /\ IsInjective(c)

VARIABLES
    runPC,            \* where the goroutine run is
    locked,           \* the mutex is held across a blocked send
    tick,             \* pollTimer.C holds a tick
    channel,          \* number of messages in monitoringChannel
    closePC,          \* how far Close is
    call,             \* the client's call of the monitor, or None
    monitored,        \* keys of instanceMonitoringMap
    elements,         \* elements[i]: alertProcessorElements of instance i
    alertProcessors,  \* the elements of the current list
    list,             \* number of the current list
    nodeConfig,       \* the node config the list was made from
    pendingConfig,    \* what curNodeConfigListener holds, or None
    conversions,      \* conversions[i]: how often monitoring.CPU was converted to
                      \* DMIPs since it was read; 0 while the value is 0
    crashed

lists == <<monitored, elements, alertProcessors, list, nodeConfig>>

vars == <<runPC, locked, tick, channel, closePC, call, pendingConfig, conversions,
          crashed, lists>>

-----------------------------------------------------------------------------
(***************************************************************************)
(* setupSystemAlerts and setupInstanceAlerts: a rule without a source is   *)
(* skipped and becomes the error of the call, but only the first one; the  *)
(* next ones get a processor whose source is nil.                          *)
(***************************************************************************)

\* Fault: no rule is skipped.
SkipNone(rules) == {}

Skipped(rules) ==
    {k \in DOMAIN rules :
        rules[k] \notin Known /\ \A j \in 1 .. k - 1 : rules[j] \in Known}

Processors(inList, owner, rules) ==
    {[list |-> inList, owner |-> owner, rule |-> rules[k]] :
        k \in DOMAIN rules \ Skipped(rules)}

\* Fault: the processors of the old config stay in the list.
ExtendList(config) == alertProcessors \union Processors(list + 1, Node, config)

NewList(config) == Processors(list + 1, Node, config)

setupSystemAlerts(config) ==
    /\ list' = list + 1
    /\ alertProcessors' = NewList(config)
    /\ nodeConfig' = config
    /\ UNCHANGED <<monitored, elements>>

(***************************************************************************)
(* New                                                                     *)
(***************************************************************************)
Init ==
    /\ runPC = "select"
    /\ locked = FALSE
    /\ tick = FALSE
    /\ channel = 0
    /\ closePC = "open"
    /\ call = None
    /\ monitored = {}
    /\ elements = [i \in Instances |-> {}]
    /\ nodeConfig \in Configs
    /\ alertProcessors = Processors(0, Node, nodeConfig)
    /\ list = 0
    /\ pendingConfig = None
    /\ conversions = [i \in Instances |-> 0]
    /\ crashed = FALSE

-----------------------------------------------------------------------------
(***************************************************************************)
(* The environment: the ticker, the node config provider and the reader of *)
(* the channel.                                                            *)
(***************************************************************************)
Tick ==
    /\ closePC = "open"
    /\ ~ tick
    /\ tick' = TRUE
    /\ UNCHANGED <<runPC, locked, channel, closePC, call, pendingConfig, conversions,
                   crashed, lists>>

ChangeNodeConfig(config) ==
    /\ pendingConfig = None
    /\ list < MaxConfigs
    /\ pendingConfig' = config
    /\ UNCHANGED <<runPC, locked, tick, channel, closePC, call, conversions, crashed, lists>>

ReadMonitoringData ==
    /\ channel > 0
    /\ channel' = channel - 1
    /\ UNCHANGED <<runPC, locked, tick, closePC, call, pendingConfig, conversions,
                   crashed, lists>>

(***************************************************************************)
(* run: the select takes any case that is ready.                           *)
(***************************************************************************)
TakeTick ==
    /\ runPC = "select" /\ tick
    /\ tick' = FALSE
    /\ runPC' = "poll"
    /\ UNCHANGED <<locked, channel, closePC, call, pendingConfig, conversions, crashed, lists>>

TakeNodeConfig ==
    /\ runPC = "select" /\ pendingConfig # None
    /\ ~ locked
    /\ setupSystemAlerts(pendingConfig)
    /\ pendingConfig' = None
    /\ UNCHANGED <<runPC, locked, tick, channel, closePC, call, conversions, crashed>>

TakeDone ==
    /\ runPC = "select" /\ closePC # "open"
    /\ runPC' = "returned"
    /\ UNCHANGED <<locked, tick, channel, closePC, call, pendingConfig, conversions,
                   crashed, lists>>

(***************************************************************************)
(* getCurrentInstancesData: where FillSystemInfo fails the old value of    *)
(* monitoring.CPU stays, and cpuToDMIPs converts it once more.             *)
(***************************************************************************)
MaxConversions == 2

Converted(i, filled) ==
    IF i \in filled THEN 1
    ELSE IF conversions[i] = 0 THEN 0
    ELSE IF conversions[i] < MaxConversions THEN conversions[i] + 1 ELSE MaxConversions

getCurrentInstancesData(filled) ==
    conversions' = [i \in Instances |-> IF i \in monitored THEN Converted(i, filled) ELSE 0]

(***************************************************************************)
(* processAlerts reads the source of every processor in the list.          *)
(***************************************************************************)
processAlerts == crashed' = \E e \in alertProcessors : e.rule \notin Known

Poll ==
    /\ runPC = "poll"
    /\ ~ locked
    /\ locked' = TRUE
    /\ runPC' = "send"
    /\ \E filled \in SUBSET monitored : getCurrentInstancesData(filled)
    /\ processAlerts
    /\ UNCHANGED <<tick, channel, closePC, call, pendingConfig, lists>>

(***************************************************************************)
(* sendMonitoringData blocks while the channel is full, with the mutex     *)
(* held, and panics when the channel is closed.                            *)
(***************************************************************************)

\* Fault: the mutex is not released.
KeepLock == locked' = locked

Unlock == locked' = FALSE

sendMonitoringData ==
    /\ runPC = "send"
    /\ \/ /\ closePC = "closed"
          /\ crashed' = TRUE
          /\ UNCHANGED <<runPC, locked, channel>>
       \/ /\ closePC # "closed"
          /\ channel < ChannelSize
          /\ channel' = channel + 1
          /\ Unlock
          /\ runPC' = "select"
          /\ UNCHANGED crashed
    /\ UNCHANGED <<tick, closePC, call, pendingConfig, conversions, lists>>

run == TakeTick \/ TakeNodeConfig \/ TakeDone \/ Poll \/ sendMonitoringData

-----------------------------------------------------------------------------
(***************************************************************************)
(* The client calls the monitor and waits for the mutex.                   *)
(***************************************************************************)
Call(c) ==
    /\ call = None
    /\ call' = c
    /\ UNCHANGED <<runPC, locked, tick, channel, closePC, pendingConfig, conversions,
                   crashed, lists>>

StartInstanceMonitor ==
    /\ call # None /\ call.op = "start"
    /\ ~ locked
    /\ call' = None
    /\ \/ /\ call.instance \in monitored
          /\ UNCHANGED <<monitored, elements, alertProcessors, conversions>>
       \/ /\ call.instance \notin monitored
          /\ LET new == Processors(list, call.instance, call.rules) IN
             /\ elements' = [elements EXCEPT ![call.instance] = new]
             /\ alertProcessors' = alertProcessors \union new
          /\ monitored' = monitored \union {call.instance}
          /\ conversions' = [conversions EXCEPT ![call.instance] = 0]
    /\ UNCHANGED <<runPC, locked, tick, channel, closePC, pendingConfig, crashed, list,
                   nodeConfig>>

\* Fault: the processors of the instance stay in the list.
KeepElements(i) == alertProcessors' = alertProcessors

\* list.Remove does nothing for an element of another list.
RemoveElements(i) == alertProcessors' = alertProcessors \ elements[i]

StopInstanceMonitor ==
    /\ call # None /\ call.op = "stop"
    /\ ~ locked
    /\ call' = None
    /\ \/ /\ call.instance \notin monitored
          /\ UNCHANGED <<monitored, elements, alertProcessors, conversions>>
       \/ /\ call.instance \in monitored
          /\ RemoveElements(call.instance)
          /\ elements' = [elements EXCEPT ![call.instance] = {}]
          /\ monitored' = monitored \ {call.instance}
          /\ conversions' = [conversions EXCEPT ![call.instance] = 0]
    /\ UNCHANGED <<runPC, locked, tick, channel, closePC, pendingConfig, crashed, list,
                   nodeConfig>>

GetAverageMonitoring ==
    /\ call # None /\ call.op = "average"
    /\ ~ locked
    /\ call' = None
    /\ UNCHANGED <<runPC, locked, tick, channel, closePC, pendingConfig, conversions,
                   crashed, lists>>

client == StartInstanceMonitor \/ StopInstanceMonitor \/ GetAverageMonitoring

(***************************************************************************)
(* Close does not take the mutex and does not wait for run.                *)
(***************************************************************************)
CloseCancel ==
    /\ closePC = "open"
    /\ closePC' = "cancelled"
    /\ UNCHANGED <<runPC, locked, tick, channel, call, pendingConfig, conversions, crashed,
                   lists>>

CloseChannel ==
    /\ closePC = "cancelled"
    /\ closePC' = "closed"
    /\ UNCHANGED <<runPC, locked, tick, channel, call, pendingConfig, conversions, crashed,
                   lists>>

Calls ==
    {[op |-> "start", instance |-> i, rules |-> c] : i \in Instances, c \in Configs}
    \union {[op |-> "stop", instance |-> i] : i \in Instances}
    \union {[op |-> "average"]}

Next ==
    /\ ~ crashed
    /\ \/ Tick
       \/ \E config \in Configs : ChangeNodeConfig(config)
       \/ ReadMonitoringData
       \/ run
       \/ \E c \in Calls : Call(c)
       \/ client
       \/ CloseCancel
       \/ CloseChannel

Spec == Init /\ [][Next]_vars

(***************************************************************************)
(* run and the client's goroutine are scheduled; sync.Mutex hands itself   *)
(* to a goroutine that waits for long, which makes the client's fairness   *)
(* strong; whoever owns the channel keeps reading it.                      *)
(***************************************************************************)
FairSpec ==
    /\ Spec
    /\ WF_vars(~ crashed /\ run)
    /\ SF_vars(~ crashed /\ client)
    /\ WF_vars(~ crashed /\ ReadMonitoringData)

-----------------------------------------------------------------------------
(***************************************************************************)
(* Properties                                                              *)
(***************************************************************************)
Elements == [list : 0 .. MaxConfigs, owner : Instances \union {Node},
             rule : UNION {ToSet(c) : c \in Configs}]

\* Types of the monitor's fields; the channel is within its capacity.
TypeOK ==
    /\ runPC \in {"select", "poll", "send", "returned"}
    /\ locked = (runPC = "send")
    /\ tick \in BOOLEAN
    /\ channel \in 0 .. ChannelSize
    /\ closePC \in {"open", "cancelled", "closed"}
    /\ call \in Calls \union {None}
    /\ monitored \subseteq Instances
    /\ elements \in [Instances -> SUBSET Elements]
    /\ alertProcessors \subseteq Elements
    /\ list \in 0 .. MaxConfigs
    /\ nodeConfig \in Configs
    /\ pendingConfig \in Configs \union {None}
    /\ conversions \in [Instances -> 0 .. MaxConversions]
    /\ crashed \in BOOLEAN

\* No alert comes from an instance that is not monitored any more: a processor
\* in the list is the node's, or its instance is monitored and will remove it.
\* Stops, restarts and node config changes may come in any order.
ProcessorsOwned ==
    \A e \in alertProcessors :
        \/ e.owner = Node
        \/ e.owner \in monitored /\ e \in elements[e.owner]

\* The list holds the rules of the latest node config, and no older ones, and
\* the rules of every instance that was started since.
LatestRulesApplied ==
    /\ {e.rule : e \in {p \in alertProcessors : p.owner = Node}} \intersect Known
          = ToSet(nodeConfig) \intersect Known
    /\ \A i \in monitored : \A e \in elements[i] :
          e.list = list => e \in alertProcessors

\* A config that names one partition the node does not have costs that rule
\* only: checking the alerts never reads a nil source.
MissingPartitionTolerated == crashed => closePC = "closed"

\* The latest rules are checked, those for what the node does not have aside.
RulesApplied == LatestRulesApplied /\ MissingPartitionTolerated

\* A call of the monitor returns although the goroutine run sends to a bounded
\* channel with the mutex held, as long as the channel is read.
CallReturns == call # None ~> call = None \/ crashed

\* "StartInstanceMonitor starts monitoring service": the rules of a monitored
\* instance are in the list that every poll checks.
InstanceRulesChecked == \A i \in monitored : elements[i] \subseteq alertProcessors

\* "disk [%s] not found" is an error of the setup: a rule for a disk that is
\* not found gets no processor, and the next poll does not read through nil.
ProcessorsHaveSource == \A e \in alertProcessors : e.rule \in Known

\* "Close closes monitor instance": it does so without a panic of run.
CloseDoesNotPanic == closePC # "open" => ~ crashed

\* "returns CPU usage in percent": cpuToDMIPs converts a percentage, so the CPU
\* value of an instance is converted once.
CPUConvertedOnce == \A i \in Instances : conversions[i] <= 1

=============================================================================
