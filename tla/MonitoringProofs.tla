-------------------------- MODULE MonitoringProofs --------------------------
(***************************************************************************)
(* Proofs about module AlertProcessor, for every set of values, every pair *)
(* of thresholds, every timeout and any spacing of the polls.              *)
(*                                                                         *)
(* AlertProcessor states its properties over the whole history of samples  *)
(* and alerts, while the processor itself keeps two times and a flag.  The *)
(* inductive invariant says what these three remember of the history:      *)
(*   - while the alert is raised maxThresholdTime is the time of the last  *)
(*     alert and minThresholdTime the first poll at the minimum or below   *)
(*     since the value was above the maximum or the alert was raised;      *)
(*   - while it is not raised the last alert is a fall and                 *)
(*     maxThresholdTime is the first poll of the present overload.         *)
(* The second part is about module ResourceMonitor: whose processors are   *)
(* in the list that every poll checks, for every set of instances and      *)
(* configurations.  The last part is about module SystemUsage: the values  *)
(* of a poll and their average.                                            *)
(***************************************************************************)
EXTENDS AlertProcessor, ResourceMonitor, SystemUsage, TLAPS

-----------------------------------------------------------------------------
(***************************************************************************)
(* The inductive invariant                                                 *)
(***************************************************************************)

\* Nothing is recorded of the time after the last poll; alerts are sent by polls.
HistoryRecorded ==
    /\ \A u \in Times : u > now => sample[u] = NoSample
    /\ \A u \in Times : alerts[u] # NoAlert => sample[u] # NoSample
    /\ now # Zero => sample[now] # NoSample

\* No alert was sent after time t and before time u.
SilentBetween(t, u) == \A x \in Times : t < x /\ x < u => alerts[x] = NoAlert

\* While the alert is raised maxThresholdTime is the last alert, and it is not yet
\* due to be repeated.
LastAlertKept ==
    alertCondition =>
        /\ maxThresholdTime # Zero
        /\ alerts[maxThresholdTime] \in {"raise", "continue"}
        /\ SilentBetween(maxThresholdTime, now + 1)
        /\ now - maxThresholdTime < minTimeout \/ maxThresholdTime = now

\* While it is not raised the last alert, if there is one, is a fall.
LastAlertFell ==
    ~ alertCondition =>
        \A t \in Times : alerts[t] # NoAlert /\ SilentBetween(t, now + 1) => alerts[t] = "fall"

\* Every poll from time s to time t saw the value at the maximum or above.
AtMaximum(s, t) ==
    \A u \in Times : s <= u /\ u <= t /\ sample[u] # NoSample => sample[u] >= maxThreshold

\* maxThresholdTime is the first poll of the present overload, which is shorter
\* than minTimeout, and zero without overload.
OverloadTimed ==
    ~ alertCondition =>
        /\ maxThresholdTime = Zero /\ now # Zero => sample[now] < maxThreshold
        /\ maxThresholdTime # Zero =>
              /\ sample[maxThresholdTime] # NoSample
              /\ now - maxThresholdTime < minTimeout
              /\ AtMaximum(maxThresholdTime, now)
        /\ \A s \in Times :
              s <= now /\ sample[s] # NoSample /\ AtMaximum(s, now) =>
                  maxThresholdTime # Zero /\ maxThresholdTime <= s

\* The value was not above the maximum from time s to time t, and the alert was
\* not raised.
NoPeak(s, t) ==
    \A u \in Times : s <= u /\ u <= t =>
        /\ sample[u] # NoSample => sample[u] <= maxThreshold
        /\ alerts[u] # "raise"

\* minThresholdTime is the first poll at the minimum or below since the last peak,
\* and a poll at the minimum minTimeout later has not been seen.
QuietTimed ==
    alertCondition =>
        /\ minThresholdTime # Zero =>
              /\ sample[minThresholdTime] # NoSample
              /\ sample[minThresholdTime] <= minThreshold
              /\ NoPeak(minThresholdTime, now)
              /\ sample[now] <= minThreshold =>
                    minThresholdTime = now \/ now - minThresholdTime < minTimeout
        /\ \A s \in Times :
              s <= now /\ sample[s] # NoSample /\ sample[s] <= minThreshold /\ NoPeak(s, now) =>
                  minThresholdTime # Zero /\ minThresholdTime <= s

\* AlertProtocol, RaisedByOverload, FallsWhenQuiet and RepeatedEveryTimeout of the
\* alert at one time.
ProtocolKept ==
    \A u \in Times : alerts[u] # NoAlert =>
        ((alerts[u] = "raise") <=>
            \A t \in Times : t < u /\ alerts[t] # NoAlert /\ SilentBetween(t, u) => alerts[t] = "fall")

RaisesFounded ==
    \A u \in Times : alerts[u] = "raise" =>
        \E s \in Times : s <= u /\ sample[s] # NoSample /\ u - s >= minTimeout /\ AtMaximum(s, u)

FallsFounded ==
    \A u \in Times : alerts[u] = "fall" =>
        \E s \in Times : /\ s <= u /\ sample[s] # NoSample /\ u - s >= minTimeout
                         /\ sample[s] <= minThreshold /\ sample[u] <= minThreshold
                         /\ NoPeak(s, u)

ContinuesSpaced ==
    \A t, u \in Times :
        t < u /\ alerts[t] # NoAlert /\ SilentBetween(t, u) /\ alerts[u] = "continue" =>
            u - t >= minTimeout

\* The processor's fields and the history agree.
ProcessorInv ==
    /\ AlertTypeOK
    /\ HistoryRecorded
    /\ LastAlertKept
    /\ LastAlertFell
    /\ OverloadTimed
    /\ QuietTimed
    /\ ProtocolKept
    /\ RaisesFounded
    /\ FallsFounded
    /\ ContinuesSpaced

-----------------------------------------------------------------------------
(***************************************************************************)
(* What a poll leaves of the history                                       *)
(***************************************************************************)

\* The constants and the fields are numbers.
LEMMA Numbers ==
    ASSUME AlertTypeOK
    PROVE  /\ minThreshold \in Int /\ maxThreshold \in Int /\ minThreshold < maxThreshold
           /\ minTimeout \in Nat /\ now \in Nat /\ MaxTime \in Nat
           /\ minThresholdTime \in Nat /\ minThresholdTime <= now
           /\ maxThresholdTime \in Nat /\ maxThresholdTime <= now
           /\ now <= MaxTime
           /\ \A u \in Times : u \in Nat /\ u >= 1 /\ u <= MaxTime
           /\ \A u \in Times : sample[u] \in Int
    <1>1. minThreshold \in Int /\ maxThreshold \in Int /\ minThreshold < maxThreshold /\ MaxTime \in Nat
        BY RuleAssumption
    <1>2. minTimeout \in Nat
        BY RuleAssumption DEF AlertTypeOK
    <1>3. \A u \in Times : u \in Nat /\ u >= 1 /\ u <= MaxTime
        BY <1>1 DEF Times
    <1>4. Values \union {NoSample} \subseteq Int
        BY RuleAssumption DEF NoSample
    <1>5. \A u \in Times : sample[u] \in Int
        BY <1>4 DEF AlertTypeOK
    <1>6. /\ now \in Nat /\ now <= MaxTime
          /\ minThresholdTime \in Nat /\ minThresholdTime <= now
          /\ maxThresholdTime \in Nat /\ maxThresholdTime <= now
        BY <1>1 DEF AlertTypeOK
    <1> QED
        BY <1>1, <1>2, <1>3, <1>5, <1>6

\* A poll at time t changes the history at time t only, where nothing was.
LEMMA PollHistory ==
    ASSUME AlertTypeOK, HistoryRecorded, NEW t \in Times, NEW v \in Values, checkAlertDetection(t, v)
    PROVE  /\ v \in Int /\ now < t /\ now' = t /\ minTimeout' = minTimeout
           /\ sample' = [sample EXCEPT ![t] = v]
           /\ sample'[t] = v /\ v # NoSample
           /\ \A u \in Times : u # t => sample'[u] = sample[u] /\ alerts'[u] = alerts[u]
           /\ \A u \in Times : u > now => alerts[u] = NoAlert
           /\ \A u \in Times : sample'[u] \in Int
           /\ \A u \in Times : u > t => sample'[u] = NoSample /\ alerts'[u] = NoAlert
    <1>1. v \in Int /\ v # NoSample
        BY RuleAssumption DEF NoSample
    <1>2. sample' = [sample EXCEPT ![t] = v] /\ now < t /\ now' = t /\ minTimeout' = minTimeout
        BY DEF checkAlertDetection
    <1>3. \A u \in Times : u # t => alerts'[u] = alerts[u]
        BY DEF AlertTypeOK, checkAlertDetection, handleMaxThreshold, handleMinThreshold
    <1>4. \A u \in Times : u > now => alerts[u] = NoAlert
        BY DEF HistoryRecorded
    <1> QED
        BY <1>1, <1>2, <1>3, <1>4, Numbers DEF AlertTypeOK, HistoryRecorded, NoSample

\* The types are kept.
LEMMA PollTypes ==
    ASSUME AlertTypeOK, HistoryRecorded, NEW t \in Times, NEW v \in Values, checkAlertDetection(t, v)
    PROVE  AlertTypeOK'
    <1>1. /\ minTimeout' \in Timeouts
          /\ now' = t
          /\ t \in 0 .. MaxTime
          /\ sample' \in [Times -> Values \union {NoSample}]
        BY PollHistory, Numbers DEF AlertTypeOK, Times
    <1>2. alertCondition' \in BOOLEAN
        BY Zenon DEF AlertTypeOK, checkAlertDetection, handleMaxThreshold, handleMinThreshold,
                     ResetAlertCondition
    <1>3. maxThresholdTime' \in 0 .. t
        BY Numbers DEF checkAlertDetection, handleMaxThreshold, handleMinThreshold, CrossingTime,
                       ResetMaxThresholdTime, Zero
    <1>4. minThresholdTime' \in 0 .. t
        BY Numbers DEF checkAlertDetection, handleMaxThreshold, handleMinThreshold, NextMinTime, Zero
    <1>5. alerts' \in [Times -> {NoAlert, "raise", "continue", "fall"}]
        BY DEF AlertTypeOK, checkAlertDetection, handleMaxThreshold, handleMinThreshold
    <1> QED
        BY <1>1, <1>2, <1>3, <1>4, <1>5 DEF AlertTypeOK

\* So is what the intervals before the poll saw.
LEMMA PollIntervals ==
    ASSUME AlertTypeOK, HistoryRecorded, NEW t \in Times, NEW v \in Values, checkAlertDetection(t, v)
    PROVE  /\ \A s \in Times, u \in Int : u <= t => (SilentBetween(s, u)' <=> SilentBetween(s, u))
           /\ \A s \in Times : s < t => (SilentBetween(s, t) <=> SilentBetween(s, now + 1))
           /\ \A s \in Times : s < t =>
                 (SilentBetween(s, t + 1)' <=> SilentBetween(s, now + 1) /\ alerts'[t] = NoAlert)
           /\ \A s \in Times, u \in Int : u < t => (AtMaximum(s, u)' <=> AtMaximum(s, u))
           /\ \A s \in Times : s <= t => (AtMaximum(s, t)' <=> AtMaximum(s, now) /\ v >= maxThreshold)
           /\ \A s \in Times, u \in Int : u < t => (NoPeak(s, u)' <=> NoPeak(s, u))
           /\ \A s \in Times : s <= t =>
                 (NoPeak(s, t)' <=> NoPeak(s, now) /\ v <= maxThreshold /\ alerts'[t] # "raise")
    <1> USE PollHistory, Numbers
    <1>1. \A s \in Times, u \in Int : u <= t => (SilentBetween(s, u)' <=> SilentBetween(s, u))
        BY DEF SilentBetween
    <1>2. \A s \in Times : s < t => (SilentBetween(s, t) <=> SilentBetween(s, now + 1))
        BY DEF SilentBetween
    <1>3. \A s \in Times : s < t =>
              (SilentBetween(s, t + 1)' <=> SilentBetween(s, now + 1) /\ alerts'[t] = NoAlert)
        BY DEF SilentBetween
    <1>4. \A s \in Times, u \in Int : u < t => (AtMaximum(s, u)' <=> AtMaximum(s, u))
        BY DEF AtMaximum
    <1>5. \A s \in Times : s <= t => (AtMaximum(s, t)' <=> AtMaximum(s, now) /\ v >= maxThreshold)
        BY DEF AtMaximum, HistoryRecorded
    <1>6. \A s \in Times, u \in Int : u < t => (NoPeak(s, u)' <=> NoPeak(s, u))
        BY DEF NoPeak
    <1>7. \A s \in Times : s <= t =>
              (NoPeak(s, t)' <=> NoPeak(s, now) /\ v <= maxThreshold /\ alerts'[t] # "raise")
        BY DEF NoPeak, HistoryRecorded, NoAlert
    <1> QED
        BY <1>1, <1>2, <1>3, <1>4, <1>5, <1>6, <1>7

-----------------------------------------------------------------------------
(***************************************************************************)
(* A poll preserves the invariant                                          *)
(***************************************************************************)

\* What is recorded stays so.
LEMMA PollRecorded ==
    ASSUME AlertTypeOK, HistoryRecorded, NEW t \in Times, NEW v \in Values, checkAlertDetection(t, v)
    PROVE  HistoryRecorded'
    <1> USE PollHistory, Numbers
    <1>1. \A u \in Times : u > now' => sample'[u] = NoSample
        OBVIOUS
    <1>2. \A u \in Times : alerts'[u] # NoAlert => sample'[u] # NoSample
        BY DEF HistoryRecorded
    <1>3. now' # Zero => sample'[now'] # NoSample
        OBVIOUS
    <1> QED
        BY <1>1, <1>2, <1>3 DEF HistoryRecorded

\* What is said of each alert stays so when it holds of the new one.
LEMMA PollFoundations ==
    ASSUME ProcessorInv, NEW t \in Times, NEW v \in Values, checkAlertDetection(t, v),
           alerts'[t] # NoAlert =>
               ((alerts'[t] = "raise") <=>
                   \A s \in Times : s < t /\ alerts[s] # NoAlert /\ SilentBetween(s, now + 1) =>
                                       alerts[s] = "fall"),
           alerts'[t] = "raise" =>
               \E s \in Times : /\ s <= t /\ sample'[s] # NoSample /\ t - s >= minTimeout
                                /\ AtMaximum(s, now) /\ v >= maxThreshold,
           alerts'[t] = "fall" =>
               \E s \in Times : /\ s <= t /\ sample'[s] # NoSample /\ t - s >= minTimeout
                                /\ sample'[s] <= minThreshold /\ v <= minThreshold
                                /\ NoPeak(s, now),
           alerts'[t] = "continue" =>
               \A s \in Times : s < t /\ alerts[s] # NoAlert /\ SilentBetween(s, now + 1) =>
                                   t - s >= minTimeout
    PROVE  ProtocolKept' /\ RaisesFounded' /\ FallsFounded' /\ ContinuesSpaced'
    <1> AlertTypeOK /\ HistoryRecorded
        BY DEF ProcessorInv
    <1> USE PollHistory, Numbers, PollIntervals
    <1>1. ProtocolKept'
        <2> SUFFICES ASSUME NEW u \in Times, alerts'[u] # NoAlert
                     PROVE  (alerts'[u] = "raise") <=>
                                \A s \in Times : s < u /\ alerts'[s] # NoAlert /\ SilentBetween(s, u)' =>
                                                    alerts'[s] = "fall"
            BY DEF ProtocolKept
        <2>1. u <= t
            OBVIOUS
        <2>2. \A s \in Times : s < u => /\ alerts'[s] = alerts[s]
                                        /\ SilentBetween(s, u)' <=> SilentBetween(s, u)
            BY <2>1
        <2>3. CASE u = t
            BY <2>2, <2>3
        <2>4. CASE u # t
            BY <2>2, <2>4 DEF ProcessorInv, ProtocolKept
        <2> QED
            BY <2>3, <2>4
    <1>2. RaisesFounded'
        <2> SUFFICES ASSUME NEW u \in Times, alerts'[u] = "raise"
                     PROVE  \E s \in Times : /\ s <= u /\ sample'[s] # NoSample
                                             /\ u - s >= minTimeout' /\ AtMaximum(s, u)'
            BY DEF RaisesFounded
        <2>1. CASE u = t
            BY <2>1
        <2>2. CASE u # t
            <3>1. u < t /\ alerts[u] = "raise"
                BY <2>2 DEF NoAlert
            <3>2. PICK s \in Times : /\ s <= u /\ sample[s] # NoSample
                                     /\ u - s >= minTimeout /\ AtMaximum(s, u)
                BY <3>1 DEF ProcessorInv, RaisesFounded
            <3> QED
                BY <3>1, <3>2
        <2> QED
            BY <2>1, <2>2
    <1>3. FallsFounded'
        <2> SUFFICES ASSUME NEW u \in Times, alerts'[u] = "fall"
                     PROVE  \E s \in Times : /\ s <= u /\ sample'[s] # NoSample
                                             /\ u - s >= minTimeout' /\ sample'[s] <= minThreshold
                                             /\ sample'[u] <= minThreshold /\ NoPeak(s, u)'
            BY DEF FallsFounded
        <2>1. CASE u = t
            BY <2>1
        <2>2. CASE u # t
            <3>1. u < t /\ alerts[u] = "fall"
                BY <2>2 DEF NoAlert
            <3>2. PICK s \in Times : /\ s <= u /\ sample[s] # NoSample /\ u - s >= minTimeout
                                     /\ sample[s] <= minThreshold /\ sample[u] <= minThreshold
                                     /\ NoPeak(s, u)
                BY <3>1 DEF ProcessorInv, FallsFounded
            <3> QED
                BY <3>1, <3>2
        <2> QED
            BY <2>1, <2>2
    <1>4. ContinuesSpaced'
        <2> SUFFICES ASSUME NEW s \in Times, NEW u \in Times, s < u, alerts'[s] # NoAlert,
                            SilentBetween(s, u)', alerts'[u] = "continue"
                     PROVE  u - s >= minTimeout'
            BY DEF ContinuesSpaced
        <2>1. u <= t
            BY DEF NoAlert
        <2>2. alerts[s] # NoAlert /\ SilentBetween(s, u)
            BY <2>1
        <2>3. CASE u = t
            BY <2>2, <2>3
        <2>4. CASE u # t
            BY <2>1, <2>2, <2>4 DEF ProcessorInv, ContinuesSpaced
        <2> QED
            BY <2>3, <2>4
    <1> QED
        BY <1>1, <1>2, <1>3, <1>4

\* A poll while the alert is not raised.
LEMMA PollNotRaised ==
    ASSUME ProcessorInv, NEW t \in Times, NEW v \in Values, checkAlertDetection(t, v),
           ~ alertCondition, handleMaxThreshold(t, v)
    PROVE  ProcessorInv'
    <1> AlertTypeOK /\ HistoryRecorded
        BY DEF ProcessorInv
    <1>a. AlertTypeOK' /\ HistoryRecorded'
        BY PollTypes, PollRecorded
    <1> USE PollHistory, Numbers
    <1>1. CASE /\ v >= maxThreshold
               /\ Sustained(t)
               /\ alertCondition' = TRUE
               /\ maxThresholdTime' = t
               /\ minThresholdTime' = Zero
               /\ alerts' = [alerts EXCEPT ![t] = "raise"]
        <2>1. alerts'[t] = "raise"
            BY <1>1 DEF AlertTypeOK
        <2>2. LastAlertKept'
            BY <1>1, <2>1 DEF LastAlertKept, SilentBetween, Zero
        <2>3. LastAlertFell' /\ OverloadTimed'
            BY <1>1 DEF LastAlertFell, OverloadTimed
        <2>4. QuietTimed'
            BY <1>1, <2>1 DEF QuietTimed, NoPeak
        <2>5. \A s \in Times : s < t /\ alerts[s] # NoAlert /\ SilentBetween(s, now + 1) =>
                                  alerts[s] = "fall"
            BY DEF ProcessorInv, LastAlertFell
        <2>6. \E s \in Times : /\ s <= t /\ sample'[s] # NoSample /\ t - s >= minTimeout
                               /\ AtMaximum(s, now) /\ v >= maxThreshold
            <3>1. CrossingTime(t) \in Times /\ CrossingTime(t) <= t /\ sample'[CrossingTime(t)] # NoSample
                BY DEF CrossingTime, ProcessorInv, OverloadTimed, Times, Zero
            <3>2. AtMaximum(CrossingTime(t), now)
                BY DEF CrossingTime, ProcessorInv, OverloadTimed, AtMaximum
            <3> QED
                BY <1>1, <3>1, <3>2 DEF Sustained
        <2>7. ProtocolKept' /\ RaisesFounded' /\ FallsFounded' /\ ContinuesSpaced'
            BY <2>1, <2>5, <2>6, PollFoundations
        <2> QED
            BY <1>a, <2>2, <2>3, <2>4, <2>7 DEF ProcessorInv
    <1>2. CASE /\ v >= maxThreshold
               /\ ~ Sustained(t)
               /\ maxThresholdTime' = CrossingTime(t)
               /\ UNCHANGED <<alertCondition, minThresholdTime, alerts>>
        <2>1. alerts'[t] = NoAlert
            BY <1>2
        <2>2. LastAlertKept' /\ QuietTimed'
            BY <1>2 DEF LastAlertKept, QuietTimed
        <2>3. LastAlertFell'
            BY <1>2, <2>1, PollIntervals DEF ProcessorInv, LastAlertFell
        <2>4. OverloadTimed'
            <3>1. /\ CrossingTime(t) \in Times /\ CrossingTime(t) <= t /\ t - CrossingTime(t) < minTimeout
                  /\ sample'[CrossingTime(t)] # NoSample
                  /\ AtMaximum(CrossingTime(t), now)
                <4>1. CASE maxThresholdTime = Zero
                    BY <1>2, <4>1 DEF CrossingTime, Sustained, AtMaximum
                <4>2. CASE maxThresholdTime # Zero
                    BY <1>2, <4>2 DEF CrossingTime, Sustained, ProcessorInv, OverloadTimed, Times, Zero
                <4> QED
                    BY <4>1, <4>2
            <3>2. PICK c \in Times : /\ c = CrossingTime(t) /\ c <= t /\ t - c < minTimeout
                                     /\ sample'[c] # NoSample /\ AtMaximum(c, now)
                BY <3>1
            <3>3. AtMaximum(c, t)'
                BY <3>2, <1>2, PollIntervals
            <3>4. ASSUME NEW s \in Times, s <= t, sample'[s] # NoSample, AtMaximum(s, t)'
                  PROVE  c <= s
                <4>1. CASE s = t
                    BY <4>1, <3>2
                <4>2. CASE s # t
                    <5>1. s <= now /\ sample[s] # NoSample
                        BY <4>2, <3>4 DEF HistoryRecorded
                    <5>2. AtMaximum(s, now)
                        BY <3>4, PollIntervals
                    <5> QED
                        BY <5>1, <5>2, <3>2 DEF ProcessorInv, OverloadTimed, CrossingTime
                <4> QED
                    BY <4>1, <4>2
            <3>5. maxThresholdTime' = c /\ c # Zero /\ now' = t
                BY <1>2, <3>2 DEF Zero
            <3>6. /\ sample'[c] # NoSample /\ t - c < minTimeout'
                  /\ AtMaximum(maxThresholdTime, now)'
                BY <3>2, <3>3, <3>5 DEF AtMaximum
            <3>7. \A s \in Times : s <= t /\ sample'[s] # NoSample /\ AtMaximum(s, now)' => c <= s
                BY <3>4, <3>5 DEF AtMaximum
            <3> QED
                BY <3>5, <3>6, <3>7 DEF OverloadTimed
        <2>5. ProtocolKept' /\ RaisesFounded' /\ FallsFounded' /\ ContinuesSpaced'
            BY <2>1, PollFoundations DEF NoAlert
        <2> QED
            BY <1>a, <2>2, <2>3, <2>4, <2>5 DEF ProcessorInv
    <1>3. CASE /\ v < maxThreshold
               /\ ResetMaxThresholdTime
               /\ UNCHANGED <<alertCondition, minThresholdTime, alerts>>
        <2>1. alerts'[t] = NoAlert
            BY <1>3
        <2>2. LastAlertKept' /\ QuietTimed'
            BY <1>3 DEF LastAlertKept, QuietTimed
        <2>3. LastAlertFell'
            BY <1>3, <2>1, PollIntervals DEF ProcessorInv, LastAlertFell
        <2>4. OverloadTimed'
            BY <1>3 DEF OverloadTimed, ResetMaxThresholdTime, AtMaximum
        <2>5. ProtocolKept' /\ RaisesFounded' /\ FallsFounded' /\ ContinuesSpaced'
            BY <2>1, PollFoundations DEF NoAlert
        <2> QED
            BY <1>a, <2>2, <2>3, <2>4, <2>5 DEF ProcessorInv
    <1> QED
        BY <1>1, <1>2, <1>3 DEF handleMaxThreshold

\* A poll while the alert is raised: the time the minimum was first seen.
LEMMA PollTimesQuiet ==
    ASSUME ProcessorInv, NEW t \in Times, NEW v \in Values, checkAlertDetection(t, v),
           alertCondition, alerts'[t] # "raise", ~ Falls(t, v),
           minThresholdTime' = NextMinTime(minThresholdTime, t, v)
    PROVE  QuietTimed'
    <1> AlertTypeOK /\ HistoryRecorded
        BY DEF ProcessorInv
    <1> USE PollHistory, Numbers
    <1>1. PICK m \in Nat : m = NextMinTime(minThresholdTime, t, v)
        BY DEF NextMinTime, Zero
    <1>2. ASSUME m # Zero
          PROVE  /\ m \in Times /\ m <= t
                 /\ sample'[m] # NoSample /\ sample'[m] <= minThreshold /\ NoPeak(m, t)'
        <2>1. v <= maxThreshold
            BY <1>1, <1>2 DEF NextMinTime
        <2>2. CASE minThresholdTime = Zero
            <3>1. m = t /\ v <= minThreshold
                BY <1>1, <1>2, <2>1, <2>2 DEF NextMinTime
            <3>2. NoPeak(t, now)
                BY DEF NoPeak
            <3> QED
                BY <2>1, <3>1, <3>2, PollIntervals
        <2>3. CASE minThresholdTime # Zero
            <3>1. m = minThresholdTime /\ m \in Times
                BY <1>1, <1>2, <2>1, <2>3 DEF NextMinTime, Times, Zero
            <3>2. sample[m] # NoSample /\ sample[m] <= minThreshold /\ NoPeak(m, now) /\ m < t
                BY <3>1, <2>3 DEF ProcessorInv, QuietTimed
            <3> QED
                BY <2>1, <3>1, <3>2, PollIntervals
        <2> QED
            BY <2>2, <2>3
    <1>3. ASSUME NEW s \in Times, s <= t, sample'[s] # NoSample, sample'[s] <= minThreshold, NoPeak(s, t)'
          PROVE  m # Zero /\ m <= s
        <2>1. v <= maxThreshold /\ NoPeak(s, now)
            BY <1>3, PollIntervals
        <2>2. CASE s = t
            BY <1>1, <1>3, <2>1, <2>2 DEF NextMinTime, Zero
        <2>3. CASE s # t
            <3>1. s <= now /\ sample[s] # NoSample /\ sample[s] <= minThreshold
                BY <1>3, <2>3 DEF HistoryRecorded
            <3>2. minThresholdTime # Zero /\ minThresholdTime <= s
                BY <2>1, <3>1 DEF ProcessorInv, QuietTimed
            <3> QED
                BY <1>1, <2>1, <3>2 DEF NextMinTime
        <2> QED
            BY <2>2, <2>3
    <1>4. minThresholdTime' = m /\ now' = t
        BY <1>1
    <1>5. m # Zero => sample'[m] # NoSample /\ sample'[m] <= minThreshold /\ NoPeak(minThresholdTime, now)'
        BY <1>2, <1>4 DEF NoPeak
    <1>6. m # Zero /\ v <= minThreshold => m = t \/ t - m < minTimeout'
        BY <1>1 DEF Falls, NextMinTime
    <1>7. \A s \in Times :
              s <= t /\ sample'[s] # NoSample /\ sample'[s] <= minThreshold /\ NoPeak(s, now)' =>
                  m # Zero /\ m <= s
        BY <1>3, <1>4 DEF NoPeak
    <1> QED
        BY <1>4, <1>5, <1>6, <1>7 DEF QuietTimed

\* A poll while the alert is raised: when the value was quiet for minTimeout, and
\* what the timers know of the last alert.
LEMMA PollRaised ==
    ASSUME ProcessorInv, NEW t \in Times, NEW v \in Values, checkAlertDetection(t, v),
           alertCondition, handleMinThreshold(t, v)
    PROVE  ProcessorInv'
    <1> AlertTypeOK /\ HistoryRecorded
        BY DEF ProcessorInv
    <1>a. AlertTypeOK' /\ HistoryRecorded'
        BY PollTypes, PollRecorded
    <1> USE PollHistory, Numbers
    <1>b. PICK last \in Times :
              /\ last = maxThresholdTime /\ last < t
              /\ alerts[last] \in {"raise", "continue"}
              /\ SilentBetween(last, now + 1)
              /\ now - last < minTimeout \/ last = now
        BY DEF ProcessorInv, LastAlertKept, Times, Zero
    <1>c. \A s \in Times : s < t /\ alerts[s] # NoAlert /\ SilentBetween(s, now + 1) => s = last
        <2> SUFFICES ASSUME NEW s \in Times, s < t, alerts[s] # NoAlert, SilentBetween(s, now + 1)
                     PROVE  s = last
            OBVIOUS
        <2>1. s <= now
            BY DEF HistoryRecorded
        <2>2. ~ (last < s)
            BY <1>b, <2>1 DEF SilentBetween
        <2>3. ~ (s < last)
            BY <1>b DEF SilentBetween, NoAlert
        <2> QED
            BY <2>2, <2>3
    <1>1. CASE /\ Falls(t, v)
               /\ ResetAlertCondition
               /\ maxThresholdTime' = Zero
               /\ minThresholdTime' = NextMinTime(t, t, v)
               /\ alerts' = [alerts EXCEPT ![t] = "fall"]
        <2>1. alerts'[t] = "fall" /\ ~ alertCondition'
            BY <1>1 DEF AlertTypeOK, ResetAlertCondition
        <2>2. LastAlertKept' /\ QuietTimed'
            BY <2>1 DEF LastAlertKept, QuietTimed
        <2>3. LastAlertFell'
            BY <2>1, PollIntervals DEF LastAlertFell, NoAlert
        <2>4. OverloadTimed'
            BY <1>1, <2>1 DEF OverloadTimed, Falls, AtMaximum
        <2>5. \E s \in Times : /\ s <= t /\ sample'[s] # NoSample /\ t - s >= minTimeout
                               /\ sample'[s] <= minThreshold /\ v <= minThreshold
                               /\ NoPeak(s, now)
            <3>1. minThresholdTime \in Times /\ minThresholdTime < t
                BY <1>1 DEF Falls, Zero, Times
            <3> QED
                BY <1>1, <3>1 DEF Falls, ProcessorInv, QuietTimed
        <2>6. ProtocolKept' /\ RaisesFounded' /\ FallsFounded' /\ ContinuesSpaced'
            BY <1>b, <2>1, <2>5, PollFoundations DEF NoAlert
        <2> QED
            BY <1>a, <2>2, <2>3, <2>4, <2>6 DEF ProcessorInv
    <1>2. CASE /\ ~ Falls(t, v)
               /\ Continues(t)
               /\ maxThresholdTime' = t
               /\ minThresholdTime' = NextMinTime(minThresholdTime, t, v)
               /\ alerts' = [alerts EXCEPT ![t] = "continue"]
               /\ UNCHANGED alertCondition
        <2>1. alerts'[t] = "continue" /\ alertCondition'
            BY <1>2 DEF AlertTypeOK
        <2>2. LastAlertKept'
            BY <1>2, <2>1 DEF LastAlertKept, SilentBetween, Zero
        <2>3. LastAlertFell' /\ OverloadTimed'
            BY <2>1 DEF LastAlertFell, OverloadTimed
        <2>4. QuietTimed'
            BY <1>2, <2>1, PollTimesQuiet
        <2>5. t - last >= minTimeout
            BY <1>2, <1>b DEF Continues
        <2>6. ProtocolKept' /\ RaisesFounded' /\ FallsFounded' /\ ContinuesSpaced'
            BY <1>b, <1>c, <2>1, <2>5, PollFoundations DEF NoAlert
        <2> QED
            BY <1>a, <2>2, <2>3, <2>4, <2>6 DEF ProcessorInv
    <1>3. CASE /\ ~ Falls(t, v)
               /\ ~ Continues(t)
               /\ minThresholdTime' = NextMinTime(minThresholdTime, t, v)
               /\ UNCHANGED <<alertCondition, maxThresholdTime, alerts>>
        <2>1. alerts'[t] = NoAlert /\ alertCondition'
            BY <1>3
        <2>2. LastAlertKept'
            <3>1. maxThresholdTime' = last /\ alerts'[last] = alerts[last] /\ now' = t /\ t - last < minTimeout'
                BY <1>3, <1>b DEF Continues
            <3>2. SilentBetween(maxThresholdTime, now + 1)'
                BY <2>1, <3>1, <1>b DEF SilentBetween
            <3> QED
                BY <1>b, <3>1, <3>2 DEF LastAlertKept, Zero
        <2>3. LastAlertFell' /\ OverloadTimed'
            BY <2>1 DEF LastAlertFell, OverloadTimed
        <2>4. QuietTimed'
            BY <1>3, <2>1, PollTimesQuiet DEF NoAlert
        <2>5. ProtocolKept' /\ RaisesFounded' /\ FallsFounded' /\ ContinuesSpaced'
            BY <2>1, PollFoundations DEF NoAlert
        <2> QED
            BY <1>a, <2>2, <2>3, <2>4, <2>5 DEF ProcessorInv
    <1> QED
        BY <1>1, <1>2, <1>3 DEF handleMinThreshold

-----------------------------------------------------------------------------
(***************************************************************************)
(* Theorems                                                                *)
(***************************************************************************)

LEMMA ProcessorInvInit == AlertInit => ProcessorInv
    <1> SUFFICES ASSUME AlertInit PROVE ProcessorInv
        OBVIOUS
    <1>1. /\ sample = [t \in Times |-> NoSample]
          /\ alerts = [t \in Times |-> NoAlert]
          /\ now = 0 /\ maxThresholdTime = 0 /\ minThresholdTime = 0 /\ alertCondition = FALSE
        BY DEF AlertInit, Zero
    <1>2. AlertTypeOK
        <2>1. alertCondition \in BOOLEAN
            BY <1>1, Zenon
        <2>2. now \in 0 .. MaxTime /\ minThresholdTime \in 0 .. now /\ maxThresholdTime \in 0 .. now
            BY <1>1, RuleAssumption
        <2>3. /\ sample \in [Times -> Values \union {NoSample}]
              /\ alerts \in [Times -> {NoAlert, "raise", "continue", "fall"}]
            BY <1>1
        <2>4. minTimeout \in Timeouts
            BY DEF AlertInit
        <2> QED
            BY <2>1, <2>2, <2>3, <2>4 DEF AlertTypeOK
    <1>3. HistoryRecorded /\ LastAlertKept /\ LastAlertFell /\ QuietTimed
        BY <1>1 DEF HistoryRecorded, LastAlertKept, LastAlertFell, QuietTimed, Zero
    <1>4. OverloadTimed
        BY <1>1 DEF OverloadTimed, Zero
    <1>5. ProtocolKept /\ RaisesFounded /\ FallsFounded /\ ContinuesSpaced
        BY <1>1 DEF ProtocolKept, RaisesFounded, FallsFounded, ContinuesSpaced, NoAlert
    <1> QED
        BY <1>2, <1>3, <1>4, <1>5 DEF ProcessorInv

LEMMA ProcessorInvNext == ProcessorInv /\ [AlertNext]_alertVars => ProcessorInv'
    <1> SUFFICES ASSUME ProcessorInv, [AlertNext]_alertVars PROVE ProcessorInv'
        OBVIOUS
    <1>1. ASSUME NEW t \in Times, NEW v \in Values, checkAlertDetection(t, v)
          PROVE  ProcessorInv'
        BY <1>1, PollNotRaised, PollRaised DEF checkAlertDetection
    <1>2. CASE UNCHANGED alertVars
        BY <1>2 DEF alertVars, ProcessorInv, AlertTypeOK, HistoryRecorded, LastAlertKept, LastAlertFell,
                    OverloadTimed, QuietTimed, ProtocolKept, RaisesFounded, FallsFounded,
                    ContinuesSpaced, SilentBetween, AtMaximum, NoPeak
    <1> QED
        BY <1>1, <1>2 DEF AlertNext

LEMMA ProcessorInvHolds == AlertSpec => []ProcessorInv
    BY ProcessorInvInit, ProcessorInvNext, PTL DEF AlertSpec

\* The invariant speaks of single times, the properties of the sets of them.
LEMMA Intervals ==
    ASSUME AlertTypeOK
    PROVE  /\ \A u \in Sent(1, now) : u \in Times /\ u <= now /\ alerts[u] # NoAlert
           /\ \A u \in Polls(1, now) : u \in Times /\ u <= now /\ sample[u] # NoSample
           /\ \A s \in Times, t \in 0 .. MaxTime : \A u \in Polls(s, t) :
                 u \in Times /\ s <= u /\ u <= t /\ sample[u] # NoSample
           /\ \A s, t \in Times : \A u \in Times :
                 s <= u /\ u <= t /\ sample[u] # NoSample => u \in Polls(s, t)
           /\ \A t, u \in Times : IsLastBefore(t, u) <=>
                 t < u /\ alerts[t] # NoAlert /\ SilentBetween(t, u)
    <1> USE Numbers
    <1>1. \A u \in Sent(1, now) : u \in Times /\ u <= now /\ alerts[u] # NoAlert
        BY DEF Sent, Times
    <1>2. \A u \in Polls(1, now) : u \in Times /\ u <= now /\ sample[u] # NoSample
        BY DEF Polls, Times
    <1>3. ASSUME NEW s \in Times, NEW t \in 0 .. MaxTime, NEW u \in Polls(s, t)
          PROVE  u \in Times /\ s <= u /\ u <= t /\ sample[u] # NoSample
        BY <1>3 DEF Polls, Times
    <1>4. ASSUME NEW s \in Times, NEW t \in Times, NEW u \in Times, s <= u, u <= t, sample[u] # NoSample
          PROVE  u \in Polls(s, t)
        BY <1>4 DEF Polls, Times
    <1>5. ASSUME NEW t \in Times, NEW u \in Times
          PROVE  IsLastBefore(t, u) <=> t < u /\ alerts[t] # NoAlert /\ SilentBetween(t, u)
        BY <1>5 DEF IsLastBefore, Sent, SilentBetween, Times
    <1> QED
        BY <1>1, <1>2, <1>3, <1>4, <1>5

\* AlertProtocol and RaisedByOverload.
LEMMA RaisedAndFollowedFollows == ProcessorInv => RaisedAndFollowed
    <1> SUFFICES ASSUME ProcessorInv PROVE RaisedAndFollowed
        OBVIOUS
    <1>a. AlertTypeOK
        BY DEF ProcessorInv
    <1> USE Numbers, Intervals, <1>a
    <1>1. AlertProtocol
        <2> SUFFICES ASSUME NEW u \in Sent(1, now)
                     PROVE  (alerts[u] = "raise") <=> \A t \in Sent(1, u - 1) :
                                IsLastBefore(t, u) => alerts[t] = "fall"
            BY DEF AlertProtocol
        <2>1. u \in Times /\ alerts[u] # NoAlert
            OBVIOUS
        <2>2. \A t : t \in Sent(1, u - 1) <=> t \in Times /\ t < u /\ alerts[t] # NoAlert
            BY <2>1 DEF Sent, Times
        <2>3. (alerts[u] = "raise") <=>
                  \A t \in Times : t < u /\ alerts[t] # NoAlert /\ SilentBetween(t, u) => alerts[t] = "fall"
            BY <2>1 DEF ProcessorInv, ProtocolKept
        <2> QED
            BY <2>1, <2>2, <2>3
    <1>2. ASSUME NEW u \in Sent(1, now), alerts[u] = "raise"
          PROVE  \E s \in Polls(1, u) : Overload(s, u)
        <2>1. PICK s \in Times : s <= u /\ sample[s] # NoSample /\ u - s >= minTimeout /\ AtMaximum(s, u)
            BY <1>2 DEF ProcessorInv, RaisesFounded
        <2>2. s \in Polls(1, u)
            BY <2>1 DEF Polls
        <2>3. Overload(s, u)
            BY <2>1 DEF Overload, AtMaximum, Times
        <2> QED
            BY <2>2, <2>3
    <1>3. ASSUME NEW s \in Polls(1, now), Overload(s, now), ~ alertCondition
          PROVE  FALSE
        <2>1. s \in Times /\ s <= now /\ sample[s] # NoSample /\ now \in Times
            BY DEF Times
        <2>2. AtMaximum(s, now)
            BY <1>3, <2>1 DEF Overload, AtMaximum
        <2>3. maxThresholdTime # Zero /\ maxThresholdTime <= s /\ now - maxThresholdTime < minTimeout
            BY <1>3, <2>1, <2>2 DEF ProcessorInv, OverloadTimed
        <2> QED
            BY <1>3, <2>1, <2>3 DEF Overload
    <1> QED
        BY <1>1, <1>2, <1>3 DEF RaisedAndFollowed, RaisedByOverload

\* FallsWhenQuiet and RepeatedEveryTimeout.
LEMMA AlertsWhenDueFollows == ProcessorInv => AlertsWhenDue
    <1> SUFFICES ASSUME ProcessorInv PROVE AlertsWhenDue
        OBVIOUS
    <1>a. AlertTypeOK
        BY DEF ProcessorInv
    <1> USE Numbers, Intervals, <1>a
    <1>1. ASSUME NEW u \in Sent(1, now), alerts[u] = "fall"
          PROVE  \E s \in Polls(1, u) : Quiet(s, u)
        <2>1. PICK s \in Times : /\ s <= u /\ sample[s] # NoSample /\ u - s >= minTimeout
                                 /\ sample[s] <= minThreshold /\ sample[u] <= minThreshold
                                 /\ NoPeak(s, u)
            BY <1>1 DEF ProcessorInv, FallsFounded
        <2>2. s \in Polls(1, u)
            BY <2>1 DEF Polls
        <2>3. Quiet(s, u)
            BY <2>1 DEF Quiet, NoPeak, Times
        <2> QED
            BY <2>2, <2>3
    <1>2. ASSUME NEW s \in Polls(1, now - 1), Quiet(s, now), alertCondition
          PROVE  FALSE
        <2>1. s \in Times /\ s < now /\ sample[s] # NoSample /\ now \in Times
            BY DEF Polls, Times
        <2>2. sample[now] <= minThreshold /\ sample[s] <= minThreshold /\ now - s >= minTimeout
            BY <1>2 DEF Quiet
        <2>3. NoPeak(s, now)
            BY <1>2, <2>1 DEF Quiet, NoPeak, Times
        <2>4. minThresholdTime # Zero /\ minThresholdTime <= s
            BY <1>2, <2>1, <2>2, <2>3 DEF ProcessorInv, QuietTimed
        <2>5. minThresholdTime = now \/ now - minThresholdTime < minTimeout
            BY <1>2, <2>2, <2>4 DEF ProcessorInv, QuietTimed
        <2> QED
            BY <2>1, <2>2, <2>4, <2>5
    <1>3. ASSUME NEW t \in Sent(1, now), NEW u \in Sent(1, now), IsLastBefore(t, u), alerts[u] = "continue"
          PROVE  u - t >= minTimeout
        BY <1>3 DEF ProcessorInv, ContinuesSpaced
    <1>4. ASSUME alertCondition
          PROVE  \E t \in Sent(1, now) : now - t < minTimeout \/ t = now
        <2>1. maxThresholdTime \in Sent(1, now)
            BY <1>4 DEF ProcessorInv, LastAlertKept, Sent, Zero, NoAlert
        <2> QED
            BY <1>4, <2>1 DEF ProcessorInv, LastAlertKept
    <1> QED
        BY <1>1, <1>2, <1>3, <1>4 DEF AlertsWhenDue, FallsWhenQuiet, RepeatedEveryTimeout

\* The fields of the processor have their types, and the times it keeps are not
\* after the last poll (createAlertProcessor, checkAlertDetection).
THEOREM ProcessorTypeCorrect == AlertSpec => []AlertTypeOK
    BY ProcessorInvHolds, PTL DEF ProcessorInv

\* What a receiver hears from checkAlertDetection is a possible history of an
\* alert, raise, continue and fall in their order, and the alert is raised by
\* sustained overload and by nothing else, however the polls are spaced.
THEOREM AlertsFollowTheValues == AlertSpec => []RaisedAndFollowed
    BY ProcessorInvHolds, RaisedAndFollowedFollows, PTL

\* The alert falls after a quiet minTimeout and only then, and while it is raised
\* it is repeated every minTimeout (handleMinThreshold).
THEOREM AlertsAreSentWhenDue == AlertSpec => []AlertsWhenDue
    BY ProcessorInvHolds, AlertsWhenDueFollows, PTL

-----------------------------------------------------------------------------
(***************************************************************************)
(* ResourceMonitor: the inductive invariant.  An element of an instance    *)
(* keeps the number of the list it was put into, so that a stop after a    *)
(* node config change removes nothing, and a stop before it removes only   *)
(* what the instance has put there.                                        *)
(***************************************************************************)

\* A node config that waits for run is within the bound on their number.
PendingWithinBound == pendingConfig # None => list < MaxConfigs

\* An instance remembers only elements of its own, in a list there has been.
ElementsOwned == \A i \in Instances : \A e \in elements[i] : e.owner = i /\ e.list <= list

\* The node's processors are those setupSystemAlerts made from the last config.
NodeRulesCurrent == {p \in alertProcessors : p.owner = Node} = Processors(list, Node, nodeConfig)

\* What an instance has put into the present list is there.
InstanceRulesCurrent ==
    \A i \in monitored : \A e \in elements[i] : e.list = list => e \in alertProcessors

MonitorInv ==
    /\ TypeOK
    /\ PendingWithinBound
    /\ ElementsOwned
    /\ ProcessorsOwned
    /\ NodeRulesCurrent
    /\ InstanceRulesCurrent

-----------------------------------------------------------------------------
(***************************************************************************)
(* What setupSystemAlerts and setupInstanceAlerts make of a rule list      *)
(***************************************************************************)

\* Every processor is in the given list and the owner's, and watches a rule of the
\* config; a rule with a source always gets its processor.
LEMMA ProcessorsProps ==
    ASSUME NEW n \in 0 .. MaxConfigs, NEW o \in Instances \union {Node}, NEW c \in Configs
    PROVE  /\ Processors(n, o, c) \subseteq Elements
           /\ \A e \in Processors(n, o, c) : e.list = n /\ e.owner = o
           /\ {e.rule : e \in Processors(n, o, c)} \intersect Known = ToSet(c) \intersect Known
    <1> DEFINE P(k) == [list |-> n, owner |-> o, rule |-> c[k]]
    <1>0. \A k \in DOMAIN c : c[k] \in ToSet(c)
        BY DEF ToSet
    <1>1. \A k \in DOMAIN c : c[k] \in UNION {ToSet(d) : d \in Configs}
        BY <1>0, Zenon
    <1>2. \A k \in DOMAIN c : P(k) \in Elements
        BY <1>1 DEF Elements
    <1>3. \A e \in Processors(n, o, c) : \E k \in DOMAIN c \ Skipped(c) : e = P(k)
        BY DEF Processors
    <1>4. ASSUME NEW k \in DOMAIN c, c[k] \in Known PROVE P(k) \in Processors(n, o, c)
        BY <1>4 DEF Processors, Skipped
    <1>5. ASSUME NEW x \in Known PROVE (\E e \in Processors(n, o, c) : x = e.rule) <=> x \in ToSet(c)
        <2>1. x \in ToSet(c) <=> \E k \in DOMAIN c : x = c[k]
            BY DEF ToSet
        <2>2. \A k \in DOMAIN c : P(k).rule = c[k]
            OBVIOUS
        <2> HIDE DEF P
        <2>3. ASSUME NEW k \in DOMAIN c, x = c[k] PROVE \E e \in Processors(n, o, c) : x = e.rule
            BY <1>4, <2>2, <2>3, Zenon
        <2>4. ASSUME NEW e \in Processors(n, o, c), x = e.rule PROVE \E k \in DOMAIN c : x = c[k]
            BY <1>3, <2>2, <2>4
        <2> QED
            BY <2>1, <2>3, <2>4, Zenon
    <1>6. {e.rule : e \in Processors(n, o, c)} \intersect Known = ToSet(c) \intersect Known
        BY <1>5
    <1> QED
        BY <1>2, <1>3, <1>6

\* At most one rule of a config watches something the node does not have.
OneMissing(c) == \A j, k \in DOMAIN c : c[j] \notin Known /\ c[k] \notin Known => j = k

\* Then no processor is without a source.
LEMMA SourcesKnown ==
    ASSUME NEW n, NEW o, NEW c \in Configs, OneMissing(c)
    PROVE  \A e \in Processors(n, o, c) : e.rule \in Known
    <1>1. c \in Seq(Range(c)) /\ DOMAIN c = 1 .. Len(c) /\ Len(c) \in Nat
        BY ConstantsAssumption
    <1>2. ASSUME NEW k \in DOMAIN c, c[k] \notin Known PROVE k \in Skipped(c)
        BY <1>1, <1>2 DEF OneMissing, Skipped
    <1> QED
        BY <1>2 DEF Processors

-----------------------------------------------------------------------------
(***************************************************************************)
(* The invariant holds.                                                    *)
(***************************************************************************)
LEMMA MonitorInvInit == Init => MonitorInv
    <1> SUFFICES ASSUME Init PROVE MonitorInv
        OBVIOUS
    <1>0. nodeConfig \in Configs /\ list = 0 /\ 0 \in 0 .. MaxConfigs /\ monitored = {}
        BY ConstantsAssumption DEF Init
    <1>1. /\ alertProcessors \subseteq Elements
          /\ \A e \in alertProcessors : e.list = list /\ e.owner = Node
        BY <1>0, ProcessorsProps DEF Init
    <1>2. TypeOK
        <2>1. /\ locked = (runPC = "send")
              /\ tick \in BOOLEAN /\ crashed \in BOOLEAN
            BY Zenon DEF Init
        <2>2. elements \in [Instances -> SUBSET Elements]
            BY DEF Init
        <2> QED
            BY <1>0, <1>1, <2>1, <2>2, ConstantsAssumption DEF Init, TypeOK, MaxConversions
    <1>3. NodeRulesCurrent
        BY <1>0, <1>1 DEF Init, NodeRulesCurrent
    <1> QED
        BY <1>0, <1>1, <1>2, <1>3 DEF Init, MonitorInv, PendingWithinBound, ElementsOwned,
            ProcessorsOwned, InstanceRulesCurrent

\* A step that leaves the lists alone and keeps the types keeps the rest.
LEMMA ListsUntouched ==
    ASSUME MonitorInv, TypeOK', PendingWithinBound', UNCHANGED lists
    PROVE  MonitorInv'
    BY DEF MonitorInv, ElementsOwned, ProcessorsOwned, NodeRulesCurrent, InstanceRulesCurrent,
        lists, Processors, Skipped

\* run gets the values of the monitored instances: the conversions stay in range.
LEMMA ConversionsTyped ==
    ASSUME TypeOK, NEW filled, getCurrentInstancesData(filled)
    PROVE  conversions' \in [Instances -> 0 .. MaxConversions]
    <1>1. \A i \in Instances : Converted(i, filled) \in 0 .. MaxConversions
        BY DEF TypeOK, Converted, MaxConversions
    <1> QED
        BY <1>1 DEF getCurrentInstancesData, MaxConversions

\* A node config takes the place of the list.
LEMMA TakeNodeConfigKeeps ==
    ASSUME MonitorInv, TakeNodeConfig
    PROVE  MonitorInv'
    <1>1. /\ pendingConfig \in Configs /\ list + 1 \in 0 .. MaxConfigs /\ list' = list + 1
          /\ nodeConfig' = pendingConfig /\ pendingConfig' = None /\ UNCHANGED <<monitored, elements>>
        BY ConstantsAssumption
            DEF MonitorInv, TypeOK, PendingWithinBound, TakeNodeConfig, setupSystemAlerts
    <1>2. alertProcessors' = Processors(list', Node, nodeConfig')
        BY <1>1 DEF TakeNodeConfig, setupSystemAlerts, NewList
    <1>3. /\ alertProcessors' \subseteq Elements
          /\ \A e \in alertProcessors' : e.list = list' /\ e.owner = Node
        <2>1. PICK n \in 0 .. MaxConfigs : n = list'
            BY <1>1
        <2>2. PICK c \in Configs : c = nodeConfig'
            BY <1>1
        <2>3. alertProcessors' = Processors(n, Node, c)
            BY <1>2, <2>1, <2>2
        <2> QED
            BY <2>1, <2>3, ProcessorsProps
    <1>4. TypeOK'
        <2>1. tick' \in BOOLEAN /\ crashed' \in BOOLEAN /\ locked' = (runPC' = "send")
            BY Zenon DEF MonitorInv, TypeOK, TakeNodeConfig
        <2> QED
            BY <1>1, <1>3, <2>1 DEF MonitorInv, TypeOK, TakeNodeConfig, Calls
    <1>5. NodeRulesCurrent'
        BY <1>2, <1>3 DEF NodeRulesCurrent, Processors, Skipped
    <1>6. ElementsOwned' /\ ProcessorsOwned' /\ InstanceRulesCurrent'
        <2>1. \A i \in Instances : \A e \in elements[i] : e.list \in Int /\ e.list <= list
            BY DEF MonitorInv, TypeOK, ElementsOwned, Elements
        <2>2. list \in Int
            BY DEF MonitorInv, TypeOK
        <2> QED
            BY <1>1, <1>3, <2>1, <2>2
                DEF MonitorInv, TypeOK, ElementsOwned, ProcessorsOwned, InstanceRulesCurrent
    <1> QED
        BY <1>1, <1>4, <1>5, <1>6 DEF MonitorInv, PendingWithinBound

\* The processors of a new instance are added to the list and remembered.
LEMMA StartInstanceMonitorKeeps ==
    ASSUME MonitorInv, StartInstanceMonitor
    PROVE  MonitorInv'
    <1>0. /\ TypeOK /\ PendingWithinBound /\ call \in Calls /\ call.op = "start" /\ call' = None
          /\ UNCHANGED <<runPC, locked, tick, channel, closePC, pendingConfig, crashed, list,
                         nodeConfig>>
        BY DEF MonitorInv, TypeOK, StartInstanceMonitor
    <1>1. PICK i \in Instances, c \in Configs : call.instance = i /\ call.rules = c
        BY <1>0 DEF Calls
    <1>2. CASE UNCHANGED <<monitored, elements, alertProcessors, conversions>>
        <2>1. TypeOK'
            <3>1. tick' \in BOOLEAN /\ crashed' \in BOOLEAN /\ locked' = (runPC' = "send")
                BY <1>0, Zenon DEF TypeOK
            <3> QED
                BY <1>0, <1>2, <3>1 DEF TypeOK, Calls
        <2> QED
            BY <1>0, <1>2, <2>1, ListsUntouched DEF lists, PendingWithinBound
    <1>3. CASE /\ i \notin monitored
               /\ elements' = [elements EXCEPT ![i] = Processors(list, i, c)]
               /\ alertProcessors' = alertProcessors \union Processors(list, i, c)
               /\ monitored' = monitored \union {i}
               /\ conversions' = [conversions EXCEPT ![i] = 0]
        <2> DEFINE new == Processors(list, i, c)
        <2>1. new \subseteq Elements /\ \A e \in new : e.list = list /\ e.owner = i
            BY <1>0, ProcessorsProps DEF TypeOK
        <2> HIDE DEF new
        <2>2. /\ elements' = [elements EXCEPT ![i] = new]
              /\ alertProcessors' = alertProcessors \union new
              /\ monitored' = monitored \union {i}
            BY <1>3 DEF new
        <2>3. elements \in [Instances -> SUBSET Elements] /\ list \in Nat
            BY <1>0, ConstantsAssumption DEF TypeOK
        <2>4. TypeOK'
            <3>1. tick' \in BOOLEAN /\ crashed' \in BOOLEAN /\ locked' = (runPC' = "send")
                BY <1>0, Zenon DEF TypeOK
            <3>2. conversions' \in [Instances -> 0 .. MaxConversions]
                BY <1>0, <1>3 DEF TypeOK, MaxConversions
            <3> QED
                BY <1>0, <2>1, <2>2, <2>3, <3>1, <3>2 DEF TypeOK, Calls
        <2>5. ElementsOwned'
            BY <1>0, <2>1, <2>2, <2>3 DEF MonitorInv, ElementsOwned
        <2>6. ProcessorsOwned'
            BY <1>3, <2>1, <2>2, <2>3 DEF MonitorInv, ProcessorsOwned
        <2>7. NodeRulesCurrent'
            <3>1. {p \in alertProcessors' : p.owner = Node} = {p \in alertProcessors : p.owner = Node}
                BY <2>1, <2>2, ConstantsAssumption
            <3> QED
                BY <1>0, <3>1 DEF MonitorInv, NodeRulesCurrent, Processors, Skipped
        <2>8. InstanceRulesCurrent'
            BY <1>0, <2>1, <2>2, <2>3 DEF MonitorInv, TypeOK, InstanceRulesCurrent
        <2> QED
            BY <1>0, <2>4, <2>5, <2>6, <2>7, <2>8 DEF MonitorInv, PendingWithinBound
    <1> QED
        BY <1>1, <1>2, <1>3 DEF StartInstanceMonitor

\* The processors of an instance that stops leave the list, and only they do.
LEMMA StopInstanceMonitorKeeps ==
    ASSUME MonitorInv, StopInstanceMonitor
    PROVE  MonitorInv'
    <1>0. /\ TypeOK /\ PendingWithinBound /\ call \in Calls /\ call.op = "stop" /\ call' = None
          /\ UNCHANGED <<runPC, locked, tick, channel, closePC, pendingConfig, crashed, list,
                         nodeConfig>>
        BY DEF MonitorInv, TypeOK, StopInstanceMonitor
    <1>1. PICK i \in Instances : call.instance = i
        BY <1>0 DEF Calls
    <1>2. CASE UNCHANGED <<monitored, elements, alertProcessors, conversions>>
        <2>1. TypeOK'
            <3>1. tick' \in BOOLEAN /\ crashed' \in BOOLEAN /\ locked' = (runPC' = "send")
                BY <1>0, Zenon DEF TypeOK
            <3> QED
                BY <1>0, <1>2, <3>1 DEF TypeOK, Calls
        <2> QED
            BY <1>0, <1>2, <2>1, ListsUntouched DEF lists, PendingWithinBound
    <1>3. CASE /\ alertProcessors' = alertProcessors \ elements[i]
               /\ elements' = [elements EXCEPT ![i] = {}]
               /\ monitored' = monitored \ {i}
               /\ conversions' = [conversions EXCEPT ![i] = 0]
        <2>1. \A j \in Instances : \A e \in elements[j] : e.owner = j
            BY DEF MonitorInv, ElementsOwned
        <2>2. elements \in [Instances -> SUBSET Elements]
            BY <1>0 DEF TypeOK
        <2>3. TypeOK'
            <3>1. tick' \in BOOLEAN /\ crashed' \in BOOLEAN /\ locked' = (runPC' = "send")
                BY <1>0, Zenon DEF TypeOK
            <3>2. conversions' \in [Instances -> 0 .. MaxConversions]
                BY <1>0, <1>3 DEF TypeOK, MaxConversions
            <3> QED
                BY <1>0, <1>3, <2>2, <3>1, <3>2 DEF TypeOK, Calls
        <2>4. ElementsOwned'
            BY <1>0, <1>3, <2>2 DEF MonitorInv, ElementsOwned
        <2>5. ProcessorsOwned'
            BY <1>0, <1>3, <2>1, <2>2 DEF MonitorInv, TypeOK, ProcessorsOwned
        <2>6. NodeRulesCurrent'
            <3>1. {p \in alertProcessors' : p.owner = Node} = {p \in alertProcessors : p.owner = Node}
                BY <1>3, <2>1, ConstantsAssumption
            <3> QED
                BY <1>0, <3>1 DEF MonitorInv, NodeRulesCurrent, Processors, Skipped
        <2>7. InstanceRulesCurrent'
            BY <1>0, <1>3, <2>1, <2>2 DEF MonitorInv, TypeOK, InstanceRulesCurrent
        <2> QED
            BY <1>0, <2>3, <2>4, <2>5, <2>6, <2>7 DEF MonitorInv, PendingWithinBound
    <1> QED
        BY <1>1, <1>2, <1>3 DEF StopInstanceMonitor, RemoveElements

LEMMA MonitorInvNext == MonitorInv /\ [Next]_vars => MonitorInv'
    <1> SUFFICES ASSUME MonitorInv, [Next]_vars PROVE MonitorInv'
        OBVIOUS
    <1>0. TypeOK /\ PendingWithinBound
        BY DEF MonitorInv
    <1>1. CASE UNCHANGED vars
        <2>1. TypeOK'
            <3>1. tick' \in BOOLEAN /\ crashed' \in BOOLEAN /\ locked' = (runPC' = "send")
                BY <1>0, <1>1, Zenon DEF TypeOK, vars
            <3> QED
                BY <1>0, <1>1, <3>1 DEF TypeOK, vars, lists, Calls
        <2> QED
            BY <1>0, <1>1, <2>1, ListsUntouched DEF vars, lists, PendingWithinBound
    <1>2. CASE Tick \/ ReadMonitoringData \/ TakeTick \/ TakeDone \/ CloseCancel \/ CloseChannel
        <2>1. TypeOK'
            <3>1. tick' \in BOOLEAN /\ crashed' \in BOOLEAN
                BY <1>0, <1>2, Zenon
                    DEF TypeOK, Tick, ReadMonitoringData, TakeTick, TakeDone, CloseCancel, CloseChannel
            <3>2. locked' = (runPC' = "send")
                BY <1>0, <1>2
                    DEF TypeOK, Tick, ReadMonitoringData, TakeTick, TakeDone, CloseCancel, CloseChannel
            <3>3. channel' \in 0 .. ChannelSize
                BY <1>0, <1>2, ConstantsAssumption
                    DEF TypeOK, Tick, ReadMonitoringData, TakeTick, TakeDone, CloseCancel, CloseChannel
            <3> QED
                BY <1>0, <1>2, <3>1, <3>2, <3>3
                    DEF TypeOK, Tick, ReadMonitoringData, TakeTick, TakeDone, CloseCancel, CloseChannel,
                        lists, Calls
        <2>2. PendingWithinBound' /\ UNCHANGED lists
            BY <1>0, <1>2 DEF PendingWithinBound, Tick, ReadMonitoringData, TakeTick, TakeDone,
                CloseCancel, CloseChannel, lists
        <2> QED
            BY <2>1, <2>2, ListsUntouched
    <1>3. ASSUME NEW config \in Configs, ChangeNodeConfig(config) PROVE MonitorInv'
        <2>1. TypeOK'
            <3>1. tick' \in BOOLEAN /\ crashed' \in BOOLEAN /\ locked' = (runPC' = "send")
                BY <1>0, <1>3, Zenon DEF TypeOK, ChangeNodeConfig
            <3> QED
                BY <1>0, <1>3, <3>1 DEF TypeOK, ChangeNodeConfig, lists, Calls
        <2>2. PendingWithinBound' /\ UNCHANGED lists
            BY <1>3 DEF PendingWithinBound, ChangeNodeConfig, lists
        <2> QED
            BY <2>1, <2>2, ListsUntouched
    <1>4. CASE Poll
        <2>0. PICK filled \in SUBSET monitored : getCurrentInstancesData(filled)
            BY <1>4 DEF Poll
        <2>1. TypeOK'
            <3>1. tick' \in BOOLEAN /\ locked' = (runPC' = "send")
                BY <1>0, <1>4, Zenon DEF TypeOK, Poll
            <3>2. crashed' \in BOOLEAN
                BY <1>4, Zenon DEF Poll, processAlerts
            <3>3. conversions' \in [Instances -> 0 .. MaxConversions]
                BY <1>0, <2>0, ConversionsTyped
            <3> QED
                BY <1>0, <1>4, <3>1, <3>2, <3>3 DEF TypeOK, Poll, lists, Calls
        <2>2. PendingWithinBound' /\ UNCHANGED lists
            BY <1>0, <1>4 DEF PendingWithinBound, Poll, lists
        <2> QED
            BY <2>1, <2>2, ListsUntouched
    <1>5. CASE sendMonitoringData
        <2>1. TypeOK'
            <3>1. tick' \in BOOLEAN /\ crashed' \in BOOLEAN /\ locked' = (runPC' = "send")
                <4>1. tick' \in BOOLEAN /\ crashed' \in BOOLEAN
                    BY <1>0, <1>5, Zenon DEF TypeOK, sendMonitoringData
                <4>2. locked' = (runPC' = "send")
                    BY <1>0, <1>5 DEF TypeOK, sendMonitoringData, Unlock
                <4> QED
                    BY <4>1, <4>2
            <3>2. channel' \in 0 .. ChannelSize
                BY <1>0, <1>5, ConstantsAssumption DEF TypeOK, sendMonitoringData
            <3> QED
                BY <1>0, <1>5, <3>1, <3>2 DEF TypeOK, sendMonitoringData, lists, Calls
        <2>2. PendingWithinBound' /\ UNCHANGED lists
            BY <1>0, <1>5 DEF PendingWithinBound, sendMonitoringData, lists
        <2> QED
            BY <2>1, <2>2, ListsUntouched
    <1>6. ASSUME NEW c \in Calls, Call(c) \/ GetAverageMonitoring PROVE MonitorInv'
        <2>1. TypeOK'
            <3>1. tick' \in BOOLEAN /\ crashed' \in BOOLEAN /\ locked' = (runPC' = "send")
                BY <1>0, <1>6, Zenon DEF TypeOK, Call, GetAverageMonitoring
            <3>2. call' \in Calls \union {None}
                BY <1>6 DEF Call, GetAverageMonitoring
            <3>3. Calls' = Calls
                BY DEF Calls
            <3> HIDE DEF Calls
            <3> QED
                BY <1>0, <1>6, <3>1, <3>2, <3>3 DEF TypeOK, Call, GetAverageMonitoring, lists
        <2>2. PendingWithinBound' /\ UNCHANGED lists
            BY <1>0, <1>6 DEF PendingWithinBound, Call, GetAverageMonitoring, lists
        <2> QED
            BY <2>1, <2>2, ListsUntouched
    <1>7. [op |-> "average"] \in Calls
        BY DEF Calls
    <1> QED
        BY <1>1, <1>2, <1>3, <1>4, <1>5, <1>6, <1>7, TakeNodeConfigKeeps,
            StartInstanceMonitorKeeps, StopInstanceMonitorKeeps
            DEF Next, run, client

LEMMA MonitorInvHolds == Spec => []MonitorInv
    BY MonitorInvInit, MonitorInvNext, PTL DEF Spec

\* The fields of the monitor have their types: the mutex is held exactly while run
\* sends, and the channel is within its capacity.
THEOREM MonitorTypeCorrect == Spec => []TypeOK
    BY MonitorInvHolds, PTL DEF MonitorInv

\* No processor outlives its instance, for any order of StartInstanceMonitor,
\* StopInstanceMonitor and node config changes.
THEOREM NoOrphanProcessors == Spec => []ProcessorsOwned
    BY MonitorInvHolds, PTL DEF MonitorInv

-----------------------------------------------------------------------------
LEMMA LatestRulesFollow == MonitorInv => LatestRulesApplied
    <1> SUFFICES ASSUME MonitorInv PROVE LatestRulesApplied
        OBVIOUS
    <1>1. {e.rule : e \in Processors(list, Node, nodeConfig)} \intersect Known
              = ToSet(nodeConfig) \intersect Known
        BY ProcessorsProps DEF MonitorInv, TypeOK
    <1>2. {p \in alertProcessors : p.owner = Node} = Processors(list, Node, nodeConfig)
        BY DEF MonitorInv, NodeRulesCurrent
    <1>3. {e.rule : e \in {p \in alertProcessors : p.owner = Node}} \intersect Known
              = ToSet(nodeConfig) \intersect Known
        BY <1>1, <1>2
    <1> QED
        BY <1>3 DEF MonitorInv, InstanceRulesCurrent, LatestRulesApplied

\* Every processor in the list has a source, and run can only have failed on the
\* closed channel.
SourcesInv ==
    /\ \A e \in alertProcessors : e.rule \in Known
    /\ MissingPartitionTolerated

LEMMA SourcesInvHolds ==
    ASSUME \A c \in Configs : OneMissing(c)
    PROVE  Spec => []SourcesInv
    <1>1. Init => SourcesInv
        BY SourcesKnown DEF Init, SourcesInv, MissingPartitionTolerated
    <1>2. MonitorInv /\ SourcesInv /\ [Next]_vars => SourcesInv'
        <2> SUFFICES ASSUME MonitorInv, SourcesInv, [Next]_vars PROVE SourcesInv'
            OBVIOUS
        <2>0. TypeOK /\ \A e \in alertProcessors : e.rule \in Known
            BY DEF MonitorInv, SourcesInv
        <2>1. CASE TakeNodeConfig
            <3>1. pendingConfig \in Configs /\ alertProcessors' = Processors(list + 1, Node, pendingConfig)
                BY <2>0, <2>1 DEF TypeOK, TakeNodeConfig, setupSystemAlerts, NewList
            <3>2. \A e \in alertProcessors' : e.rule \in Known
                BY <3>1, SourcesKnown
            <3> QED
                BY <2>1, <3>2 DEF SourcesInv, MissingPartitionTolerated, TakeNodeConfig
        <2>2. CASE StartInstanceMonitor
            <3>1. call \in Calls /\ call.op = "start"
                BY <2>0, <2>2 DEF TypeOK, StartInstanceMonitor
            <3>2. call.rules \in Configs
                BY <3>1 DEF Calls
            <3>3. alertProcessors' \subseteq
                      alertProcessors \union Processors(list, call.instance, call.rules)
                BY <2>2 DEF StartInstanceMonitor
            <3>4. \A e \in alertProcessors' : e.rule \in Known
                BY <2>0, <3>2, <3>3, SourcesKnown
            <3> QED
                BY <2>2, <3>4 DEF SourcesInv, MissingPartitionTolerated, StartInstanceMonitor
        <2>3. CASE StopInstanceMonitor
            <3>1. alertProcessors' \subseteq alertProcessors
                BY <2>3 DEF StopInstanceMonitor, RemoveElements
            <3> QED
                BY <2>0, <2>3, <3>1 DEF SourcesInv, MissingPartitionTolerated, StopInstanceMonitor
        <2>4. CASE Poll
            <3>1. crashed' = FALSE
                BY <2>0, <2>4 DEF Poll, processAlerts
            <3> QED
                BY <2>0, <2>4, <3>1 DEF SourcesInv, MissingPartitionTolerated, Poll, lists
        <2>5. CASE \/ UNCHANGED vars \/ Tick \/ ReadMonitoringData \/ TakeTick \/ TakeDone
                   \/ sendMonitoringData \/ GetAverageMonitoring \/ CloseCancel \/ CloseChannel
                   \/ \E config \in Configs : ChangeNodeConfig(config)
                   \/ \E c \in Calls : Call(c)
            <3>1. UNCHANGED alertProcessors
                BY <2>5 DEF vars, lists, Tick, ReadMonitoringData, TakeTick, TakeDone,
                    sendMonitoringData, GetAverageMonitoring, CloseCancel, CloseChannel,
                    ChangeNodeConfig, Call
            <3>2. MissingPartitionTolerated'
                BY <2>5 DEF SourcesInv, MissingPartitionTolerated, vars, Tick, ReadMonitoringData,
                    TakeTick, TakeDone, sendMonitoringData, GetAverageMonitoring, CloseCancel,
                    CloseChannel, ChangeNodeConfig, Call
            <3> QED
                BY <2>0, <3>1, <3>2 DEF SourcesInv
        <2> QED
            BY <2>1, <2>2, <2>3, <2>4, <2>5 DEF Next, run, client
    <1> QED
        BY <1>1, <1>2, MonitorInvHolds, PTL DEF Spec

\* The list always has the rules of the latest node config and of no earlier one,
\* and those of the instances started since; a config that names one partition
\* the node does not have costs that rule and never makes run read through nil.
\* (With two such rules in one config it does: getDiskUsageValue's error is kept
\* only once.)
THEOREM LatestRulesChecked ==
    ASSUME \A c \in Configs : OneMissing(c)
    PROVE  Spec => []RulesApplied
    <1>1. SourcesInv => MissingPartitionTolerated
        BY DEF SourcesInv
    <1> QED
        BY <1>1, MonitorInvHolds, SourcesInvHolds, LatestRulesFollow, PTL DEF RulesApplied

-----------------------------------------------------------------------------
(***************************************************************************)
(* SystemUsage: the inductive invariant                                    *)
(***************************************************************************)

Percents == {0, 50, 100}

UsageTypes ==
    /\ clock \in Nat /\ used \in Nat /\ lastPoll \in Nat /\ lastPoll <= clock
    /\ prevCPU \in Nat
    /\ prevTime \in Nat \union {Unread} /\ prevTime <= lastPoll
    /\ systemInfos \in [Domains -> Percents \union {Unread}]
    /\ cpu \in Nat
    /\ windowCount \in Nat \ {0}

\* The counter has grown by no more than the CPUs could work since it was read, or
\* it started again since then and has no more than that.
CounterFollows ==
    prevTime # Unread =>
        \/ used <= (clock - prevTime) * CPUCount
        \/ prevCPU <= used /\ used - prevCPU <= (clock - prevTime) * CPUCount

\* The sum of the average is that of count values between the bounds.
SumFollows ==
    /\ calc \in [num : Nat, den : Nat \ {0}, count : Nat]
    /\ lowest \in Nat \union {Unread} /\ highest \in Nat \union {Unread}
    /\ calc.count = 0 => lowest = Unread /\ highest = Unread /\ calc.num = 0
    /\ calc.count > 0 =>
          /\ lowest \in Nat /\ highest \in Nat
          /\ lowest * (calc.den * calc.count) <= calc.num
          /\ calc.num <= highest * (calc.den * calc.count)

UsageInv == UsageTypes /\ CounterFollows /\ SumFollows /\ CPUWithinNode

-----------------------------------------------------------------------------
(***************************************************************************)
(* Rounding                                                                *)
(***************************************************************************)

\* A division lies between two integers when the fraction does.
LEMMA DivBounds ==
    ASSUME NEW a \in Nat, NEW b \in Nat \ {0}, NEW q \in Nat
    PROVE  /\ a \div b \in Nat
           /\ q * b <= a => q <= a \div b
           /\ a < q * b + b => a \div b <= q
    <1>1. PICK d \in Int, m \in 0 .. b - 1 : d = a \div b /\ m = a % b /\ a = b * d + m
        OBVIOUS
    <1>2. d >= 0
        <2>1. SUFFICES ASSUME d <= -1 PROVE FALSE
            BY <1>1
        <2>2. b * d <= b * (-1)
            BY <2>1
        <2> QED
            BY <1>1, <2>2
    <1>3. ASSUME q * b <= a PROVE q <= d
        <2>1. SUFFICES ASSUME d + 1 <= q PROVE FALSE
            BY <1>1
        <2>2. (d + 1) * b <= q * b
            BY <1>1, <1>2, <2>1
        <2>3. (d + 1) * b = b * d + b
            BY <1>1
        <2> QED
            BY <1>1, <1>3, <2>2, <2>3
    <1>4. ASSUME a < q * b + b PROVE d <= q
        <2>1. SUFFICES ASSUME q + 1 <= d PROVE FALSE
            BY <1>1
        <2>2. (q + 1) * b <= d * b
            BY <1>1, <1>2, <2>1
        <2>3. (q + 1) * b = q * b + b /\ d * b = b * d
            BY <1>1
        <2> QED
            BY <1>1, <1>4, <2>2, <2>3
    <1> QED
        BY <1>1, <1>2, <1>3, <1>4

\* Rounding to the nearest integer stays between integer bounds.
LEMMA RoundBounds ==
    ASSUME NEW a \in Nat, NEW b \in Nat \ {0}, NEW q \in Nat
    PROVE  /\ Round(a, b) \in Nat
           /\ q * b <= a => q <= Round(a, b)
           /\ a <= q * b => Round(a, b) <= q
    <1>1. 2 * a + b \in Nat /\ 2 * b \in Nat \ {0} /\ q * (2 * b) = 2 * (q * b) /\ q * b \in Nat
        OBVIOUS
    <1> QED
        BY <1>1, DivBounds DEF Round

\* A share of the node's CPUs is converted to at most the node's MaxDMIPs.
LEMMA DMIPsBounds ==
    ASSUME NEW p \in Nat
    PROVE  /\ cpuToDMIPs(p) \in Nat
           /\ p <= 100 => cpuToDMIPs(p) \in 0 .. MaxDMIPs
    <1>1. PICK x \in Nat : x = p * MaxDMIPs
        BY UsageAssumption
    <1>2. ASSUME p <= 100 PROVE x <= MaxDMIPs * 100
        BY <1>1, <1>2, UsageAssumption
    <1> QED
        BY <1>1, <1>2, RoundBounds, UsageAssumption DEF cpuToDMIPs

\* What the counter of the control group gives is a share of the CPUs.
LEMMA PercentBounds ==
    ASSUME UsageTypes, CounterFollows, lastPoll < clock
    PROVE  CPUPercent \in 0 .. 100
    <1>1. CASE prevTime = Unread
        BY <1>1 DEF CPUPercent
    <1>2. CASE prevTime # Unread
        <2>1. PICK t \in Nat \ {0} : t = clock - prevTime
            BY <1>2 DEF UsageTypes
        <2>2. PICK b \in Nat \ {0} : b = t * CPUCount
            BY UsageAssumption
        <2>3. PICK x \in Nat : x = used - BasePrevCPU /\ x <= b
            BY <1>2, <2>1, <2>2 DEF CounterFollows, UsageTypes, BasePrevCPU
        <2>4. PICK y \in Nat : y = x % Uint64 /\ y <= x
            BY DEF Uint64
        <2>5. PICK z \in Nat : z = y * 100 /\ z <= 100 * b
            BY <2>3, <2>4
        <2>6. CPUPercent = Round(z, b)
            BY <1>2, <2>1, <2>2, <2>3, <2>4, <2>5 DEF CPUPercent
        <2>7. Round(z, b) \in Nat /\ Round(z, b) <= 100
            BY <2>5, RoundBounds
        <2> QED
            BY <2>6, <2>7
    <1> QED
        BY <1>1, <1>2

\* Another value keeps the sum between the bounds, while the window fills and when
\* the average takes the place of the oldest value.
LEMMA SumKept ==
    ASSUME SumFollows, windowCount \in Nat \ {0}, NEW value \in Nat,
           calc' = calculate(value),
           lowest' = IF lowest = Unread \/ value < lowest THEN value ELSE lowest,
           highest' = IF value > highest THEN value ELSE highest
    PROVE  SumFollows'
    <1>1. PICK n \in Nat, d \in Nat \ {0}, c \in Nat :
              calc = [num |-> n, den |-> d, count |-> c]
        BY DEF SumFollows
    <1>2. PICK l \in Nat, h \in Nat : l = lowest' /\ h = highest' /\ l <= value /\ value <= h
        BY DEF SumFollows, Unread
    <1>3. l * (d * c) <= n /\ n <= h * (d * c)
        <2>1. CASE c = 0
            BY <1>1, <2>1 DEF SumFollows
        <2>2. CASE c > 0
            <3>1. PICK m \in Nat, k \in Nat : m = lowest /\ k = highest
                BY <1>1, <2>2 DEF SumFollows
            <3>2. m * (d * c) <= n /\ n <= k * (d * c)
                BY <1>1, <2>2, <3>1 DEF SumFollows
            <3>3. l <= m /\ k <= h
                BY <1>2, <3>1 DEF Unread
            <3>4. PICK w \in Nat : w = d * c
                OBVIOUS
            <3>5. l * w <= m * w /\ k * w <= h * w
                BY <3>3
            <3>6. l * w <= n /\ n <= h * w
                BY <3>2, <3>4, <3>5
            <3> QED
                BY <3>4, <3>6
        <2> QED
            BY <2>1, <2>2
    <1>4. CASE c < windowCount
        <2>1. calc' = [num |-> n + value * d, den |-> d, count |-> c + 1]
            BY <1>1, <1>4 DEF calculate
        <2>2. l * (d * (c + 1)) = l * (d * c) + l * d /\ h * (d * (c + 1)) = h * (d * c) + h * d
            OBVIOUS
        <2>3. l * d <= value * d /\ value * d <= h * d
            BY <1>2
        <2>4. l * (d * (c + 1)) <= n + value * d /\ n + value * d <= h * (d * (c + 1))
            BY <1>3, <2>2, <2>3
        <2>5. n + value * d \in Nat /\ c + 1 \in Nat /\ c + 1 > 0
            OBVIOUS
        <2> QED
            BY <1>2, <2>1, <2>4, <2>5 DEF SumFollows
    <1>5. CASE ~ c < windowCount
        <2>1. c > 0
            BY <1>5
        <2>2. calc' = [num |-> n * (c - 1) + value * d * c, den |-> d * c, count |-> c]
            BY <1>1, <1>5 DEF calculate, SlideSum
        <2>3. PICK w \in Nat \ {0} : w = d * c
            BY <2>1
        <2>4. l * (w * c) = (l * w) * (c - 1) + l * w /\ h * (w * c) = (h * w) * (c - 1) + h * w
            OBVIOUS
        <2>5. l * w <= n /\ n <= h * w /\ l * w \in Nat /\ h * w \in Nat
            BY <1>3, <2>3
        <2>6. (l * w) * (c - 1) <= n * (c - 1) /\ n * (c - 1) <= (h * w) * (c - 1)
            BY <2>1, <2>5
        <2>7. l * w <= value * w /\ value * w <= h * w
            BY <1>2
        <2>8. value * d * c = value * w
            BY <2>3
        <2>9. n * (c - 1) + value * w \in Nat
            BY <2>1
        <2>10. l * (w * c) <= n * (c - 1) + value * w /\ n * (c - 1) + value * w <= h * (w * c)
            BY <2>4, <2>6, <2>7, <2>9
        <2> QED
            BY <1>2, <2>1, <2>2, <2>3, <2>8, <2>9, <2>10 DEF SumFollows
    <1> QED
        BY <1>4, <1>5

\* A table that xentop gives has a percentage, or nothing, for each domain.
LEMMA TableValues ==
    ASSUME NEW table \in Tables
    PROVE  GetSystemInfos(table) \in [Domains -> Percents \union {Unread}]
    <1>1. \E n \in 0 .. 2 : DOMAIN table.rows = 1 .. n /\ \A k \in 1 .. n : table.rows[k] \in Rows
        BY UsageAssumption DEF Tables, Rows
    <1>2. ASSUME NEW d \in Domains
          PROVE  LET ofDomain == {k \in DOMAIN table.rows : table.rows[k].name = d} IN
                 (IF ofDomain = {} THEN Unread
                  ELSE fillDomainInfo(table.rows[CHOOSE k \in ofDomain : \A j \in ofDomain : j <= k]))
                     \in Percents \union {Unread}
        <2> DEFINE D == {k \in DOMAIN table.rows : table.rows[k].name = d}
        <2>1. SUFFICES ASSUME D # {}
              PROVE  fillDomainInfo(table.rows[CHOOSE k \in D : \A j \in D : j <= k]) \in Percents
            OBVIOUS
        <2>2. \E k \in D : \A j \in D : j <= k
            <3>1. \A k \in D : k \in {1, 2}
                BY <1>1
            <3> QED
                BY <2>1, <3>1
        <2>3. PICK k \in D : k = CHOOSE i \in D : \A j \in D : j <= i
            BY <2>2
        <2>4. table.rows[k] \in Rows
            BY <1>1, <2>3
        <2> QED
            BY <2>3, <2>4 DEF fillDomainInfo, Rows, Percents, NotAvailable
    <1> QED
        BY <1>2 DEF GetSystemInfos

LEMMA UsageInitInv == UsageInit => UsageInv
    <1> SUFFICES ASSUME UsageInit PROVE UsageInv
        OBVIOUS
    <1>1. windowCount \in Nat \ {0}
        <2>1. PICK w \in AverageWindows : windowCount = averageWindowCount(w)
            BY DEF UsageInit
        <2>2. w \div PollPeriod \in Nat
            BY DivBounds, UsageAssumption
        <2> QED
            BY <2>1, <2>2 DEF averageWindowCount
    <1>2. systemInfos \in [Domains -> Percents \union {Unread}]
        BY DEF UsageInit
    <1>0. /\ clock = 1 /\ used = 0 /\ lastPoll = 0 /\ prevCPU = 0 /\ prevTime = Unread /\ cpu = 0
          /\ fresh = FALSE /\ calc = newAverageCalc /\ lowest = Unread /\ highest = Unread
        BY DEF UsageInit
    <1>3. UsageTypes /\ CounterFollows
        BY <1>0, <1>1, <1>2 DEF UsageTypes, CounterFollows, Unread
    <1>4. calc \in [num : Nat, den : Nat \ {0}, count : Nat] /\ calc.count = 0 /\ calc.num = 0
        BY <1>0 DEF newAverageCalc
    <1>5. SumFollows /\ CPUWithinNode
        BY <1>0, <1>4 DEF SumFollows, CPUWithinNode, Unread
    <1> QED
        BY <1>3, <1>5 DEF UsageInv

LEMMA UsageStepInv == UsageInv /\ [UsageNext]_usageVars => UsageInv'
    <1> SUFFICES ASSUME UsageInv, [UsageNext]_usageVars PROVE UsageInv'
        OBVIOUS
    <1>t. UsageTypes /\ CounterFollows /\ SumFollows /\ CPUWithinNode
        BY DEF UsageInv
    <1>1. ASSUME NEW d \in 0 .. CPUCount, Work(d) PROVE UsageInv'
        <2>1. UsageTypes' /\ SumFollows' /\ CPUWithinNode'
            BY <1>t, <1>1, UsageAssumption DEF Work, UsageTypes, SumFollows, CPUWithinNode
        <2>2. CounterFollows'
            <3>0. used' = used + d /\ clock' = clock + 1 /\ UNCHANGED <<prevCPU, prevTime>>
                BY <1>1 DEF Work
            <3>1. SUFFICES ASSUME prevTime # Unread
                  PROVE  \/ used' <= (clock' - prevTime) * CPUCount
                         \/ prevCPU <= used' /\ used' - prevCPU <= (clock' - prevTime) * CPUCount
                BY <3>0 DEF CounterFollows
            <3>2. PICK t \in Nat, n \in Nat : t = clock - prevTime /\ n = CPUCount
                BY <1>t, <3>1, UsageAssumption DEF UsageTypes
            <3>3. PICK x \in Nat : x = t * n
                OBVIOUS
            <3>4. (clock' - prevTime) * CPUCount = x + n
                BY <1>t, <3>0, <3>1, <3>2, <3>3 DEF UsageTypes
            <3>5. used <= x \/ (prevCPU <= used /\ used - prevCPU <= x)
                BY <1>t, <3>1, <3>2, <3>3 DEF CounterFollows
            <3> QED
                BY <1>t, <3>0, <3>2, <3>4, <3>5 DEF UsageTypes
        <2> QED
            BY <2>1, <2>2 DEF UsageInv
    <1>2. CASE RestartInstance
        <2>1. UsageTypes' /\ SumFollows' /\ CPUWithinNode'
            BY <1>t, <1>2 DEF RestartInstance, UsageTypes, SumFollows, CPUWithinNode
        <2>2. prevTime # Unread => (clock - prevTime) * CPUCount >= 0
            BY <1>t, UsageAssumption DEF UsageTypes
        <2>3. CounterFollows'
            BY <1>2, <2>2 DEF RestartInstance, CounterFollows
        <2> QED
            BY <2>1, <2>3 DEF UsageInv
    <1>3. CASE PollCgroups
        <2>1. lastPoll < clock /\ lastPoll' = clock /\ UNCHANGED <<source, clock, used, systemInfos, windowCount>>
              /\ FillFromCgroups /\ updateMonitoringData(cpu')
            BY <1>3 DEF PollCgroups
        <2>2. CPUPercent \in 0 .. 100
            BY <1>t, <2>1, PercentBounds
        <2>3. cpu' \in Nat /\ (fresh' => cpu' \in 0 .. MaxDMIPs)
            BY <1>t, <2>1, <2>2, DMIPsBounds DEF FillFromCgroups, UsageTypes
        <2>4. UsageTypes'
            BY <1>t, <2>1, <2>3 DEF FillFromCgroups, UsageTypes
        <2>5. CounterFollows'
            <3>1. CASE prevCPU' = used /\ prevTime' = clock
                <4>1. (clock - clock) * CPUCount = 0
                    BY <1>t, UsageAssumption DEF UsageTypes
                <4> QED
                    BY <1>t, <2>1, <3>1, <4>1 DEF CounterFollows, UsageTypes
            <3>2. CASE UNCHANGED <<prevCPU, prevTime>>
                BY <1>t, <2>1, <3>2 DEF CounterFollows
            <3> QED
                BY <2>1, <3>1, <3>2 DEF FillFromCgroups
        <2>6. SumFollows'
            BY <1>t, <2>1, <2>3, SumKept DEF updateMonitoringData, UsageTypes
        <2> QED
            BY <2>3, <2>4, <2>5, <2>6 DEF UsageInv, CPUWithinNode
    <1>4. CASE PollXentop
        <2>1. lastPoll < clock /\ lastPoll' = clock /\ CacheSystemInfos /\ FillFromXentop
              /\ updateMonitoringData(cpu') /\ UNCHANGED <<source, clock, used, prevCPU, prevTime, windowCount>>
            BY <1>4 DEF PollXentop
        <2>2. systemInfos' \in [Domains -> Percents \union {Unread}]
            BY <1>t, <2>1, TableValues DEF CacheSystemInfos, UsageTypes
        <2>3. systemInfos'[Instance] \in Percents \union {Unread}
            BY <2>2, UsageAssumption
        <2>4. cpu' \in Nat /\ (fresh' => cpu' \in 0 .. MaxDMIPs)
            <3>1. CASE systemInfos'[Instance] = Unread
                BY <1>t, <2>1, <3>1, DMIPsBounds DEF FillFromXentop, UsageTypes
            <3>2. CASE systemInfos'[Instance] \in Percents
                BY <2>1, <3>2, DMIPsBounds DEF FillFromXentop, Percents, Unread
            <3> QED
                BY <2>3, <3>1, <3>2
        <2>5. UsageTypes'
            BY <1>t, <2>1, <2>2, <2>4 DEF UsageTypes
        <2>6. CounterFollows'
            BY <1>t, <2>1 DEF CounterFollows
        <2>7. SumFollows'
            BY <1>t, <2>1, <2>4, SumKept DEF updateMonitoringData, UsageTypes
        <2> QED
            BY <2>4, <2>5, <2>6, <2>7 DEF UsageInv, CPUWithinNode
    <1>5. CASE UNCHANGED usageVars
        BY <1>t, <1>5 DEF usageVars, UsageInv, UsageTypes, CounterFollows, SumFollows, CPUWithinNode
    <1> QED
        BY <1>1, <1>2, <1>3, <1>4, <1>5 DEF UsageNext

\* The average that is reported is the sum divided and rounded.
LEMMA AverageFollows == SumFollows => AverageWithinValues
    <1> SUFFICES ASSUME SumFollows, calc.count > 0
                 PROVE  /\ lowest * calc.den * calc.count <= calc.num
                        /\ calc.num <= highest * calc.den * calc.count
                        /\ toMonitoringData \in lowest .. highest
        BY DEF AverageWithinValues
    <1>1. PICK n \in Nat, d \in Nat \ {0}, c \in Nat \ {0}, l \in Nat, h \in Nat :
              /\ n = calc.num /\ d = calc.den /\ c = calc.count /\ l = lowest /\ h = highest
              /\ l * (d * c) <= n /\ n <= h * (d * c)
        BY DEF SumFollows
    <1>2. PICK w \in Nat \ {0} : w = d * c
        OBVIOUS
    <1>3. l * d * c = l * w /\ h * d * c = h * w
        BY <1>2
    <1>4. Round(n, w) \in l .. h
        BY <1>1, <1>2, RoundBounds
    <1>5. toMonitoringData = Round(n, w)
        BY <1>1, <1>2 DEF toMonitoringData, getIntValue
    <1> QED
        BY <1>1, <1>2, <1>3, <1>4, <1>5

\* A CPU usage that was read is one the node can have, however often the counter
\* of the control group starts again and polls fail (FillSystemInfo), and the
\* average reported (averageCalc) lies between the values it was given: for any
\* number of CPUs, any MaxDMIPs, poll period and window.
THEOREM ReportedUsageIsPossible == UsageSpec => []UsagePlausible
    <1>1. UsageInv => UsagePlausible
        BY AverageFollows DEF UsageInv, UsagePlausible
    <1> QED
        BY <1>1, UsageInitInv, UsageStepInv, PTL DEF UsageSpec

=============================================================================
