--------------------------- MODULE AlertProcessor ---------------------------
(***************************************************************************)
(* resourcemonitor/alertprocessor.go: one alert processor, a detector with *)
(* hysteresis and timeouts.  Every poll of the monitor calls               *)
(* checkAlertDetection with the current time and the value the source has  *)
(* then; the processor answers with at most one alert: raise, continue or  *)
(* fall.                                                                   *)
(*                                                                         *)
(* Times are whole numbers that start at 1; Zero is Go's zero time.  Polls *)
(* are not equally spaced: the monitor's lock and slow readers delay them. *)
(* sample and alerts are the history of the inputs and of the alerts.      *)
(***************************************************************************)
EXTENDS Integers

CONSTANTS
    Values,         \* values the source can have
    minThreshold,
    maxThreshold,
    Timeouts,       \* the timeouts a rule may have, zero included
    MaxTime         \* bound: the time of the last poll

ASSUME RuleAssumption ==
    /\ Values \subseteq Nat
    /\ minThreshold \in Nat
    /\ maxThreshold \in Nat
    /\ minThreshold < maxThreshold
    /\ Timeouts \subseteq Nat
    /\ MaxTime \in Nat

VARIABLES
    minTimeout,     \* set once, by the constructor
    alertCondition,
    minThresholdTime,
    maxThresholdTime,
    now,            \* time of the last poll
    sample,         \* sample[t]: value seen by the poll at time t, or NoSample
    alerts          \* alerts[t]: status of the alert sent at time t, or NoAlert

alertVars == <<minTimeout, alertCondition, minThresholdTime, maxThresholdTime,
               now, sample, alerts>>

Zero == 0

NoSample == -1

NoAlert == "none"

Times == 1 .. MaxTime

(***************************************************************************)
(* createAlertProcessorPoints, createAlertProcessorPercents                *)
(***************************************************************************)
AlertInit ==
    /\ minTimeout \in Timeouts
    /\ alertCondition = FALSE
    /\ minThresholdTime = Zero
    /\ maxThresholdTime = Zero
    /\ now = Zero
    /\ sample = [t \in Times |-> NoSample]
    /\ alerts = [t \in Times |-> NoAlert]

-----------------------------------------------------------------------------
(***************************************************************************)
(* handleMaxThreshold: the value must be at the maximum or above for       *)
(* minTimeout before the alert is raised.  A first crossing starts the     *)
(* timer, and the same call raises the alert if minTimeout is zero.        *)
(***************************************************************************)

CrossingTime(t) == IF maxThresholdTime = Zero THEN t ELSE maxThresholdTime

Sustained(t) == t - CrossingTime(t) >= minTimeout

\* Fault: a value below the maximum does not stop the timer.
KeepMaxThresholdTime == maxThresholdTime' = maxThresholdTime

ResetMaxThresholdTime == maxThresholdTime' = Zero

handleMaxThreshold(t, v) ==
    \/ /\ v >= maxThreshold
       /\ Sustained(t)
       /\ alertCondition' = TRUE
       /\ maxThresholdTime' = t
       /\ minThresholdTime' = Zero
       /\ alerts' = [alerts EXCEPT ![t] = "raise"]
    \/ /\ v >= maxThreshold
       /\ ~ Sustained(t)
       /\ maxThresholdTime' = CrossingTime(t)
       /\ UNCHANGED <<alertCondition, minThresholdTime, alerts>>
    \/ /\ v < maxThreshold
       /\ ResetMaxThresholdTime
       /\ UNCHANGED <<alertCondition, minThresholdTime, alerts>>

(***************************************************************************)
(* handleMinThreshold: the alert falls when the value is at the minimum or *)
(* below minTimeout after it was there first.  Until then the alert is     *)
(* repeated every minTimeout.  Only a value above the maximum stops the    *)
(* timer.                                                                  *)
(***************************************************************************)

Falls(t, v) ==
    /\ v <= minThreshold
    /\ minThresholdTime # Zero
    /\ t - minThresholdTime >= minTimeout

\* Fault: the alert is repeated one tick too late.
ContinuesLate(t) == t - maxThresholdTime > minTimeout

Continues(t) == t - maxThresholdTime >= minTimeout

\* Fault: no value stops the timer.
StickyMinTime(time, t, v) == IF v <= minThreshold /\ time = Zero THEN t ELSE time

NextMinTime(time, t, v) ==
    IF v > maxThreshold THEN Zero
    ELSE IF v <= minThreshold /\ time = Zero THEN t ELSE time

\* Fault: the condition is not reset.
KeepAlertCondition == alertCondition' = alertCondition

ResetAlertCondition == alertCondition' = FALSE

handleMinThreshold(t, v) ==
    \/ /\ Falls(t, v)
       /\ ResetAlertCondition
       /\ maxThresholdTime' = Zero
       /\ minThresholdTime' = NextMinTime(t, t, v)
       /\ alerts' = [alerts EXCEPT ![t] = "fall"]
    \/ /\ ~ Falls(t, v)
       /\ Continues(t)
       /\ maxThresholdTime' = t
       /\ minThresholdTime' = NextMinTime(minThresholdTime, t, v)
       /\ alerts' = [alerts EXCEPT ![t] = "continue"]
       /\ UNCHANGED alertCondition
    \/ /\ ~ Falls(t, v)
       /\ ~ Continues(t)
       /\ minThresholdTime' = NextMinTime(minThresholdTime, t, v)
       /\ UNCHANGED <<alertCondition, maxThresholdTime, alerts>>

(***************************************************************************)
(* processAlerts calls checkAlertDetection at time t; the source has       *)
(* value v.                                                                *)
(***************************************************************************)
checkAlertDetection(t, v) ==
    /\ now < t
    /\ now' = t
    /\ sample' = [sample EXCEPT ![t] = v]
    /\ UNCHANGED minTimeout
    /\ \/ ~ alertCondition /\ handleMaxThreshold(t, v)
       \/ alertCondition /\ handleMinThreshold(t, v)

AlertNext == \E t \in Times, v \in Values : checkAlertDetection(t, v)

AlertSpec == AlertInit /\ [][AlertNext]_alertVars

-----------------------------------------------------------------------------
(***************************************************************************)
(* Properties                                                              *)
(***************************************************************************)

\* The polls in the interval from s to t whose value is seen.
Polls(s, t) == {u \in s .. t : sample[u] # NoSample}

\* Alerts sent in the interval from s to t.
Sent(s, t) == {u \in s .. t : alerts[u] # NoAlert}

\* t is the time of the last alert sent before time u.
IsLastBefore(t, u) ==
    /\ t \in Sent(1, u - 1)
    /\ Sent(t + 1, u - 1) = {}

\* Types of the processor's fields; the times it keeps are times of polls.
AlertTypeOK ==
    /\ minTimeout \in Timeouts
    /\ alertCondition \in BOOLEAN
    /\ now \in 0 .. MaxTime
    /\ minThresholdTime \in 0 .. now
    /\ maxThresholdTime \in 0 .. now
    /\ sample \in [Times -> Values \union {NoSample}]
    /\ alerts \in [Times -> {NoAlert, "raise", "continue", "fall"}]

\* The receiver can follow the alert by its statuses alone: a raise comes
\* first and after a fall, a continue or a fall only while the alert is
\* raised.
AlertProtocol ==
    \A u \in Sent(1, now) :
        (alerts[u] = "raise") <=> \A t \in Sent(1, u - 1) :
                                     IsLastBefore(t, u) => alerts[t] = "fall"

\* Every poll from s to t saw the value at the maximum or above, for minTimeout.
Overload(s, t) ==
    /\ t - s >= minTimeout
    /\ \A u \in Polls(s, t) : sample[u] >= maxThreshold

\* The value was at the minimum or below at s and is so at t, minTimeout later,
\* and between them was never above the maximum, nor was the alert raised.  The
\* band between the thresholds does not count.
Quiet(s, t) ==
    /\ t - s >= minTimeout
    /\ sample[s] <= minThreshold
    /\ sample[t] <= minThreshold
    /\ \A u \in Polls(s, t) : sample[u] <= maxThreshold
    /\ \A u \in s .. t : alerts[u] # "raise"

\* The alert is raised by sustained overload and by nothing else: a raise is
\* sent only after every poll of a minTimeout saw the maximum, a poll below it
\* starting over; and after such a minTimeout the alert is raised.
RaisedByOverload ==
    /\ \A u \in Sent(1, now) : alerts[u] = "raise" => \E s \in Polls(1, u) : Overload(s, u)
    /\ \A s \in Polls(1, now) : Overload(s, now) => alertCondition

\* Both of the above: what the receiver hears is a possible history of an alert,
\* and it is the history of the values.
RaisedAndFollowed == AlertProtocol /\ RaisedByOverload

\* The alert falls after a quiet minTimeout and only then, so it does not stay
\* raised for ever and does not fall while the value still peaks.
FallsWhenQuiet ==
    /\ \A u \in Sent(1, now) : alerts[u] = "fall" => \E s \in Polls(1, u) : Quiet(s, u)
    /\ \A s \in Polls(1, now - 1) : Quiet(s, now) => ~ alertCondition

\* While the alert is raised the receiver hears of it every minTimeout, not
\* more often and not, poll times apart, less often.
RepeatedEveryTimeout ==
    /\ \A t, u \in Sent(1, now) :
          IsLastBefore(t, u) /\ alerts[u] = "continue" => u - t >= minTimeout
    /\ alertCondition =>
          \E t \in Sent(1, now) : now - t < minTimeout \/ t = now

\* Both of the above.
AlertsWhenDue == FallsWhenQuiet /\ RepeatedEveryTimeout

=============================================================================
