------------------------------- MODULE Retry -------------------------------
(***************************************************************************)
(* utils/retryhelper: call a function until it returns no error, wait      *)
(* between the calls, give up after maxTry calls or when the context is    *)
(* done.  Delays are positive.                                             *)
(***************************************************************************)
EXTENDS Naturals

CONSTANTS
    MaxTries,      \* values of maxTry, 0 for no limit
    MaxDelays,     \* values of maxDelay, 0 for no limit
    retryDelay,    \* the first delay
    TryBound       \* bound: calls of a retry without a limit

ASSUME RetryAssumption ==
    /\ MaxTries \subseteq Nat
    /\ MaxDelays \subseteq Nat
    /\ retryDelay \in Nat \ {0}
    /\ TryBound \in Nat

VARIABLES
    maxTry, maxDelay,
    retryPC,       \* "idle", "call", "wait" or "done"
    try, delay,
    retryCtxDone,  \* the context is done
    callbacks,     \* number of calls of retryCbk
    lateCalls,     \* history: calls begun after the context was done
    retryResult

retryVars == <<maxTry, maxDelay, retryPC, try, delay, retryCtxDone, callbacks, lateCalls,
               retryResult>>

RetryInit ==
    /\ maxTry \in MaxTries
    /\ maxDelay \in MaxDelays
    /\ retryPC = "idle"
    /\ try = 1
    /\ delay = retryDelay
    /\ retryCtxDone = FALSE
    /\ callbacks = 0
    /\ lateCalls = 0
    /\ retryResult = "none"

\* Retry, DefaultRetry or DefaultInfinitRetry is called.
RetryBegin ==
    /\ retryPC = "idle"
    /\ retryPC' = "call"
    /\ try' = 1
    /\ delay' = retryDelay
    /\ callbacks' = 0
    /\ retryResult' = "none"
    /\ UNCHANGED <<maxTry, maxDelay, retryCtxDone, lateCalls>>

RetryReturns(result) ==
    /\ retryPC' = "done"
    /\ retryResult' = result

CallSucceeds ==
    /\ retryPC = "call"
    /\ RetryReturns("nil")
    /\ UNCHANGED <<maxTry, maxDelay, try, delay, retryCtxDone, callbacks, lateCalls>>

\* Fault: one call too many.
TriesLeftInclusive == try <= maxTry \/ maxTry = 0

TriesLeft == try < maxTry \/ maxTry = 0

\* The callback is called unless the context is done.  When it is, the select
\* finds it before the delay is over.
CallFails ==
    /\ retryPC = "call"
    /\ \/ /\ TriesLeft /\ ~ retryCtxDone
          /\ callbacks' = callbacks + 1
          /\ retryPC' = "wait"
          /\ UNCHANGED retryResult
       \/ /\ TriesLeft /\ retryCtxDone
          /\ RetryReturns("context")
          /\ UNCHANGED callbacks
       \/ /\ ~ TriesLeft
          /\ RetryReturns("error")
          /\ UNCHANGED callbacks
    /\ UNCHANGED <<maxTry, maxDelay, try, delay, retryCtxDone, lateCalls>>

NextDelay == IF maxDelay # 0 /\ delay * 2 > maxDelay THEN maxDelay ELSE delay * 2

\* The delay is over, perhaps together with the context.
DelayOver ==
    /\ retryPC = "wait"
    /\ try < TryBound
    /\ delay' = NextDelay
    /\ try' = try + 1
    /\ retryPC' = "call"
    /\ lateCalls' = IF retryCtxDone THEN lateCalls + 1 ELSE lateCalls
    /\ UNCHANGED <<maxTry, maxDelay, retryCtxDone, callbacks, retryResult>>

WaitCancelled ==
    /\ retryPC = "wait"
    /\ retryCtxDone
    /\ RetryReturns("context")
    /\ UNCHANGED <<maxTry, maxDelay, try, delay, retryCtxDone, callbacks, lateCalls>>

\* The caller's context ends.
CancelRetry ==
    /\ retryPC \in {"call", "wait"}
    /\ ~ retryCtxDone
    /\ retryCtxDone' = TRUE
    /\ UNCHANGED <<maxTry, maxDelay, retryPC, try, delay, callbacks, lateCalls, retryResult>>

\* The caller goes on.
RetryEnd ==
    /\ retryPC = "done"
    /\ retryPC' = "idle"
    /\ UNCHANGED <<maxTry, maxDelay, try, delay, retryCtxDone, callbacks, lateCalls, retryResult>>

RetryNext ==
    \/ RetryBegin \/ CallSucceeds \/ CallFails \/ DelayOver \/ WaitCancelled \/ CancelRetry

RetrySpec == RetryInit /\ [][RetryNext]_retryVars

-----------------------------------------------------------------------------
(***************************************************************************)
(* Properties                                                              *)
(***************************************************************************)

\* The function is called at most maxTry times, and at most once after the
\* context was done; the callback is called before each further call and only
\* then; a delay is never longer than maxDelay or the first one; and the error
\* of the function, not the context's, is returned when the tries are used up.
RetryKeepsLimits ==
    /\ maxTry # 0 => try <= maxTry
    /\ lateCalls <= 1
    /\ callbacks \in {try - 1, try}
    /\ maxDelay # 0 => delay <= maxDelay \/ delay = retryDelay
    /\ retryResult = "context" => retryCtxDone
    /\ retryResult = "error" => try = maxTry

=============================================================================
