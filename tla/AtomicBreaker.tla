--------------------------- MODULE AtomicBreaker ----------------------------
(***************************************************************************)
(* What a circuit breaker promises, as its unit tests drive it: every call *)
(* is one step.  Closed opens at the failure threshold; open turns         *)
(* half-open only when the reset timeout has passed; half-open closes on   *)
(* enough successes in a row and reopens on a failure.                     *)
(***************************************************************************)
EXTENDS Integers

CONSTANTS FailureThreshold, SuccessThresholdHalfOpen

VARIABLES state, failureCount, successAfterOpen, resetElapsed

breakerVars == <<state, failureCount, successAfterOpen, resetElapsed>>

Init ==
    /\ state = "closed"
    /\ failureCount = 0
    /\ successAfterOpen = 0
    /\ resetElapsed = TRUE

TimeoutPasses ==
    /\ resetElapsed' = TRUE
    /\ UNCHANGED <<state, failureCount, successAfterOpen>>

TryRecovery ==
    /\ state = "open"
    /\ resetElapsed
    /\ state' = "half-open"
    /\ UNCHANGED <<failureCount, successAfterOpen, resetElapsed>>

SuccessWhenClosed ==
    /\ state = "closed"
    /\ failureCount > 0
    /\ failureCount' = failureCount - 1
    /\ UNCHANGED <<state, successAfterOpen, resetElapsed>>

ProbeSucceeds ==
    /\ state = "half-open"
    /\ successAfterOpen + 1 < SuccessThresholdHalfOpen
    /\ successAfterOpen' = successAfterOpen + 1
    /\ UNCHANGED <<state, failureCount, resetElapsed>>

Close ==
    /\ state = "half-open"
    /\ successAfterOpen + 1 = SuccessThresholdHalfOpen
    /\ state' = "closed"
    /\ failureCount' = 0
    /\ successAfterOpen' = 0
    /\ UNCHANGED resetElapsed

CountFailure ==
    /\ state = "closed"
    /\ failureCount + 1 < FailureThreshold
    /\ failureCount' = failureCount + 1
    /\ UNCHANGED <<state, successAfterOpen, resetElapsed>>

Trip ==
    /\ \/ state = "closed" /\ failureCount + 1 = FailureThreshold
       \/ state = "half-open"
    /\ state' = "open"
    /\ failureCount' = failureCount + 1
    /\ successAfterOpen' = 0
    /\ resetElapsed' = FALSE

Next ==
    \/ TimeoutPasses \/ TryRecovery
    \/ SuccessWhenClosed \/ ProbeSucceeds \/ Close
    \/ CountFailure \/ Trip

Spec == Init /\ [][Next]_breakerVars

=============================================================================
