------------------------ MODULE CircuitBreakerProps ------------------------
(* What the circuit breaker of CircuitBreaker.tla promises.                *)
EXTENDS CircuitBreaker

\* Every variable has its type; no counter is negative.
BreakerTypeOK ==
    /\ entry \in BOOLEAN
    /\ state \in {Closed, Open, HalfOpen}
    /\ failureCount \in Nat
    /\ successAfterOpen \in Nat
    /\ resetElapsed \in BOOLEAN
    /\ pc \in [Callers -> {"idle", "inserting", "checking", "tripping", "calling"}]
    /\ crashed \in BOOLEAN
    /\ outage \in Nat
    /\ successStreak \in 0 .. SuccessThresholdHalfOpen

\* The counters RecordLLM* leave behind fit the state they leave, also after a
\* stale half-open write: a closed circuit is below the failure threshold, a
\* half-open one below the success threshold, and successes are counted in
\* half-open only.
CountersFitState ==
    /\ state = Closed => failureCount < FailureThreshold
    /\ state = HalfOpen => successAfterOpen < SuccessThresholdHalfOpen
    /\ state # HalfOpen => successAfterOpen = 0

\* Half-open closes only on SuccessThresholdHalfOpen successes in a row: no
\* interleaving of callers lets a failure, or a success recorded before the
\* failure that reopened the circuit, count towards closing.
ClosesOnUnbrokenSuccesses ==
    [][state # Closed /\ state' = Closed
         => successStreak' >= SuccessThresholdHalfOpen]_bvars

\* Once the provider stops failing, a tenant that keeps calling gets a closed
\* circuit for good: no stale half-open write keeps it from closing.
EventuallyClosed == <>[](state = Closed \/ crashed)

\* With calls that do not overlap, the breaker implements the atomic one: nothing
\* happens between a caller's unlocked reads and its half-open write.
Atomic == INSTANCE AtomicBreaker WITH
    FailureThreshold <- FailureThreshold,
    SuccessThresholdHalfOpen <- SuccessThresholdHalfOpen,
    state <- state, failureCount <- failureCount,
    successAfterOpen <- successAfterOpen, resetElapsed <- resetElapsed

ImplementsAtomicBreaker == Atomic!Spec
=============================================================================
