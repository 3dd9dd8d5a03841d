--------------------------- MODULE CircuitBreaker ---------------------------
(***************************************************************************)
(* The circuit breaker that ResourcePool keeps for one tenant              *)
(* (internal/core/manager/resource_pool.go), used by several goroutines at *)
(* once.  A caller asks CanMakeLLMCall, calls the provider if admitted, and *)
(* records the outcome with RecordLLMSuccess or RecordLLMFailure.          *)
(*                                                                         *)
(* RecordLLM* run entirely under rp.mu.  CanMakeLLMCall does not: it finds *)
(* (or inserts!) the map entry under RLock, drops the lock, reads State    *)
(* and OpenedAt without it, and takes Lock again only to write half-open,  *)
(* without looking at State a second time.  These are separate steps here. *)
(* An unlocked read of State that overlaps a locked write may be torn; the *)
(* torn value falls in the "default" branch, which admits, so the outcomes *)
(* are those of reading the old or the new value.  State is set to open    *)
(* before OpenedAt is set, and an unlocked reader may come in between.     *)
(*                                                                         *)
(* Time is abstracted to one bit, resetElapsed: more than                  *)
(* CircuitResetTimeout has passed since OpenedAt, which is the zero time at *)
(* first.                                                                  *)
(***************************************************************************)
EXTENDS Integers, FiniteSets

CONSTANTS
    Callers,                    \* goroutines serving this tenant's requests
    FailureThreshold,           \* resource_pool.go:79
    SuccessThresholdHalfOpen,   \* resource_pool.go:80
    MaxOutage                   \* bound: provider failures in one behaviour

ASSUME BreakerAssumption ==
    /\ FailureThreshold \in Nat \ {0}
    /\ SuccessThresholdHalfOpen \in Nat \ {0}
    /\ MaxOutage \in Nat

VARIABLES
    entry,              \* has rp.circuitBreakers an entry for the tenant?
    state,              \* CircuitBreakerState.State
    failureCount,       \* CircuitBreakerState.FailureCount
    successAfterOpen,   \* CircuitBreakerState.SuccessAfterOpen
    resetElapsed,       \* time.Since(OpenedAt) > CircuitResetTimeout
    pc,                 \* where each caller is
    crashed,            \* the Go runtime threw "concurrent map writes"
    outage,             \* failures the provider may still produce
    successStreak       \* history: successes since the last failure, capped

breaker == <<entry, state, failureCount, successAfterOpen, resetElapsed>>
history == <<outage, successStreak>>
bvars    == <<breaker, pc, crashed, history>>

Closed   == "closed"
Open     == "open"
HalfOpen == "half-open"

AtMost(n, cap) == IF n < cap THEN n ELSE cap

BreakerInit ==
    /\ entry = FALSE
    /\ state = Closed
    /\ failureCount = 0
    /\ successAfterOpen = 0
    /\ resetElapsed = TRUE
    /\ pc = [c \in Callers |-> "idle"]
    /\ crashed = FALSE
    /\ outage = MaxOutage
    /\ successStreak = 0

CallGoes(c, label) == pc' = [pc EXCEPT ![c] = label]

-----------------------------------------------------------------------------
\* CanMakeLLMCall, the look-up under RLock.
Lookup(c) ==
    /\ pc[c] = "idle"
    /\ CallGoes(c, IF entry THEN "checking" ELSE "inserting")
    /\ UNCHANGED <<breaker, crashed, history>>

\* The insertion, still under the shared RLock.  A caller that inserts next to
\* another one may find its own object replaced in the map: it then reads a
\* fresh closed state that nobody else sees, and is admitted.
InsertEntry(c) ==
    /\ pc[c] = "inserting"
    /\ entry' = TRUE
    /\ \/ CallGoes(c, "checking")
       \/ /\ \E d \in Callers \ {c} : pc[d] = "inserting"
          /\ CallGoes(c, "calling")
    /\ UNCHANGED <<state, failureCount, successAfterOpen, resetElapsed, crashed, history>>

\* Two insertions at the same time: the runtime may stop the process.
ConcurrentMapWrite ==
    /\ \E c, d \in Callers : c # d /\ pc[c] = "inserting" /\ pc[d] = "inserting"
    /\ crashed' = TRUE
    /\ UNCHANGED <<breaker, pc, history>>

\* Mutant: the reset timeout is compared the wrong way round.
BugCheckState(c) ==
    /\ pc[c] = "checking"
    /\ CallGoes(c, IF state # Open THEN "calling"
               ELSE IF ~resetElapsed THEN "tripping" ELSE "idle")
    /\ UNCHANGED <<breaker, crashed, history>>

\* The switch on state.State, read without the lock: admitted, rejected with a
\* backoff, or on the way to write half-open.
CheckState(c) ==
    /\ pc[c] = "checking"
    /\ CallGoes(c, IF state # Open THEN "calling"
               ELSE IF resetElapsed THEN "tripping" ELSE "idle")
    /\ UNCHANGED <<breaker, crashed, history>>

\* The write of half-open, under Lock, whatever State is by now.  Lock waits for
\* the callers that hold RLock.
LockFree == \A c \in Callers : pc[c] # "inserting"

TripHalfOpen(c) ==
    /\ pc[c] = "tripping"
    /\ LockFree
    /\ state' = HalfOpen
    /\ successAfterOpen' = 0
    /\ CallGoes(c, "calling")
    /\ UNCHANGED <<entry, failureCount, resetElapsed, crashed, history>>

-----------------------------------------------------------------------------
\* Mutant: closing forgets to reset FailureCount.
BugCountProbe ==
    IF successAfterOpen + 1 >= SuccessThresholdHalfOpen
    THEN state' = Closed /\ successAfterOpen' = 0 /\ UNCHANGED failureCount
    ELSE successAfterOpen' = successAfterOpen + 1 /\ UNCHANGED <<state, failureCount>>

\* RecordLLMSuccess.
CountProbe ==
    IF successAfterOpen + 1 >= SuccessThresholdHalfOpen
    THEN /\ state' = Closed
         /\ failureCount' = 0
         /\ successAfterOpen' = 0
    ELSE /\ successAfterOpen' = successAfterOpen + 1
         /\ UNCHANGED <<state, failureCount>>

ForgiveFailure ==
    /\ failureCount' = IF failureCount > 0 THEN failureCount - 1 ELSE 0
    /\ UNCHANGED <<state, successAfterOpen>>

RecordLLMSuccess(c) ==
    /\ pc[c] = "calling"
    /\ LockFree
    /\ entry' = TRUE
    /\ \/ state = HalfOpen /\ CountProbe
       \/ state = Closed /\ ForgiveFailure
       \/ state = Open /\ UNCHANGED <<state, failureCount, successAfterOpen>>
    /\ CallGoes(c, "idle")
    /\ successStreak' = AtMost(successStreak + 1, SuccessThresholdHalfOpen)
    /\ UNCHANGED <<resetElapsed, crashed, outage>>

\* Mutant: a failure in half-open does not reopen the circuit.
BugOpens == state = Closed /\ failureCount + 1 >= FailureThreshold

\* RecordLLMFailure.
Opens ==
    \/ state = Closed /\ failureCount + 1 >= FailureThreshold
    \/ state = HalfOpen

\* Those whose unlocked reads may find State open and OpenedAt not yet set.
ReadEarly ==
    IF Opens /\ resetElapsed THEN {d \in Callers : pc[d] = "checking"} ELSE {}

RecordLLMFailure(c) ==
    /\ pc[c] = "calling"
    /\ LockFree
    /\ outage > 0
    /\ entry' = TRUE
    /\ failureCount' = failureCount + 1
    /\ IF Opens
       THEN state' = Open /\ resetElapsed' = FALSE /\ successAfterOpen' = 0
       ELSE UNCHANGED <<state, resetElapsed, successAfterOpen>>
    /\ \E early \in SUBSET ReadEarly :
         pc' = [d \in Callers |-> IF d = c THEN "idle"
                                  ELSE IF d \in early THEN "tripping" ELSE pc[d]]
    /\ outage' = outage - 1
    /\ successStreak' = 0
    /\ UNCHANGED crashed

-----------------------------------------------------------------------------
\* CircuitResetTimeout passes since the circuit was opened.
ResetTimeoutPasses ==
    /\ ~resetElapsed
    /\ resetElapsed' = TRUE
    /\ UNCHANGED <<entry, state, failureCount, successAfterOpen, pc, crashed, history>>

CanMakeLLMCall(c) ==
    Lookup(c) \/ InsertEntry(c) \/ CheckState(c) \/ TripHalfOpen(c)

Caller(c) == CanMakeLLMCall(c) \/ RecordLLMSuccess(c) \/ RecordLLMFailure(c)

BreakerNext ==
    /\ ~crashed
    /\ \/ \E c \in Callers : Caller(c)
       \/ ConcurrentMapWrite
       \/ ResetTimeoutPasses

BreakerSpec == BreakerInit /\ [][BreakerNext]_bvars

\* Callers keep making requests, admitted calls return, and time passes.
BreakerFairness ==
    /\ \A c \in Callers : WF_bvars(~crashed /\ Caller(c))
    /\ WF_bvars(~crashed /\ ResetTimeoutPasses)

FairBreakerSpec == BreakerSpec /\ BreakerFairness

=============================================================================
