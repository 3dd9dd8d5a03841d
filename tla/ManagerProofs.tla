---------------------------- MODULE ManagerProofs ----------------------------
(***************************************************************************)
(* Proofs about internal/core/manager, part by part: the circuit breaker,  *)
(* for any callers and thresholds; the indexing queue, for any tasks,      *)
(* tenants and permits; the tenant manager, for any workspaces, clients    *)
(* and limits.                                                             *)
(***************************************************************************)
EXTENDS CircuitBreakerProps, IndexQueueProps, TenantManager,
        FiniteSetTheorems, SequenceTheorems, TLAPS

-----------------------------------------------------------------------------
\* The circuit breaker: its counters fit its state in spite of the unlocked half-open
\* write, only an unbroken run of successes closes it, and callers that do not overlap
\* see the atomic breaker.


LEMMA AtMostType ==
    ASSUME NEW n \in Nat, NEW cap \in Nat
    PROVE  AtMost(n, cap) \in 0 .. cap
  BY DEF AtMost

\* Every variable keeps its type.
THEOREM TypeCorrect == BreakerSpec => []BreakerTypeOK
<1> USE BreakerAssumption DEF BreakerTypeOK, Closed, Open, HalfOpen
<1>1. BreakerInit => BreakerTypeOK
  <2> SUFFICES ASSUME BreakerInit PROVE BreakerTypeOK
    OBVIOUS
  <2>1. pc \in [Callers -> {"idle", "inserting", "checking", "tripping", "calling"}]
    BY DEF BreakerInit
  <2>2. 0 \in 0 .. SuccessThresholdHalfOpen /\ 0 \in 0 .. FailureThreshold
    OBVIOUS
  <2> QED BY <2>1, <2>2 DEF BreakerInit
<1>2. BreakerTypeOK /\ [BreakerNext]_bvars => BreakerTypeOK'
  <2> SUFFICES ASSUME BreakerTypeOK, [BreakerNext]_bvars PROVE BreakerTypeOK'
    OBVIOUS
  <2>1. ASSUME NEW c \in Callers, Lookup(c) PROVE BreakerTypeOK'
    BY <2>1 DEF Lookup, CallGoes, breaker, history
  <2>2. ASSUME NEW c \in Callers, InsertEntry(c) PROVE BreakerTypeOK'
    BY <2>2 DEF InsertEntry, CallGoes, breaker, history
  <2>3. CASE ConcurrentMapWrite
    BY <2>3 DEF ConcurrentMapWrite, breaker, history
  <2>4. ASSUME NEW c \in Callers, CheckState(c) PROVE BreakerTypeOK'
    BY <2>4 DEF CheckState, CallGoes, breaker, history
  <2>5. ASSUME NEW c \in Callers, TripHalfOpen(c) PROVE BreakerTypeOK'
    BY <2>5 DEF TripHalfOpen, CallGoes, breaker, history
  <2>6. ASSUME NEW c \in Callers, RecordLLMSuccess(c) PROVE BreakerTypeOK'
    <3>1. AtMost(successStreak + 1, SuccessThresholdHalfOpen)
            \in 0 .. SuccessThresholdHalfOpen
      BY AtMostType
    <3>2. state' \in {Closed, Open, HalfOpen} /\ failureCount' \in Nat
            /\ successAfterOpen' \in Nat
      BY <2>6 DEF RecordLLMSuccess, CountProbe, ForgiveFailure
    <3>3. pc' \in [Callers -> {"idle", "inserting", "checking", "tripping", "calling"}]
      BY <2>6 DEF RecordLLMSuccess, CallGoes
    <3> QED BY <2>6, <3>1, <3>2, <3>3 DEF RecordLLMSuccess
  <2>7. ASSUME NEW c \in Callers, RecordLLMFailure(c) PROVE BreakerTypeOK'
    <3>2. state' \in {Closed, Open, HalfOpen} /\ failureCount' \in Nat
            /\ successAfterOpen' \in Nat
      BY <2>7 DEF RecordLLMFailure
    <3>4. resetElapsed' \in BOOLEAN
      <4>1. resetElapsed' = FALSE \/ resetElapsed' = resetElapsed
        BY <2>7, Zenon DEF RecordLLMFailure
      <4> QED BY <4>1
    <3>3. pc' \in [Callers -> {"idle", "inserting", "checking", "tripping", "calling"}]
      BY <2>7 DEF RecordLLMFailure
    <3> QED BY <2>7, <3>2, <3>3, <3>4 DEF RecordLLMFailure
  <2>8. CASE ResetTimeoutPasses
    BY <2>8 DEF ResetTimeoutPasses, history
  <2>9. CASE UNCHANGED bvars
    BY <2>9 DEF bvars, breaker, history
  <2> QED
    BY <2>1, <2>2, <2>3, <2>4, <2>5, <2>6, <2>7, <2>8, <2>9
       DEF BreakerNext, Caller, CanMakeLLMCall
<1> QED BY <1>1, <1>2, PTL DEF BreakerSpec

-----------------------------------------------------------------------------
\* The steps of a caller that leave State and the counters alone.
LEMMA QuietSteps ==
    ASSUME NEW c \in Callers,
           Lookup(c) \/ InsertEntry(c) \/ CheckState(c)
             \/ ConcurrentMapWrite \/ ResetTimeoutPasses \/ UNCHANGED bvars
    PROVE  UNCHANGED <<state, failureCount, successAfterOpen, history>>
  BY DEF Lookup, InsertEntry, CheckState, ConcurrentMapWrite, ResetTimeoutPasses,
         bvars, breaker, history

\* The counters fit the state, whatever the callers' unlocked reads saw.
THEOREM CountersCorrect == BreakerSpec => []CountersFitState
<1> USE BreakerAssumption DEF BreakerTypeOK, CountersFitState, Closed, Open, HalfOpen
<1>1. BreakerInit => CountersFitState
  BY DEF BreakerInit
<1>2. BreakerTypeOK /\ CountersFitState /\ [BreakerNext]_bvars => CountersFitState'
  <2> SUFFICES ASSUME BreakerTypeOK, CountersFitState, [BreakerNext]_bvars
               PROVE  CountersFitState'
    OBVIOUS
  <2>1. ASSUME UNCHANGED <<state, failureCount, successAfterOpen, history>>
        PROVE  CountersFitState'
    BY <2>1
  <2>2. ASSUME NEW c \in Callers, TripHalfOpen(c) PROVE CountersFitState'
    BY <2>2 DEF TripHalfOpen
  <2>3. ASSUME NEW c \in Callers, RecordLLMSuccess(c) PROVE CountersFitState'
    BY <2>3 DEF RecordLLMSuccess, CountProbe, ForgiveFailure
  <2>4. ASSUME NEW c \in Callers, RecordLLMFailure(c) PROVE CountersFitState'
    BY <2>4 DEF RecordLLMFailure, Opens
  <2>5. CASE ConcurrentMapWrite \/ ResetTimeoutPasses \/ UNCHANGED bvars
    BY <2>1, <2>5 DEF ConcurrentMapWrite, ResetTimeoutPasses, bvars, breaker, history
  <2>6. ASSUME NEW c \in Callers, Lookup(c) \/ InsertEntry(c) \/ CheckState(c)
        PROVE  CountersFitState'
    BY <2>1, <2>6, QuietSteps
  <2> QED
    BY <2>2, <2>3, <2>4, <2>5, <2>6 DEF BreakerNext, Caller, CanMakeLLMCall
<1> QED BY <1>1, <1>2, TypeCorrect, PTL DEF BreakerSpec

-----------------------------------------------------------------------------
\* In half-open, the successes counted are successes in a row.
ProbesAreStreak ==
    state = HalfOpen => AtMost(successAfterOpen, SuccessThresholdHalfOpen) <= successStreak

\* Only an unbroken run of successes closes a circuit that is not closed.
THEOREM ClosingCorrect == BreakerSpec => ClosesOnUnbrokenSuccesses
<1> USE BreakerAssumption DEF BreakerTypeOK, Closed, Open, HalfOpen, ProbesAreStreak, AtMost
<1>1. BreakerInit => ProbesAreStreak
  BY DEF BreakerInit
<1>2. BreakerTypeOK /\ ProbesAreStreak /\ [BreakerNext]_bvars => ProbesAreStreak'
  <2> SUFFICES ASSUME BreakerTypeOK, ProbesAreStreak, [BreakerNext]_bvars PROVE ProbesAreStreak'
    OBVIOUS
  <2>1. ASSUME UNCHANGED <<state, failureCount, successAfterOpen, history>>
        PROVE  ProbesAreStreak'
    BY <2>1 DEF history
  <2>2. ASSUME NEW c \in Callers, TripHalfOpen(c) PROVE ProbesAreStreak'
    BY <2>2 DEF TripHalfOpen, history
  <2>3. ASSUME NEW c \in Callers, RecordLLMSuccess(c) PROVE ProbesAreStreak'
    BY <2>3 DEF RecordLLMSuccess, CountProbe, ForgiveFailure
  <2>4. ASSUME NEW c \in Callers, RecordLLMFailure(c) PROVE ProbesAreStreak'
    BY <2>4 DEF RecordLLMFailure, Opens
  <2>5. CASE ConcurrentMapWrite \/ ResetTimeoutPasses \/ UNCHANGED bvars
    BY <2>1, <2>5 DEF ConcurrentMapWrite, ResetTimeoutPasses, bvars, breaker, history
  <2>6. ASSUME NEW c \in Callers, Lookup(c) \/ InsertEntry(c) \/ CheckState(c)
        PROVE  ProbesAreStreak'
    BY <2>1, <2>6, QuietSteps
  <2> QED
    BY <2>2, <2>3, <2>4, <2>5, <2>6 DEF BreakerNext, Caller, CanMakeLLMCall
<1>3. BreakerTypeOK /\ ProbesAreStreak /\ [BreakerNext]_bvars
        => [state # Closed /\ state' = Closed
              => successStreak' >= SuccessThresholdHalfOpen]_bvars
  <2> SUFFICES ASSUME BreakerTypeOK, ProbesAreStreak, BreakerNext,
                      state # Closed, state' = Closed
               PROVE  successStreak' >= SuccessThresholdHalfOpen
    OBVIOUS
  <2>1. PICK c \in Callers : RecordLLMSuccess(c)
    BY DEF BreakerNext, Caller, CanMakeLLMCall, Lookup, InsertEntry, CheckState,
           TripHalfOpen, RecordLLMFailure, ConcurrentMapWrite, ResetTimeoutPasses,
           breaker
  <2> QED
    BY <2>1 DEF RecordLLMSuccess, CountProbe, ForgiveFailure
<1> QED BY <1>1, <1>2, <1>3, TypeCorrect, PTL DEF BreakerSpec, ClosesOnUnbrokenSuccesses

-----------------------------------------------------------------------------
\* With one caller, what it saw before the half-open write still holds.
SingleCaller == \A c, d \in Callers : c = d

TripIsFresh ==
    \A c \in Callers :
        /\ pc[c] = "tripping" => state = Open /\ resetElapsed
        /\ pc[c] = "calling" => state # Open

\* Callers that never overlap see the atomic circuit breaker.
THEOREM SequentialRefinement ==
    ASSUME SingleCaller
    PROVE  BreakerSpec => ImplementsAtomicBreaker
<1> USE BreakerAssumption
    DEF BreakerTypeOK, CountersFitState, Closed, Open, HalfOpen, TripIsFresh
<1>1. BreakerInit => TripIsFresh /\ Atomic!Init
  BY DEF BreakerInit, Atomic!Init
<1>2. BreakerTypeOK /\ TripIsFresh /\ [BreakerNext]_bvars => TripIsFresh'
  <2> SUFFICES ASSUME BreakerTypeOK, TripIsFresh, [BreakerNext]_bvars PROVE TripIsFresh'
    OBVIOUS
  <2>1. ASSUME NEW c \in Callers, Lookup(c) PROVE TripIsFresh'
    BY <2>1, SingleCaller DEF Lookup, CallGoes, breaker, SingleCaller
  <2>2. ASSUME NEW c \in Callers, InsertEntry(c) PROVE TripIsFresh'
    BY <2>2, SingleCaller DEF InsertEntry, CallGoes, SingleCaller
  <2>3. CASE ConcurrentMapWrite
    BY <2>3, SingleCaller DEF ConcurrentMapWrite, SingleCaller
  <2>4. ASSUME NEW c \in Callers, CheckState(c) PROVE TripIsFresh'
    BY <2>4, SingleCaller DEF CheckState, CallGoes, breaker, SingleCaller
  <2>5. ASSUME NEW c \in Callers,
               TripHalfOpen(c) \/ RecordLLMSuccess(c) \/ RecordLLMFailure(c)
        PROVE  TripIsFresh'
    <3>1. \A d \in Callers :
            pc'[d] = "idle" \/ (pc'[d] = "calling" /\ state' = HalfOpen)
      BY <2>5, SingleCaller
         DEF TripHalfOpen, RecordLLMSuccess, RecordLLMFailure, ReadEarly, CallGoes, SingleCaller
    <3> QED BY <3>1
  <2>6. CASE ResetTimeoutPasses
    BY <2>6 DEF ResetTimeoutPasses
  <2>7. CASE UNCHANGED bvars
    BY <2>7 DEF bvars, breaker
  <2> QED
    BY <2>1, <2>2, <2>3, <2>4, <2>5, <2>6, <2>7 DEF BreakerNext, Caller, CanMakeLLMCall
<1>3. BreakerTypeOK /\ CountersFitState /\ TripIsFresh /\ [BreakerNext]_bvars
        => [Atomic!Next]_(Atomic!breakerVars)
  <2> SUFFICES ASSUME BreakerTypeOK, CountersFitState, TripIsFresh, [BreakerNext]_bvars
               PROVE  Atomic!Next \/ UNCHANGED Atomic!breakerVars
    OBVIOUS
  <2> USE DEF Atomic!Next, Atomic!breakerVars
  <2>1. ASSUME NEW c \in Callers, Lookup(c) \/ InsertEntry(c) \/ CheckState(c)
        PROVE  UNCHANGED Atomic!breakerVars
    BY <2>1 DEF Lookup, InsertEntry, CheckState, breaker
  <2>2. CASE ConcurrentMapWrite \/ UNCHANGED bvars
    BY <2>2 DEF ConcurrentMapWrite, breaker, bvars
  <2>3. ASSUME NEW c \in Callers, TripHalfOpen(c) PROVE Atomic!TryRecovery
    BY <2>3 DEF TripHalfOpen, Atomic!TryRecovery
  <2>4. ASSUME NEW c \in Callers, RecordLLMSuccess(c)
        PROVE  \/ Atomic!SuccessWhenClosed \/ Atomic!ProbeSucceeds \/ Atomic!Close
               \/ UNCHANGED Atomic!breakerVars
    BY <2>4 DEF RecordLLMSuccess, CountProbe, ForgiveFailure,
                Atomic!SuccessWhenClosed, Atomic!ProbeSucceeds, Atomic!Close
  <2>5. ASSUME NEW c \in Callers, RecordLLMFailure(c)
        PROVE  Atomic!CountFailure \/ Atomic!Trip
    <3>1. state = Closed \/ state = HalfOpen
      BY <2>5 DEF RecordLLMFailure
    <3> QED BY <2>5, <3>1 DEF RecordLLMFailure, Opens, Atomic!CountFailure, Atomic!Trip
  <2>6. CASE ResetTimeoutPasses
    BY <2>6 DEF ResetTimeoutPasses, Atomic!TimeoutPasses
  <2> QED
    BY <2>1, <2>2, <2>3, <2>4, <2>5, <2>6 DEF BreakerNext, Caller, CanMakeLLMCall
<1> QED BY <1>1, <1>2, <1>3, TypeCorrect, CountersCorrect, PTL
        DEF BreakerSpec, ImplementsAtomicBreaker, Atomic!Spec

-----------------------------------------------------------------------------
\* The indexing queue.


\* A semaphore that has not given out more permits than it has.
WithinPermits(s) == IsFiniteSet(s.held) /\ Cardinality(s.held) <= Permits

LEMMA AdmitKeepsPermits ==
    ASSUME NEW s, NEW p, WithinPermits(s), Admits(s)
    PROVE  WithinPermits(Admit(s, p)) /\ Admit(s, p).held = s.held \cup {p}
  <1>1. Admit(s, p).held = s.held \cup {p}
    BY DEF Admit
  <1>2. /\ IsFiniteSet(s.held \cup {p})
        /\ \/ Cardinality(s.held \cup {p}) = Cardinality(s.held)
           \/ Cardinality(s.held \cup {p}) = Cardinality(s.held) + 1
        /\ Cardinality(s.held) \in Nat
    BY FS_AddElement, FS_CardinalityType DEF WithinPermits
  <1> QED
    BY <1>1, <1>2, PermitsAssumption DEF WithinPermits, Admits

\* A permit put back frees one, and gives out at most one.
LEMMA GiveKeepsPermits ==
    ASSUME NEW s, NEW p \in s.held, WithinPermits(s)
    PROVE  WithinPermits(Give(s, p)) /\ s.held \ {p} \subseteq Give(s, p).held
  <1> DEFINE R == s.held \ {p}
  <1>1. /\ IsFiniteSet(R)
        /\ Cardinality(R) = Cardinality(s.held) - 1
        /\ Cardinality(R) \in Nat /\ Cardinality(s.held) \in Nat
    BY FS_RemoveElement, FS_CardinalityType DEF WithinPermits
  <1>2. \A x : /\ IsFiniteSet(R \cup {x})
               /\ \/ Cardinality(R \cup {x}) = Cardinality(R)
                  \/ Cardinality(R \cup {x}) = Cardinality(R) + 1
    BY <1>1, FS_AddElement
  <1>3. \/ Give(s, p).held = R
        \/ Give(s, p).held = R \cup {Head(s.waiters)}
    BY DEF Give
  <1> HIDE DEF R
  <1>4. WithinPermits(Give(s, p))
    <2>1. CASE Give(s, p).held = R
      BY <1>1, <2>1, PermitsAssumption DEF WithinPermits
    <2>2. CASE Give(s, p).held = R \cup {Head(s.waiters)}
      <3>1. PICK x : x = Head(s.waiters)
        OBVIOUS
      <3>3. /\ IsFiniteSet(R \cup {x})
            /\ \/ Cardinality(R \cup {x}) = Cardinality(R)
               \/ Cardinality(R \cup {x}) = Cardinality(R) + 1
        BY <1>2, Zenon
      <3>2. Cardinality(R \cup {x}) <= Cardinality(s.held) /\ IsFiniteSet(R \cup {x})
            /\ Cardinality(R \cup {x}) \in Nat
        BY <1>1, <3>3
      <3> QED
        BY <1>1, <2>2, <3>1, <3>2, PermitsAssumption DEF WithinPermits
    <2> QED
      BY <1>3, <2>1, <2>2
  <1>5. R \subseteq Give(s, p).held
    BY <1>3
  <1> QED
    BY <1>4, <1>5 DEF R

LEMMA GiveUpKeepsPermits ==
    ASSUME NEW s, NEW p, WithinPermits(s)
    PROVE  WithinPermits(GiveUp(s, p)) /\ s.held \ {p} \subseteq GiveUp(s, p).held
  <1>1. CASE p \in s.held
    BY <1>1, GiveKeepsPermits DEF GiveUp
  <1>2. CASE p \notin s.held
    BY <1>2 DEF GiveUp, Leave, WithinPermits
  <1> QED
    BY <1>1, <1>2

-----------------------------------------------------------------------------
\* The tasks in the queue are those that are waiting in it, each there once.
QueueInv ==
    /\ items \in Seq(Tasks)
    /\ spawned = Len(items)
    /\ at \in [Tasks -> Places]
    /\ \A i \in 1 .. Len(items) : at[items[i]] = "queued"
    /\ \A i, j \in 1 .. Len(items) : items[i] = items[j] => i = j

\* Only a holder of a permit runs, and what has run has run once.
RunInv ==
    /\ WithinPermits(sem)
    /\ Indexing \subseteq sem.held
    /\ runs \in [Tasks -> Nat]
    /\ \A t \in Tasks : runs[t] = IF t \in Indexing \/ at[t] = "done" THEN 1 ELSE 0

\* A step that moves one task from a place outside the queue to another.
LEMMA QueueUntouched ==
    ASSUME QueueInv, NEW t \in Tasks, NEW place \in Places, at[t] # "queued",
           place # "queued", Goto(t, place), UNCHANGED <<items, spawned>>
    PROVE  QueueInv'
  BY DEF QueueInv, Goto

LEMMA QueueInductive == QueueInv /\ [Next]_vars => QueueInv'
  <1> SUFFICES ASSUME QueueInv, [Next]_vars
               PROVE  QueueInv'
    OBVIOUS
  <1>1. ASSUME NEW t \in Tasks, EnqueueIndexing(t)
        PROVE  QueueInv'
    <2>1. /\ items' = Append(items, t) /\ spawned' = spawned + 1
          /\ at' = [at EXCEPT ![t] = "queued"] /\ at[t] \in {"new", "timed out"}
      BY <1>1 DEF EnqueueIndexing, Goto
    <2>2. /\ items' \in Seq(Tasks) /\ Len(items') = Len(items) + 1
          /\ \A i \in 1 .. Len(items) : items'[i] = items[i]
          /\ items'[Len(items) + 1] = t
      <3>1. items \in Seq(Tasks)
        BY DEF QueueInv
      <3>2. items' = Append(items, t)
        BY <2>1
      <3>3. /\ Append(items, t) \in Seq(Tasks) /\ Len(Append(items, t)) = Len(items) + 1
            /\ \A i \in 1 .. Len(items) : Append(items, t)[i] = items[i]
            /\ Append(items, t)[Len(items) + 1] = t
        <4>1. Append(items, t) \in Seq(Tasks) /\ Len(Append(items, t)) = Len(items) + 1
          BY <3>1
        <4>2. \A i \in 1 .. Len(items) : Append(items, t)[i] = items[i]
          BY <3>1
        <4>3. Append(items, t)[Len(items) + 1] = t
          BY <3>1
        <4> QED
          BY <4>1, <4>2, <4>3
      <3> QED
        BY <3>2, <3>3, Zenon
    <2>3. \A i \in 1 .. Len(items) : items[i] # t
      BY <2>1 DEF QueueInv
    <2>4. spawned' = Len(items') /\ at' \in [Tasks -> Places]
      BY <2>1, <2>2 DEF QueueInv, Places
    <2>5. \A i \in 1 .. Len(items') :
            \/ i \in 1 .. Len(items) /\ items'[i] = items[i]
            \/ i = Len(items) + 1 /\ items'[i] = t
      BY <2>2 DEF QueueInv
    <2>6. \A i \in 1 .. Len(items') : at'[items'[i]] = "queued"
      <3>1. \A i \in 1 .. Len(items) : items[i] \in Tasks
        BY DEF QueueInv
      <3>2. at'[t] = "queued" /\ \A u \in Tasks : at[u] = "queued" => at'[u] = "queued"
        BY <2>1 DEF QueueInv
      <3> QED
        BY <2>5, <3>1, <3>2 DEF QueueInv
    <2>7. \A i, j \in 1 .. Len(items') : items'[i] = items'[j] => i = j
      BY <2>3, <2>5 DEF QueueInv
    <2> QED
      BY <2>2, <2>4, <2>6, <2>7 DEF QueueInv
  <1>2. CASE TakeTask
    <2>1. spawned > 0 /\ spawned' = spawned - 1 /\ items # <<>>
      BY <1>2 DEF TakeTask, QueueInv
    <2>2. items' = Tail(items) /\ at' = [at EXCEPT ![Head(items)] = "taken"]
      BY <1>2, <2>1 DEF TakeTask, Goto
    <2>3. /\ Head(items) = items[1] /\ Head(items) \in Tasks
          /\ items' \in Seq(Tasks) /\ Len(items') = Len(items) - 1
          /\ \A i \in 1 .. Len(items') : items'[i] = items[i + 1]
      BY <2>1, <2>2, HeadTailProperties DEF QueueInv
    <2>4. \A i \in 1 .. Len(items') : i + 1 \in 1 .. Len(items) /\ items[i + 1] # items[1]
      BY <2>1, <2>3 DEF QueueInv
    <2>5. spawned' = Len(items') /\ at' \in [Tasks -> Places]
      BY <2>1, <2>2, <2>3 DEF QueueInv, Places
    <2>6. \A i \in 1 .. Len(items') : at'[items'[i]] = "queued"
      BY <2>2, <2>3, <2>4 DEF QueueInv
    <2>7. \A i, j \in 1 .. Len(items') : items'[i] = items'[j] => i = j
      <3>1. \A i, j \in 1 .. Len(items') : items[i + 1] = items[j + 1] => i + 1 = j + 1
        BY <2>4 DEF QueueInv
      <3> QED
        BY <2>3, <3>1
    <2> QED
      BY <2>3, <2>5, <2>6, <2>7 DEF QueueInv
  <1>3. ASSUME NEW t \in Tasks, Acquire(t)
        PROVE  QueueInv'
    BY <1>3, QueueUntouched DEF Acquire, Run, Places
  <1>4. ASSUME NEW t \in Tasks, Wake(t)
        PROVE  QueueInv'
    BY <1>4, QueueUntouched DEF Wake, Run, Places
  <1>5. ASSUME NEW t \in Tasks, TimesOut(t)
        PROVE  QueueInv'
    BY <1>5, QueueUntouched DEF TimesOut, Places
  <1>6. ASSUME NEW t \in Tasks, Return(t)
        PROVE  QueueInv'
    BY <1>6, QueueUntouched DEF Return, Places
  <1>7. ASSUME NEW t \in Tasks, CountError(t)
        PROVE  QueueInv'
    BY <1>7, QueueUntouched DEF CountError, Places
  <1>8. ASSUME NEW t \in Tasks, Release(t)
        PROVE  QueueInv'
    BY <1>8, QueueUntouched DEF Release, Places
  <1>9. ASSUME NEW n \in Tenants, ResetTenantStats(n)
        PROVE  QueueInv'
    BY <1>9 DEF ResetTenantStats, QueueInv
  <1>10. CASE UNCHANGED vars
    BY <1>10 DEF vars, QueueInv
  <1> QED
    BY <1>1, <1>2, <1>3, <1>4, <1>5, <1>6, <1>7, <1>8, <1>9, <1>10
    DEF Next, Goroutine, Finished

-----------------------------------------------------------------------------
\* A step of task t leaves alone what RunInv says of the others.
LEMMA RunInductive == QueueInv /\ RunInv /\ [Next]_vars => RunInv'
  <1> SUFFICES ASSUME QueueInv, RunInv, [Next]_vars
               PROVE  RunInv'
    OBVIOUS
  <1>0. at \in [Tasks -> Places] /\ runs \in [Tasks -> Nat]
    BY DEF QueueInv, RunInv
  <1>1. ASSUME NEW t \in Tasks, EnqueueIndexing(t)
        PROVE  RunInv'
    <2>1. Indexing' = Indexing
      BY <1>0, <1>1 DEF EnqueueIndexing, Goto, Indexing
    <2>2. \A u \in Tasks : at'[u] = "done" <=> at[u] = "done"
      BY <1>0, <1>1 DEF EnqueueIndexing, Goto
    <2>3. sem' = sem /\ runs' = runs
      BY <1>1 DEF EnqueueIndexing
    <2> QED
      BY <2>1, <2>2, <2>3 DEF RunInv, WithinPermits
  <1>2. CASE TakeTask
    <2>1. \/ at' = at
          \/ /\ at' = [at EXCEPT ![items[1]] = "taken"]
             /\ items[1] \in Tasks /\ at[items[1]] = "queued"
      BY <1>2, HeadTailProperties DEF TakeTask, Goto, QueueInv
    <2>2. Indexing' = Indexing
      BY <1>0, <2>1 DEF Indexing
    <2>3. \A u \in Tasks : at'[u] = "done" <=> at[u] = "done"
      BY <1>0, <2>1
    <2>4. sem' = sem /\ runs' = runs
      BY <1>2 DEF TakeTask
    <2> QED
      BY <2>2, <2>3, <2>4 DEF RunInv, WithinPermits
  <1>3. ASSUME NEW t \in Tasks, Run(t), at[t] \in {"taken", "blocked"},
               WithinPermits(sem'), sem.held \cup {t} \subseteq sem'.held
        PROVE  RunInv'
    <2>1. Indexing' = Indexing \cup {t} /\ t \notin Indexing
      BY <1>0, <1>3 DEF Run, Goto, Indexing
    <2>2. \A u \in Tasks : at'[u] = "done" <=> at[u] = "done"
      BY <1>0, <1>3 DEF Run, Goto
    <2>3. runs' = [runs EXCEPT ![t] = @ + 1] /\ runs[t] = 0
      BY <1>3, <2>1 DEF Run, RunInv
    <2> QED
      BY <1>0, <1>3, <2>1, <2>2, <2>3 DEF RunInv
  <1>4. ASSUME NEW t \in Tasks, Acquire(t)
        PROVE  RunInv'
    <2>1. CASE Admits(sem) /\ sem' = Admit(sem, t) /\ Run(t)
      BY <1>3, <1>4, <2>1, AdmitKeepsPermits DEF Acquire, RunInv
    <2>2. CASE sem' = Wait(sem, t) /\ Goto(t, "blocked") /\ UNCHANGED runs
      <3>1. Indexing' = Indexing
        BY <1>0, <1>4, <2>2 DEF Acquire, Goto, Indexing
      <3>2. \A u \in Tasks : at'[u] = "done" <=> at[u] = "done"
        BY <1>0, <1>4, <2>2 DEF Acquire, Goto
      <3>3. sem'.held = sem.held
        BY <2>2 DEF Wait
      <3> QED
        BY <2>2, <3>1, <3>2, <3>3 DEF RunInv, WithinPermits
    <2> QED
      BY <1>4, <2>1, <2>2 DEF Acquire
  <1>5. ASSUME NEW t \in Tasks, Wake(t)
        PROVE  RunInv'
    BY <1>3, <1>5 DEF Wake, RunInv
  <1>6. ASSUME NEW t \in Tasks, TimesOut(t)
        PROVE  RunInv'
    <2>1. Indexing' = Indexing /\ t \notin Indexing
      BY <1>0, <1>6 DEF TimesOut, Goto, Indexing
    <2>2. \A u \in Tasks : at'[u] = "done" <=> at[u] = "done"
      BY <1>0, <1>6 DEF TimesOut, Goto
    <2>3. WithinPermits(sem') /\ sem.held \ {t} \subseteq sem'.held /\ runs' = runs
      BY <1>6, GiveUpKeepsPermits DEF TimesOut, RunInv
    <2> QED
      BY <2>1, <2>2, <2>3 DEF RunInv
  <1>7. ASSUME NEW t \in Tasks, Return(t) \/ CountError(t)
        PROVE  RunInv'
    <2>1. Indexing' = Indexing
      BY <1>0, <1>7 DEF Return, CountError, Goto, Indexing
    <2>2. \A u \in Tasks : at'[u] = "done" <=> at[u] = "done"
      BY <1>0, <1>7 DEF Return, CountError, Goto
    <2>3. sem' = sem /\ runs' = runs
      BY <1>7 DEF Return, CountError
    <2> QED
      BY <2>1, <2>2, <2>3 DEF RunInv, WithinPermits
  <1>8. ASSUME NEW t \in Tasks, Release(t)
        PROVE  RunInv'
    <2>1. Indexing' = Indexing \ {t} /\ t \in Indexing
      BY <1>0, <1>8 DEF Release, Goto, Indexing
    <2>2. \A u \in Tasks : at'[u] = "done" <=> (at[u] = "done" \/ u = t)
      BY <1>0, <1>8 DEF Release, Goto
    <2>3. WithinPermits(sem') /\ sem.held \ {t} \subseteq sem'.held /\ runs' = runs
      BY <1>8, <2>1, GiveKeepsPermits DEF Release, RunInv
    <2> QED
      BY <2>1, <2>2, <2>3 DEF RunInv
  <1>9. ASSUME UNCHANGED <<at, sem, runs>>
        PROVE  RunInv'
    BY <1>9 DEF RunInv, WithinPermits, Indexing
  <1>10. ASSUME NEW n \in Tenants, ResetTenantStats(n)
         PROVE  RunInv'
    BY <1>9, <1>10 DEF ResetTenantStats
  <1>11. CASE UNCHANGED vars
    BY <1>9, <1>11 DEF vars
  <1> QED
    BY <1>1, <1>2, <1>4, <1>5, <1>6, <1>7, <1>8, <1>10, <1>11
    DEF Next, Goroutine, Finished

-----------------------------------------------------------------------------
\* No two places of a sequence hold the same.
Distinct(w) == \A i, j \in 1 .. Len(w) : w[i] = w[j] => i = j

\* Who waits is blocked without a permit; who is blocked waits or has one.
WaitInv ==
    /\ sem.waiters \in Seq(Tasks) /\ sem.held \subseteq Tasks
    /\ Distinct(sem.waiters)
    /\ \A i \in 1 .. Len(sem.waiters) :
          at[sem.waiters[i]] = "blocked" /\ sem.waiters[i] \notin sem.held
    /\ \A t \in Tasks : at[t] = "blocked" =>
          t \in sem.held \/ \E i \in 1 .. Len(sem.waiters) : sem.waiters[i] = t
    /\ NoPermitIdle

\* One element fewer, the others as they were.
LEMMA WithoutProperties ==
    ASSUME NEW S, NEW w \in Seq(S), Distinct(w), NEW i \in 1 .. Len(w)
    PROVE  /\ Without(w, i) \in Seq(S)
           /\ Distinct(Without(w, i))
           /\ \A j \in 1 .. Len(Without(w, i)) :
                 \E k \in 1 .. Len(w) : k # i /\ Without(w, i)[j] = w[k]
           /\ \A k \in 1 .. Len(w) :
                 k # i => \E j \in 1 .. Len(Without(w, i)) : Without(w, i)[j] = w[k]
  <1> DEFINE a == SubSeq(w, 1, i - 1)
             b == SubSeq(w, i + 1, Len(w))
             n == Len(w) - 1
             At(j) == IF j < i THEN j ELSE j + 1
  <1>1. Len(w) \in Nat /\ \A k \in 1 .. Len(w) : w[k] \in S
    BY ElementOfSeq, LenProperties
  <1>2. /\ a \in Seq(S) /\ Len(a) = i - 1
        /\ \A j \in 1 .. i - 1 : a[j] = w[j]
    <2>1. \A k \in 1 .. i - 1 : w[k] \in S
      BY <1>1
    <2>2. 1 \in Int /\ i - 1 \in Int
      BY <1>1
    <2> QED
      BY <1>1, <2>1, <2>2, SubSeqProperties
  <1>3. /\ b \in Seq(S) /\ Len(b) = Len(w) - i
        /\ \A j \in 1 .. Len(w) - i : b[j] = w[i + j]
    <2>1. \A k \in i + 1 .. Len(w) : w[k] \in S
      BY <1>1
    <2>2. i + 1 \in Int /\ Len(w) \in Int
      BY <1>1
    <2>3. /\ b \in Seq(S) /\ Len(b) = IF i + 1 <= Len(w) THEN Len(w) - (i + 1) + 1 ELSE 0
          /\ \A j \in 1 .. Len(w) - (i + 1) + 1 : b[j] = w[(i + 1) + j - 1]
      BY <2>1, <2>2, SubSeqProperties
    <2> QED
      BY <1>1, <2>3
  <1>4. Without(w, i) = a \o b
    BY DEF Without
  <1> HIDE DEF a, b
  <1>5. /\ Without(w, i) \in Seq(S) /\ Len(Without(w, i)) = n
        /\ \A j \in 1 .. n : Without(w, i)[j] = w[At(j)] /\ At(j) \in 1 .. Len(w) /\ At(j) # i
    <2>1. /\ a \o b \in Seq(S) /\ Len(a \o b) = Len(a) + Len(b)
          /\ \A j \in 1 .. Len(a) + Len(b) :
                (a \o b)[j] = IF j <= Len(a) THEN a[j] ELSE b[j - Len(a)]
      BY <1>2, <1>3, ConcatProperties
    <2>2. /\ Without(w, i) \in Seq(S) /\ Len(Without(w, i)) = n
          /\ \A j \in 1 .. n :
                Without(w, i)[j] = IF j <= i - 1 THEN a[j] ELSE b[j - (i - 1)]
      BY <1>1, <1>2, <1>3, <1>4, <2>1
    <2>3. ASSUME NEW j \in 1 .. n, j <= i - 1
          PROVE  Without(w, i)[j] = w[At(j)] /\ At(j) \in 1 .. Len(w) /\ At(j) # i
      <3>1. At(j) = j /\ j \in 1 .. i - 1 /\ j \in 1 .. Len(w) /\ j # i
        BY <1>1, <2>3
      <3> QED
        BY <1>2, <2>2, <2>3, <3>1
    <2>4. ASSUME NEW j \in 1 .. n, ~(j <= i - 1)
          PROVE  Without(w, i)[j] = w[At(j)] /\ At(j) \in 1 .. Len(w) /\ At(j) # i
      <3>1. At(j) = j + 1 /\ j + 1 \in 1 .. Len(w) /\ j + 1 # i
        BY <1>1, <2>4
      <3>2. j - (i - 1) \in 1 .. Len(w) - i /\ i + (j - (i - 1)) = j + 1
        BY <1>1, <2>4
      <3>3. Without(w, i)[j] = b[j - (i - 1)]
        BY <2>2, <2>4
      <3> QED
        BY <1>3, <3>1, <3>2, <3>3
    <2> QED
      BY <2>2, <2>3, <2>4
  <1>6. \A k \in 1 .. Len(w) : k # i =>
            \E j \in 1 .. n : Without(w, i)[j] = w[k]
    <2> TAKE k \in 1 .. Len(w)
    <2> HAVE k # i
    <2>1. CASE k < i
      BY <1>1, <1>5, <2>1
    <2>2. CASE k > i
      <3>1. k - 1 \in 1 .. n /\ At(k - 1) = k
        BY <1>1, <2>2
      <3> QED
        BY <1>5, <3>1
    <2> QED
      BY <2>1, <2>2
  <1>7. Distinct(Without(w, i))
    <2>1. \A j, k \in 1 .. n : At(j) = At(k) => j = k
      BY <1>1
    <2>2. \A j, k \in 1 .. n : w[At(j)] = w[At(k)] => At(j) = At(k)
      BY <1>5 DEF Distinct
    <2> QED
      BY <1>5, <2>1, <2>2 DEF Distinct
  <1> HIDE DEF At
  <1> QED
    BY <1>5, <1>6, <1>7

\* The tail is the sequence without its first element.
LEMMA TailProperties ==
    ASSUME NEW S, NEW w \in Seq(S), Distinct(w), w # <<>>
    PROVE  /\ 1 \in 1 .. Len(w) /\ Head(w) = w[1] /\ Head(w) \in S
           /\ Tail(w) = Without(w, 1)
  <1>1. Len(w) \in Nat \ {0} /\ Head(w) = w[1] /\ Head(w) \in S
    BY EmptySeq, HeadTailProperties
  <1>2. Tail(w) = SubSeq(w, 2, Len(w)) /\ Tail(w) \in Seq(S)
    BY TailIsSubSeq, HeadTailProperties
  <1>3. SubSeq(w, 1, 0) = <<>>
    BY SubSeqEmpty
  <1>4. Without(w, 1) = <<>> \o Tail(w)
    BY <1>2, <1>3 DEF Without
  <1> QED
    BY <1>1, <1>2, <1>4, ConcatEmptySeq

\* A permit put back goes to the first waiter, who is then no longer among the
\* waiters; whoever has left was holding one.
LEMMA GiveKeepsWaiters ==
    ASSUME WithinPermits(sem), WaitInv, NEW t \in sem.held, sem' = Give(sem, t)
    PROVE  /\ sem'.waiters \in Seq(Tasks) /\ sem'.held \subseteq Tasks
           /\ Distinct(sem'.waiters)
           /\ \A i \in 1 .. Len(sem'.waiters) :
                 /\ \E j \in 1 .. Len(sem.waiters) : sem'.waiters[i] = sem.waiters[j]
                 /\ sem'.waiters[i] \notin sem'.held
           /\ t \notin sem'.held
           /\ \A u \in sem'.held : u \in sem.held \/ at[u] = "blocked"
           /\ \A u \in sem.held : u # t => u \in sem'.held
           /\ \A i \in 1 .. Len(sem.waiters) :
                 \/ sem.waiters[i] \in sem'.held
                 \/ \E j \in 1 .. Len(sem'.waiters) : sem'.waiters[j] = sem.waiters[i]
           /\ WorkConserving(sem')
  <1>1. CASE sem.waiters = <<>>
    <2>1. sem'.held = sem.held \ {t} /\ sem'.waiters = <<>>
      BY <1>1 DEF Give
    <2>2. Len(sem'.waiters) = 0 /\ Len(sem.waiters) = 0 /\ sem'.waiters \in Seq(Tasks)
      BY <1>1, <2>1, EmptySeq
    <2> QED
      BY <2>1, <2>2 DEF WaitInv, Distinct, WorkConserving
  <1>2. CASE sem.waiters # <<>>
    <2> DEFINE w == sem.waiters
               h == w[1]
    <2>1. w \in Seq(Tasks) /\ Distinct(w)
      BY DEF WaitInv
    <2>2. 1 \in 1 .. Len(w) /\ Head(w) = h /\ h \in Tasks /\ Tail(w) = Without(w, 1)
      BY <1>2, <2>1, TailProperties
    <2>3. sem'.held = (sem.held \ {t}) \cup {h} /\ sem'.waiters = Without(w, 1)
      BY <1>2, <2>2 DEF Give
    <2>4. at[h] = "blocked" /\ h \notin sem.held
      BY <2>2 DEF WaitInv
    <2>5. /\ Without(w, 1) \in Seq(Tasks) /\ Distinct(Without(w, 1))
          /\ \A j \in 1 .. Len(Without(w, 1)) :
                \E k \in 1 .. Len(w) : k # 1 /\ Without(w, 1)[j] = w[k]
          /\ \A k \in 1 .. Len(w) :
                k # 1 => \E j \in 1 .. Len(Without(w, 1)) : Without(w, 1)[j] = w[k]
      <3>1. 1 \in 1 .. Len(w)
        BY <2>2
      <3> HIDE DEF w
      <3> QED BY <2>1, <3>1, WithoutProperties
    <2>6. \A k \in 1 .. Len(w) : k # 1 => w[k] # h /\ w[k] \notin sem.held
      BY <2>1, <2>2 DEF Distinct, WaitInv
    <2>7. Cardinality(sem'.held) = Permits
      <3>1. IsFiniteSet(sem.held) /\ Cardinality(sem.held) = Permits
        BY <1>2 DEF WithinPermits, WaitInv, NoPermitIdle, WorkConserving
      <3>2. /\ IsFiniteSet(sem.held \ {t})
            /\ Cardinality(sem.held \ {t}) = Permits - 1
        BY <3>1, FS_RemoveElement
      <3>3. Cardinality((sem.held \ {t}) \cup {h}) = Permits - 1 + 1
        BY <2>4, <3>2, FS_AddElement
      <3> QED
        BY <2>3, <3>3, PermitsAssumption
    <2>8. sem'.held \subseteq Tasks
      BY <2>2, <2>3 DEF WaitInv
    <2>9. t # h
      BY <2>4
    <2>10. \A i \in 1 .. Len(sem'.waiters) :
             /\ \E j \in 1 .. Len(w) : sem'.waiters[i] = w[j]
             /\ sem'.waiters[i] \notin sem'.held
      BY <2>3, <2>5, <2>6
    <2>11. \A i \in 1 .. Len(w) :
             w[i] \in sem'.held \/ \E j \in 1 .. Len(sem'.waiters) : sem'.waiters[j] = w[i]
      BY <2>3, <2>5
    <2> HIDE DEF h
    <2> QED
      BY <2>3, <2>4, <2>5, <2>7, <2>8, <2>9, <2>10, <2>11 DEF WorkConserving
  <1> QED
    BY <1>1, <1>2

\* A step that moves one task and leaves the semaphore alone.
LEMMA WaitUntouched ==
    ASSUME WaitInv, at \in [Tasks -> Places], NEW t \in Tasks, NEW place,
           at[t] # "blocked", place # "blocked", Goto(t, place), sem' = sem,
           t \in sem.held => place \in {"running", "failed", "leaving"}
    PROVE  WaitInv'
  <1>1. /\ \A u \in Tasks : at'[u] = IF u = t THEN place ELSE at[u]
        /\ \A i \in 1 .. Len(sem.waiters) : sem.waiters[i] \in Tasks
    BY ElementOfSeq DEF Goto, WaitInv
  <1>2. \A u \in sem.held : u \in Indexing' \/ at'[u] = "blocked"
    BY <1>1 DEF WaitInv, NoPermitIdle, Indexing
  <1>3. \A i \in 1 .. Len(sem.waiters) : at'[sem.waiters[i]] = "blocked"
    BY <1>1 DEF WaitInv
  <1> QED
    BY <1>1, <1>2, <1>3 DEF WaitInv, NoPermitIdle, WorkConserving, Distinct

LEMMA WaitInductive == QueueInv /\ RunInv /\ WaitInv /\ [Next]_vars => WaitInv'
  <1> SUFFICES ASSUME QueueInv, RunInv, WaitInv, [Next]_vars
               PROVE  WaitInv'
    OBVIOUS
  <1>0. /\ at \in [Tasks -> Places] /\ WithinPermits(sem)
        /\ \A i \in 1 .. Len(sem.waiters) : sem.waiters[i] \in Tasks
        /\ \A u \in sem.held :
              u \in Tasks /\ at[u] \in {"running", "failed", "leaving", "blocked"}
    BY ElementOfSeq DEF QueueInv, RunInv, WaitInv, NoPermitIdle, Indexing
  <1>1. ASSUME NEW t \in Tasks, EnqueueIndexing(t)
        PROVE  WaitInv'
    BY <1>0, <1>1, WaitUntouched DEF EnqueueIndexing
  <1>2. CASE TakeTask
    <2>1. CASE items = <<>>
      BY <1>2, <2>1 DEF TakeTask, WaitInv, NoPermitIdle, WorkConserving, Distinct, Indexing
    <2>2. CASE items # <<>>
      <3>1. /\ Head(items) \in Tasks /\ at[Head(items)] = "queued"
            /\ Goto(Head(items), "taken") /\ sem' = sem
        BY <1>2, <2>2, HeadTailProperties, EmptySeq DEF TakeTask, QueueInv
      <3> QED
        BY <1>0, <3>1, WaitUntouched
    <2> QED
      BY <2>1, <2>2
  <1>3. ASSUME NEW t \in Tasks, Acquire(t)
        PROVE  WaitInv'
    <2>1. at[t] = "taken" /\ t \notin sem.held
      BY <1>0, <1>3 DEF Acquire
    <2>2. CASE Admits(sem) /\ sem' = Admit(sem, t) /\ Run(t)
      <3>1. sem'.held = sem.held \cup {t} /\ sem'.waiters = sem.waiters /\ sem.waiters = <<>>
        BY <2>2 DEF Admit, Admits
      <3>2. \A u \in Tasks : at'[u] = IF u = t THEN "running" ELSE at[u]
        BY <1>0, <2>2 DEF Run, Goto
      <3>3. Len(sem.waiters) = 0
        BY <3>1, EmptySeq
      <3>4. \A u \in Tasks : at'[u] = "blocked" => u \in sem'.held
        BY <3>1, <3>2, <3>3 DEF WaitInv
      <3>5. NoPermitIdle'
        BY <1>0, <3>1, <3>2 DEF NoPermitIdle, WorkConserving, Indexing
      <3> QED
        BY <3>1, <3>3, <3>4, <3>5 DEF WaitInv, Distinct
    <2>3. CASE ~Admits(sem) /\ sem' = Wait(sem, t) /\ Goto(t, "blocked")
      <3> DEFINE w == sem.waiters
                 n == Len(w)
      <3>1. sem'.held = sem.held /\ sem'.waiters = Append(w, t)
        BY <2>3 DEF Wait
      <3>2. \A u \in Tasks : at'[u] = IF u = t THEN "blocked" ELSE at[u]
        BY <1>0, <2>3 DEF Goto
      <3>3. w \in Seq(Tasks) /\ n \in Nat
        BY LenProperties DEF WaitInv
      <3>4. /\ Append(w, t) \in Seq(Tasks) /\ Len(Append(w, t)) = n + 1
            /\ \A i \in 1 .. n : Append(w, t)[i] = w[i]
            /\ Append(w, t)[n + 1] = t
        BY <3>3, AppendProperties
      <3>5. Cardinality(sem.held) = Permits
        <4>1. Cardinality(sem.held) \in Nat
          BY <1>0, FS_CardinalityType DEF WithinPermits
        <4> QED
          BY <1>0, <2>3, <4>1, PermitsAssumption
          DEF WithinPermits, Admits, WaitInv, NoPermitIdle, WorkConserving
      <3>6. \A i \in 1 .. n : w[i] # t
        BY <2>1 DEF WaitInv
      <3>7. \A i \in 1 .. n + 1 : i \in 1 .. n \/ i = n + 1
        BY <3>3
      <3>8. Distinct(Append(w, t))
        BY <3>4, <3>6, <3>7 DEF Distinct, WaitInv
      <3>9. \A i \in 1 .. n + 1 :
               at'[Append(w, t)[i]] = "blocked" /\ Append(w, t)[i] \notin sem.held
        <4>1. \A i \in 1 .. n :
                 at'[Append(w, t)[i]] = "blocked" /\ Append(w, t)[i] \notin sem.held
          BY <1>0, <3>2, <3>4 DEF WaitInv
        <4>2. at'[Append(w, t)[n + 1]] = "blocked" /\ Append(w, t)[n + 1] \notin sem.held
          BY <2>1, <3>2, <3>4
        <4> QED
          BY <3>7, <4>1, <4>2
      <3>10. \A u \in Tasks : at'[u] = "blocked" =>
               u \in sem.held \/ \E i \in 1 .. n + 1 : Append(w, t)[i] = u
        <4> SUFFICES ASSUME NEW u \in Tasks, at'[u] = "blocked", u \notin sem.held
                     PROVE  \E i \in 1 .. n + 1 : Append(w, t)[i] = u
          OBVIOUS
        <4>1. CASE u = t
          BY <3>3, <3>4, <4>1
        <4>2. CASE u # t
          <5>1. PICK i \in 1 .. n : w[i] = u
            BY <3>2, <4>2 DEF WaitInv
          <5> QED
            BY <3>3, <3>4, <5>1
        <4> QED
          BY <4>1, <4>2
      <3>11. NoPermitIdle'
        BY <1>0, <2>1, <3>1, <3>2, <3>5 DEF NoPermitIdle, WorkConserving, Indexing
      <3>12. sem'.held \subseteq Tasks
        BY <3>1 DEF WaitInv
      <3> HIDE DEF w, n
      <3> QED
        BY <3>1, <3>4, <3>8, <3>9, <3>10, <3>11, <3>12 DEF WaitInv
    <2> QED
      BY <1>3, <2>2, <2>3 DEF Acquire
  <1>4. ASSUME NEW t \in Tasks, Wake(t)
        PROVE  WaitInv'
    <2>1. t \in sem.held /\ sem' = sem
      BY <1>4 DEF Wake
    <2>2. \A u \in Tasks : at'[u] = IF u = t THEN "running" ELSE at[u]
      BY <1>0, <1>4 DEF Wake, Run, Goto
    <2>3. \A i \in 1 .. Len(sem.waiters) : sem.waiters[i] # t
      BY <2>1 DEF WaitInv
    <2>4. \A i \in 1 .. Len(sem.waiters) : at'[sem.waiters[i]] = "blocked"
      BY <1>0, <2>2, <2>3 DEF WaitInv
    <2>5. NoPermitIdle'
      BY <1>0, <2>1, <2>2 DEF NoPermitIdle, WorkConserving, Indexing, WaitInv
    <2> QED
      BY <2>1, <2>2, <2>4, <2>5 DEF WaitInv, Distinct
  <1>5. ASSUME NEW t \in sem.held, sem' = Give(sem, t), NEW place \in {"done", "timed out"},
               Goto(t, place)
        PROVE  WaitInv'
    <2>1. /\ t \in Tasks
          /\ \A u \in Tasks : at'[u] = IF u = t THEN place ELSE at[u]
      BY <1>0, <1>5 DEF Goto
    <2>2. /\ sem'.waiters \in Seq(Tasks) /\ sem'.held \subseteq Tasks
          /\ Distinct(sem'.waiters)
          /\ \A i \in 1 .. Len(sem'.waiters) :
                /\ \E j \in 1 .. Len(sem.waiters) : sem'.waiters[i] = sem.waiters[j]
                /\ sem'.waiters[i] \notin sem'.held
          /\ t \notin sem'.held
          /\ \A u \in sem'.held : u \in sem.held \/ at[u] = "blocked"
          /\ \A u \in sem.held : u # t => u \in sem'.held
          /\ \A i \in 1 .. Len(sem.waiters) :
                \/ sem.waiters[i] \in sem'.held
                \/ \E j \in 1 .. Len(sem'.waiters) : sem'.waiters[j] = sem.waiters[i]
          /\ WorkConserving(sem')
      BY <1>0, <1>5, GiveKeepsWaiters
    <2>3. \A i \in 1 .. Len(sem.waiters) : sem.waiters[i] # t /\ at[sem.waiters[i]] = "blocked"
      BY <1>5 DEF WaitInv
    <2>4. \A i \in 1 .. Len(sem'.waiters) : at'[sem'.waiters[i]] = "blocked"
      <3> TAKE i \in 1 .. Len(sem'.waiters)
      <3>1. PICK j \in 1 .. Len(sem.waiters) : sem'.waiters[i] = sem.waiters[j]
        BY <2>2
      <3>2. at'[sem.waiters[j]] = "blocked"
        BY <1>0, <2>1, <2>3
      <3> QED
        BY <3>1, <3>2
    <2>5. \A u \in sem'.held : u \in Indexing' \/ at'[u] = "blocked"
      BY <1>0, <2>1, <2>2 DEF Indexing
    <2>6. \A u \in Tasks : at'[u] = "blocked" =>
             u \in sem'.held \/ \E i \in 1 .. Len(sem'.waiters) : sem'.waiters[i] = u
      <3> SUFFICES ASSUME NEW u \in Tasks, at'[u] = "blocked", u \notin sem'.held
                   PROVE  \E i \in 1 .. Len(sem'.waiters) : sem'.waiters[i] = u
        OBVIOUS
      <3>1. u # t /\ at[u] = "blocked"
        BY <1>5, <2>1
      <3>2. u \notin sem.held
        BY <2>2, <3>1
      <3>3. PICK i \in 1 .. Len(sem.waiters) : sem.waiters[i] = u
        BY <3>1, <3>2 DEF WaitInv
      <3> QED
        BY <2>2, <3>3
    <2> QED
      BY <2>2, <2>4, <2>5, <2>6 DEF WaitInv, NoPermitIdle
  <1>6. ASSUME NEW t \in Tasks, TimesOut(t)
        PROVE  WaitInv'
    <2>1. at[t] = "blocked" /\ Goto(t, "timed out") /\ sem' = GiveUp(sem, t)
      BY <1>6 DEF TimesOut
    <2>2. CASE t \in sem.held
      BY <1>5, <2>1, <2>2 DEF GiveUp
    <2>3. CASE t \notin sem.held
      <3> DEFINE w == sem.waiters
      <3>1. w \in Seq(Tasks) /\ Distinct(w)
        BY DEF WaitInv
      <3>2. PICK i \in 1 .. Len(w) :
               /\ w[i] = t
               /\ sem'.held = sem.held /\ sem'.waiters = Without(w, i)
        <4> DEFINE i == CHOOSE i \in DOMAIN w : w[i] = t
        <4>1. \E j \in DOMAIN w : w[j] = t
          BY <2>1, <2>3, <3>1, LenProperties DEF WaitInv
        <4>2. i \in DOMAIN w /\ w[i] = t
          BY <4>1
        <4>3. sem' = [held |-> sem.held, waiters |-> Without(w, i)]
          BY <2>1, <2>3 DEF GiveUp, Leave
        <4>4. i \in 1 .. Len(w)
          BY <3>1, <4>2, LenProperties
        <4> HIDE DEF i
        <4> QED
          BY <4>2, <4>3, <4>4
      <3>3. /\ Without(w, i) \in Seq(Tasks) /\ Distinct(Without(w, i))
            /\ \A j \in 1 .. Len(Without(w, i)) :
                  \E k \in 1 .. Len(w) : k # i /\ Without(w, i)[j] = w[k]
            /\ \A k \in 1 .. Len(w) :
                  k # i => \E j \in 1 .. Len(Without(w, i)) : Without(w, i)[j] = w[k]
        <4> HIDE DEF w
        <4> QED BY <3>1, <3>2, WithoutProperties
      <3>4. \A u \in Tasks : at'[u] = IF u = t THEN "timed out" ELSE at[u]
        BY <1>0, <2>1 DEF Goto
      <3>5. \A k \in 1 .. Len(w) : k # i => w[k] # t
        BY <3>1, <3>2 DEF Distinct
      <3>6. \A j \in 1 .. Len(sem'.waiters) :
               at'[sem'.waiters[j]] = "blocked" /\ sem'.waiters[j] \notin sem'.held
        <4>1. \A k \in 1 .. Len(w) : k # i => at'[w[k]] = "blocked" /\ w[k] \notin sem'.held
          BY <1>0, <3>2, <3>4, <3>5 DEF WaitInv
        <4> TAKE j \in 1 .. Len(sem'.waiters)
        <4>2. PICK k \in 1 .. Len(w) : k # i /\ sem'.waiters[j] = w[k]
          BY <3>2, <3>3
        <4> QED
          BY <4>1, <4>2
      <3>7. \A u \in Tasks : at'[u] = "blocked" =>
               u \in sem'.held \/ \E j \in 1 .. Len(sem'.waiters) : sem'.waiters[j] = u
        <4> SUFFICES ASSUME NEW u \in Tasks, at'[u] = "blocked", u \notin sem'.held
                     PROVE  \E j \in 1 .. Len(sem'.waiters) : sem'.waiters[j] = u
          OBVIOUS
        <4>1. u # t /\ at[u] = "blocked" /\ u \notin sem.held
          BY <3>2, <3>4
        <4>2. PICK k \in 1 .. Len(w) : w[k] = u
          BY <4>1 DEF WaitInv
        <4> QED
          BY <3>2, <3>3, <4>1, <4>2
      <3>8. NoPermitIdle'
        <4>1. w # <<>>
          BY <3>2, EmptySeq
        <4> QED
          BY <1>0, <2>3, <3>2, <3>4, <4>1
          DEF NoPermitIdle, WorkConserving, Indexing, WaitInv
      <3>9. sem'.held \subseteq Tasks
        BY <3>2 DEF WaitInv
      <3> HIDE DEF w
      <3> QED
        BY <3>2, <3>3, <3>6, <3>7, <3>8, <3>9 DEF WaitInv
    <2> QED
      BY <2>2, <2>3
  <1>7. ASSUME NEW t \in Tasks, Return(t)
        PROVE  WaitInv'
    BY <1>0, <1>7, WaitUntouched DEF Return
  <1>8. ASSUME NEW t \in Tasks, CountError(t)
        PROVE  WaitInv'
    BY <1>0, <1>8, WaitUntouched DEF CountError
  <1>9. ASSUME NEW t \in Tasks, Release(t)
        PROVE  WaitInv'
    <2>1. t \in sem.held
      BY <1>9 DEF Release, RunInv, Indexing
    <2> QED
      BY <1>5, <1>9, <2>1 DEF Release
  <1>10. ASSUME UNCHANGED <<at, sem>>
         PROVE  WaitInv'
    BY <1>10 DEF WaitInv, NoPermitIdle, WorkConserving, Distinct, Indexing
  <1>11. ASSUME NEW n \in Tenants, ResetTenantStats(n)
         PROVE  WaitInv'
    BY <1>10, <1>11 DEF ResetTenantStats
  <1>12. CASE UNCHANGED vars
    BY <1>10, <1>12 DEF vars
  <1> QED
    BY <1>1, <1>2, <1>3, <1>4, <1>6, <1>7, <1>8, <1>9, <1>11, <1>12
    DEF Next, Goroutine, Finished

LEMMA Invariants == Spec => [](QueueInv /\ RunInv /\ WaitInv)
  <1>1. Init => QueueInv
    BY DEF Init, QueueInv, Places
  <1>2. Init => RunInv
    <2> SUFFICES ASSUME Init
                 PROVE  RunInv
      OBVIOUS
    <2>1. IsFiniteSet({}) /\ Cardinality({}) = 0
      BY FS_EmptySet
    <2>2. sem.held = {} /\ Indexing = {}
      BY DEF Init, Unused, Indexing
    <2> QED
      BY <2>1, <2>2, PermitsAssumption DEF Init, RunInv, WithinPermits
  <1>3. Init => WaitInv
    <2> SUFFICES ASSUME Init
                 PROVE  WaitInv
      OBVIOUS
    <2>1. sem.held = {} /\ sem.waiters = <<>> /\ Len(sem.waiters) = 0
      BY EmptySeq DEF Init, Unused
    <2>2. \A t \in Tasks : at[t] = "new"
      BY DEF Init
    <2> QED
      BY <2>1, <2>2, EmptySeq DEF WaitInv, Distinct, NoPermitIdle, WorkConserving
  <1> QED
    BY <1>1, <1>2, <1>3, QueueInductive, RunInductive, WaitInductive, PTL DEF Spec

\* No more tasks run at a time than the semaphore has permits.
THEOREM BoundedIndexing == Spec => []IndexingBounded
  <1>1. RunInv => IndexingBounded
    <2> SUFFICES ASSUME RunInv
                 PROVE  IndexingBounded
      OBVIOUS
    <2>1. IsFiniteSet(Indexing) /\ Cardinality(Indexing) <= Cardinality(sem.held)
      BY FS_Subset DEF RunInv, WithinPermits
    <2>2. Cardinality(Indexing) \in Nat /\ Cardinality(sem.held) \in Nat
      BY <2>1, FS_CardinalityType DEF RunInv, WithinPermits
    <2> QED
      BY <2>1, <2>2, PermitsAssumption DEF RunInv, WithinPermits, IndexingBounded
  <1> QED
    BY <1>1, Invariants, PTL

\* Nobody waits for a permit while one is free, and every permit given out is with
\* a task that runs or is about to.
THEOREM PermitsInUse == Spec => []NoPermitIdle
  <1>1. WaitInv => NoPermitIdle
    BY DEF WaitInv
  <1> QED
    BY <1>1, Invariants, PTL

\* No task is left in the queue without a goroutine that will take one.
THEOREM ItemsServed == Spec => []EveryItemHasAGoroutine
  <1>1. QueueInv => EveryItemHasAGoroutine
    BY DEF QueueInv, EveryItemHasAGoroutine
  <1> QED
    BY <1>1, Invariants, PTL

\* Timeouts and retries never call a callback twice.
THEOREM CalledOnce == Spec => []CallbackOnce
  <1>1. RunInv => CallbackOnce
    BY DEF RunInv, CallbackOnce
  <1> QED
    BY <1>1, Invariants, PTL

-----------------------------------------------------------------------------
\* The tenant manager: the entries of the map and the open stores belong together,
\* whoever evicts, releases or opens a workspace again, and whichever stores fail.

Tenant == [ws : Workspaces \cup {Nobody}, vec : BOOLEAN, kv : BOOLEAN, last : Nat]

TenantTypeOK ==
    /\ clock \in Nat
    /\ made \in 0 .. MaxOpens
    /\ active \in [Workspaces -> 0 .. made]
    /\ tenants \in [Objects -> Tenant]

\* What has not been made is not open, an open store is its workspace's entry, and
\* an entry is open or was not released; no two workspaces share an object.
TenantInv ==
    /\ TenantTypeOK
    /\ \A i \in Objects : i > made => ~tenants[i].vec /\ ~tenants[i].kv
    /\ OpenAreMapped
    /\ MappedAreOpen

LEMMA TenantInitially == TenantInit => TenantInv
  <1> SUFFICES ASSUME TenantInit
               PROVE  TenantInv
    OBVIOUS
  <1>1. Unmade \in Tenant /\ ~Unmade.vec /\ ~Unmade.kv
    BY DEF Unmade, Tenant
  <1>2. TenantTypeOK
    BY <1>1, TenantAssumption DEF TenantInit, TenantTypeOK, Nobody
  <1>3. \A i \in Objects : ~tenants[i].vec /\ ~tenants[i].kv
    BY <1>1 DEF TenantInit
  <1>4. Mapped = {}
    BY DEF TenantInit, Mapped
  <1> QED
    BY <1>2, <1>3, <1>4 DEF TenantInv, OpenAreMapped, MappedAreOpen

\* Stores may close and entries may go: an entry that stays keeps its open stores or
\* was not released, and an open store keeps its entry.
LEMMA ClosingKeeps ==
    ASSUME TenantInv, TenantTypeOK', made' = made, unreleased \subseteq unreleased',
           \A i \in Objects : /\ tenants'[i].ws = tenants[i].ws
                              /\ tenants'[i].vec => tenants[i].vec
                              /\ tenants'[i].kv => tenants[i].kv,
           \A ws \in Workspaces : active'[ws] \in {active[ws], Nobody},
           \A i \in Objects : tenants'[i].vec \/ tenants'[i].kv =>
               active'[tenants[i].ws] = active[tenants[i].ws],
           \A ws \in Mapped' : LET i == active[ws]
                               IN  \/ i \in unreleased'
                                   \/ /\ tenants[i].vec => tenants'[i].vec
                                      /\ tenants[i].kv => tenants'[i].kv
    PROVE  TenantInv'
  <1>2. active \in [Workspaces -> 0 .. made] /\ made \in 0 .. MaxOpens /\ MaxOpens \in Nat
    BY TenantAssumption DEF TenantInv, TenantTypeOK
  <1>3. \A ws \in Mapped' : ws \in Mapped /\ active'[ws] = active[ws]
    BY DEF Mapped
  <1>4. \A ws \in Mapped : active[ws] \in Objects
    BY <1>2 DEF Mapped, Objects, Nobody
  <1>5. OpenAreMapped'
    BY DEF TenantInv, OpenAreMapped
  <1>6. MappedAreOpen'
    <2> SUFFICES ASSUME NEW ws \in Mapped'
                 PROVE  LET t == tenants'[active'[ws]]
                        IN  t.ws = ws /\ ((t.vec /\ t.kv) \/ active'[ws] \in unreleased')
      BY DEF MappedAreOpen
    <2>1. ws \in Mapped /\ active'[ws] = active[ws] /\ active[ws] \in Objects
      BY <1>3, <1>4
    <2>2. /\ tenants[active[ws]].ws = ws
          /\ (tenants[active[ws]].vec /\ tenants[active[ws]].kv) \/ active[ws] \in unreleased
      BY <2>1 DEF TenantInv, MappedAreOpen
    <2> QED
      BY <2>1, <2>2
  <1> QED
    BY <1>5, <1>6 DEF TenantInv

\* A new object that is not open is nobody's entry, one that is open is its workspace's.
LEMMA MakingKeeps ==
    ASSUME TenantInv, NEW ws \in Workspaces, NEW i \in Objects, i = made + 1, made' = i,
           active[ws] = Nobody, NEW t \in Tenant, t.ws = ws,
           tenants' = [tenants EXCEPT ![i] = t], UNCHANGED <<unreleased, clock>>,
           \/ ~t.vec /\ ~t.kv /\ active' = active
           \/ t.vec /\ t.kv /\ active' = [active EXCEPT ![ws] = i]
    PROVE  TenantInv'
  <1>1. /\ active \in [Workspaces -> 0 .. made] /\ made \in 0 .. MaxOpens /\ MaxOpens \in Nat
        /\ tenants \in [Objects -> Tenant] /\ clock \in Nat
    BY TenantAssumption DEF TenantInv, TenantTypeOK
  <1>2. tenants' \in [Objects -> Tenant] /\ tenants'[i] = t
        /\ \A j \in Objects : j # i => tenants'[j] = tenants[j]
    BY <1>1
  <1>3. /\ active' \in [Workspaces -> 0 .. made'] /\ made' \in 0 .. MaxOpens
        /\ \A v \in Workspaces : v # ws => active'[v] = active[v]
        /\ \A v \in Workspaces : active[v] # i
    BY <1>1 DEF Objects
  <1>4. TenantTypeOK'
    BY <1>1, <1>2, <1>3 DEF TenantTypeOK
  <1>5. \A j \in Objects : j > made' => ~tenants'[j].vec /\ ~tenants'[j].kv
    BY <1>1, <1>2 DEF TenantInv, Objects
  <1>6. OpenAreMapped'
    <2> SUFFICES ASSUME NEW j \in Objects, tenants'[j].vec \/ tenants'[j].kv
                 PROVE  tenants'[j].ws # Nobody /\ active'[tenants'[j].ws] = j
      BY DEF OpenAreMapped
    <2>1. CASE j = i
      <3>1. ws # Nobody
        BY TenantAssumption DEF Nobody
      <3> QED
        BY <1>1, <1>2, <2>1, <3>1
    <2>2. CASE j # i
      <3>1. tenants[j].ws # Nobody /\ active[tenants[j].ws] = j /\ tenants'[j] = tenants[j]
        BY <1>2, <2>2 DEF TenantInv, OpenAreMapped
      <3>2. tenants[j].ws \in Workspaces
        BY <1>1, <3>1 DEF Tenant
      <3>3. tenants[j].ws # ws
        BY <3>1 DEF Objects, Nobody
      <3> QED
        BY <1>3, <3>1, <3>2, <3>3
    <2> QED
      BY <2>1, <2>2
  <1>7. MappedAreOpen'
    <2> SUFFICES ASSUME NEW v \in Mapped'
                 PROVE  LET u == tenants'[active'[v]]
                        IN  u.ws = v /\ ((u.vec /\ u.kv) \/ active'[v] \in unreleased')
      BY DEF MappedAreOpen
    <2>1. CASE v = ws /\ active' = [active EXCEPT ![ws] = i]
      <3>1. active'[ws] = i /\ t.vec /\ t.kv
        <4>1. active'[ws] = i
          BY <1>1, <2>1
        <4>2. i # Nobody
          BY DEF Objects, Nobody
        <4> QED
          BY <2>1, <4>1, <4>2
      <3> QED
        BY <1>2, <2>1, <3>1
    <2>2. CASE v # ws \/ active' = active
      <3>1. active'[v] = active[v] /\ v \in Mapped /\ v \in Workspaces
        BY <1>3, <2>2 DEF Mapped
      <3>2. active[v] \in Objects /\ active[v] # i
        BY <1>1, <1>3, <3>1 DEF Mapped, Objects, Nobody
      <3>3. /\ tenants[active[v]].ws = v
            /\ (tenants[active[v]].vec /\ tenants[active[v]].kv) \/ active[v] \in unreleased
        BY <3>1 DEF TenantInv, MappedAreOpen
      <3> QED
        BY <1>2, <3>1, <3>2, <3>3
    <2> QED
      BY <2>1, <2>2
  <1> QED
    BY <1>4, <1>5, <1>6, <1>7 DEF TenantInv

\* Whatever GetOrCreateTenant returns, and to whom.
LEMMA GetOrCreateKeeps ==
    ASSUME TenantInv, NEW ws \in Workspaces, NEW i, GetOrCreateTenant(ws, i),
           UNCHANGED <<unreleased, clock>>
    PROVE  TenantInv'
  <1>1. /\ active \in [Workspaces -> 0 .. made] /\ made \in 0 .. MaxOpens /\ MaxOpens \in Nat
        /\ tenants \in [Objects -> Tenant] /\ clock \in Nat
    BY TenantAssumption DEF TenantInv, TenantTypeOK
  <1>2. CASE GetExisting(ws, i)
    <2>1. i \in Objects /\ UNCHANGED <<active, made>>
      BY <1>1, <1>2 DEF GetExisting, Objects, Nobody
    <2>2. tenants' = [tenants EXCEPT ![i].last = clock]
      BY <1>2 DEF GetExisting
    <2>3. \A j \in Objects : /\ tenants'[j].ws = tenants[j].ws
                             /\ tenants'[j].vec = tenants[j].vec
                             /\ tenants'[j].kv = tenants[j].kv
      BY <1>1, <2>1, <2>2 DEF Tenant
    <2>4. tenants' \in [Objects -> Tenant]
      BY <1>1, <2>1, <2>2 DEF Tenant
    <2>5. TenantTypeOK'
      BY <1>1, <2>1, <2>4 DEF TenantTypeOK
    <2>6. \A j \in Objects : /\ tenants'[j].vec => tenants[j].vec
                             /\ tenants[j].vec => tenants'[j].vec
                             /\ tenants'[j].kv => tenants[j].kv
                             /\ tenants[j].kv => tenants'[j].kv
      BY <2>3
    <2>7. \A v \in Mapped' : active[v] \in Objects
      BY <1>1, <2>1 DEF Mapped, Objects, Nobody
    <2> QED
      BY <2>1, <2>3, <2>5, <2>6, <2>7, ClosingKeeps
  <1>3. CASE Create(ws, i)
    <2>1. i \in Objects /\ i = made + 1 /\ made' = i /\ active[ws] = Nobody
      BY <1>1, <1>3 DEF Create, Objects
    <2> PICK t : t = Object(ws, TRUE)
      OBVIOUS
    <2>2. t \in Tenant /\ t.ws = ws /\ t.vec /\ t.kv
      BY <1>1 DEF Object, Tenant
    <2>3. tenants' = [tenants EXCEPT ![i] = t] /\ active' = [active EXCEPT ![ws] = i]
      BY <1>3 DEF Create
    <2> QED
      BY <2>1, <2>2, <2>3, MakingKeeps
  <1>4. CASE NoKVStore(ws, i)
    <2>1. made + 1 \in Objects /\ made' = made + 1 /\ active[ws] = Nobody /\ active' = active
      BY <1>1, <1>4 DEF NoKVStore, Objects
    <2> PICK t : t = Object(ws, FALSE)
      OBVIOUS
    <2>2. t \in Tenant /\ t.ws = ws /\ ~t.vec /\ ~t.kv
      BY <1>1 DEF Object, Tenant
    <2>3. tenants' = [tenants EXCEPT ![made + 1] = t]
      BY <1>4 DEF NoKVStore
    <2> QED
      BY <2>1, <2>2, <2>3, MakingKeeps
  <1>5. CASE NoRoom(ws, i) \/ NoVectorStore(ws, i)
    <2>1. UNCHANGED <<active, tenants, made, unreleased, clock>>
      BY <1>5 DEF NoRoom, NoVectorStore
    <2> QED
      BY <2>1 DEF TenantInv, TenantTypeOK, OpenAreMapped, MappedAreOpen, Mapped
  <1> QED
    BY <1>2, <1>3, <1>4, <1>5 DEF GetOrCreateTenant

\* Idle tenants lose their stores and their entries together.
LEMMA EvictKeeps ==
    ASSUME TenantInv, EvictIdleTenants
    PROVE  TenantInv'
  <1>1. /\ active \in [Workspaces -> 0 .. made] /\ made \in 0 .. MaxOpens /\ MaxOpens \in Nat
        /\ tenants \in [Objects -> Tenant] /\ clock \in Nat
    BY TenantAssumption DEF TenantInv, TenantTypeOK
  <1> DEFINE Gone(i) == \E ws \in Workspaces : Expired(ws) /\ i = active[ws]
             Shut(t) == [t EXCEPT !.vec = FALSE, !.kv = FALSE]
  <1>2. \A t \in Tenant : Shut(t) \in Tenant /\ Shut(t).ws = t.ws
                            /\ ~Shut(t).vec /\ ~Shut(t).kv
    BY DEF Tenant
  <1>3. tenants' = [i \in Objects |-> IF Gone(i) THEN Shut(tenants[i]) ELSE tenants[i]]
    BY DEF EvictIdleTenants
  <1>4. /\ active' = [ws \in Workspaces |-> IF Expired(ws) THEN Nobody ELSE active[ws]]
        /\ UNCHANGED <<made, unreleased, clock>>
    BY DEF EvictIdleTenants
  <1> HIDE DEF Shut
  <1>5. \A i \in Objects : /\ tenants'[i] \in Tenant
                           /\ Gone(i) => ~tenants'[i].vec /\ ~tenants'[i].kv
                           /\ ~Gone(i) => tenants'[i] = tenants[i]
                           /\ tenants'[i].ws = tenants[i].ws
    BY <1>1, <1>2, <1>3
  <1>6. tenants' \in [Objects -> Tenant]
    BY <1>3, <1>5
  <1>7. active' \in [Workspaces -> 0 .. made]
    BY <1>1, <1>4 DEF Nobody
  <1>8. TenantTypeOK'
    BY <1>1, <1>4, <1>6, <1>7 DEF TenantTypeOK
  <1>9. \A ws \in Workspaces : active'[ws] \in {active[ws], Nobody}
    BY <1>4
  <1>10. \A i \in Objects : tenants'[i].vec \/ tenants'[i].kv =>
             active'[tenants[i].ws] = active[tenants[i].ws]
    <2> SUFFICES ASSUME NEW i \in Objects, tenants'[i].vec \/ tenants'[i].kv
                 PROVE  active'[tenants[i].ws] = active[tenants[i].ws]
      OBVIOUS
    <2>1. ~Gone(i) /\ tenants'[i] = tenants[i]
      BY <1>5
    <2>2. tenants[i].ws # Nobody /\ active[tenants[i].ws] = i
      BY <2>1 DEF TenantInv, OpenAreMapped
    <2>3. tenants[i].ws \in Workspaces
      BY <1>1, <2>2 DEF Tenant
    <2> QED
      BY <1>4, <2>1, <2>2, <2>3
  <1>11. \A ws \in Mapped' : tenants'[active[ws]] = tenants[active[ws]]
    <2> SUFFICES ASSUME NEW ws \in Mapped'
                 PROVE  tenants'[active[ws]] = tenants[active[ws]]
      OBVIOUS
    <2>1. ws \in Mapped /\ ~Expired(ws) /\ active[ws] \in Objects
      BY <1>1, <1>4 DEF Mapped, Objects, Nobody
    <2>2. ASSUME NEW v \in Workspaces, Expired(v), active[v] = active[ws]
          PROVE  v = ws
      BY <2>1, <2>2 DEF TenantInv, MappedAreOpen, Mapped, Expired
    <2> QED
      BY <1>5, <2>1, <2>2
  <1> HIDE DEF Gone
  <1>12. \A i \in Objects : /\ tenants'[i].vec => tenants[i].vec
                            /\ tenants'[i].kv => tenants[i].kv
    BY <1>5
  <1> QED
    BY <1>4, <1>5, <1>8, <1>9, <1>10, <1>11, <1>12, ClosingKeeps

\* A release closes what it can, and takes the entry away or remembers that it did not.
LEMMA ReleaseKeeps ==
    ASSUME TenantInv, NEW ws \in Workspaces, ReleaseTenant(ws)
    PROVE  TenantInv'
  <1>1. /\ active \in [Workspaces -> 0 .. made] /\ made \in 0 .. MaxOpens /\ MaxOpens \in Nat
        /\ tenants \in [Objects -> Tenant] /\ clock \in Nat
    BY TenantAssumption DEF TenantInv, TenantTypeOK
  <1> DEFINE i == active[ws]
             Half(t) == [t EXCEPT !.vec = FALSE]
             Shut(t) == [t EXCEPT !.vec = FALSE, !.kv = FALSE]
  <1>2. ws \in Mapped /\ i \in Objects /\ tenants[i].ws = ws /\ tenants[i] \in Tenant
    <2>1. active[ws] # Nobody
      BY DEF ReleaseTenant
    <2>2. ws \in Mapped /\ i \in Objects
      BY <1>1, <2>1 DEF Mapped, Objects, Nobody
    <2> QED
      BY <1>1, <2>2 DEF TenantInv, MappedAreOpen
  <1>3. \A t \in Tenant : /\ Shut(t) \in Tenant /\ Shut(t).ws = t.ws
                          /\ ~Shut(t).vec /\ ~Shut(t).kv
                          /\ Half(t) \in Tenant /\ Half(t).ws = t.ws
                          /\ ~Half(t).vec /\ (Half(t).kv => t.kv)
    BY DEF Tenant
  <1>4. /\ UNCHANGED <<made, clock>>
        /\ \/ /\ tenants' = [tenants EXCEPT ![i] = Shut(tenants[i])]
              /\ active' = [active EXCEPT ![ws] = Nobody]
              /\ unreleased' = unreleased
           \/ /\ \/ tenants' = [tenants EXCEPT ![i] = Half(tenants[i])]
                 \/ tenants' = [tenants EXCEPT ![i] = Shut(tenants[i])]
              /\ unreleased' = unreleased \cup {i}
              /\ active' = active
    BY <1>1, <1>2 DEF ReleaseTenant
  <1>5. PICK t \in Tenant : /\ tenants' = [tenants EXCEPT ![i] = t]
                            /\ t.ws = ws /\ ~t.vec /\ (t.kv => tenants[i].kv)
                            /\ active' = [active EXCEPT ![ws] = Nobody] => ~t.kv
    <2> HIDE DEF Shut, Half
    <2>1. CASE active' = [active EXCEPT ![ws] = Nobody]
      <3>1. active' # active
        BY <1>1, <1>2, <2>1 DEF Mapped
      <3> QED
        BY <1>2, <1>3, <1>4, <3>1
    <2>2. CASE active' # [active EXCEPT ![ws] = Nobody]
      BY <1>2, <1>3, <1>4, <2>2
    <2> QED
      BY <2>1, <2>2
  <1>6. /\ unreleased \subseteq unreleased'
        /\ \/ active' = [active EXCEPT ![ws] = Nobody]
           \/ active' = active /\ i \in unreleased'
    BY <1>4
  <1>7. /\ tenants' \in [Objects -> Tenant]
        /\ tenants'[i] = t
        /\ \A j \in Objects : j # i => tenants'[j] = tenants[j]
    BY <1>1, <1>2, <1>5
  <1>8. /\ active' \in [Workspaces -> 0 .. made]
        /\ \A v \in Workspaces : v # ws => active'[v] = active[v]
        /\ active'[ws] \in {i, Nobody}
    BY <1>1, <1>6 DEF Nobody
  <1>9. TenantTypeOK'
    BY <1>1, <1>4, <1>7, <1>8 DEF TenantTypeOK
  <1>10. \A j \in Objects : /\ tenants'[j].ws = tenants[j].ws
                            /\ tenants'[j].vec => tenants[j].vec
                            /\ tenants'[j].kv => tenants[j].kv
    BY <1>2, <1>5, <1>7
  <1>11. \A j \in Objects : tenants'[j].vec \/ tenants'[j].kv =>
             active'[tenants[j].ws] = active[tenants[j].ws]
    <2> SUFFICES ASSUME NEW j \in Objects, tenants'[j].vec \/ tenants'[j].kv,
                        active' # active
                 PROVE  active'[tenants[j].ws] = active[tenants[j].ws]
      OBVIOUS
    <2>1. j # i /\ tenants'[j] = tenants[j]
      BY <1>5, <1>6, <1>7
    <2>2. tenants[j].ws # Nobody /\ active[tenants[j].ws] = j
      BY <2>1 DEF TenantInv, OpenAreMapped
    <2>3. tenants[j].ws \in Workspaces
      BY <1>1, <2>2 DEF Tenant
    <2> QED
      BY <1>8, <2>1, <2>2, <2>3
  <1>12. \A v \in Mapped' : active[v] \in unreleased' \/ tenants'[active[v]] = tenants[active[v]]
    <2> SUFFICES ASSUME NEW v \in Mapped', active[v] \notin unreleased'
                 PROVE  tenants'[active[v]] = tenants[active[v]]
      OBVIOUS
    <2>1. v \in Mapped /\ active[v] \in Objects
      BY <1>1, <1>8 DEF Mapped, Objects, Nobody
    <2>2. CASE active[v] = i
      <3>1. v = ws
        BY <1>2, <2>1, <2>2 DEF TenantInv, MappedAreOpen
      <3>2. active' = [active EXCEPT ![ws] = Nobody]
        BY <1>6, <2>2
      <3> QED
        BY <1>1, <3>1, <3>2 DEF Mapped
    <2> QED
      BY <1>7, <2>1, <2>2
  <1> HIDE DEF i
  <1>13. \A v \in Workspaces : active'[v] \in {active[v], Nobody}
    BY <1>8 DEF i
  <1> QED
    BY <1>4, <1>6, <1>9, <1>10, <1>11, <1>12, <1>13, ClosingKeeps

LEMMA TenantInductive == TenantInv /\ [TenantNext]_tvars => TenantInv'
  <1> SUFFICES ASSUME TenantInv, [TenantNext]_tvars
               PROVE  TenantInv'
    OBVIOUS
  <1>1. ASSUME NEW c \in Conns, NEW ws \in Workspaces, WorkspaceInit(c, ws)
        PROVE  TenantInv'
    BY <1>1, GetOrCreateKeeps DEF WorkspaceInit
  <1>2. ASSUME NEW r \in Requests, NEW ws \in Workspaces, WebSocketQuery(r, ws)
        PROVE  TenantInv'
    BY <1>2, GetOrCreateKeeps DEF WebSocketQuery
  <1>3. ASSUME NEW ws \in Workspaces, ReleaseTenant(ws)
        PROVE  TenantInv'
    BY <1>3, ReleaseKeeps
  <1>4. CASE EvictIdleTenants
    BY <1>4, EvictKeeps
  <1>5. CASE Tick
    <2>1. UNCHANGED <<active, tenants, made, unreleased>> /\ clock' = clock + 1
      BY <1>5 DEF Tick
    <2> QED
      BY <2>1 DEF TenantInv, TenantTypeOK, OpenAreMapped, MappedAreOpen, Mapped
  <1>6. ASSUME UNCHANGED <<active, tenants, made, unreleased, clock>>
        PROVE  TenantInv'
    BY <1>6 DEF TenantInv, TenantTypeOK, OpenAreMapped, MappedAreOpen, Mapped
  <1>7. ASSUME NEW c \in Conns, Disconnect(c) \/ \E r \in Requests : Command(r, c)
        PROVE  TenantInv'
    BY <1>6, <1>7 DEF Disconnect, Command
  <1>8. ASSUME NEW r \in Requests,
               UseStores(r) \/ \E ws \in Workspaces : HttpRequest(r, ws)
        PROVE  TenantInv'
    BY <1>6, <1>8 DEF UseStores, HttpRequest
  <1>9. CASE UNCHANGED tvars
    BY <1>6, <1>9 DEF tvars
  <1> QED
    BY <1>1, <1>2, <1>3, <1>4, <1>5, <1>7, <1>8, <1>9 DEF TenantNext

\* Whatever GetOrCreate, ReleaseTenant and EvictIdle do in any order: an object not yet
\* made has no open store, an open store belongs to its workspace's entry, and an entry
\* has both stores open unless its release failed.
THEOREM TenantInvariant == TenantSpec => []TenantInv
  BY TenantInitially, TenantInductive, PTL DEF TenantSpec

\* No store is left open, and its file locked, by an object nobody would close.
THEOREM StoresAreOwned == TenantSpec => []OpenAreMapped
  <1>1. TenantInv => OpenAreMapped
    BY DEF TenantInv
  <1> QED
    BY <1>1, TenantInvariant, PTL

\* Whoever is given a tenant gets its own workspace's, with both stores open, but for
\* one that ReleaseTenant failed to close.
THEOREM EntriesAreOpen == TenantSpec => []MappedAreOpen
  <1>1. TenantInv => MappedAreOpen
    BY DEF TenantInv
  <1> QED
    BY <1>1, TenantInvariant, PTL
=============================================================================
