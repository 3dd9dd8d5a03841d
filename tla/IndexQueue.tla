----------------------------- MODULE IndexQueue -----------------------------
(***************************************************************************)
(* The indexing queue of ResourcePool (internal/core/manager/              *)
(* resource_pool.go).  EnqueueIndexing appends a task and starts one       *)
(* goroutine; a goroutine takes the first task there is, not necessarily   *)
(* the one it was started for, waits for a permit at most 30 minutes, and  *)
(* runs the callback.  A goroutine whose wait times out enqueues its task  *)
(* again.  Priority and tenant of a task do not change what happens to it.  *)
(***************************************************************************)
EXTENDS WeightedSemaphore

CONSTANTS
    Tasks,          \* calls of EnqueueIndexing
    Tenants,
    TenantOf,       \* tenant of each task
    MaxTimeouts     \* bound: waits that time out

ASSUME QueueAssumption ==
    /\ TenantOf \in [Tasks -> Tenants]
    /\ MaxTimeouts \in Nat

VARIABLES
    items,      \* indexQueue.items
    spawned,    \* goroutines that have not taken a task yet
    at,         \* where the task is
    sem,        \* indexQueue.semaphore
    errorCount, \* tenantStats[tenant].ErrorCount, 0 when there is no entry
    runs,       \* history: times the callback was called
    timeouts    \* waits that timed out so far

vars == <<items, spawned, at, sem, errorCount, runs, timeouts>>

Places == {"new", "queued", "taken", "blocked", "timed out", "running", "failed",
           "leaving", "done"}

Init ==
    /\ items = <<>>
    /\ spawned = 0
    /\ at = [t \in Tasks |-> "new"]
    /\ sem = Unused
    /\ errorCount = [n \in Tenants |-> 0]
    /\ runs = [t \in Tasks |-> 0]
    /\ timeouts = 0

Goto(t, place) == at' = [at EXCEPT ![t] = place]

\* A new task, or one whose goroutine got no permit: appended whatever its
\* priority, with a goroutine of its own.
EnqueueIndexing(t) ==
    /\ at[t] \in {"new", "timed out"}
    /\ items' = Append(items, t)
    /\ spawned' = spawned + 1
    /\ Goto(t, "queued")
    /\ UNCHANGED <<sem, errorCount, runs, timeouts>>

\* Mutant: the head of the queue is read but not removed.
BugTakeTask ==
    /\ spawned > 0
    /\ spawned' = spawned - 1
    /\ items # <<>>
    /\ Goto(Head(items), "taken")
    /\ UNCHANGED <<items, sem, errorCount, runs, timeouts>>

\* A goroutine takes the head of the queue, or returns when there is none.
TakeTask ==
    /\ spawned > 0
    /\ spawned' = spawned - 1
    /\ IF items = <<>>
       THEN UNCHANGED <<items, at>>
       ELSE items' = Tail(items) /\ Goto(Head(items), "taken")
    /\ UNCHANGED <<sem, errorCount, runs, timeouts>>

Run(t) ==
    /\ Goto(t, "running")
    /\ runs' = [runs EXCEPT ![t] = @ + 1]

\* Mutant: a goroutine that finds no permit free runs its task all the same.
BugAcquire(t) ==
    /\ at[t] = "taken"
    /\ Run(t)
    /\ sem' = Admit(sem, t)
    /\ UNCHANGED <<items, spawned, errorCount, timeouts>>

Acquire(t) ==
    /\ at[t] = "taken"
    /\ \/ Admits(sem) /\ sem' = Admit(sem, t) /\ Run(t)
       \/ ~Admits(sem) /\ sem' = Wait(sem, t) /\ Goto(t, "blocked") /\ UNCHANGED runs
    /\ UNCHANGED <<items, spawned, errorCount, timeouts>>

\* A waiter that has been given a permit wakes up and calls its callback.
Wake(t) ==
    /\ at[t] = "blocked"
    /\ t \in sem.held
    /\ Run(t)
    /\ UNCHANGED <<items, spawned, sem, errorCount, timeouts>>

\* 30 minutes are over, before or after the permit has come.
TimesOut(t) ==
    /\ timeouts < MaxTimeouts
    /\ at[t] = "blocked"
    /\ sem' = GiveUp(sem, t)
    /\ Goto(t, "timed out")
    /\ timeouts' = timeouts + 1
    /\ UNCHANGED <<items, spawned, errorCount, runs>>

\* The callback returns.
Return(t) ==
    /\ at[t] = "running"
    /\ Goto(t, "leaving") \/ Goto(t, "failed")
    /\ UNCHANGED <<items, spawned, sem, errorCount, runs, timeouts>>

CountError(t) ==
    /\ at[t] = "failed"
    /\ errorCount' = [errorCount EXCEPT ![TenantOf[t]] = @ + 1]
    /\ Goto(t, "leaving")
    /\ UNCHANGED <<items, spawned, sem, runs, timeouts>>

\* The deferred release.
Release(t) ==
    /\ at[t] = "leaving"
    /\ sem' = Give(sem, t)
    /\ Goto(t, "done")
    /\ UNCHANGED <<items, spawned, errorCount, runs, timeouts>>

ResetTenantStats(n) ==
    /\ errorCount' = [errorCount EXCEPT ![n] = 0]
    /\ UNCHANGED <<items, spawned, at, sem, runs, timeouts>>

Finished == (\A t \in Tasks : at[t] = "done") /\ UNCHANGED vars

\* The goroutine that has taken task t; it blocks in Acquire only.
Goroutine(t) ==
    \/ Acquire(t) \/ Wake(t) \/ Return(t) \/ CountError(t) \/ Release(t)
    \/ (at[t] = "timed out" /\ EnqueueIndexing(t))

Next ==
    \/ TakeTask
    \/ \E t \in Tasks : Goroutine(t) \/ TimesOut(t)
    \/ \E t \in Tasks : at[t] = "new" /\ EnqueueIndexing(t)
    \/ \E n \in Tenants : ResetTenantStats(n)
    \/ Finished

Spec == Init /\ [][Next]_vars

\* Goroutines are scheduled and callbacks return; nobody has to enqueue, to time
\* out or to reset.
FairSpec == Spec /\ WF_vars(TakeTask) /\ \A t \in Tasks : WF_vars(Goroutine(t))
=============================================================================
