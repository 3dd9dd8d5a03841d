-------------------------- MODULE IndexQueueProps ---------------------------
(* What the indexing queue promises to those who enqueue.                  *)
EXTENDS IndexQueue

TypeOK ==
    /\ items \in Seq(Tasks)
    /\ spawned \in Nat
    /\ at \in [Tasks -> Places]
    /\ sem \in [held : SUBSET Tasks, waiters : Seq(Tasks)]
    /\ Cardinality(sem.held) <= Permits
    /\ errorCount \in [Tenants -> Nat]
    /\ runs \in [Tasks -> Nat]
    /\ timeouts \in 0 .. MaxTimeouts

\* Tasks whose callback may be under way.
Indexing == {t \in Tasks : at[t] \in {"running", "failed", "leaving"}}

\* MaxConcurrentIndexing: at no time do more tasks run than there are permits,
\* whatever has timed out or been enqueued again.
IndexingBounded == Cardinality(Indexing) <= Permits

\* Goroutines do not take the task they were started for, yet none is missing:
\* there are as many as tasks in the queue.
EveryItemHasAGoroutine == spawned = Len(items)

\* A goroutine waits only while all permits are held, by tasks that run or are
\* about to: a permit that came too late for one waiter is not lost.
NoPermitIdle ==
    /\ WorkConserving(sem)
    /\ \A t \in sem.held : t \in Indexing \/ at[t] = "blocked"

\* However often a task is enqueued again its callback is called once.
CallbackOnce == \A t \in Tasks : runs[t] <= 1

\* A task is done only after its callback was called, and an enqueued task gets
\* there as long as waits do not time out for ever.
EveryTaskDone == \A t \in Tasks : at[t] = "queued" ~> (at[t] = "done" /\ runs[t] = 1)
=============================================================================
