---------------------------- MODULE ToolExecutor ----------------------------
(***************************************************************************)
(* Executor (internal/tools/executor.go): one call of ExecuteParallel.  A  *)
(* batch of one execution runs directly, a batch in which some execution   *)
(* has dependencies in list order until one fails, any other batch in one  *)
(* goroutine per execution, of which MaxWorkers at a time hold the         *)
(* semaphore.  Results are kept by the execution's ID, which its caller    *)
(* chooses.  ctx is looked at before an execution waits for the semaphore, *)
(* not while it waits; what a tool makes of ctx is left open.              *)
(***************************************************************************)
EXTENDS Integers, Sequences, FiniteSets

CONSTANTS
    Ids,            \* IDs of tool calls
    MaxWorkers      \* Executor.maxWorkers, 4 in the code

ASSUME ExecutorAssumption == MaxWorkers \in Nat \ {0}

VARIABLES
    batch,      \* the executions, in the order given
    mode,       \* how the call runs them
    at,         \* where each execution is
    results,    \* for each ID which execution's result is kept, and was it an error
    cancelled   \* ctx is done

executor == <<batch, mode, at, results>>
executorVars == <<executor, cancelled>>

Execution == [id : Ids, dependsOn : SUBSET Ids]

NoResult == [of |-> 0, isError |-> FALSE]

ExecutorInit ==
    /\ batch = <<>>
    /\ mode = "idle"
    /\ at = <<>>
    /\ results = [id \in Ids |-> NoResult]
    /\ cancelled = FALSE

HasDependencies(b) == \E i \in DOMAIN b : b[i].dependsOn # {}

\* Mutant: the choice looks at the first execution only.
BugModeOf(b) ==
    IF Len(b) = 0 THEN "returning"
    ELSE IF Len(b) = 1 \/ b[1].dependsOn # {} THEN "sequential" ELSE "parallel"

\* A single execution is an order of one.
ModeOf(b) ==
    IF Len(b) = 0 THEN "returning"
    ELSE IF Len(b) = 1 \/ HasDependencies(b) THEN "sequential" ELSE "parallel"

ExecuteParallel(b) ==
    /\ mode = "idle"
    /\ batch' = b
    /\ mode' = ModeOf(b)
    /\ at' = [i \in DOMAIN b |-> "ready"]
    /\ results' = [id \in Ids |-> NoResult]
    /\ UNCHANGED cancelled

Put(i, isError) == results' = [results EXCEPT ![batch[i].id] = [of |-> i, isError |-> isError]]
Move(i, place)  == at' = [at EXCEPT ![i] = place]

Executing == {i \in DOMAIN at : at[i] = "executing"}

\* The tool is not there, fails or succeeds.
ToolReturns(i) ==
    /\ at[i] = "executing"
    /\ \E isError \in BOOLEAN :
         /\ Put(i, isError)
         /\ Move(i, IF isError THEN "failed" ELSE "done")
    /\ UNCHANGED <<batch, mode, cancelled>>

-----------------------------------------------------------------------------
\* The goroutine of an execution looks at ctx once.
Look(i) ==
    /\ mode = "parallel"
    /\ at[i] = "ready"
    /\ \/ cancelled /\ Put(i, TRUE) /\ Move(i, "failed")
       \/ ~cancelled /\ Move(i, "waiting") /\ UNCHANGED results
    /\ UNCHANGED <<batch, mode, cancelled>>

Acquire(i) ==
    /\ at[i] = "waiting"
    /\ Cardinality(Executing) < MaxWorkers
    /\ Move(i, "executing")
    /\ UNCHANGED <<batch, mode, results, cancelled>>

\* Mutant: a failed execution is not counted off.
BugOver(i) == at[i] = "done"

Over(i) == at[i] \in {"done", "failed"}

\* Mutant: wg.Wait() is left out.
BugJoin ==
    /\ mode = "parallel"
    /\ mode' = "returning"
    /\ UNCHANGED <<batch, at, results, cancelled>>

\* wg.Wait().
Join ==
    /\ mode = "parallel"
    /\ \A i \in DOMAIN batch : Over(i)
    /\ mode' = "returning"
    /\ UNCHANGED <<batch, at, results, cancelled>>

-----------------------------------------------------------------------------
\* The loop of ExecuteSequential goes past an execution only if it succeeded.
IsNext(i) == at[i] = "ready" /\ \A j \in 1 .. i - 1 : at[j] = "done"

\* A batch of one is executed without a look at ctx.
StartInOrder(i) ==
    /\ mode = "sequential"
    /\ IsNext(i)
    /\ ~cancelled \/ Len(batch) = 1
    /\ Move(i, "executing")
    /\ UNCHANGED <<batch, mode, results, cancelled>>

\* Cancelled before execution i: it gets an error, the rest no result.
StopInOrder(i) ==
    /\ mode = "sequential"
    /\ IsNext(i)
    /\ cancelled /\ Len(batch) > 1
    /\ Put(i, TRUE)
    /\ Move(i, "failed")
    /\ UNCHANGED <<batch, mode, cancelled>>

EndOfOrder ==
    /\ mode = "sequential"
    /\ \/ \E i \in DOMAIN batch : at[i] = "failed"
       \/ \A i \in DOMAIN batch : at[i] = "done"
    /\ mode' = "returning"
    /\ UNCHANGED <<batch, at, results, cancelled>>

-----------------------------------------------------------------------------
Step ==
    \/ \E i \in DOMAIN at : Look(i) \/ Acquire(i) \/ ToolReturns(i)
    \/ \E i \in DOMAIN at : StartInOrder(i) \/ StopInOrder(i)
    \/ Join \/ EndOfOrder

\* The caller takes the results.
Return ==
    /\ mode = "returning"
    /\ mode' = "idle"
    /\ UNCHANGED <<batch, at, results, cancelled>>

Cancel ==
    /\ ~cancelled
    /\ cancelled' = TRUE
    /\ UNCHANGED executor
=============================================================================
