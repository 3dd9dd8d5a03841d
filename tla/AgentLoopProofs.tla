-------------------------- MODULE AgentLoopProofs ---------------------------
(* The Executor for every batch, and the query loop for every response, any *)
(* number of turns and of workers.                                         *)
EXTENDS AgentLoopProps, FiniteSetTheorems, SequenceTheorems, TLAPS

Places == {"ready", "waiting", "executing", "done", "failed"}

\* Every execution has a place; what is under way fits how the call runs the batch.
PlacesInv ==
    /\ batch \in Seq(Execution)
    /\ at \in [DOMAIN batch -> Places]
    /\ mode \in {"idle", "sequential", "parallel", "returning"}
    /\ mode \in {"idle", "returning"} =>
          \A i \in DOMAIN batch : at[i] \notin {"waiting", "executing"}
    /\ mode = "sequential" =>
          \A i \in DOMAIN batch :
              at[i] # "waiting" /\ (at[i] # "ready" => \A j \in 1 .. i - 1 : at[j] = "done")
    /\ mode = "parallel" => ~HasDependencies(batch)

\* The semaphore is respected.
WorkersInv == IsFiniteSet(Executing) /\ Cardinality(Executing) <= MaxWorkers

\* What is kept under an ID is the result of an execution with that ID, and an
\* execution that is over has one; without dependencies all are over in the end.
ResultsInv ==
    /\ results \in [Ids -> [of : Nat, isError : BOOLEAN]]
    /\ \A id \in Ids : results[id].of # 0 =>
          results[id].of \in DOMAIN batch /\ batch[results[id].of].id = id
    /\ \A i \in DOMAIN batch : Over(i) => results[batch[i].id].of # 0
    /\ mode = "sequential" => Len(batch) = 1 \/ HasDependencies(batch)
    /\ mode = "returning" /\ ~HasDependencies(batch) => \A i \in DOMAIN batch : Over(i)

\* The Executor works for the query only while the query waits for it.
CallInv ==
    /\ phase \in {"start", "embedding", "asking", "announcing", "executing",
                  "closing", "closed", "direct"}
    /\ phase \notin {"executing", "direct"} => mode = "idle"
    /\ calls \in Seq(Ids)
    /\ phase = "executing" => batch = Executions

Message == [role : {"assistant"}, ids : Seq(Ids)]
           \cup [role : {"tool"}, id : Ids, of : Nat]

\* The message at k is followed by an answer to each of its calls.
Answered(k) ==
    LET ids == history[k].ids
    IN  /\ k + Len(ids) <= Len(history)
        /\ \A i \in 1 .. Len(ids) :
              /\ history[k + i].role = "tool"
              /\ history[k + i].id = ids[i]
              /\ history[k + i].of \in 1 .. Len(ids)
              /\ ids[history[k + i].of] = ids[i]

\* Only the calls of this turn can be without an answer, and they come last.
HistoryInv ==
    /\ history \in Seq(Message)
    /\ \A k \in Assistants :
          \/ Answered(k)
          \/ /\ phase \in {"announcing", "executing"}
             /\ k = Len(history) /\ history[k].ids = calls

\* The final chunk is the last one sent, and it is taken before the close.
FinalInv ==
    /\ phase \notin {"closing", "closed"} => finals = 0 /\ offered # "final"
    /\ phase = "closing" =>
          \/ finals = 0 /\ offered = "final"
          \/ finals = 1 /\ offered = Nothing
    /\ phase = "closed" => finals = 1 /\ offered = Nothing

ExecutorStep == Step \/ Return \/ Cancel \/ \E b \in Seq(Execution) : ExecuteParallel(b)

-----------------------------------------------------------------------------
\* A step that moves one execution.
LEMMA Moved ==
    ASSUME PlacesInv, NEW i \in DOMAIN at, NEW place \in Places, Move(i, place)
    PROVE  /\ DOMAIN at = DOMAIN batch
           /\ at' \in [DOMAIN batch -> Places]
           /\ \A j \in DOMAIN batch : at'[j] = IF j = i THEN place ELSE at[j]
  BY DEF PlacesInv, Move

\* A batch run in order has one execution at most under way, those before it have
\* succeeded and those after it have not begun.
LEMMA OneInOrder ==
    ASSUME PlacesInv, mode = "sequential", NEW i \in DOMAIN at, IsNext(i) \/ at[i] # "ready"
    PROVE  /\ \A j \in 1 .. i - 1 : at[j] = "done"
           /\ \A j \in DOMAIN batch : j > i => at[j] = "ready" \/ at[i] = "done"
  <1>1. /\ DOMAIN at = 1 .. Len(batch) /\ DOMAIN batch = 1 .. Len(batch)
        /\ Len(batch) \in Nat
    BY LenProperties DEF PlacesInv
  <1>2. \A k \in 1 .. Len(batch) : at[k] # "ready" => \A j \in 1 .. k - 1 : at[j] = "done"
    BY <1>1 DEF PlacesInv
  <1>3. i \in 1 .. Len(batch)
    BY <1>1
  <1>4. \A j \in 1 .. i - 1 : at[j] = "done"
    BY <1>2, <1>3 DEF IsNext
  <1>5. \A j \in 1 .. Len(batch) : j > i => i \in 1 .. j - 1
    BY <1>1, <1>3
  <1>6. \A j \in 1 .. Len(batch) : j > i => at[j] = "ready" \/ at[i] = "done"
    BY <1>2, <1>5
  <1> QED
    BY <1>1, <1>4, <1>6

LEMMA PlacesInductive == PlacesInv /\ (ExecutorStep \/ UNCHANGED executorVars) => PlacesInv'
  <1> SUFFICES ASSUME PlacesInv, ExecutorStep \/ UNCHANGED executorVars
               PROVE  PlacesInv'
    OBVIOUS
  <1>0. /\ DOMAIN at = DOMAIN batch
        /\ DOMAIN batch = 1 .. Len(batch) /\ Len(batch) \in Nat
    BY LenProperties DEF PlacesInv
  <1>1. ASSUME NEW i \in DOMAIN at, Look(i)
        PROVE  PlacesInv'
    <2>1. PICK place \in {"failed", "waiting"} : Move(i, place)
      BY <1>1 DEF Look
    <2>2. mode = "parallel" /\ mode' = mode /\ batch' = batch
      BY <1>1 DEF Look
    <2>3. at' \in [DOMAIN batch -> Places]
      BY <2>1, Moved DEF Places
    <2> QED
      BY <2>2, <2>3 DEF PlacesInv
  <1>2. ASSUME NEW i \in DOMAIN at, Acquire(i)
        PROVE  PlacesInv'
    <2>1. at[i] = "waiting" /\ mode' = mode /\ batch' = batch
      BY <1>2 DEF Acquire
    <2>2. mode = "parallel"
      BY <1>0, <2>1 DEF PlacesInv
    <2>3. at' \in [DOMAIN batch -> Places]
      BY <1>2, Moved DEF Acquire, Places
    <2> QED
      BY <2>1, <2>2, <2>3 DEF PlacesInv
  <1>3. ASSUME NEW i \in DOMAIN at, NEW place \in {"executing", "done", "failed"}, Move(i, place),
               mode = "sequential", UNCHANGED <<batch, mode>>,
               \A j \in 1 .. i - 1 : at[j] = "done",
               \A j \in DOMAIN batch : j > i => at[j] = "ready"
        PROVE  PlacesInv'
    <2>0. place \in Places /\ Move(i, place)
      BY <1>3 DEF Places
    <2>1. /\ at' \in [DOMAIN batch -> Places]
          /\ \A j \in DOMAIN batch : at'[j] = IF j = i THEN place ELSE at[j]
      BY <2>0, Moved
    <2>2. i \in 1 .. Len(batch)
      BY <1>0
    <2>3. /\ \A j \in 1 .. i - 1 : j \in DOMAIN batch /\ j # i
          /\ \A j \in DOMAIN batch : j > i => j # i
      BY <1>0, <2>2
    <2>5. \A j \in 1 .. i - 1 : at'[j] = "done"
      BY <1>3, <2>1, <2>3
    <2>6. \A j \in DOMAIN batch : j > i => at'[j] = "ready"
      BY <1>3, <2>1, <2>3
    <2>4. \A j \in DOMAIN batch :
             at'[j] # "waiting" /\ (at'[j] # "ready" => \A k \in 1 .. j - 1 : at'[k] = "done")
      <3> TAKE j \in DOMAIN batch
      <3>0. j \in 1 .. Len(batch)
        BY <1>0
      <3>1. CASE j > i
        BY <2>6, <3>1
      <3>2. CASE j < i
        <4>1. j \in 1 .. i - 1 /\ \A k \in 1 .. j - 1 : k \in 1 .. i - 1
          BY <1>0, <2>2, <3>0, <3>2
        <4> QED
          BY <2>5, <4>1
      <3>3. CASE j = i
        BY <1>3, <2>1, <2>5, <3>3
      <3> QED
        BY <1>0, <2>2, <3>0, <3>1, <3>2, <3>3
    <2> QED
      BY <1>3, <2>1, <2>4 DEF PlacesInv
  <1>4. ASSUME NEW i \in DOMAIN at, ToolReturns(i)
        PROVE  PlacesInv'
    <2>1. /\ at[i] = "executing" /\ mode' = mode /\ batch' = batch
          /\ \E place \in {"done", "failed"} : Move(i, place)
      BY <1>4 DEF ToolReturns
    <2>2. PICK place \in {"done", "failed"} : Move(i, place)
      BY <2>1
    <2>3. mode \in {"sequential", "parallel"}
      BY <1>0, <2>1 DEF PlacesInv
    <2>4. CASE mode = "parallel"
      <3>1. at' \in [DOMAIN batch -> Places]
        BY <2>2, Moved DEF Places
      <3> QED
        BY <2>1, <2>4, <3>1 DEF PlacesInv
    <2>5. CASE mode = "sequential"
      <3>1. /\ \A j \in 1 .. i - 1 : at[j] = "done"
            /\ \A j \in DOMAIN batch : j > i => at[j] = "ready"
        BY <2>1, <2>5, OneInOrder
      <3> QED
        BY <1>3, <2>1, <2>2, <2>5, <3>1
    <2> QED
      BY <2>3, <2>4, <2>5
  <1>5. ASSUME NEW i \in DOMAIN at, IsNext(i), mode = "sequential"
        PROVE  /\ \A j \in 1 .. i - 1 : at[j] = "done"
               /\ \A j \in DOMAIN batch : j > i => at[j] = "ready"
    BY <1>5, OneInOrder DEF IsNext
  <1>6. ASSUME NEW i \in DOMAIN at, StartInOrder(i)
        PROVE  PlacesInv'
    BY <1>3, <1>5, <1>6 DEF StartInOrder
  <1>7. ASSUME NEW i \in DOMAIN at, StopInOrder(i)
        PROVE  PlacesInv'
    BY <1>3, <1>5, <1>7 DEF StopInOrder
  <1>8. CASE Join
    BY <1>0, <1>8 DEF Join, Over, PlacesInv
  <1>9. CASE EndOfOrder
    <2>1. mode = "sequential" /\ mode' = "returning" /\ UNCHANGED <<batch, at>>
      BY <1>9 DEF EndOfOrder
    <2>2. ASSUME NEW i \in DOMAIN at, at[i] = "failed", NEW j \in DOMAIN at,
                 at[j] \in {"waiting", "executing"}
          PROVE  FALSE
      <3>1. at[j] # "waiting"
        BY <1>0, <2>1 DEF PlacesInv
      <3>2. \A k \in DOMAIN batch : (k > i => at[k] = "ready") /\ (k > j => at[k] = "ready")
        BY <2>1, <2>2, <3>1, OneInOrder
      <3>3. (j > i \/ i > j \/ i = j) /\ i \in DOMAIN batch /\ j \in DOMAIN batch
        BY <1>0
      <3> QED
        BY <2>2, <3>2, <3>3
    <2> QED
      BY <1>0, <1>9, <2>1, <2>2 DEF EndOfOrder, PlacesInv
  <1>10. CASE Return
    BY <1>10 DEF Return, PlacesInv
  <1>11. CASE Cancel
    BY <1>11 DEF Cancel, executor, PlacesInv
  <1>12. ASSUME NEW b \in Seq(Execution), ExecuteParallel(b)
         PROVE  PlacesInv'
    <2>1. /\ batch' = b /\ mode' = ModeOf(b)
          /\ at' = [i \in DOMAIN b |-> "ready"]
      BY <1>12 DEF ExecuteParallel
    <2>2. ModeOf(b) \in {"sequential", "parallel", "returning"}
      BY DEF ModeOf
    <2>3. ModeOf(b) = "parallel" => ~HasDependencies(b)
      BY DEF ModeOf
    <2>4. at' \in [DOMAIN b -> Places] /\ \A i \in DOMAIN b : at'[i] = "ready"
      BY <2>1 DEF Places
    <2>5. mode' = "parallel" => ~HasDependencies(batch')
      BY <2>1, <2>3
    <2>6. \A i \in DOMAIN batch' : at'[i] = "ready"
      BY <2>1, <2>4
    <2> QED
      BY <2>1, <2>2, <2>4, <2>5, <2>6 DEF PlacesInv, HasDependencies
  <1>13. CASE UNCHANGED executorVars
    BY <1>13 DEF executorVars, executor, PlacesInv, HasDependencies
  <1> QED
    BY <1>1, <1>2, <1>4, <1>6, <1>7, <1>8, <1>9, <1>10, <1>11, <1>12, <1>13
    DEF ExecutorStep, Step

-----------------------------------------------------------------------------
\* In order at most one runs, and in parallel one more only if a worker is free.
LEMMA WorkersInductive ==
    PlacesInv /\ WorkersInv /\ (ExecutorStep \/ UNCHANGED executorVars) => WorkersInv'
  <1> SUFFICES ASSUME PlacesInv, WorkersInv, ExecutorStep \/ UNCHANGED executorVars
               PROVE  WorkersInv'
    OBVIOUS
  <1>0. DOMAIN at = DOMAIN batch /\ DOMAIN batch = 1 .. Len(batch) /\ Len(batch) \in Nat
    BY LenProperties DEF PlacesInv
  <1>1. ASSUME Executing' \subseteq Executing
        PROVE  WorkersInv'
    <2>1. IsFiniteSet(Executing') /\ Cardinality(Executing') <= Cardinality(Executing)
      BY <1>1, FS_Subset DEF WorkersInv
    <2>2. Cardinality(Executing') \in Nat /\ Cardinality(Executing) \in Nat
      BY <2>1, FS_CardinalityType DEF WorkersInv
    <2> QED
      BY <2>1, <2>2, ExecutorAssumption DEF WorkersInv
  <1>2. ASSUME NEW i \in DOMAIN at, NEW place \in Places \ {"executing"}, Move(i, place)
        PROVE  WorkersInv'
    <2>1. Executing' \subseteq Executing
      BY <1>0, <1>2, Moved DEF Executing, PlacesInv
    <2> QED
      BY <1>1, <2>1
  <1>3. ASSUME NEW i \in DOMAIN at, Move(i, "executing"),
               Executing = {} \/ Cardinality(Executing) < MaxWorkers
        PROVE  WorkersInv'
    <2>0. "executing" \in Places
      BY DEF Places
    <2>4. /\ DOMAIN at' = DOMAIN at
          /\ \A j \in DOMAIN at : at'[j] = IF j = i THEN "executing" ELSE at[j]
      BY <1>0, <1>3, <2>0, Moved
    <2>1. Executing' = Executing \cup {i}
      BY <2>4 DEF Executing
    <2>2. /\ IsFiniteSet(Executing \cup {i})
          /\ \/ Cardinality(Executing \cup {i}) = Cardinality(Executing)
             \/ Cardinality(Executing \cup {i}) = Cardinality(Executing) + 1
          /\ Cardinality(Executing) \in Nat
      BY FS_AddElement, FS_CardinalityType DEF WorkersInv
    <2>3. Executing = {} => Cardinality(Executing) = 0
      BY FS_EmptySet
    <2> QED
      BY <1>3, <2>1, <2>2, <2>3, ExecutorAssumption DEF WorkersInv
  <1>4. ASSUME NEW i \in DOMAIN at, Look(i)
        PROVE  WorkersInv'
    BY <1>2, <1>4 DEF Look, Places
  <1>5. ASSUME NEW i \in DOMAIN at, Acquire(i)
        PROVE  WorkersInv'
    BY <1>3, <1>5 DEF Acquire
  <1>6. ASSUME NEW i \in DOMAIN at, ToolReturns(i)
        PROVE  WorkersInv'
    BY <1>2, <1>6 DEF ToolReturns, Places
  <1>7. ASSUME NEW i \in DOMAIN at, StartInOrder(i)
        PROVE  WorkersInv'
    <2>1. mode = "sequential" /\ at[i] = "ready" /\ IsNext(i)
      BY <1>7 DEF StartInOrder, IsNext
    <2>2. ASSUME NEW j \in DOMAIN at, at[j] = "executing"
          PROVE  FALSE
      <3>1. /\ \A k \in 1 .. i - 1 : at[k] = "done"
            /\ \A k \in DOMAIN batch : k > i => at[k] = "ready"
        BY <2>1, OneInOrder
      <3>2. j \in 1 .. i - 1 \/ (j \in DOMAIN batch /\ j > i) \/ j = i
        BY <1>0
      <3> QED
        BY <2>1, <2>2, <3>1, <3>2
    <2>3. Executing = {}
      BY <2>2 DEF Executing
    <2> QED
      BY <1>3, <1>7, <2>3 DEF StartInOrder
  <1>8. ASSUME NEW i \in DOMAIN at, StopInOrder(i)
        PROVE  WorkersInv'
    BY <1>2, <1>8 DEF StopInOrder, Places
  <1>9. ASSUME UNCHANGED at
        PROVE  WorkersInv'
    BY <1>1, <1>9 DEF Executing
  <1>10. CASE Join \/ EndOfOrder \/ Return \/ Cancel \/ UNCHANGED executorVars
    BY <1>9, <1>10 DEF Join, EndOfOrder, Return, Cancel, executor, executorVars
  <1>11. ASSUME NEW b \in Seq(Execution), ExecuteParallel(b)
         PROVE  WorkersInv'
    <2>1. Executing' = {}
      BY <1>11 DEF ExecuteParallel, Executing
    <2> QED
      BY <1>1, <2>1
  <1> QED
    BY <1>4, <1>5, <1>6, <1>7, <1>8, <1>10, <1>11 DEF ExecutorStep, Step

-----------------------------------------------------------------------------
\* An execution ends, and its result is kept.
LEMMA ResultKept ==
    ASSUME PlacesInv, ResultsInv, NEW i \in DOMAIN at, NEW isError \in BOOLEAN,
           NEW place \in {"done", "failed"}, Put(i, isError), Move(i, place),
           mode # "returning", UNCHANGED <<batch, mode>>
    PROVE  ResultsInv'
  <1>1. /\ DOMAIN at = DOMAIN batch /\ DOMAIN batch = 1 .. Len(batch) /\ Len(batch) \in Nat
        /\ \A j \in DOMAIN batch : batch[j].id \in Ids
    <2>1. batch \in Seq(Execution) /\ DOMAIN at = DOMAIN batch
      BY DEF PlacesInv
    <2>2. DOMAIN batch = 1 .. Len(batch) /\ Len(batch) \in Nat
      BY <2>1, LenProperties
    <2>3. \A j \in DOMAIN batch : batch[j] \in Execution
      BY <2>1, <2>2, ElementOfSeq
    <2> QED
      BY <2>1, <2>2, <2>3 DEF Execution
  <1>2. i \in Nat \ {0} /\ i \in DOMAIN batch /\ batch[i].id \in Ids
    BY <1>1
  <1>3. /\ results' \in [Ids -> [of : Nat, isError : BOOLEAN]]
        /\ \A id \in Ids : results'[id].of = IF id = batch[i].id THEN i ELSE results[id].of
    BY <1>2 DEF Put, ResultsInv
  <1>4. \A j \in DOMAIN batch : at'[j] = IF j = i THEN place ELSE at[j]
    BY Moved DEF Places
  <1>5. \A id \in Ids : results'[id].of # 0 =>
            results'[id].of \in DOMAIN batch' /\ batch'[results'[id].of].id = id
    BY <1>2, <1>3 DEF ResultsInv
  <1>6. \A j \in DOMAIN batch' : (Over(j))' => results'[batch'[j].id].of # 0
    <2> SUFFICES ASSUME NEW j \in DOMAIN batch, at'[j] \in {"done", "failed"}
                 PROVE  results'[batch[j].id].of # 0
      BY DEF Over
    <2>1. CASE batch[j].id = batch[i].id
      BY <1>1, <1>2, <1>3, <2>1
    <2>2. CASE batch[j].id # batch[i].id
      BY <1>1, <1>3, <1>4, <2>2 DEF ResultsInv, Over
    <2> QED
      BY <2>1, <2>2
  <1> QED
    BY <1>3, <1>5, <1>6 DEF ResultsInv, HasDependencies

\* An execution moves on, and is not over yet.
LEMMA ResultToCome ==
    ASSUME PlacesInv, ResultsInv, NEW i \in DOMAIN at, NEW place \in {"waiting", "executing"},
           Move(i, place), mode # "returning", UNCHANGED <<batch, mode, results>>
    PROVE  ResultsInv'
  <1>1. \A j \in DOMAIN batch : at'[j] = IF j = i THEN place ELSE at[j]
    BY Moved DEF Places
  <1>2. \A j \in DOMAIN batch' : (Over(j))' => Over(j)
    BY <1>1 DEF Over
  <1> QED
    BY <1>2 DEF ResultsInv, HasDependencies

LEMMA ResultsInductive ==
    PlacesInv /\ ResultsInv /\ (ExecutorStep \/ UNCHANGED executorVars) => ResultsInv'
  <1> SUFFICES ASSUME PlacesInv, ResultsInv, ExecutorStep \/ UNCHANGED executorVars
               PROVE  ResultsInv'
    OBVIOUS
  <1>0. DOMAIN at = DOMAIN batch /\ DOMAIN batch = 1 .. Len(batch) /\ Len(batch) \in Nat
    BY LenProperties DEF PlacesInv
  <1>1. ASSUME NEW i \in DOMAIN at, Look(i)
        PROVE  ResultsInv'
    <2>1. mode # "returning" /\ UNCHANGED <<batch, mode>>
      BY <1>1 DEF Look
    <2>2. CASE Put(i, TRUE) /\ Move(i, "failed")
      BY <2>1, <2>2, ResultKept
    <2>3. CASE Move(i, "waiting") /\ UNCHANGED results
      BY <2>1, <2>3, ResultToCome
    <2> QED
      BY <1>1, <2>2, <2>3 DEF Look
  <1>2. ASSUME NEW i \in DOMAIN at, at[i] \in {"waiting", "executing"}
        PROVE  mode # "returning"
    BY <1>0, <1>2 DEF PlacesInv
  <1>3. ASSUME NEW i \in DOMAIN at, Acquire(i)
        PROVE  ResultsInv'
    BY <1>2, <1>3, ResultToCome DEF Acquire
  <1>4. ASSUME NEW i \in DOMAIN at, ToolReturns(i)
        PROVE  ResultsInv'
    <2>1. PICK isError \in BOOLEAN :
             Put(i, isError) /\ Move(i, IF isError THEN "failed" ELSE "done")
      BY <1>4 DEF ToolReturns
    <2>2. mode # "returning" /\ UNCHANGED <<batch, mode>>
      BY <1>2, <1>4 DEF ToolReturns
    <2> QED
      BY <2>1, <2>2, ResultKept
  <1>5. ASSUME NEW i \in DOMAIN at, StartInOrder(i)
        PROVE  ResultsInv'
    BY <1>5, ResultToCome DEF StartInOrder
  <1>6. ASSUME NEW i \in DOMAIN at, StopInOrder(i)
        PROVE  ResultsInv'
    BY <1>6, ResultKept DEF StopInOrder
  <1>7. CASE Join
    BY <1>7 DEF Join, ResultsInv, Over, HasDependencies
  <1>8. CASE EndOfOrder
    <2>1. mode = "sequential" /\ mode' = "returning" /\ UNCHANGED <<batch, at, results>>
      BY <1>8 DEF EndOfOrder
    <2>2. ~HasDependencies(batch) => \A i \in DOMAIN batch : Over(i)
      <3> SUFFICES ASSUME ~HasDependencies(batch), NEW i \in DOMAIN batch
                   PROVE  Over(i)
        OBVIOUS
      <3>1. Len(batch) = 1
        BY <2>1 DEF ResultsInv
      <3>2. \A j \in DOMAIN batch : j = i
        BY <1>0, <3>1
      <3> QED
        BY <1>8, <3>2 DEF EndOfOrder, Over
    <2> QED
      BY <2>1, <2>2 DEF ResultsInv, Over, HasDependencies
  <1>9. CASE Return
    BY <1>9 DEF Return, ResultsInv, Over, HasDependencies
  <1>10. CASE Cancel \/ UNCHANGED executorVars
    BY <1>10 DEF Cancel, executor, executorVars, ResultsInv, Over, HasDependencies
  <1>11. ASSUME NEW b \in Seq(Execution), ExecuteParallel(b)
         PROVE  ResultsInv'
    <2>1. /\ batch' = b /\ mode' = ModeOf(b)
          /\ at' = [i \in DOMAIN b |-> "ready"]
          /\ results' = [id \in Ids |-> NoResult]
      BY <1>11 DEF ExecuteParallel
    <2>2. /\ results' \in [Ids -> [of : Nat, isError : BOOLEAN]]
          /\ \A id \in Ids : results'[id].of = 0
      BY <2>1 DEF NoResult
    <2>3. \A i \in DOMAIN b : at'[i] = "ready"
      BY <2>1
    <2>4. Len(b) \in Nat /\ DOMAIN b = 1 .. Len(b)
      BY LenProperties
    <2>5. /\ ModeOf(b) = "sequential" => Len(b) = 1 \/ HasDependencies(b)
          /\ ModeOf(b) = "returning" => DOMAIN b = {}
      <3>1. ModeOf(b) = "returning" => Len(b) = 0
        BY DEF ModeOf
      <3>2. Len(b) = 0 => DOMAIN b = {}
        BY <2>4
      <3>3. ModeOf(b) = "sequential" => Len(b) = 1 \/ HasDependencies(b)
        BY DEF ModeOf
      <3> QED
        BY <3>1, <3>2, <3>3
    <2>6. \A i \in DOMAIN b : at'[i] \notin {"done", "failed"}
      BY <2>3
    <2>7. \A i \in DOMAIN batch' : ~(Over(i))'
      BY <2>1, <2>6 DEF Over
    <2>8. HasDependencies(b) => HasDependencies(batch')
      BY <2>1
    <2>9. /\ mode' = "sequential" => Len(batch') = 1 \/ HasDependencies(batch')
          /\ mode' = "returning" => DOMAIN batch' = {}
      BY <2>1, <2>5
    <2> QED
      BY <2>2, <2>7, <2>9 DEF ResultsInv, HasDependencies
  <1> QED
    BY <1>1, <1>3, <1>4, <1>5, <1>6, <1>7, <1>8, <1>9, <1>10, <1>11 DEF ExecutorStep, Step

-----------------------------------------------------------------------------
LEMMA ExecutionsType ==
    ASSUME CallInv
    PROVE  /\ Executions \in Seq(Execution)
           /\ DOMAIN Executions = DOMAIN calls
           /\ \A i \in DOMAIN calls : Executions[i].id = calls[i]
           /\ ~HasDependencies(Executions)
  <1>1. DOMAIN calls = 1 .. Len(calls) /\ Len(calls) \in Nat
    BY LenProperties DEF CallInv
  <1>2. \A i \in DOMAIN calls : calls[i] \in Ids
    BY <1>1, ElementOfSeq DEF CallInv
  <1>3. Executions \in [1 .. Len(calls) -> Execution]
    BY <1>1, <1>2 DEF Executions, Execution
  <1>4. Executions \in Seq(Execution)
    BY <1>1, <1>3
  <1> QED
    BY <1>1, <1>4 DEF Executions, HasDependencies

\* What a step of the query or of its environment is to the Executor.
LEMMA StepOfExecutor == CallInv /\ [Next]_vars => ExecutorStep \/ UNCHANGED executorVars
  <1> SUFFICES ASSUME CallInv, [Next]_vars
               PROVE  ExecutorStep \/ UNCHANGED executorVars
    OBVIOUS
  <1>1. CASE RunTools
    BY <1>1, ExecutionsType DEF RunTools, ExecutorStep
  <1>2. CASE DirectCall
    BY <1>2, AgentAssumption DEF DirectCall, ExecutorStep
  <1>3. CASE Collect \/ Executor \/ CancelQuery
    BY <1>3 DEF Collect, Executor, CancelQuery, ExecutorStep
  <1>4. CASE Begin \/ EmbedQuery \/ GiveUp \/ (\E r \in Responses : Complete(r)) \/ Announce
    BY <1>4 DEF Begin, EmbedQuery, GiveUp, Complete, Announce
  <1>5. CASE Close \/ Receive \/ Leave \/ Stopped \/ UNCHANGED vars
    BY <1>5 DEF Close, Receive, Leave, Stopped, vars
  <1> QED
    BY <1>1, <1>2, <1>3, <1>4, <1>5 DEF Next, Goroutine

LEMMA StepKeepsBatch == Step => batch' = batch
  BY DEF Step, Look, Acquire, ToolReturns, StartInOrder, StopInOrder, Join, EndOfOrder

LEMMA CallInductive == CallInv /\ [Next]_vars => CallInv'
  <1> SUFFICES ASSUME CallInv, [Next]_vars
               PROVE  CallInv'
    OBVIOUS
  <1>1. ASSUME UNCHANGED <<mode, calls>>, phase \notin {"executing", "direct"},
               phase' \in {"start", "embedding", "asking", "announcing", "closing", "closed"}
        PROVE  CallInv'
    BY <1>1 DEF CallInv
  <1>2. CASE Begin
    BY <1>1, <1>2 DEF Begin, At, End, Offer, executorVars, executor, loop
  <1>3. CASE EmbedQuery
    BY <1>1, <1>3 DEF EmbedQuery, At, End, Offer, executorVars, executor, loop
  <1>4. ASSUME NEW r \in Responses, Complete(r)
        PROVE  CallInv'
    <2>1. calls' \in Seq(Ids)
      BY <1>4, AgentAssumption DEF Complete
    <2>2. phase = "asking" /\ phase' \in {"closing", "announcing"} /\ mode' = mode
      BY <1>4 DEF Complete, At, End, Offer, executorVars, executor
    <2> QED
      BY <2>1, <2>2 DEF CallInv
  <1>5. CASE GiveUp
    BY <1>1, <1>5 DEF GiveUp, At, End, Offer, executorVars, executor, loop
  <1>6. CASE Announce
    BY <1>1, <1>6 DEF Announce, At, Offer, executorVars, executor
  <1>7. CASE RunTools
    BY <1>7 DEF RunTools, ExecuteParallel, loop, CallInv, Executions
  <1>8. CASE Collect
    BY <1>8 DEF Collect, At, Return, CallInv
  <1>9. CASE Close
    BY <1>1, <1>9 DEF Close, At, executorVars, executor, loop
  <1>10. CASE Receive \/ Leave \/ Stopped \/ UNCHANGED vars
    BY <1>10 DEF Receive, Leave, Stopped, vars, executorVars, executor, loop, CallInv, Executions
  <1>11. CASE DirectCall
    BY <1>11 DEF DirectCall, loop, CallInv
  <1>12. CASE Executor
    BY <1>12, StepKeepsBatch DEF Executor, loop, CallInv, Executions
  <1>13. CASE CancelQuery
    BY <1>13 DEF CancelQuery, Cancel, executor, loop, CallInv, Executions
  <1> QED
    BY <1>2, <1>3, <1>4, <1>5, <1>6, <1>7, <1>8, <1>9, <1>10, <1>11, <1>12, <1>13
    DEF Next, Goroutine

-----------------------------------------------------------------------------
\* When the Executor has returned the results of a response, there is one for each
\* call, of an execution with the ID of that call.
LEMMA OutputsAnswer ==
    ASSUME PlacesInv, ResultsInv, CallInv, phase = "executing", mode = "returning"
    PROVE  /\ Outputs \in Seq(Message)
           /\ Len(Outputs) = Len(calls)
           /\ \A i \in 1 .. Len(calls) :
                 /\ Outputs[i].role = "tool"
                 /\ Outputs[i].id = calls[i]
                 /\ Outputs[i].of \in 1 .. Len(calls)
                 /\ calls[Outputs[i].of] = calls[i]
  <1>1. DOMAIN calls = 1 .. Len(calls) /\ Len(calls) \in Nat
    BY LenProperties DEF CallInv
  <1>2. \A i \in DOMAIN calls : calls[i] \in Ids
    BY <1>1, ElementOfSeq DEF CallInv
  <1>3. /\ DOMAIN batch = DOMAIN calls
        /\ \A i \in DOMAIN calls : batch[i].id = calls[i]
        /\ ~HasDependencies(batch)
    BY ExecutionsType DEF CallInv
  <1>4. \A i \in DOMAIN calls :
           /\ results[calls[i]].of \in DOMAIN calls
           /\ calls[results[calls[i]].of] = calls[i]
    BY <1>2, <1>3 DEF ResultsInv
  <1>5. \A i \in 1 .. Len(calls) :
           /\ Outputs[i] = [role |-> "tool", id |-> calls[i], of |-> results[calls[i]].of]
           /\ results[calls[i]].of \in Nat
    BY <1>1, <1>2 DEF Outputs, Tool, ResultsInv
  <1>6. \A i \in 1 .. Len(calls) : Outputs[i] \in Message
    <2> TAKE i \in 1 .. Len(calls)
    <2>1. calls[i] \in Ids /\ results[calls[i]].of \in Nat
      BY <1>1, <1>2, <1>5
    <2>2. Outputs[i] = [role |-> "tool", id |-> calls[i], of |-> results[calls[i]].of]
      BY <1>5
    <2>3. Outputs[i] \in [role : {"tool"}, id : Ids, of : Nat]
      BY <2>1, <2>2
    <2> QED
      BY <2>3 DEF Message
  <1>7. Outputs \in [1 .. Len(calls) -> Message]
    BY <1>1, <1>6 DEF Outputs
  <1>8. Outputs \in Seq(Message) /\ Len(Outputs) = Len(calls)
    BY <1>1, <1>7
  <1>9. \A i \in 1 .. Len(calls) :
           /\ Outputs[i].role = "tool" /\ Outputs[i].id = calls[i]
           /\ Outputs[i].of = results[calls[i]].of
    <2> TAKE i \in 1 .. Len(calls)
    <2>1. Outputs[i] = [role |-> "tool", id |-> calls[i], of |-> results[calls[i]].of]
      BY <1>5
    <2> QED
      BY <2>1
  <1> QED
    BY <1>1, <1>4, <1>8, <1>9

\* What stays of a history that gets longer.
LEMMA AnsweredKept ==
    ASSUME NEW k \in Assistants, HistoryInv, Answered(k), history' \in Seq(Message),
           Len(history') >= Len(history),
           \A i \in 1 .. Len(history) : history'[i] = history[i]
    PROVE  Answered(k)'
  <1>1. Len(history) \in Nat /\ Len(history') \in Nat /\ DOMAIN history = 1 .. Len(history)
    BY LenProperties DEF HistoryInv
  <1>2. k \in 1 .. Len(history) /\ history'[k] = history[k]
    BY <1>1 DEF Assistants
  <1>3. history[k].role = "assistant" /\ history[k] \in Message
    BY <1>2, ElementOfSeq DEF Assistants, HistoryInv
  <1>4. Len(history[k].ids) \in Nat
    BY <1>3, LenProperties DEF Message
  <1>5. \A i \in 1 .. Len(history[k].ids) : history'[k + i] = history[k + i]
    BY <1>1, <1>2, <1>4 DEF Answered
  <1>6. PICK n : n = Len(history[k].ids)
    OBVIOUS
  <1>7. history'[k].ids = history[k].ids /\ k + n <= Len(history)
    BY <1>2, <1>6 DEF Answered
  <1>8. k + n <= Len(history')
    BY <1>1, <1>2, <1>4, <1>6, <1>7
  <1>9. ASSUME NEW i \in 1 .. n
        PROVE  /\ history'[k + i].role = "tool"
               /\ history'[k + i].id = history[k].ids[i]
               /\ history'[k + i].of \in 1 .. n
               /\ history[k].ids[history'[k + i].of] = history[k].ids[i]
    BY <1>5, <1>6 DEF Answered
  <1> QED
    BY <1>6, <1>7, <1>8, <1>9 DEF Answered

LEMMA HistoryInductive ==
    /\ PlacesInv /\ ResultsInv /\ CallInv /\ HistoryInv
    /\ [Next]_vars
    => HistoryInv'
  <1> SUFFICES ASSUME PlacesInv, ResultsInv, CallInv, HistoryInv, [Next]_vars
               PROVE  HistoryInv'
    OBVIOUS
  <1>0. DOMAIN history = 1 .. Len(history) /\ Len(history) \in Nat
    BY LenProperties DEF HistoryInv
  <1>1. ASSUME UNCHANGED history,
               \/ UNCHANGED <<phase, calls>>
               \/ phase \notin {"announcing", "executing"}
               \/ phase = "announcing" /\ phase' = "executing" /\ UNCHANGED calls
        PROVE  HistoryInv'
    BY <1>1 DEF HistoryInv, Assistants, Answered
  <1>2. CASE Begin
    BY <1>1, <1>2 DEF Begin, At, loop
  <1>3. CASE EmbedQuery
    BY <1>1, <1>3 DEF EmbedQuery, At, loop
  <1>4. ASSUME NEW r \in Responses, Complete(r)
        PROVE  HistoryInv'
    <2> DEFINE m == Assistant(r)
    <2>0. PICK n \in Nat : n = Len(history)
      BY <1>0
    <2>1. /\ phase = "asking" /\ calls' = r /\ history' = Append(history, m)
          /\ r \in Seq(Ids) /\ (r = <<>> \/ phase' = "announcing")
      BY <1>4, AgentAssumption DEF Complete, At
    <2>2. m \in Message /\ m.role = "assistant" /\ m.ids = r
      BY <2>1 DEF Assistant, Message
    <2>3. history \in Seq(Message) /\ \A k \in Assistants : Answered(k)
      BY <2>1 DEF HistoryInv
    <2> HIDE DEF m
    <2>4. /\ history' \in Seq(Message) /\ Len(history') = n + 1
          /\ \A i \in 1 .. n : history'[i] = history[i]
          /\ history'[n + 1] = m
      BY <2>0, <2>1, <2>2, <2>3, AppendProperties
    <2>5. Len(history') >= Len(history)
      BY <2>0, <1>0, <2>4
    <2>6. \A k \in Assistants : Answered(k)'
      BY <2>0, <2>3, <2>4, <2>5, AnsweredKept
    <2>7. DOMAIN history' = 1 .. n + 1
      BY <2>4, LenProperties
    <2>8. Assistants' \subseteq Assistants \cup {n + 1}
      <3>1. \A k \in 1 .. n + 1 : k \in 1 .. n \/ k = n + 1
        BY <2>0
      <3> QED
        BY <1>0, <2>0, <2>4, <2>7, <3>1 DEF Assistants
    <2>9. \/ Answered(n + 1)'
          \/ phase' = "announcing" /\ n + 1 = Len(history') /\ history'[n + 1].ids = calls'
      <3>1. CASE r = <<>>
        <4>1. Len(r) = 0 /\ history'[n + 1].ids = r
          BY <2>2, <2>4, <3>1, EmptySeq
        <4> QED
          BY <2>0, <2>4, <4>1 DEF Answered
      <3>2. CASE phase' = "announcing"
        BY <2>1, <2>2, <2>4, <3>2
      <3> QED
        BY <2>1, <3>1, <3>2
    <2> QED
      BY <2>4, <2>6, <2>8, <2>9 DEF HistoryInv
  <1>5. CASE GiveUp
    BY <1>1, <1>5 DEF GiveUp, At, loop
  <1>6. CASE Announce
    BY <1>1, <1>6 DEF Announce, At, Offer
  <1>7. CASE RunTools
    BY <1>1, <1>7 DEF RunTools, At, loop
  <1>8. CASE Collect
    <2> DEFINE n == Len(history)
               m == Len(calls)
    <2>1. /\ phase = "executing" /\ mode = "returning" /\ phase' = "asking"
          /\ history' = history \o Outputs
      BY <1>8 DEF Collect, At, Return
    <2>2. /\ Outputs \in Seq(Message) /\ Len(Outputs) = m
          /\ \A i \in 1 .. m :
                /\ Outputs[i].role = "tool" /\ Outputs[i].id = calls[i]
                /\ Outputs[i].of \in 1 .. m /\ calls[Outputs[i].of] = calls[i]
      BY <2>1, OutputsAnswer
    <2>3. m \in Nat
      BY LenProperties DEF CallInv
    <2>4. /\ history' \in Seq(Message) /\ Len(history') = n + m
          /\ \A i \in 1 .. n + m :
                history'[i] = IF i <= n THEN history[i] ELSE Outputs[i - n]
      <3>1. history \in Seq(Message)
        BY DEF HistoryInv
      <3>2. /\ history \o Outputs \in Seq(Message)
            /\ Len(history \o Outputs) = Len(history) + Len(Outputs)
            /\ \A i \in 1 .. Len(history) + Len(Outputs) :
                  (history \o Outputs)[i] =
                     IF i <= Len(history) THEN history[i] ELSE Outputs[i - Len(history)]
        <4>1. Outputs \in Seq(Message)
          BY <2>2
        <4> QED
          BY <3>1, <4>1, ConcatProperties
      <3> QED
        BY <2>1, <2>2, <3>2
    <2>5. \A i \in 1 .. n : history'[i] = history[i]
      BY <1>0, <2>3, <2>4
    <2>6. \A i \in 1 .. m : history'[n + i] = Outputs[i]
      BY <1>0, <2>3, <2>4
    <2>7. DOMAIN history' = 1 .. n + m
      BY <2>4, LenProperties
    <2>8. Assistants' \subseteq Assistants
      <3> SUFFICES ASSUME NEW k \in 1 .. n + m, history'[k].role = "assistant"
                   PROVE  k \in Assistants
        BY <2>7 DEF Assistants
      <3>1. CASE k \in 1 .. n
        BY <1>0, <2>5, <3>1 DEF Assistants
      <3>2. CASE k \notin 1 .. n
        <4>1. k - n \in 1 .. m /\ history'[k] = Outputs[k - n]
          BY <1>0, <2>3, <2>4, <3>2
        <4> QED
          BY <2>2, <4>1
      <3> QED
        BY <3>1, <3>2
    <2>9. \A k \in Assistants : Answered(k)'
      <3> TAKE k \in Assistants
      <3>1. CASE Answered(k)
        <4>1. Len(history') >= Len(history)
          BY <1>0, <2>3, <2>4
        <4> QED
          BY <2>4, <2>5, <3>1, <4>1, AnsweredKept
      <3>2. CASE k = n /\ history[k].ids = calls
        <4>1. n \in 1 .. n
          BY <1>0, <3>2 DEF Assistants
        <4>2. history'[n].ids = calls
          BY <2>5, <3>2, <4>1
        <4> QED
          BY <2>2, <2>4, <2>6, <3>2, <4>2 DEF Answered
      <3> QED
        BY <3>1, <3>2 DEF HistoryInv
    <2> HIDE DEF n, m
    <2> QED
      BY <2>4, <2>8, <2>9 DEF HistoryInv
  <1>9. CASE Close
    BY <1>1, <1>9 DEF Close, At, loop
  <1>10. CASE Receive \/ Leave \/ Stopped \/ UNCHANGED vars
    BY <1>1, <1>10 DEF Receive, Leave, Stopped, vars, loop
  <1>11. CASE DirectCall \/ Executor \/ CancelQuery
    BY <1>1, <1>11 DEF DirectCall, Executor, CancelQuery, loop
  <1> QED
    BY <1>2, <1>3, <1>4, <1>5, <1>6, <1>7, <1>8, <1>9, <1>10, <1>11 DEF Next, Goroutine

-----------------------------------------------------------------------------
LEMMA FinalInductive == FinalInv /\ [Next]_vars => FinalInv'
  <1> SUFFICES ASSUME FinalInv, [Next]_vars
               PROVE  FinalInv'
    OBVIOUS
  <1>1. CASE Begin \/ EmbedQuery \/ GiveUp
    BY <1>1 DEF Begin, EmbedQuery, GiveUp, At, End, Offer, Nothing, FinalInv
  <1>2. ASSUME NEW r \in Responses, Complete(r)
        PROVE  FinalInv'
    BY <1>2 DEF Complete, At, End, Offer, Nothing, FinalInv
  <1>3. CASE Announce \/ Close
    BY <1>3 DEF Announce, Close, At, Offer, talk, Nothing, FinalInv
  <1>4. CASE RunTools \/ Collect
    BY <1>4 DEF RunTools, Collect, At, talk, Nothing, FinalInv
  <1>5. CASE Receive
    BY <1>5 DEF Receive, Nothing, FinalInv
  <1>6. CASE Leave
    BY <1>6 DEF Leave, FinalInv
  <1>7. CASE DirectCall \/ Executor \/ CancelQuery
    BY <1>7 DEF DirectCall, Executor, CancelQuery, talk, FinalInv
  <1>8. CASE Stopped \/ UNCHANGED vars
    BY <1>8 DEF Stopped, vars, talk, FinalInv
  <1> QED
    BY <1>1, <1>2, <1>3, <1>4, <1>5, <1>6, <1>7, <1>8 DEF Next, Goroutine

-----------------------------------------------------------------------------
IndInv == PlacesInv /\ WorkersInv /\ ResultsInv /\ CallInv /\ HistoryInv /\ FinalInv

LEMMA InitInv == Init => IndInv
  <1> SUFFICES ASSUME Init
               PROVE  IndInv
    OBVIOUS
  <1>1. /\ batch = <<>> /\ at = <<>> /\ mode = "idle" /\ calls = <<>> /\ history = <<>>
        /\ results = [id \in Ids |-> NoResult] /\ finals = 0 /\ offered = Nothing
        /\ phase \in {"start", "direct"}
    BY DEF Init, ExecutorInit
  <1>2. DOMAIN <<>> = {}
    OBVIOUS
  <1>3. PlacesInv
    BY <1>1, <1>2, EmptySeq DEF PlacesInv
  <1>4. WorkersInv
    <2>1. Executing = {}
      BY <1>1, <1>2 DEF Executing
    <2> QED
      BY <2>1, FS_EmptySet, ExecutorAssumption DEF WorkersInv
  <1>5. ResultsInv
    BY <1>1, <1>2 DEF ResultsInv, NoResult
  <1>6. CallInv
    BY <1>1, EmptySeq DEF CallInv
  <1>7. HistoryInv
    BY <1>1, <1>2, EmptySeq DEF HistoryInv, Assistants
  <1>8. FinalInv
    BY <1>1 DEF FinalInv, Nothing
  <1> QED
    BY <1>3, <1>4, <1>5, <1>6, <1>7, <1>8 DEF IndInv

LEMMA Invariants == Spec => []IndInv
  <1>1. IndInv /\ [Next]_vars => IndInv'
    BY StepOfExecutor, PlacesInductive, WorkersInductive, ResultsInductive, CallInductive,
       HistoryInductive, FinalInductive
    DEF IndInv
  <1> QED
    BY <1>1, InitInv, PTL DEF Spec

\* No tool outlives the call that runs it, and no more run than there are workers.
THEOREM ToolsStayInside == Spec => []ToolsContained
  <1>1. IndInv => ToolsContained
    <2> SUFFICES ASSUME IndInv
                 PROVE  ToolsContained
      OBVIOUS
    <2>1. mode \in {"idle", "returning"} => Executing = {}
      BY DEF IndInv, PlacesInv, Executing
    <2>2. phase \notin {"executing", "direct"} => mode = "idle"
      BY DEF IndInv, CallInv
    <2> QED
      BY <2>1, <2>2 DEF IndInv, WorkersInv, ToolsContained
  <1> QED
    BY <1>1, Invariants, PTL

\* In a batch listed in the order of its dependencies no tool runs too early.
THEOREM DependenciesFirst == Spec => []ListOrderIsEnough
  <1>1. IndInv => ListOrderIsEnough
    <2> SUFFICES ASSUME IndInv, ListedInOrder, NEW i \in Executing, NEW id \in batch[i].dependsOn
                 PROVE  \E j \in DOMAIN batch : batch[j].id = id /\ at[j] = "done"
      BY DEF ListOrderIsEnough, Satisfied
    <2>1. /\ PlacesInv /\ i \in DOMAIN at /\ at[i] = "executing"
          /\ DOMAIN at = DOMAIN batch /\ DOMAIN batch = 1 .. Len(batch) /\ Len(batch) \in Nat
      BY LenProperties DEF IndInv, PlacesInv, Executing
    <2>2. HasDependencies(batch)
      BY <2>1 DEF HasDependencies
    <2>3. mode = "sequential"
      BY <2>1, <2>2 DEF PlacesInv
    <2>4. \A j \in 1 .. i - 1 : at[j] = "done"
      BY <2>1, <2>3, OneInOrder
    <2>5. PICK j \in 1 .. i - 1 : batch[j].id = id
      BY <2>1 DEF ListedInOrder, Named
    <2>6. j \in DOMAIN batch
      BY <2>1
    <2> QED
      BY <2>4, <2>5, <2>6
  <1> QED
    BY <1>1, Invariants, PTL

\* The reader who stays gets one final chunk, after all others.
THEOREM FinalChunk == Spec => []OneFinalChunk
  <1>1. IndInv => OneFinalChunk
    BY DEF IndInv, FinalInv, OneFinalChunk
  <1> QED
    BY <1>1, Invariants, PTL

\* The LLM is never asked with a call left unanswered in its history.
THEOREM NoCallUnanswered == Spec => []EveryCallAnswered
  <1>1. IndInv => EveryCallAnswered
    <2> SUFFICES ASSUME IndInv, phase = "asking", NEW k \in Assistants,
                        NEW i \in DOMAIN history[k].ids
                 PROVE  /\ k + i <= Len(history)
                        /\ history[k + i].role = "tool"
                        /\ history[k + i].id = history[k].ids[i]
      BY DEF EveryCallAnswered
    <2>1. Answered(k)
      BY DEF IndInv, HistoryInv
    <2>2. /\ k \in Nat /\ Len(history) \in Nat /\ Len(history[k].ids) \in Nat
          /\ DOMAIN history[k].ids = 1 .. Len(history[k].ids)
      <3>1. history \in Seq(Message) /\ Len(history) \in Nat /\ DOMAIN history = 1 .. Len(history)
        BY LenProperties DEF IndInv, HistoryInv
      <3>2. history[k] \in Message /\ history[k].role = "assistant" /\ k \in Nat
        BY <3>1, ElementOfSeq DEF Assistants
      <3>3. history[k].ids \in Seq(Ids)
        BY <3>2 DEF Message
      <3> QED
        BY <3>1, <3>2, <3>3, LenProperties
    <2> QED
      BY <2>1, <2>2 DEF Answered
  <1> QED
    BY <1>1, Invariants, PTL

\* What a tool message has is the output of a call with the ID it answers.
THEOREM OutputsMatch == Spec => []OutputOfSameId
  <1>1. IndInv => OutputOfSameId
    <2> SUFFICES ASSUME IndInv, NEW k \in Assistants, NEW i \in DOMAIN history[k].ids,
                        k + i <= Len(history)
                 PROVE  /\ history[k + i].of \in DOMAIN history[k].ids
                        /\ history[k].ids[history[k + i].of] = history[k].ids[i]
      BY DEF OutputOfSameId
    <2>1. /\ k \in Nat /\ Len(history) \in Nat /\ Len(history[k].ids) \in Nat
          /\ DOMAIN history[k].ids = 1 .. Len(history[k].ids)
      <3>1. history \in Seq(Message) /\ Len(history) \in Nat /\ DOMAIN history = 1 .. Len(history)
        BY LenProperties DEF IndInv, HistoryInv
      <3>2. history[k] \in Message /\ history[k].role = "assistant" /\ k \in Nat
        BY <3>1, ElementOfSeq DEF Assistants
      <3>3. history[k].ids \in Seq(Ids)
        BY <3>2 DEF Message
      <3> QED
        BY <3>1, <3>2, <3>3, LenProperties
    <2>2. k # Len(history)
      BY <2>1
    <2>3. Answered(k)
      BY <2>2 DEF IndInv, HistoryInv
    <2> QED
      BY <2>1, <2>3 DEF Answered
  <1> QED
    BY <1>1, Invariants, PTL
=============================================================================
