--------------------------- MODULE EmbedJobProofs ---------------------------
(***************************************************************************)
(* Proofs about internal/core/engine/embedder.go: the jobs of a workspace, *)
(* for any jobs, files, contents, workers and queue capacity; chunkContent, *)
(* for any content, chunk size and overlap.                                *)
(***************************************************************************)
EXTENDS EmbedJobProps, ChunkContent, SequenceTheorems, TLAPS

-----------------------------------------------------------------------------
\* The elements of a queue, and what a send and a receive make of them.
Elems(q) == {q[i] : i \in 1 .. Len(q)}

LEMMA Sent ==
    ASSUME NEW S, NEW q \in Seq(S), NEW e \in S
    PROVE  Append(q, e) \in Seq(S) /\ Elems(Append(q, e)) = Elems(q) \cup {e}
  <1>1. /\ Append(q, e) \in Seq(S) /\ Len(Append(q, e)) = Len(q) + 1
        /\ \A i \in 1 .. Len(q) : Append(q, e)[i] = q[i]
        /\ Append(q, e)[Len(q) + 1] = e
    BY AppendProperties
  <1>2. Len(q) \in Nat
    BY LenProperties
  <1>3. 1 .. Len(q) + 1 = 1 .. Len(q) \cup {Len(q) + 1}
    BY <1>2
  <1> QED
    BY <1>1, <1>3 DEF Elems

LEMMA Received ==
    ASSUME NEW S, NEW q \in Seq(S), q # <<>>
    PROVE  /\ Head(q) \in S /\ Tail(q) \in Seq(S)
           /\ Elems(q) = {Head(q)} \cup Elems(Tail(q))
  <1>1. /\ Head(q) = q[1] /\ Tail(q) \in Seq(S) /\ Len(Tail(q)) = Len(q) - 1
        /\ \A i \in 1 .. Len(q) - 1 : Tail(q)[i] = q[i + 1]
    BY HeadTailProperties
  <1>2. Len(q) \in Nat \ {0} /\ q[1] \in S
    BY EmptySeq, LenProperties, ElementOfSeq
  <1>3. \A i \in 1 .. Len(q) : i = 1 \/ i - 1 \in 1 .. Len(q) - 1
    BY <1>2
  <1>4. \A i \in 1 .. Len(q) : q[i] = Head(q) \/ q[i] \in Elems(Tail(q))
    <2> SUFFICES ASSUME NEW i \in 1 .. Len(q), i # 1
                 PROVE  q[i] \in Elems(Tail(q))
      BY <1>1
    <2>1. i - 1 \in 1 .. Len(q) - 1 /\ (i - 1) + 1 = i
      BY <1>3
    <2>2. q[i] = Tail(q)[i - 1]
      BY <1>1, <2>1
    <2> QED
      BY <1>1, <2>1, <2>2 DEF Elems
  <1>5. Head(q) \in Elems(q)
    BY <1>1, <1>2 DEF Elems
  <1>6. Elems(Tail(q)) \subseteq Elems(q)
    <2> SUFFICES ASSUME NEW i \in 1 .. Len(q) - 1
                 PROVE  Tail(q)[i] \in Elems(q)
      BY <1>1 DEF Elems
    <2>1. Tail(q)[i] = q[i + 1] /\ i + 1 \in 1 .. Len(q)
      BY <1>1, <1>2
    <2> QED
      BY <2>1 DEF Elems
  <1>7. Elems(q) \subseteq {Head(q)} \cup Elems(Tail(q))
    BY <1>4 DEF Elems
  <1> QED
    BY <1>1, <1>2, <1>5, <1>6, <1>7

LEMMA NothingQueued == Elems(<<>>) = {}
  BY DEF Elems

-----------------------------------------------------------------------------
Item   == [file : Files, ver : Versions]
Slot   == [at : {"idle", "embedding", "reporting", "exited"},
           item : Item \cup {NoItem}, failed : BOOLEAN]
Result == [file : Files, ver : Versions, failed : BOOLEAN]

Phases   == {"new"} \cup Running \cup Returned
Outcomes == {"none", "pending", "skipped", "failed", "empty", "indexed"}

EmbedTypeOK ==
    /\ disk \in [Files -> Versions]
    /\ index \in [Files -> Versions \cup {Missing}]
    /\ store \in [Collections -> SUBSET (Files \X Versions)]
    /\ phase \in [Jobs -> Phases]
    /\ coll \in [Jobs -> Collections]
    /\ todo \in [Jobs -> SUBSET Files]
    /\ holding \in [Jobs -> Item \cup {NoItem}]
    /\ workQ \in [Jobs -> Seq(Item)]
    /\ workClosed \in [Jobs -> BOOLEAN]
    /\ worker \in [Jobs -> [Workers -> Slot]]
    /\ resQ \in [Jobs -> Seq(Result)]
    /\ resClosed \in [Jobs -> BOOLEAN]
    /\ processor \in [Jobs -> {"running", "exited"}]
    /\ errors \in [Jobs -> Nat]
    /\ loaded \in [Jobs -> Nat]
    /\ cancelled \in [Jobs -> BOOLEAN]
    /\ outcome \in [Jobs -> [Files -> Outcomes]]

\* Who has work to do has a file to do it on.
HasItem(j) ==
    /\ phase[j] \in {"chunking", "sending"} => holding[j] \in Item
    /\ \A w \in Workers :
          worker[j][w].at \in {"embedding", "reporting"} => worker[j][w].item \in Item

EmbedTypeInv == EmbedTypeOK /\ \A j \in Jobs : HasItem(j)

LEMMA EmbedTypeInit == Init => EmbedTypeInv
  <1> SUFFICES ASSUME Init
               PROVE  EmbedTypeInv
    OBVIOUS
  <1>1. Idle \in Slot /\ Idle.at = "idle"
    BY DEF Idle, Slot
  <1>2. <<>> \in Seq(Item) /\ <<>> \in Seq(Result)
    BY EmptySeq
  <1>3. EmbedTypeOK
    BY <1>1, <1>2 DEF Init, EmbedTypeOK, Phases, Outcomes
  <1>4. \A j \in Jobs : HasItem(j)
    BY <1>1 DEF Init, HasItem
  <1> QED
    BY <1>3, <1>4 DEF EmbedTypeInv

LEMMA FeederType ==
    ASSUME EmbedTypeInv, NEW j \in Jobs, Feeder(j)
    PROVE  EmbedTypeInv'
  <1> USE DEF inputs, results, queues, Goto
  <1>0. /\ "new" \in Phases /\ Running \subseteq Phases /\ Returned \subseteq Phases
        /\ EmbedTypeOK /\ \A k \in Jobs : HasItem(k)
    BY DEF Phases, EmbedTypeInv
  <1>1. CASE Start(j) \/ Unconfigured(j)
    <2>1. phase' \in [Jobs -> Phases] /\ phase'[j] \in {"walking", "rejected", "done"}
      BY <1>0, <1>1 DEF Start, Unconfigured, EmbedTypeOK, Phases, Running, Returned
    <2>2. EmbedTypeOK'
      BY <1>0, <1>1, <2>1 DEF Start, Unconfigured, EmbedTypeOK
    <2> QED
      BY <1>0, <1>1, <2>1, <2>2 DEF Start, Unconfigured, EmbedTypeInv, EmbedTypeOK, HasItem
  <1>2. CASE Walk(j)
    <2> PICK picked \in SUBSET Files :
            /\ todo' = [todo EXCEPT ![j] = picked]
            /\ outcome' = [outcome EXCEPT ![j] =
                   [f \in Files |-> IF f \in picked THEN "pending" ELSE "skipped"]]
            /\ phase' = [phase EXCEPT ![j] = IF picked = {} THEN "done" ELSE "feeding"]
      BY <1>2 DEF Walk
    <2>1. phase' \in [Jobs -> Phases] /\ phase'[j] \in {"done", "feeding"}
      BY <1>0 DEF EmbedTypeOK, Phases, Running, Returned
    <2>2. outcome' \in [Jobs -> [Files -> Outcomes]] /\ todo' \in [Jobs -> SUBSET Files]
      BY <1>0 DEF EmbedTypeOK, Outcomes
    <2>3. EmbedTypeOK'
      BY <1>0, <1>2, <2>1, <2>2 DEF Walk, EmbedTypeOK
    <2> QED
      BY <1>0, <1>2, <2>1, <2>3 DEF Walk, EmbedTypeInv, EmbedTypeOK, HasItem
  <1>3. CASE Abort(j) \/ CloseWork(j) \/ CloseResults(j) \/ Complete(j)
    <2>1. phase' \in [Jobs -> Phases] /\ phase'[j] \in {"aborted", "waiting", "collecting", "done"}
      BY <1>0, <1>3 DEF Abort, CloseWork, CloseResults, Complete, EmbedTypeOK, Phases,
                        Running, Returned
    <2>2. EmbedTypeOK'
      BY <1>0, <1>3, <2>1 DEF Abort, CloseWork, CloseResults, Complete, EmbedTypeOK
    <2>3. holding' = holding /\ worker' = worker
          /\ \A k \in Jobs : phase'[k] \in {"chunking", "sending"} => phase[k] \in {"chunking", "sending"}
      BY <1>0, <1>3 DEF Abort, CloseWork, CloseResults, Complete, EmbedTypeOK
    <2> QED
      BY <2>2, <2>3 DEF EmbedTypeInv, HasItem
  <1>4. ASSUME NEW f \in Files, ReadFile(j, f)
        PROVE  EmbedTypeInv'
    <2>1. phase' \in [Jobs -> Phases] /\ phase'[j] = "chunking"
      BY <1>0, <1>4 DEF ReadFile, EmbedTypeOK, Phases, Running
    <2>2. holding' \in [Jobs -> Item \cup {NoItem}] /\ holding'[j] \in Item
      BY <1>0, <1>4 DEF ReadFile, EmbedTypeOK, Item
    <2>3. EmbedTypeOK'
      BY <1>0, <1>4, <2>1, <2>2 DEF ReadFile, EmbedTypeOK
    <2>4. \A k \in Jobs : HasItem(k)'
      <3> SUFFICES ASSUME NEW k \in Jobs
                   PROVE  HasItem(k)'
        OBVIOUS
      <3>1. CASE k = j
        BY <1>0, <1>4, <2>2, <3>1 DEF ReadFile, HasItem
      <3>2. CASE k # j
        BY <1>0, <1>4, <3>2 DEF ReadFile, HasItem, EmbedTypeOK
      <3> QED
        BY <3>1, <3>2
    <2> QED
      BY <2>3, <2>4 DEF EmbedTypeInv
  <1>5. ASSUME NEW f \in Files, ReadFails(j, f)
        PROVE  EmbedTypeInv'
    <2>1. phase' \in [Jobs -> Phases] /\ phase'[j] = "counting"
      BY <1>0, <1>5 DEF ReadFails, EmbedTypeOK, Phases, Running
    <2>2. outcome' \in [Jobs -> [Files -> Outcomes]]
      BY <1>0, <1>5 DEF ReadFails, Report, EmbedTypeOK, Outcomes
    <2>3. EmbedTypeOK'
      BY <1>0, <1>5, <2>1, <2>2 DEF ReadFails, EmbedTypeOK
    <2> QED
      BY <1>0, <1>5, <2>1, <2>3 DEF ReadFails, EmbedTypeInv, EmbedTypeOK, HasItem
  <1>6. CASE CountReadError(j)
    <2>1. phase' \in [Jobs -> Phases] /\ phase'[j] = "feeding"
      BY <1>0, <1>6 DEF CountReadError, EmbedTypeOK, Phases, Running
    <2>2. errors' \in [Jobs -> Nat]
      BY <1>0, <1>6 DEF CountReadError, EmbedTypeOK
    <2>3. EmbedTypeOK'
      BY <1>0, <1>6, <2>1, <2>2 DEF CountReadError, EmbedTypeOK
    <2> QED
      BY <1>0, <1>6, <2>1, <2>3 DEF CountReadError, EmbedTypeInv, EmbedTypeOK, HasItem
  <1>7. CASE Chunk(j)
    <2>1. phase' \in [Jobs -> Phases] /\ phase'[j] = "sending" /\ phase[j] = "chunking"
      BY <1>0, <1>7 DEF Chunk, EmbedTypeOK, Phases, Running
    <2>2. EmbedTypeOK'
      BY <1>0, <1>7, <2>1 DEF Chunk, EmbedTypeOK
    <2> QED
      BY <1>0, <1>7, <2>1, <2>2 DEF Chunk, EmbedTypeInv, EmbedTypeOK, HasItem
  <1>8. CASE SendWork(j)
    <2>1. phase' \in [Jobs -> Phases] /\ phase'[j] = "feeding" /\ phase[j] = "sending"
      BY <1>0, <1>8 DEF SendWork, EmbedTypeOK, Phases, Running
    <2>2. holding[j] \in Item
      BY <1>0, <2>1 DEF HasItem
    <2>3. workQ' = [workQ EXCEPT ![j] = Append(workQ[j], holding[j])]
      BY <1>8 DEF SendWork
    <2>4. workQ' \in [Jobs -> Seq(Item)]
      BY <1>0, <2>2, <2>3, Sent DEF EmbedTypeOK
    <2>5. holding' \in [Jobs -> Item \cup {NoItem}]
          /\ \A k \in Jobs : k # j => holding'[k] = holding[k]
      BY <1>0, <1>8 DEF SendWork, EmbedTypeOK
    <2>6. EmbedTypeOK'
      BY <1>0, <1>8, <2>1, <2>4, <2>5 DEF SendWork, EmbedTypeOK
    <2> QED
      BY <1>0, <1>8, <2>1, <2>5, <2>6 DEF SendWork, EmbedTypeInv, EmbedTypeOK, HasItem
  <1> QED
    BY <1>1, <1>2, <1>3, <1>4, <1>5, <1>6, <1>7, <1>8 DEF Feeder

\* A worker's slot, from and to which an action moves it.
LEMMA SlotType ==
    ASSUME EmbedTypeInv, NEW j \in Jobs, NEW w \in Workers, NEW s \in Slot, Move(j, w, s),
           s.at \in {"embedding", "reporting"} => s.item \in Item
    PROVE  /\ worker' \in [Jobs -> [Workers -> Slot]]
           /\ worker'[j][w] = s
           /\ \A v \in Workers : v # w => worker'[j][v] = worker[j][v]
           /\ \A k \in Jobs : k # j => worker'[k] = worker[k]
           /\ \A k \in Jobs, v \in Workers :
                 worker'[k][v].at \in {"embedding", "reporting"} => worker'[k][v].item \in Item
  <1>1. worker \in [Jobs -> [Workers -> Slot]]
    BY DEF EmbedTypeInv, EmbedTypeOK
  <1>2. worker' = [worker EXCEPT ![j][w] = s]
    BY DEF Move
  <1>3. \A k \in Jobs, v \in Workers :
           worker[k][v].at \in {"embedding", "reporting"} => worker[k][v].item \in Item
    BY DEF EmbedTypeInv, HasItem
  <1>4. /\ worker' \in [Jobs -> [Workers -> Slot]]
        /\ worker'[j][w] = s
        /\ \A v \in Workers : v # w => worker'[j][v] = worker[j][v]
        /\ \A k \in Jobs : k # j => worker'[k] = worker[k]
    BY <1>1, <1>2
  <1> QED
    BY <1>3, <1>4

\* What a worker has after each of its steps.
LEMMA WorkerSteps ==
    ASSUME EmbedTypeInv, NEW j \in Jobs, NEW w \in Workers, EmbedWorker(j, w)
    PROVE  \E s \in Slot :
             /\ Move(j, w, s)
             /\ s.at \in {"embedding", "reporting"} => s.item \in Item
             /\ \/ /\ TakeWork(j, w)
                   /\ s.at = IF cancelled[j] THEN "exited"
                             ELSE IF Head(workQ[j]).ver \in EmptyVersions THEN "reporting"
                             ELSE "embedding"
                   /\ ~cancelled[j] => s.item = Head(workQ[j])
                \/ WorkerExits(j, w) /\ s.at = "exited"
                \/ /\ EmbedChunk(j, w) \/ (EmbedFails(j, w) /\ s.failed)
                   /\ worker[j][w].at = "embedding" /\ worker[j][w].item \in Item
                   /\ s.at = "reporting" /\ s.item = worker[j][w].item
                \/ SendResult(j, w) /\ s.at = "idle"
  <1>1. /\ worker[j][w] \in Slot /\ workQ[j] \in Seq(Item)
        /\ worker[j][w].at \in {"embedding", "reporting"} => worker[j][w].item \in Item
    BY DEF EmbedTypeInv, EmbedTypeOK, HasItem
  <1>2. Idle \in Slot /\ Idle.at = "idle" /\ [Idle EXCEPT !.at = "exited"] \in Slot
        /\ [Idle EXCEPT !.at = "exited"].at = "exited"
    BY DEF Idle, Slot
  <1>3. CASE TakeWork(j, w)
    <2>1. Head(workQ[j]) \in Item
      BY <1>1, <1>3, Received DEF TakeWork
    <2>2. CASE cancelled[j]
      <3>1. Move(j, w, [Idle EXCEPT !.at = "exited"])
        BY <1>3, <2>2 DEF TakeWork
      <3> QED
        BY <1>2, <1>3, <2>2, <3>1
    <2>3. CASE ~cancelled[j] /\ Head(workQ[j]).ver \in EmptyVersions
      <3> DEFINE s == [at |-> "reporting", item |-> Head(workQ[j]), failed |-> FALSE]
      <3>1. Move(j, w, s)
        BY <1>3, <2>3 DEF TakeWork
      <3>2. s \in Slot /\ s.at = "reporting" /\ s.item = Head(workQ[j])
        BY <2>1 DEF Slot
      <3> HIDE DEF s
      <3> QED
        BY <1>3, <2>1, <2>3, <3>1, <3>2
    <2>4. CASE ~cancelled[j] /\ Head(workQ[j]).ver \notin EmptyVersions
      <3> DEFINE s == [at |-> "embedding", item |-> Head(workQ[j]), failed |-> FALSE]
      <3>1. Move(j, w, s)
        BY <1>3, <2>4 DEF TakeWork
      <3>2. s \in Slot /\ s.at = "embedding" /\ s.item = Head(workQ[j])
        BY <2>1 DEF Slot
      <3> HIDE DEF s
      <3> QED
        BY <1>3, <2>1, <2>4, <3>1, <3>2
    <2> QED
      BY <2>2, <2>3, <2>4
  <1>4. CASE WorkerExits(j, w)
    <2>1. Move(j, w, [Idle EXCEPT !.at = "exited"])
      BY <1>4 DEF WorkerExits
    <2> QED
      BY <1>2, <1>4, <2>1
  <1>5. CASE EmbedChunk(j, w)
    <2> DEFINE s == [worker[j][w] EXCEPT !.at = "reporting"]
    <2>1. Move(j, w, s) /\ worker[j][w].at = "embedding"
      BY <1>5 DEF EmbedChunk
    <2>2. s \in Slot /\ s.at = "reporting" /\ s.item = worker[j][w].item
      BY <1>1 DEF Slot
    <2> HIDE DEF s
    <2> QED
      BY <1>1, <1>5, <2>1, <2>2
  <1>6. CASE EmbedFails(j, w)
    <2> DEFINE s == [worker[j][w] EXCEPT !.at = "reporting", !.failed = TRUE]
    <2>1. Move(j, w, s) /\ worker[j][w].at = "embedding"
      BY <1>6 DEF EmbedFails
    <2>2. s \in Slot /\ s.at = "reporting" /\ s.item = worker[j][w].item /\ s.failed
      BY <1>1 DEF Slot
    <2> HIDE DEF s
    <2> QED
      BY <1>1, <1>6, <2>1, <2>2
  <1>7. CASE SendResult(j, w)
    <2>1. Move(j, w, Idle)
      BY <1>7 DEF SendResult
    <2> QED
      BY <1>2, <1>7, <2>1
  <1> QED
    BY <1>3, <1>4, <1>5, <1>6, <1>7 DEF EmbedWorker

LEMMA ResultType ==
    ASSUME NEW s \in Slot, s.item \in Item
    PROVE  ResultOf(s) \in Result
  BY DEF ResultOf, Slot, Item, Result

LEMMA WorkerType ==
    ASSUME EmbedTypeInv, NEW j \in Jobs, NEW w \in Workers, EmbedWorker(j, w)
    PROVE  EmbedTypeInv'
  <1> USE DEF inputs, results, queues
  <1>1. PICK s \in Slot : Move(j, w, s) /\ (s.at \in {"embedding", "reporting"} => s.item \in Item)
    BY WorkerSteps
  <1>2. /\ worker' \in [Jobs -> [Workers -> Slot]]
        /\ \A k \in Jobs, v \in Workers :
              worker'[k][v].at \in {"embedding", "reporting"} => worker'[k][v].item \in Item
    BY <1>1, SlotType
  <1>3. EmbedTypeOK /\ worker[j][w] \in Slot
        /\ (worker[j][w].at \in {"embedding", "reporting"} => worker[j][w].item \in Item)
    BY DEF EmbedTypeInv, EmbedTypeOK, HasItem
  <1>4. workQ' \in [Jobs -> Seq(Item)]
    <2>1. CASE TakeWork(j, w)
      <3>1. workQ[j] \in Seq(Item) /\ workQ[j] # <<>> /\ workQ' = [workQ EXCEPT ![j] = Tail(workQ[j])]
        BY <1>3, <2>1 DEF TakeWork, EmbedTypeOK
      <3> QED
        BY <1>3, <3>1, Received DEF EmbedTypeOK
    <2> QED
      BY <1>3, <2>1 DEF EmbedWorker, WorkerExits, EmbedChunk, EmbedFails, SendResult, EmbedTypeOK
  <1>5. resQ' \in [Jobs -> Seq(Result)]
    <2>1. CASE SendResult(j, w)
      <3>1. /\ ResultOf(worker[j][w]) \in Result
            /\ resQ' = [resQ EXCEPT ![j] = Append(resQ[j], ResultOf(worker[j][w]))]
        BY <1>3, <2>1, ResultType DEF SendResult
      <3> QED
        BY <1>3, <3>1, Sent DEF EmbedTypeOK
    <2> QED
      BY <1>3, <2>1 DEF EmbedWorker, WorkerExits, EmbedChunk, EmbedFails, TakeWork, EmbedTypeOK
  <1>6. store' \in [Collections -> SUBSET (Files \X Versions)]
    <2>1. CASE worker[j][w].at = "embedding" /\ Upsert(j, worker[j][w].item)
      <3>1. <<worker[j][w].item.file, worker[j][w].item.ver>> \in Files \X Versions
        BY <1>3, <2>1 DEF Item
      <3> QED
        BY <1>3, <2>1, <3>1 DEF Upsert, EmbedTypeOK
    <2>2. CASE UNCHANGED store
      BY <1>3, <2>2 DEF EmbedTypeOK
    <2> QED
      BY <2>1, <2>2 DEF EmbedWorker, WorkerExits, EmbedChunk, EmbedFails, TakeWork, SendResult
  <1>7. UNCHANGED <<disk, index, phase, coll, todo, holding, workClosed, resClosed, processor,
                    errors, loaded, cancelled, outcome>>
    BY DEF EmbedWorker, WorkerExits, EmbedChunk, EmbedFails, TakeWork, SendResult
  <1>8. EmbedTypeOK'
    BY <1>2, <1>3, <1>4, <1>5, <1>6, <1>7 DEF EmbedTypeOK
  <1> QED
    BY <1>2, <1>7, <1>8 DEF EmbedTypeInv, HasItem

LEMMA ProcessorType ==
    ASSUME EmbedTypeInv, NEW j \in Jobs, Processor(j)
    PROVE  EmbedTypeInv'
  <1> USE DEF inputs, results, queues
  <1>1. EmbedTypeOK
    BY DEF EmbedTypeInv
  <1>2. resQ' \in [Jobs -> Seq(Result)] /\ (resQ[j] # <<>> => Head(resQ[j]) \in Result)
    <2>1. CASE resQ[j] # <<>> /\ resQ' = [resQ EXCEPT ![j] = Tail(@)]
      <3>1. resQ[j] \in Seq(Result) /\ resQ' = [resQ EXCEPT ![j] = Tail(resQ[j])]
        BY <1>1, <2>1 DEF EmbedTypeOK
      <3> QED
        BY <1>1, <2>1, <3>1, Received DEF EmbedTypeOK
    <2>2. CASE resQ[j] = <<>> /\ UNCHANGED resQ
      BY <1>1, <2>2 DEF EmbedTypeOK
    <2> QED
      BY <2>1, <2>2 DEF Processor, ProcessResult, ProcessorExits
  <1>3. CASE ProcessResult(j)
    <2> DEFINE r == Head(resQ[j])
    <2>1. r.file \in Files /\ r.ver \in Versions
      BY <1>2, <1>3 DEF ProcessResult, Result
    <2>2. \/ index' = [index EXCEPT ![r.file] = r.ver]
          \/ UNCHANGED index
      BY <1>3 DEF ProcessResult
    <2>3. \/ errors' = [errors EXCEPT ![j] = @ + 1]
          \/ UNCHANGED errors
      BY <1>3 DEF ProcessResult
    <2>4. \E o \in Outcomes : Report(j, r.file, o)
      BY <1>3 DEF ProcessResult, Outcomes
    <2> HIDE DEF r
    <2>5. index' \in [Files -> Versions \cup {Missing}]
      BY <1>1, <2>1, <2>2 DEF EmbedTypeOK
    <2>6. errors' \in [Jobs -> Nat]
      BY <1>1, <2>3 DEF EmbedTypeOK
    <2>7. outcome' \in [Jobs -> [Files -> Outcomes]]
      BY <1>1, <2>1, <2>4 DEF EmbedTypeOK, Report
    <2>8. UNCHANGED <<disk, store, phase, coll, todo, holding, workQ, workClosed, resClosed,
                      worker, processor, loaded, cancelled>>
      BY <1>3 DEF ProcessResult
    <2>9. EmbedTypeOK'
      BY <1>1, <1>2, <2>5, <2>6, <2>7, <2>8 DEF EmbedTypeOK
    <2> QED
      BY <2>8, <2>9 DEF EmbedTypeInv, HasItem
  <1>4. CASE ProcessorExits(j)
    <2>1. /\ processor' \in [Jobs -> {"running", "exited"}]
          /\ UNCHANGED <<disk, index, store, phase, coll, todo, holding, workQ, workClosed,
                         resClosed, worker, errors, loaded, cancelled, outcome>>
      BY <1>1, <1>4 DEF ProcessorExits, EmbedTypeOK
    <2>2. EmbedTypeOK'
      BY <1>1, <1>2, <2>1 DEF EmbedTypeOK
    <2> QED
      BY <2>1, <2>2 DEF EmbedTypeInv, HasItem
  <1> QED
    BY <1>3, <1>4 DEF Processor

LEMMA EmbedTypeInductive == EmbedTypeInv /\ [Next]_vars => EmbedTypeInv'
  <1> SUFFICES ASSUME EmbedTypeInv, [Next]_vars
               PROVE  EmbedTypeInv'
    OBVIOUS
  <1> USE DEF inputs, results, queues
  <1>1. ASSUME NEW f \in Files, NEW v \in Versions, EditFile(f, v)
        PROVE  EmbedTypeInv'
    BY <1>1 DEF EditFile, EmbedTypeInv, EmbedTypeOK, HasItem
  <1>2. ASSUME NEW j \in Jobs, Cancel(j)
        PROVE  EmbedTypeInv'
    BY <1>2 DEF Cancel, EmbedTypeInv, EmbedTypeOK, HasItem
  <1>3. CASE UNCHANGED vars
    BY <1>3 DEF vars, EmbedTypeInv, EmbedTypeOK, HasItem
  <1> QED
    BY <1>1, <1>2, <1>3, FeederType, WorkerType, ProcessorType DEF Next

-----------------------------------------------------------------------------
\* One job runs at a time, and while it does it has the workspace.
ClaimInv ==
    /\ \A j \in Jobs : phase[j] \in Running => active
    /\ \A j, k \in Jobs : phase[j] \in Running /\ phase[k] \in Running => j = k

\* The queues close in their order, after those who send on them have gone.
CloseInv(j) ==
    /\ workClosed[j] => phase[j] \in {"waiting", "collecting", "aborted", "done"}
    /\ phase[j] \in {"waiting", "collecting"} => workClosed[j] /\ todo[j] = {}
    /\ phase[j] = "aborted" => cancelled[j]
    /\ phase[j] = "collecting" => resClosed[j]
    /\ resClosed[j] => workClosed[j] /\ Exited(j)
    /\ phase[j] = "done" /\ workClosed[j] =>
          resClosed[j] /\ processor[j] = "exited" /\ todo[j] = {}

\* Who exits without a cancellation has left nothing behind.
ExitInv(j) ==
    ~cancelled[j] =>
        /\ processor[j] = "exited" => resQ[j] = <<>> /\ resClosed[j]
        /\ \A w \in Workers : worker[j][w].at = "exited" => workQ[j] = <<>> /\ workClosed[j]

\* Where a file of a job is between the walk and its report.
Carried(j, f) ==
    \/ f \in todo[j]
    \/ phase[j] \in {"chunking", "sending"} /\ holding[j].file = f
    \/ \E i \in Elems(workQ[j]) : i.file = f
    \/ \E w \in Workers : /\ worker[j][w].at \in {"embedding", "reporting"}
                          /\ worker[j][w].item.file = f
    \/ \E r \in Elems(resQ[j]) : r.file = f

\* A file that was picked is reported, or somewhere on its way to it; a file that
\* failed has been counted, or is being counted.
ReportInv(j) ==
    /\ phase[j] \in {"new", "walking"} => \A f \in Files : outcome[j][f] = "none"
    /\ phase[j] = "done" /\ ~workClosed[j] =>
          \A f \in Files : outcome[j][f] \notin {"pending", "failed"}
    /\ ~cancelled[j] => \A f \in Files : outcome[j][f] = "pending" => Carried(j, f)
    /\ Failed(j) # {} => errors[j] > 0 \/ phase[j] = "counting"

JobInv(j) == CloseInv(j) /\ ExitInv(j) /\ ReportInv(j)

Stored(f, v) == \E c \in Collections : <<f, v>> \in store[c]

\* What is indexed, or about to be, was stored.
StoredInv ==
    /\ \A f \in Files : index[f] # Missing => Stored(f, index[f])
    /\ \A j \in Jobs, w \in Workers :
          worker[j][w].at = "reporting" /\ ~worker[j][w].failed
              /\ worker[j][w].item.ver \notin EmptyVersions
            => Stored(worker[j][w].item.file, worker[j][w].item.ver)
    /\ \A j \in Jobs : \A r \in Elems(resQ[j]) :
          ~r.failed /\ r.ver \notin EmptyVersions => Stored(r.file, r.ver)

EmbedInv == EmbedTypeInv /\ ClaimInv /\ StoredInv /\ \A j \in Jobs : JobInv(j)

\* An action of one job leaves the others alone.
Unmoved(k) ==
    UNCHANGED <<phase[k], coll[k], todo[k], holding[k], workQ[k], workClosed[k], worker[k],
                resQ[k], resClosed[k], processor[k], errors[k], loaded[k], cancelled[k],
                outcome[k]>>

LEMMA OthersUnmoved ==
    ASSUME EmbedTypeInv, NEW j \in Jobs, NEW k \in Jobs, k # j,
           Feeder(j) \/ Processor(j) \/ Cancel(j) \/ \E w \in Workers : EmbedWorker(j, w)
    PROVE  Unmoved(k)
  <1> USE DEF inputs, results, queues, Goto, Report, Move, EmbedTypeInv, EmbedTypeOK, Unmoved
  <1>1. CASE Feeder(j)
    <2>1. CASE Start(j) \/ Unconfigured(j) \/ Walk(j)
      BY <2>1 DEF Start, Unconfigured, Walk
    <2>2. CASE Abort(j) \/ CloseWork(j) \/ CloseResults(j) \/ Complete(j)
      BY <2>2 DEF Abort, CloseWork, CloseResults, Complete
    <2>3. CASE CountReadError(j) \/ Chunk(j) \/ SendWork(j)
      BY <2>3 DEF CountReadError, Chunk, SendWork
    <2>4. ASSUME NEW f \in Files, ReadFile(j, f) \/ ReadFails(j, f)
          PROVE  Unmoved(k)
      BY <2>4 DEF ReadFile, ReadFails
    <2> QED
      BY <1>1, <2>1, <2>2, <2>3, <2>4 DEF Feeder
  <1>2. CASE Processor(j)
    <2>1. CASE ProcessorExits(j)
      BY <2>1 DEF ProcessorExits
    <2>2. CASE ProcessResult(j)
      BY <2>2 DEF ProcessResult
    <2> QED
      BY <1>2, <2>1, <2>2 DEF Processor
  <1>3. CASE Cancel(j)
    BY <1>3 DEF Cancel
  <1>4. ASSUME NEW w \in Workers, EmbedWorker(j, w)
        PROVE  Unmoved(k)
    <2>1. CASE TakeWork(j, w)
      BY <2>1 DEF TakeWork
    <2>2. CASE WorkerExits(j, w) \/ SendResult(j, w)
      BY <2>2 DEF WorkerExits, SendResult
    <2>3. CASE EmbedChunk(j, w) \/ EmbedFails(j, w)
      BY <2>3 DEF EmbedChunk, EmbedFails
    <2> QED
      BY <1>4, <2>1, <2>2, <2>3 DEF EmbedWorker
  <1> QED
    BY <1>1, <1>2, <1>3, <1>4

LEMMA UnmovedKeeps ==
    ASSUME NEW k \in Jobs, JobInv(k), Unmoved(k)
    PROVE  JobInv(k)'
  <1>1. CloseInv(k)' /\ ExitInv(k)'
    BY DEF Unmoved, JobInv, CloseInv, ExitInv, Exited
  <1>2. ReportInv(k)'
    BY DEF Unmoved, JobInv, ReportInv, Carried, Failed
  <1> QED
    BY <1>1, <1>2 DEF JobInv

\* Where the caller of RunEmbedJob goes, and what becomes of the claim.
LEMMA FeederMoves ==
    ASSUME EmbedTypeInv, NEW j \in Jobs, Feeder(j)
    PROVE  \E p \in Phases :
             /\ phase' = [phase EXCEPT ![j] = p]
             /\ \/ phase[j] = "new" /\ active' /\ p = IF active THEN "rejected" ELSE "walking"
                \/ phase[j] \in Running /\ p \in Running /\ (active => active')
                \/ phase[j] \in Running /\ p \in Returned /\ ~active'
  <1> USE DEF Goto, Phases, Running, Returned
  <1>1. CASE Start(j)
    <2>1. \E p \in {"rejected", "walking"} : p = IF active THEN "rejected" ELSE "walking"
      OBVIOUS
    <2> QED
      BY <1>1, <2>1 DEF Start
  <1>2. CASE Unconfigured(j) \/ Abort(j) \/ Complete(j)
    BY <1>2 DEF Unconfigured, Abort, Complete
  <1>3. CASE Walk(j)
    <2> PICK picked \in SUBSET Files :
            /\ phase' = [phase EXCEPT ![j] = IF picked = {} THEN "done" ELSE "feeding"]
            /\ active' = (picked # {})
      BY <1>3 DEF Walk
    <2>1. phase[j] = "walking"
      BY <1>3 DEF Walk
    <2> QED
      BY <2>1
  <1>4. CASE CountReadError(j) \/ Chunk(j) \/ SendWork(j) \/ CloseWork(j) \/ CloseResults(j)
    BY <1>4 DEF CountReadError, Chunk, SendWork, CloseWork, CloseResults
  <1>5. ASSUME NEW f \in Files, ReadFile(j, f) \/ ReadFails(j, f)
        PROVE  \E p \in Phases :
                 /\ phase' = [phase EXCEPT ![j] = p]
                 /\ phase[j] \in Running /\ p \in Running /\ (active => active')
    BY <1>5 DEF ReadFile, ReadFails
  <1> QED
    BY <1>1, <1>2, <1>3, <1>4, <1>5 DEF Feeder

LEMMA ClaimInductive == EmbedTypeInv /\ ClaimInv /\ [Next]_vars => ClaimInv'
  <1> SUFFICES ASSUME EmbedTypeInv, ClaimInv, [Next]_vars
               PROVE  ClaimInv'
    OBVIOUS
  <1>1. ASSUME NEW j \in Jobs, Feeder(j)
        PROVE  ClaimInv'
    <2>1. phase \in [Jobs -> Phases]
      BY DEF EmbedTypeInv, EmbedTypeOK
    <2>2. PICK p \in Phases :
             /\ phase' = [phase EXCEPT ![j] = p]
             /\ \/ phase[j] = "new" /\ active' /\ p = IF active THEN "rejected" ELSE "walking"
                \/ phase[j] \in Running /\ p \in Running /\ (active => active')
                \/ phase[j] \in Running /\ p \in Returned /\ ~active'
      BY <1>1, FeederMoves
    <2>3. phase'[j] = p /\ \A k \in Jobs : k # j => phase'[k] = phase[k]
      BY <2>1, <2>2
    <2>4. "rejected" \notin Running /\ "walking" \in Running /\ Returned \cap Running = {}
      BY DEF Running, Returned
    <2>5. CASE phase[j] = "new" /\ active' /\ p = IF active THEN "rejected" ELSE "walking"
      BY <2>3, <2>4, <2>5 DEF ClaimInv
    <2>6. CASE phase[j] \in Running /\ p \in Running /\ (active => active')
      BY <2>3, <2>6 DEF ClaimInv
    <2>7. CASE phase[j] \in Running /\ p \in Returned /\ ~active'
      BY <2>3, <2>4, <2>7 DEF ClaimInv
    <2> QED
      BY <2>2, <2>5, <2>6, <2>7
  <1>2. CASE UNCHANGED <<phase, active>>
    BY <1>2 DEF ClaimInv
  <1>3. ASSUME NEW j \in Jobs, Processor(j) \/ Cancel(j)
        PROVE  ClaimInv'
    BY <1>2, <1>3 DEF Processor, ProcessResult, ProcessorExits, Cancel
  <1>4. ASSUME NEW j \in Jobs, NEW w \in Workers, EmbedWorker(j, w)
        PROVE  ClaimInv'
    BY <1>2, <1>4 DEF EmbedWorker, TakeWork, WorkerExits, EmbedChunk, EmbedFails, SendResult
  <1>5. ASSUME NEW f \in Files, NEW v \in Versions, EditFile(f, v)
        PROVE  ClaimInv'
    BY <1>2, <1>5 DEF EditFile
  <1> QED
    BY <1>1, <1>2, <1>3, <1>4, <1>5 DEF Next, vars

\* A worker reports a success with chunks only of what it has stored.
LEMMA WorkerStores ==
    ASSUME EmbedTypeInv, StoredInv, NEW j \in Jobs, NEW w \in Workers, EmbedWorker(j, w)
    PROVE  StoredInv'
  <1> USE DEF inputs, results, queues
  <1> DEFINE Now(f, v) == \E c \in Collections : <<f, v>> \in store'[c]
  <1>1. PICK s \in Slot :
             /\ Move(j, w, s)
             /\ s.at \in {"embedding", "reporting"} => s.item \in Item
             /\ \/ /\ TakeWork(j, w)
                   /\ s.at = IF cancelled[j] THEN "exited"
                             ELSE IF Head(workQ[j]).ver \in EmptyVersions THEN "reporting"
                             ELSE "embedding"
                   /\ ~cancelled[j] => s.item = Head(workQ[j])
                \/ WorkerExits(j, w) /\ s.at = "exited"
                \/ /\ EmbedChunk(j, w) \/ (EmbedFails(j, w) /\ s.failed)
                   /\ worker[j][w].at = "embedding" /\ worker[j][w].item \in Item
                   /\ s.at = "reporting" /\ s.item = worker[j][w].item
                \/ SendResult(j, w) /\ s.at = "idle"
    BY WorkerSteps
  <1>2. /\ worker'[j][w] = s
        /\ \A v \in Workers : v # w => worker'[j][v] = worker[j][v]
        /\ \A k \in Jobs : k # j => worker'[k] = worker[k]
    BY <1>1, SlotType
  <1>3. /\ store \in [Collections -> SUBSET (Files \X Versions)] /\ coll[j] \in Collections
        /\ worker[j][w] \in Slot /\ resQ \in [Jobs -> Seq(Result)]
        /\ worker[j][w].at \in {"embedding", "reporting"} => worker[j][w].item \in Item
    BY DEF EmbedTypeInv, EmbedTypeOK, HasItem
  <1>4. UNCHANGED index
    BY DEF EmbedWorker, WorkerExits, EmbedChunk, EmbedFails, TakeWork, SendResult
  <1>5. ASSUME NEW f, NEW v, Stored(f, v)
        PROVE  Now(f, v)
    <2>1. CASE \E i \in Item : Upsert(j, i)
      <3>1. \A c \in Collections : store[c] \subseteq store'[c]
        BY <1>3, <2>1 DEF Upsert
      <3> QED
        BY <1>5, <3>1 DEF Stored
    <2>2. CASE UNCHANGED store
      BY <1>5, <2>2 DEF Stored
    <2> QED
      BY <1>1, <2>1, <2>2 DEF WorkerExits, EmbedChunk, EmbedFails, TakeWork, SendResult
  <1>6. s.at = "reporting" /\ ~s.failed /\ s.item.ver \notin EmptyVersions
          => Now(s.item.file, s.item.ver)
    <2>1. CASE EmbedChunk(j, w) /\ s.item = worker[j][w].item
      <3>1. store' = [store EXCEPT ![coll[j]] = @ \cup {<<s.item.file, s.item.ver>>}]
        BY <2>1 DEF EmbedChunk, Upsert
      <3>2. <<s.item.file, s.item.ver>> \in store'[coll[j]]
        BY <1>3, <3>1
      <3> QED
        BY <1>3, <3>2 DEF Stored
    <2> QED
      BY <1>1, <2>1
  <1> HIDE DEF Now
  <1>7. \A k \in Jobs, v \in Workers :
          worker'[k][v].at = "reporting" /\ ~worker'[k][v].failed
              /\ worker'[k][v].item.ver \notin EmptyVersions
            => Now(worker'[k][v].item.file, worker'[k][v].item.ver)
    <2> SUFFICES ASSUME NEW k \in Jobs, NEW v \in Workers,
                        worker'[k][v].at = "reporting", ~worker'[k][v].failed,
                        worker'[k][v].item.ver \notin EmptyVersions
                 PROVE  Now(worker'[k][v].item.file, worker'[k][v].item.ver)
      OBVIOUS
    <2>1. CASE k = j /\ v = w
      BY <1>2, <1>6, <2>1
    <2>2. CASE ~(k = j /\ v = w)
      <3>1. worker'[k][v] = worker[k][v]
        BY <1>2, <2>2
      <3>2. Stored(worker[k][v].item.file, worker[k][v].item.ver)
        BY <3>1 DEF StoredInv
      <3> QED
        BY <1>5, <3>1, <3>2
    <2> QED
      BY <2>1, <2>2
  <1>8. \A k \in Jobs : \A r \in Elems(resQ'[k]) :
          ~r.failed /\ r.ver \notin EmptyVersions => Now(r.file, r.ver)
    <2> SUFFICES ASSUME NEW k \in Jobs, NEW r \in Elems(resQ'[k]),
                        ~r.failed, r.ver \notin EmptyVersions
                 PROVE  Now(r.file, r.ver)
      OBVIOUS
    <2>1. CASE r \in Elems(resQ[k])
      BY <1>5, <2>1 DEF StoredInv
    <2>2. CASE r \notin Elems(resQ[k])
      <3>1. SendResult(j, w) /\ worker[j][w].at = "reporting"
        BY <1>1, <2>2 DEF TakeWork, WorkerExits, EmbedChunk, EmbedFails, SendResult
      <3>2. resQ' = [resQ EXCEPT ![j] = Append(resQ[j], ResultOf(worker[j][w]))]
        BY <3>1 DEF SendResult
      <3>3. ResultOf(worker[j][w]) \in Result
        BY <1>3, <3>1, ResultType
      <3>4. k = j /\ Elems(resQ'[k]) = Elems(resQ[j]) \cup {ResultOf(worker[j][w])}
        BY <1>3, <2>2, <3>2, <3>3, Sent
      <3>5. r = ResultOf(worker[j][w])
        BY <2>2, <3>4
      <3>6. /\ r.failed = worker[j][w].failed /\ r.ver = worker[j][w].item.ver
            /\ r.file = worker[j][w].item.file
        BY <3>5 DEF ResultOf
      <3>7. Stored(worker[j][w].item.file, worker[j][w].item.ver)
        BY <3>1, <3>6 DEF StoredInv
      <3> QED
        BY <1>5, <3>6, <3>7
    <2> QED
      BY <2>1, <2>2
  <1>9. \A f \in Files : index'[f] # Missing => Now(f, index'[f])
    BY <1>4, <1>5 DEF StoredInv
  <1> QED
    BY <1>7, <1>8, <1>9 DEF StoredInv, Stored, Now

\* The processor records only hashes of results that were stored.
LEMMA ProcessorStores ==
    ASSUME EmbedTypeInv, StoredInv, NEW j \in Jobs, Processor(j)
    PROVE  StoredInv'
  <1> USE DEF inputs, results, queues
  <1>1. /\ resQ \in [Jobs -> Seq(Result)] /\ UNCHANGED <<store, worker>>
        /\ index \in [Files -> Versions \cup {Missing}]
    BY DEF EmbedTypeInv, EmbedTypeOK, Processor, ProcessResult, ProcessorExits
  <1>2. \A f, v : Stored(f, v)' <=> Stored(f, v)
    BY <1>1 DEF Stored
  <1>3. \A k \in Jobs : Elems(resQ'[k]) \subseteq Elems(resQ[k])
    <2>1. CASE resQ[j] # <<>> /\ resQ' = [resQ EXCEPT ![j] = Tail(@)]
      <3>1. resQ[j] \in Seq(Result) /\ resQ'[j] = Tail(resQ[j])
        BY <1>1, <2>1
      <3>2. Elems(resQ[j]) = {Head(resQ[j])} \cup Elems(Tail(resQ[j]))
        BY <2>1, <3>1, Received
      <3> QED
        BY <1>1, <2>1, <3>1, <3>2
    <2>2. CASE UNCHANGED resQ
      BY <2>2
    <2> QED
      BY <2>1, <2>2 DEF Processor, ProcessResult, ProcessorExits
  <1>4. \A f \in Files : index'[f] # Missing => Stored(f, index'[f])
    <2>1. CASE UNCHANGED index
      BY <2>1 DEF StoredInv
    <2>2. CASE ProcessResult(j) /\ index' # index
      <3> DEFINE r == Head(resQ[j])
      <3>1. /\ resQ[j] # <<>> /\ ~r.failed /\ r.ver \notin EmptyVersions
            /\ index' = [index EXCEPT ![r.file] = r.ver]
        BY <2>2 DEF ProcessResult
      <3>2. r \in Elems(resQ[j]) /\ r \in Result
        BY <1>1, <3>1, Received
      <3>3. Stored(r.file, r.ver)
        BY <3>1, <3>2 DEF StoredInv
      <3> HIDE DEF r
      <3> QED
        BY <1>1, <3>1, <3>3 DEF StoredInv
    <2> QED
      BY <2>1, <2>2 DEF Processor, ProcessorExits
  <1> QED
    BY <1>1, <1>2, <1>3, <1>4 DEF StoredInv

LEMMA StoredInductive == EmbedTypeInv /\ StoredInv /\ [Next]_vars => StoredInv'
  <1> SUFFICES ASSUME EmbedTypeInv, StoredInv, [Next]_vars
               PROVE  StoredInv'
    OBVIOUS
  <1> USE DEF inputs, results, queues
  <1>1. CASE UNCHANGED <<index, store, worker, resQ>>
    BY <1>1 DEF StoredInv, Stored
  <1>2. ASSUME NEW j \in Jobs, Feeder(j) \/ Cancel(j)
        PROVE  UNCHANGED <<index, store, worker, resQ>>
    BY <1>2 DEF Feeder, Start, Unconfigured, Walk, Abort, CountReadError, Chunk, SendWork,
                ReadFile, ReadFails, CloseWork, CloseResults, Complete, Cancel
  <1>3. ASSUME NEW f \in Files, NEW v \in Versions, EditFile(f, v)
        PROVE  UNCHANGED <<index, store, worker, resQ>>
    BY <1>3 DEF EditFile
  <1> QED
    BY <1>1, <1>2, <1>3, WorkerStores, ProcessorStores DEF Next, vars

\* The queues are closed in order, and nobody has exited early.
LEMMA FeederCloses ==
    ASSUME EmbedTypeInv, NEW j \in Jobs, JobInv(j), Feeder(j)
    PROVE  CloseInv(j)' /\ ExitInv(j)'
  <1> USE DEF inputs, results, queues, Goto, CloseInv, ExitInv
  <1>1. CloseInv(j) /\ ExitInv(j)
    BY DEF JobInv
  <1>2. /\ phase \in [Jobs -> Phases] /\ todo \in [Jobs -> SUBSET Files]
        /\ workQ \in [Jobs -> Seq(Item)] /\ workClosed \in [Jobs -> BOOLEAN]
        /\ resClosed \in [Jobs -> BOOLEAN] /\ processor \in [Jobs -> {"running", "exited"}]
    BY DEF EmbedTypeInv, EmbedTypeOK
  <1>3. UNCHANGED <<worker, processor, resQ, cancelled>>
    BY DEF Feeder, Start, Unconfigured, Walk, Abort, CountReadError, Chunk, SendWork,
           ReadFile, ReadFails, CloseWork, CloseResults, Complete
  <1>4. Exited(j)' <=> Exited(j)
    BY <1>3 DEF Exited
  <1>5. CASE Start(j) \/ Unconfigured(j)
    <2>1. /\ phase'[j] \in {"walking", "rejected", "done"} /\ phase[j] \in {"new", "walking"}
          /\ UNCHANGED <<todo, workQ, workClosed, resClosed>>
      BY <1>2, <1>5 DEF Start, Unconfigured
    <2> QED
      BY <1>1, <1>3, <1>4, <2>1
  <1>6. CASE Walk(j)
    <2>1. /\ phase'[j] \in {"done", "feeding"} /\ phase[j] = "walking"
          /\ UNCHANGED <<workQ, workClosed, resClosed>>
      BY <1>2, <1>6 DEF Walk
    <2> QED
      BY <1>1, <1>3, <1>4, <2>1
  <1>7. CASE Abort(j)
    <2>1. /\ phase'[j] = "aborted" /\ phase[j] = "feeding" /\ cancelled[j] /\ workClosed'[j]
          /\ UNCHANGED <<workQ, resClosed>>
      BY <1>2, <1>7 DEF Abort
    <2> QED
      BY <1>1, <1>3, <1>4, <2>1
  <1>8. CASE CloseWork(j)
    <2>1. /\ phase'[j] = "waiting" /\ phase[j] = "feeding" /\ todo[j] = {} /\ workClosed'[j]
          /\ UNCHANGED <<todo, workQ, resClosed>>
      BY <1>2, <1>8 DEF CloseWork
    <2> QED
      BY <1>1, <1>3, <1>4, <2>1
  <1>9. CASE CloseResults(j)
    <2>1. /\ phase'[j] = "collecting" /\ phase[j] = "waiting" /\ Exited(j) /\ resClosed'[j]
          /\ UNCHANGED <<todo, workQ, workClosed>>
      BY <1>2, <1>9 DEF CloseResults
    <2> QED
      BY <1>1, <1>3, <1>4, <2>1
  <1>10. CASE Complete(j)
    <2>1. /\ phase'[j] = "done" /\ phase[j] = "collecting" /\ processor[j] = "exited"
          /\ UNCHANGED <<todo, workQ, workClosed, resClosed>>
      BY <1>2, <1>10 DEF Complete
    <2> QED
      BY <1>1, <1>3, <1>4, <2>1
  <1>11. CASE SendWork(j)
    <2>1. /\ phase'[j] = "feeding" /\ phase[j] = "sending"
          /\ UNCHANGED <<todo, workClosed, resClosed>>
      BY <1>2, <1>11 DEF SendWork
    <2> QED
      BY <1>1, <1>3, <1>4, <2>1
  <1>12. CASE CountReadError(j) \/ Chunk(j)
    <2>1. /\ phase'[j] \in {"feeding", "sending"} /\ phase[j] \in {"counting", "chunking"}
          /\ UNCHANGED <<todo, workQ, workClosed, resClosed>>
      BY <1>2, <1>12 DEF CountReadError, Chunk
    <2> QED
      BY <1>1, <1>3, <1>4, <2>1
  <1>13. ASSUME NEW f \in Files, ReadFile(j, f) \/ ReadFails(j, f)
         PROVE  CloseInv(j)' /\ ExitInv(j)'
    <2>1. /\ phase'[j] \in {"chunking", "counting"} /\ phase[j] = "feeding"
          /\ UNCHANGED <<workQ, workClosed, resClosed>>
      BY <1>2, <1>13 DEF ReadFile, ReadFails
    <2> QED
      BY <1>1, <1>3, <1>4, <2>1
  <1> QED
    BY <1>5, <1>6, <1>7, <1>8, <1>9, <1>10, <1>11, <1>12, <1>13 DEF Feeder

LEMMA WorkerCloses ==
    ASSUME EmbedTypeInv, NEW j \in Jobs, JobInv(j), NEW w \in Workers, EmbedWorker(j, w)
    PROVE  CloseInv(j)' /\ ExitInv(j)'
  <1> USE DEF inputs, results, queues
  <1>1. CloseInv(j) /\ ExitInv(j)
    BY DEF JobInv
  <1>2. /\ workQ \in [Jobs -> Seq(Item)] /\ resQ \in [Jobs -> Seq(Result)]
        /\ worker[j][w].at # "exited"
    BY DEF EmbedTypeInv, EmbedTypeOK, EmbedWorker, WorkerExits, EmbedChunk, EmbedFails,
           TakeWork, SendResult
  <1>3. UNCHANGED <<phase, todo, workClosed, resClosed, processor, cancelled>>
    BY DEF EmbedWorker, WorkerExits, EmbedChunk, EmbedFails, TakeWork, SendResult
  <1>4. ~Exited(j) /\ ~resClosed[j]
    BY <1>1, <1>2 DEF Exited, CloseInv
  <1>5. CloseInv(j)'
    BY <1>1, <1>3, <1>4 DEF CloseInv
  <1>6. PICK s \in Slot :
             /\ Move(j, w, s)
             /\ s.at \in {"embedding", "reporting"} => s.item \in Item
             /\ ~cancelled[j] /\ s.at = "exited" => WorkerExits(j, w)
    BY WorkerSteps
  <1>7. /\ worker'[j][w] = s
        /\ \A v \in Workers : v # w => worker'[j][v] = worker[j][v]
    BY <1>6, SlotType
  <1>8. ASSUME ~cancelled[j], NEW v \in Workers, worker'[j][v].at = "exited"
        PROVE  workQ'[j] = <<>> /\ workClosed[j]
    <2>1. CASE v = w
      BY <1>6, <1>7, <1>8, <2>1 DEF WorkerExits
    <2>2. CASE v # w
      <3>1. workQ[j] = <<>> /\ workClosed[j]
        BY <1>1, <1>7, <1>8, <2>2 DEF ExitInv
      <3> QED
        BY <3>1 DEF EmbedWorker, WorkerExits, EmbedChunk, EmbedFails, TakeWork, SendResult
    <2> QED
      BY <2>1, <2>2
  <1>9. ~cancelled[j] => processor[j] # "exited"
    BY <1>1, <1>4 DEF ExitInv
  <1> QED
    BY <1>3, <1>5, <1>8, <1>9 DEF ExitInv

LEMMA ProcessorCloses ==
    ASSUME EmbedTypeInv, NEW j \in Jobs, JobInv(j), Processor(j)
    PROVE  CloseInv(j)' /\ ExitInv(j)'
  <1> USE DEF inputs, results, queues
  <1>1. CloseInv(j) /\ ExitInv(j) /\ processor \in [Jobs -> {"running", "exited"}]
    BY DEF JobInv, EmbedTypeInv, EmbedTypeOK
  <1>2. UNCHANGED <<phase, todo, workQ, workClosed, resClosed, worker, cancelled>>
    BY DEF Processor, ProcessResult, ProcessorExits
  <1>3. /\ processor[j] = "running"
        /\ processor'[j] = "running"
             \/ (processor'[j] = "exited" /\ (~cancelled[j] => resQ'[j] = <<>> /\ resClosed[j]))
    BY <1>1 DEF Processor, ProcessResult, ProcessorExits
  <1>4. CloseInv(j)'
    BY <1>1, <1>2, <1>3 DEF CloseInv, Exited
  <1>5. ExitInv(j)'
    BY <1>1, <1>2, <1>3 DEF ExitInv
  <1> QED
    BY <1>4, <1>5

\* Every file on its way is carried on, whatever the caller of RunEmbedJob does.
LEMMA FeederReports ==
    ASSUME EmbedTypeInv, NEW j \in Jobs, JobInv(j), Feeder(j)
    PROVE  ReportInv(j)'
  <1> USE DEF inputs, results, queues, Goto
  <1>1. CloseInv(j) /\ ReportInv(j)
    BY DEF JobInv
  <1>2. /\ phase \in [Jobs -> Phases] /\ todo \in [Jobs -> SUBSET Files]
        /\ workQ \in [Jobs -> Seq(Item)] /\ workClosed \in [Jobs -> BOOLEAN]
        /\ holding \in [Jobs -> Item \cup {NoItem}] /\ errors \in [Jobs -> Nat]
        /\ loaded \in [Jobs -> Nat] /\ outcome \in [Jobs -> [Files -> Outcomes]]
    BY DEF EmbedTypeInv, EmbedTypeOK
  <1>3. UNCHANGED <<worker, resQ, cancelled>>
    BY DEF Feeder, Start, Unconfigured, Walk, Abort, CountReadError, Chunk, SendWork,
           ReadFile, ReadFails, CloseWork, CloseResults, Complete
  <1>4. CASE Start(j) \/ Unconfigured(j)
    <2>1. /\ phase'[j] \in {"walking", "rejected", "done"} /\ phase[j] \in {"new", "walking"}
          /\ UNCHANGED <<outcome, errors>>
      BY <1>2, <1>4 DEF Start, Unconfigured
    <2>2. \A f \in Files : outcome[j][f] = "none"
      BY <1>1, <2>1 DEF ReportInv
    <2>3. Failed(j)' = {}
      BY <2>1, <2>2 DEF Failed
    <2> QED
      BY <2>1, <2>2, <2>3 DEF ReportInv
  <1>5. CASE Walk(j)
    <2> PICK picked \in SUBSET Files :
            /\ todo' = [todo EXCEPT ![j] = picked]
            /\ outcome' = [outcome EXCEPT ![j] =
                   [f \in Files |-> IF f \in picked THEN "pending" ELSE "skipped"]]
            /\ phase' = [phase EXCEPT ![j] = IF picked = {} THEN "done" ELSE "feeding"]
      BY <1>5 DEF Walk
    <2>1. /\ todo'[j] = picked /\ phase'[j] \in {"done", "feeding"}
          /\ phase'[j] = "done" => picked = {}
          /\ \A f \in Files : outcome'[j][f] = IF f \in picked THEN "pending" ELSE "skipped"
      BY <1>2
    <2>2. Failed(j)' = {}
      BY <2>1 DEF Failed
    <2>3. \A f \in Files : outcome'[j][f] = "pending" => Carried(j, f)'
      BY <2>1 DEF Carried
    <2> QED
      BY <2>1, <2>2, <2>3 DEF ReportInv
  <1>6. CASE Abort(j) \/ CloseWork(j) \/ CloseResults(j) \/ Complete(j)
    <2>1. /\ phase[j] \in {"feeding", "waiting", "collecting"}
          /\ phase'[j] \in {"aborted", "waiting", "collecting", "done"}
          /\ phase'[j] = "done" => workClosed'[j]
          /\ UNCHANGED <<todo, workQ, holding, outcome, errors>>
      BY <1>1, <1>2, <1>6 DEF Abort, CloseWork, CloseResults, Complete, CloseInv
    <2>2. \A f \in Files : Carried(j, f) => Carried(j, f)'
      BY <1>3, <2>1 DEF Carried
    <2>3. Failed(j)' = Failed(j)
      BY <2>1 DEF Failed
    <2> QED
      BY <1>1, <1>3, <2>1, <2>2, <2>3 DEF ReportInv
  <1>7. CASE SendWork(j)
    <2>1. /\ phase[j] = "sending" /\ phase'[j] = "feeding"
          /\ UNCHANGED <<todo, outcome, errors>>
      BY <1>2, <1>7 DEF SendWork
    <2>2. holding[j] \in Item /\ workQ' = [workQ EXCEPT ![j] = Append(workQ[j], holding[j])]
      BY <1>7, <2>1 DEF SendWork, EmbedTypeInv, HasItem
    <2>3. Elems(workQ'[j]) = Elems(workQ[j]) \cup {holding[j]}
      BY <1>2, <2>2, Sent
    <2>4. \A f \in Files : Carried(j, f) => Carried(j, f)'
      BY <1>3, <2>1, <2>3 DEF Carried
    <2>5. Failed(j)' = Failed(j)
      BY <2>1 DEF Failed
    <2> QED
      BY <1>1, <1>3, <2>1, <2>4, <2>5 DEF ReportInv
  <1>8. CASE CountReadError(j)
    <2>1. /\ phase[j] = "counting" /\ phase'[j] = "feeding" /\ errors'[j] = loaded[j] + 1
          /\ loaded[j] \in Nat /\ UNCHANGED <<todo, workQ, holding, outcome>>
      BY <1>2, <1>8 DEF CountReadError
    <2>2. \A f \in Files : Carried(j, f) => Carried(j, f)'
      BY <1>3, <2>1 DEF Carried
    <2>3. errors'[j] > 0
      BY <2>1
    <2> QED
      BY <1>1, <1>3, <2>1, <2>2, <2>3 DEF ReportInv
  <1>9. CASE Chunk(j)
    <2>1. /\ phase[j] = "chunking" /\ phase'[j] = "sending"
          /\ UNCHANGED <<todo, workQ, holding, outcome, errors>>
      BY <1>2, <1>9 DEF Chunk
    <2>2. \A f \in Files : Carried(j, f) => Carried(j, f)'
      BY <1>3, <2>1 DEF Carried
    <2>3. Failed(j)' = Failed(j)
      BY <2>1 DEF Failed
    <2> QED
      BY <1>1, <1>3, <2>1, <2>2, <2>3 DEF ReportInv
  <1>10. ASSUME NEW f \in Files, ReadFile(j, f)
         PROVE  ReportInv(j)'
    <2>1. /\ phase[j] = "feeding" /\ phase'[j] = "chunking" /\ todo'[j] = todo[j] \ {f}
          /\ UNCHANGED <<workQ, outcome, errors>>
      BY <1>2, <1>10 DEF ReadFile
    <2>2. holding'[j].file = f
      BY <1>2, <1>10 DEF ReadFile
    <2>3. \A g \in Files : Carried(j, g) => Carried(j, g)'
      BY <1>3, <2>1, <2>2 DEF Carried
    <2>4. Failed(j)' = Failed(j)
      BY <2>1 DEF Failed
    <2> QED
      BY <1>1, <1>3, <2>1, <2>3, <2>4 DEF ReportInv
  <1>11. ASSUME NEW f \in Files, ReadFails(j, f)
         PROVE  ReportInv(j)'
    <2>1. /\ phase[j] = "feeding" /\ phase'[j] = "counting" /\ todo'[j] = todo[j] \ {f}
          /\ UNCHANGED <<workQ, holding>>
          /\ outcome'[j][f] = "failed"
          /\ \A g \in Files : g # f => outcome'[j][g] = outcome[j][g]
      BY <1>2, <1>11 DEF ReadFails, Report
    <2>2. \A g \in Files : g # f /\ Carried(j, g) => Carried(j, g)'
      BY <1>3, <2>1 DEF Carried
    <2> QED
      BY <1>1, <1>3, <2>1, <2>2 DEF ReportInv
  <1> QED
    BY <1>4, <1>5, <1>6, <1>7, <1>8, <1>9, <1>10, <1>11 DEF Feeder

LEMMA WorkerReports ==
    ASSUME EmbedTypeInv, NEW j \in Jobs, JobInv(j), NEW w \in Workers, EmbedWorker(j, w)
    PROVE  ReportInv(j)'
  <1> USE DEF inputs, results, queues
  <1>1. PICK s \in Slot :
             /\ Move(j, w, s)
             /\ s.at \in {"embedding", "reporting"} => s.item \in Item
             /\ \/ /\ TakeWork(j, w)
                   /\ s.at = IF cancelled[j] THEN "exited"
                             ELSE IF Head(workQ[j]).ver \in EmptyVersions THEN "reporting"
                             ELSE "embedding"
                   /\ ~cancelled[j] => s.item = Head(workQ[j])
                \/ WorkerExits(j, w) /\ s.at = "exited"
                \/ /\ EmbedChunk(j, w) \/ (EmbedFails(j, w) /\ s.failed)
                   /\ worker[j][w].at = "embedding" /\ worker[j][w].item \in Item
                   /\ s.at = "reporting" /\ s.item = worker[j][w].item
                \/ SendResult(j, w) /\ s.at = "idle"
    BY WorkerSteps
  <1>2. /\ worker'[j][w] = s
        /\ \A v \in Workers : v # w => worker'[j][v] = worker[j][v]
    BY <1>1, SlotType
  <1>3. /\ workQ \in [Jobs -> Seq(Item)] /\ resQ \in [Jobs -> Seq(Result)]
        /\ worker[j][w] \in Slot
        /\ worker[j][w].at \in {"embedding", "reporting"} => worker[j][w].item \in Item
    BY DEF EmbedTypeInv, EmbedTypeOK, HasItem
  <1>4. UNCHANGED <<phase, todo, holding, outcome, workClosed, errors, cancelled>>
    BY DEF EmbedWorker, WorkerExits, EmbedChunk, EmbedFails, TakeWork, SendResult
  <1>5. ASSUME NEW f \in Files, ~cancelled[j], Carried(j, f)
        PROVE  Carried(j, f)'
    <2>1. CASE TakeWork(j, w)
      <3>1. workQ[j] # <<>> /\ workQ'[j] = Tail(workQ[j]) /\ UNCHANGED resQ
        BY <1>3, <2>1 DEF TakeWork
      <3>2. Elems(workQ[j]) = {Head(workQ[j])} \cup Elems(workQ'[j])
        BY <1>3, <3>1, Received
      <3>3. worker[j][w].at = "idle" /\ s.at \in {"embedding", "reporting"}
            /\ s.item = Head(workQ[j])
        BY <1>1, <1>5, <2>1 DEF TakeWork, WorkerExits, EmbedChunk, EmbedFails, SendResult
      <3> QED
        BY <1>2, <1>4, <1>5, <3>1, <3>2, <3>3 DEF Carried
    <2>2. CASE SendResult(j, w)
      <3>1. /\ worker[j][w].at = "reporting" /\ UNCHANGED workQ
            /\ resQ' = [resQ EXCEPT ![j] = Append(resQ[j], ResultOf(worker[j][w]))]
        BY <2>2 DEF SendResult
      <3>2. ResultOf(worker[j][w]) \in Result
        BY <1>3, <3>1, ResultType
      <3>3. Elems(resQ'[j]) = Elems(resQ[j]) \cup {ResultOf(worker[j][w])}
        BY <1>3, <3>1, <3>2, Sent
      <3>4. ResultOf(worker[j][w]).file = worker[j][w].item.file
        BY DEF ResultOf
      <3> HIDE DEF queues
      <3> QED
        BY <1>2, <1>4, <1>5, <3>1, <3>3, <3>4 DEF Carried
    <2>3. CASE WorkerExits(j, w)
      <3>1. worker[j][w].at = "idle" /\ UNCHANGED <<workQ, resQ>>
        BY <2>3 DEF WorkerExits
      <3> QED
        BY <1>2, <1>4, <1>5, <3>1 DEF Carried
    <2>4. CASE EmbedChunk(j, w) \/ EmbedFails(j, w)
      <3>1. worker[j][w].at = "embedding" /\ UNCHANGED <<workQ, resQ>>
        BY <2>4 DEF EmbedChunk, EmbedFails
      <3>2. s.at = "reporting" /\ s.item = worker[j][w].item
        BY <1>1, <3>1 DEF TakeWork, WorkerExits, SendResult
      <3> QED
        BY <1>2, <1>4, <1>5, <3>1, <3>2 DEF Carried
    <2> QED
      BY <2>1, <2>2, <2>3, <2>4 DEF EmbedWorker
  <1>6. Failed(j)' = Failed(j)
    BY <1>4 DEF Failed
  <1> QED
    BY <1>4, <1>5, <1>6 DEF JobInv, ReportInv

LEMMA ProcessorReports ==
    ASSUME EmbedTypeInv, NEW j \in Jobs, JobInv(j), Processor(j)
    PROVE  ReportInv(j)'
  <1> USE DEF inputs, results, queues
  <1>1. /\ ReportInv(j) /\ resQ \in [Jobs -> Seq(Result)] /\ errors \in [Jobs -> Nat]
        /\ outcome \in [Jobs -> [Files -> Outcomes]]
    BY DEF JobInv, EmbedTypeInv, EmbedTypeOK
  <1>2. UNCHANGED <<phase, todo, holding, workQ, workClosed, worker, cancelled>>
        /\ phase[j] \in Pool
    BY DEF Processor, ProcessResult, ProcessorExits
  <1>3. CASE ProcessorExits(j)
    <2>1. UNCHANGED <<outcome, errors>> /\ (~cancelled[j] => UNCHANGED resQ)
      BY <1>3 DEF ProcessorExits
    <2>2. ~cancelled[j] => \A f \in Files : Carried(j, f) => Carried(j, f)'
      BY <1>2, <2>1 DEF Carried
    <2>3. Failed(j)' = Failed(j)
      BY <2>1 DEF Failed
    <2> QED
      BY <1>1, <1>2, <2>1, <2>2, <2>3 DEF ReportInv
  <1>4. CASE ProcessResult(j)
    <2> DEFINE r == Head(resQ[j])
    <2>1. resQ[j] # <<>> /\ resQ'[j] = Tail(resQ[j])
      BY <1>1, <1>4 DEF ProcessResult
    <2>2. r \in Result /\ Elems(resQ[j]) = {r} \cup Elems(resQ'[j])
      BY <1>1, <2>1, Received
    <2>3. r.file \in Files
      BY <2>2 DEF Result
    <2>4. \/ Report(j, r.file, "failed") /\ errors' = [errors EXCEPT ![j] = @ + 1]
          \/ (Report(j, r.file, "empty") \/ Report(j, r.file, "indexed")) /\ UNCHANGED errors
      BY <1>4 DEF ProcessResult
    <2> HIDE DEF r
    <2>5. /\ \A f \in Files : f # r.file => outcome'[j][f] = outcome[j][f]
          /\ outcome'[j][r.file] # "pending"
          /\ errors'[j] > 0 \/ (outcome'[j][r.file] # "failed" /\ UNCHANGED errors)
      BY <1>1, <2>3, <2>4 DEF Report
    <2>6. \A f \in Files : f # r.file /\ Carried(j, f) => Carried(j, f)'
      BY <1>2, <2>2 DEF Carried
    <2>7. Failed(j)' # {} => errors'[j] > 0 \/ (Failed(j) # {} /\ UNCHANGED errors)
      BY <2>5 DEF Failed
    <2>8. phase[j] \notin {"new", "walking", "done"}
      BY <1>2 DEF Pool
    <2> QED
      BY <1>1, <1>2, <2>5, <2>6, <2>7, <2>8 DEF ReportInv
  <1> QED
    BY <1>3, <1>4 DEF Processor

LEMMA JobInitially == Init => ClaimInv /\ StoredInv /\ \A j \in Jobs : JobInv(j)
  <1> SUFFICES ASSUME Init
               PROVE  ClaimInv /\ StoredInv /\ \A j \in Jobs : JobInv(j)
    OBVIOUS
  <1>1. ClaimInv
    BY DEF Init, ClaimInv, Running
  <1>2. Idle.at = "idle"
    BY DEF Idle
  <1>3. StoredInv
    BY <1>2, NothingQueued DEF Init, StoredInv
  <1>4. ASSUME NEW j \in Jobs
        PROVE  JobInv(j)
    <2>1. CloseInv(j) /\ ExitInv(j)
      BY <1>2, <1>4, EmbedAssumption DEF Init, CloseInv, ExitInv, Exited
    <2>2. /\ \A f \in Files : outcome[j][f] = "none"
          /\ phase[j] = "new" /\ Failed(j) = {}
      BY <1>4 DEF Init, Failed
    <2> QED
      BY <2>1, <2>2 DEF JobInv, ReportInv
  <1> QED
    BY <1>1, <1>3, <1>4

LEMMA JobInductive ==
    ASSUME EmbedTypeInv, \A j \in Jobs : JobInv(j), [Next]_vars
    PROVE  \A j \in Jobs : JobInv(j)'
  <1> USE DEF inputs, results, queues
  <1>1. ASSUME NEW j \in Jobs,
               Feeder(j) \/ Processor(j) \/ Cancel(j) \/ \E w \in Workers : EmbedWorker(j, w)
        PROVE  \A k \in Jobs : JobInv(k)'
    <2>1. ASSUME NEW k \in Jobs, k # j
          PROVE  JobInv(k)'
      BY <1>1, <2>1, OthersUnmoved, UnmovedKeeps
    <2>2. ASSUME Cancel(j)
          PROVE  JobInv(j)'
      <3>1. /\ UNCHANGED <<phase, todo, holding, workQ, workClosed, worker, resQ, resClosed,
                           processor, errors, outcome>>
            /\ cancelled'[j]
        BY <2>2 DEF Cancel, EmbedTypeInv, EmbedTypeOK
      <3>2. CloseInv(j)' /\ ExitInv(j)'
        BY <3>1 DEF JobInv, CloseInv, ExitInv, Exited
      <3>3. ReportInv(j)'
        BY <3>1 DEF JobInv, ReportInv, Failed
      <3> QED
        BY <3>2, <3>3 DEF JobInv
    <2>3. ASSUME Feeder(j)
          PROVE  JobInv(j)'
      BY <2>3, FeederCloses, FeederReports DEF JobInv
    <2>4. ASSUME Processor(j)
          PROVE  JobInv(j)'
      BY <2>4, ProcessorCloses, ProcessorReports DEF JobInv
    <2>5. ASSUME NEW w \in Workers, EmbedWorker(j, w)
          PROVE  JobInv(j)'
      BY <2>5, WorkerCloses, WorkerReports DEF JobInv
    <2> QED
      BY <1>1, <2>1, <2>2, <2>3, <2>4, <2>5
  <1>2. CASE UNCHANGED vars
    BY <1>2, UnmovedKeeps DEF vars, Unmoved
  <1>3. ASSUME NEW f \in Files, NEW v \in Versions, EditFile(f, v)
        PROVE  \A k \in Jobs : JobInv(k)'
    BY <1>3, UnmovedKeeps DEF EditFile, Unmoved
  <1> QED
    BY <1>1, <1>2, <1>3 DEF Next

\* What every state of the jobs satisfies.
THEOREM JobsInvariant == Spec => []EmbedInv
  <1>1. Init => EmbedInv
    BY EmbedTypeInit, JobInitially DEF EmbedInv
  <1>2. EmbedInv /\ [Next]_vars => EmbedInv'
    BY EmbedTypeInductive, ClaimInductive, StoredInductive, JobInductive DEF EmbedInv
  <1> QED
    BY <1>1, <1>2, PTL DEF Spec

\* A job's goroutines are gone when the next job of the workspace runs, unless it was
\* cancelled.
THEOREM OneJobAtATime == Spec => []JobsDoNotOverlap
  <1>1. EmbedInv => JobsDoNotOverlap
    <2> SUFFICES ASSUME EmbedInv, NEW j \in Jobs, NEW k \in Jobs, phase[j] \in Running,
                        Alive(k), ~cancelled[k]
                 PROVE  j = k
      BY DEF JobsDoNotOverlap
    <2>1. CloseInv(k) /\ (phase[k] \in Running => j = k)
      BY DEF EmbedInv, JobInv, ClaimInv
    <2>2. phase[k] # "aborted" /\ (phase[k] = "done" => ~Alive(k))
      BY <2>1 DEF CloseInv, Alive, Pool
    <2> QED
      BY <2>1, <2>2 DEF Alive, Pool, Running
  <1> QED
    BY <1>1, JobsInvariant, PTL

\* A completed job has a report of every file it picked, or was cancelled, and reports
\* errors if a file failed.
THEOREM ReportsAreComplete == Spec => []CompletedMeansReported
  <1>1. EmbedInv => CompletedMeansReported
    <2> SUFFICES ASSUME EmbedInv, NEW j \in Jobs, phase[j] = "done"
                 PROVE  /\ cancelled[j] \/ \A f \in Files : outcome[j][f] # "pending"
                        /\ Failed(j) # {} => errors[j] > 0
      BY DEF CompletedMeansReported
    <2>1. CloseInv(j) /\ ExitInv(j) /\ ReportInv(j)
      BY DEF EmbedInv, JobInv
    <2>2. ASSUME ~cancelled[j], NEW f \in Files, outcome[j][f] = "pending"
          PROVE  FALSE
      <3>1. Carried(j, f) /\ workClosed[j]
        BY <2>1, <2>2 DEF ReportInv
      <3>2. /\ todo[j] = {} /\ resQ[j] = <<>>
            /\ \A w \in Workers : worker[j][w].at = "exited" /\ workQ[j] = <<>>
        BY <2>1, <2>2, <3>1 DEF CloseInv, ExitInv, Exited
      <3>3. workQ[j] = <<>>
        BY <3>2, EmbedAssumption
      <3> QED
        BY <3>1, <3>2, <3>3, NothingQueued DEF Carried
    <2> QED
      BY <2>1, <2>2 DEF ReportInv
  <1> QED
    BY <1>1, JobsInvariant, PTL

\* The walk passes over a file only if its present content was stored.
THEOREM NothingIsSkippedUnstored == Spec => SkippedWereStored
  <1> DEFINE Skipped ==
        \A j \in Jobs, f \in Files :
            outcome[j][f] = "none" /\ outcome'[j][f] = "skipped"
              => \E c \in Collections : <<f, disk[f]>> \in store[c]
  <1>1. EmbedInv /\ [Next]_vars => [Skipped]_vars
    <2> SUFFICES ASSUME EmbedInv, [Next]_vars, NEW j \in Jobs, NEW f \in Files,
                        outcome[j][f] = "none", outcome'[j][f] = "skipped"
                 PROVE  \E c \in Collections : <<f, disk[f]>> \in store[c]
      BY DEF Skipped
    <2>1. /\ outcome \in [Jobs -> [Files -> Outcomes]] /\ disk[f] \in Versions
          /\ EmbedTypeInv /\ StoredInv
      BY DEF EmbedInv, EmbedTypeInv, EmbedTypeOK
    <2>2. outcome' # outcome
      OBVIOUS
    <2>3. PICK k \in Jobs : Feeder(k) \/ Processor(k)
      BY <2>2 DEF Next, vars, Cancel, EditFile, EmbedWorker, TakeWork, WorkerExits, EmbedChunk,
                  EmbedFails, SendResult
    <2>4. k = j
      BY <2>1, <2>3, OthersUnmoved DEF Unmoved
    <2>5. ASSUME NEW g \in Files, NEW o \in {"failed", "empty", "indexed"}
          PROVE  ~Report(j, g, o)
      <3>1. CASE g = f
        BY <2>1, <2>5, <3>1 DEF Report
      <3>2. CASE g # f
        BY <2>1, <2>5, <3>2 DEF Report
      <3> QED
        BY <3>1, <3>2
    <2>6. ~Processor(j)
      <3>1. ASSUME ProcessResult(j)
            PROVE  FALSE
        <4>1. resQ[j] \in Seq(Result) /\ resQ[j] # <<>>
          BY <2>1, <3>1 DEF ProcessResult, EmbedTypeInv, EmbedTypeOK
        <4>2. Head(resQ[j]) \in Result
          BY <4>1, Received
        <4>3. Head(resQ[j]).file \in Files
          BY <4>2 DEF Result
        <4> QED
          BY <2>5, <3>1, <4>3 DEF ProcessResult
      <3> QED
        BY <2>2, <3>1 DEF Processor, ProcessorExits
    <2>7. Walk(j)
      BY <2>2, <2>3, <2>4, <2>5, <2>6 DEF Feeder, Start, Unconfigured, Abort, CountReadError,
         Chunk, SendWork, ReadFile, ReadFails, CloseWork, CloseResults, Complete
    <2>8. PICK picked \in SUBSET Files :
             /\ Changed \subseteq picked
             /\ outcome' = [outcome EXCEPT ![j] =
                    [g \in Files |-> IF g \in picked THEN "pending" ELSE "skipped"]]
      BY <2>7 DEF Walk
    <2>9. f \notin picked
      BY <2>1, <2>8
    <2>10. index[f] = disk[f] /\ disk[f] # Missing
      BY <2>1, <2>8, <2>9, EmbedAssumption DEF Changed
    <2> QED
      BY <2>1, <2>10 DEF StoredInv, Stored
  <1> QED
    BY <1>1, JobsInvariant, PTL DEF Spec, SkippedWereStored

-----------------------------------------------------------------------------
\* chunkContent: the chunks it emits are bounded and leave no gap, and a content of
\* more than one chunk keeps it in its loop.

\* The loop starts each chunk where the one before it says, inside the content.
LoopInv ==
    /\ ContentTypeOK
    /\ pc # "done" => start = Back(chunk.to)
    /\ pc = "loop" => start < total /\ total > maxChars
    /\ pc = "call" => chunk.to = 0 /\ chunk.from = 0
    /\ ChunksAreBounded
    /\ LongContentNeverReturns

\* A chunk ends after it starts, within the content and within its bound.
LEMMA EmitSteps ==
    ASSUME LoopInv, Iterate
    PROVE  \E to \in 1 .. total :
             /\ Emit(to)
             /\ start < to
             /\ to - start <= maxChars + maxChars \div 2
             /\ to = total \/ to >= start + maxChars
  <1>1. /\ maxChars \in Nat /\ maxChars > 0 /\ maxChars \div 2 \in Nat
        /\ total \in Nat /\ start \in Nat /\ start < total
    BY ChunkAssumption DEF maxChars, LoopInv, ContentTypeOK, Iterate
  <1>2. /\ End \in 1 .. total /\ start < End
        /\ End <= start + maxChars
        /\ End = total \/ End = start + maxChars
    BY <1>1 DEF End
  <1>3. CASE Window(End) = {} /\ Emit(End)
    <2>1. End - start <= maxChars + maxChars \div 2
      BY <1>1, <1>2
    <2> QED
      BY <1>2, <1>3, <2>1
  <1>4. ASSUME NEW i \in Window(End), Emit(i + 1)
        PROVE  \E to \in 1 .. total :
                 /\ Emit(to)
                 /\ start < to
                 /\ to - start <= maxChars + maxChars \div 2
                 /\ to = total \/ to >= start + maxChars
    <2>1. i \in 0 .. total - 1 /\ End <= i /\ i < End + maxChars \div 2
      BY <1>4 DEF Window, LoopInv, ContentTypeOK
    <2>2. i + 1 \in 1 .. total
      BY <2>1, <1>1
    <2>3. /\ start < i + 1
          /\ i + 1 - start <= maxChars + maxChars \div 2
          /\ i + 1 >= start + maxChars \/ i + 1 = total
      BY <2>1, <1>1, <1>2
    <2> DEFINE to == i + 1
    <2>4. Emit(to)
      BY <1>4
    <2>5. /\ to \in 1 .. total /\ start < to
          /\ to - start <= maxChars + maxChars \div 2
          /\ to = total \/ to >= start + maxChars
      BY <1>1, <2>1, <2>2, <2>3
    <2> HIDE DEF to
    <2> QED
      BY <2>4, <2>5, Zenon
  <1> QED
    BY <1>3, <1>4 DEF Iterate

\* The loop keeps its invariant.
THEOREM LoopInvariant == ContentSpec => []LoopInv
  <1>1. ContentInit => LoopInv
    BY ChunkAssumption DEF ContentInit, LoopInv, ContentTypeOK, Back, maxChars, overlapChars,
                           ChunksAreBounded, LongContentNeverReturns
  <1>2. LoopInv /\ [ContentNext]_cvars => LoopInv'
    <2> SUFFICES ASSUME LoopInv, [ContentNext]_cvars
                 PROVE  LoopInv'
      OBVIOUS
    <2> USE ChunkAssumption DEF LoopInv
    <2>1. CASE Call
      <3>1. maxChars \in Nat /\ maxChars \div 2 \in Nat
        BY DEF maxChars
      <3>2. ContentTypeOK' /\ start' = start /\ total' = total /\ chunk'.from = 0
        BY <2>1 DEF Call, ContentTypeOK
      <3>3. CASE total <= maxChars
        <4>1. chunk' = [from |-> 0, to |-> total] /\ pc' = "done"
          BY <2>1, <3>3, <3>1 DEF Call, ContentTypeOK
        <4>2. total \in Nat /\ total - 0 <= maxChars + maxChars \div 2
          BY <3>1, <3>3 DEF ContentTypeOK
        <4>3. ChunksAreBounded'
          BY <4>1, <4>2 DEF ChunksAreBounded, maxChars
        <4>4. LongContentNeverReturns'
          BY <3>2, <3>3, <4>2 DEF LongContentNeverReturns, maxChars, ContentTypeOK
        <4> QED
          BY <3>2, <4>1, <4>3, <4>4
      <3>4. CASE total > maxChars
        <4>1. chunk' = chunk /\ pc' = "loop" /\ start' = start /\ total' = total
          BY <2>1, <3>1, <3>4 DEF Call, ContentTypeOK
        <4>2. chunk.to = 0 /\ start = Back(chunk.to)
          BY <2>1 DEF Call
        <4>3. start = 0
          BY <4>2 DEF Back, overlapChars
        <4>4. total \in Nat /\ start < total
          BY <3>1, <3>4, <4>3 DEF ContentTypeOK
        <4> QED
          BY <3>2, <3>4, <4>1, <4>2, <4>4 DEF ChunksAreBounded, LongContentNeverReturns
      <3> QED
        BY <3>1, <3>3, <3>4 DEF ContentTypeOK
    <2>2. CASE Iterate
      <3>1. PICK to \in 1 .. total :
              /\ Emit(to)
              /\ start < to
              /\ to - start <= maxChars + maxChars \div 2
              /\ to = total \/ to >= start + maxChars
        BY <2>2, EmitSteps
      <3>2. /\ total' = total /\ newlines' = newlines
            /\ chunk' = [from |-> start, to |-> to]
            /\ start' = Back(to)
            /\ pc' = IF Leaves(to) THEN "done" ELSE "loop"
        BY <2>2, <3>1 DEF Iterate, Emit
      <3>3. Back(to) \in 0 .. to /\ (OverlapTokens > 0 => Back(to) < to)
        BY DEF Back, overlapChars
      <3>4. ContentTypeOK'
        BY <3>2, <3>3 DEF ContentTypeOK
      <3>5. ChunksAreBounded'
        BY <3>1, <3>2 DEF ChunksAreBounded, ContentTypeOK, maxChars
      <3>6. LongContentNeverReturns'
        BY <3>2, <3>3 DEF LongContentNeverReturns, Leaves, ContentTypeOK, maxChars
      <3>7. pc' = "loop" => start' < total' /\ total' > maxChars
        BY <2>2, <3>2, <3>3 DEF Leaves, ContentTypeOK, Iterate
      <3>8. start' = Back(chunk'.to)
        BY <3>2
      <3> QED
        BY <3>2, <3>4, <3>5, <3>6, <3>7, <3>8 DEF Back, overlapChars
    <2>3. CASE UNCHANGED cvars
      BY <2>3 DEF cvars, ContentTypeOK, Back, overlapChars, maxChars,
                  ChunksAreBounded, LongContentNeverReturns
    <2> QED
      BY <2>1, <2>2, <2>3 DEF ContentNext, Finished
  <1> QED
    BY <1>1, <1>2, PTL DEF ContentSpec

\* However long the content, a chunk has at most 1.5 * maxChars runes.
THEOREM ChunksBounded == ContentSpec => []ChunksAreBounded
  <1>1. LoopInv => ChunksAreBounded
    BY DEF LoopInv
  <1> QED
    BY <1>1, LoopInvariant, PTL

\* With an overlap chunkContent returns from no content of several chunks.
THEOREM NeverReturns == ContentSpec => []LongContentNeverReturns
  <1>1. LoopInv => LongContentNeverReturns
    BY DEF LoopInv
  <1> QED
    BY <1>1, LoopInvariant, PTL

\* Chunks leave no rune out.
THEOREM ChunksContiguous == ContentSpec => ChunksAreContiguous
  <1> DEFINE Contiguous ==
        pc = "loop" => /\ chunk'.from <= chunk.to
                       /\ (chunk.to < total => chunk'.to > chunk.to)
  <1>1. LoopInv /\ [ContentNext]_cvars => [Contiguous]_cvars
    <2> SUFFICES ASSUME LoopInv, Iterate
                 PROVE  Contiguous
      BY DEF ContentNext, Call, Finished
    <2>1. PICK to \in 1 .. total :
            /\ Emit(to)
            /\ start < to
            /\ to - start <= maxChars + maxChars \div 2
            /\ to = total \/ to >= start + maxChars
      BY EmitSteps
    <2>2. chunk' = [from |-> start, to |-> to] /\ start = Back(chunk.to)
      BY <2>1 DEF Emit, LoopInv, Iterate
    <2>3. chunk.to \in 0 .. total /\ total \in Nat
      BY DEF LoopInv, ContentTypeOK
    <2>4. /\ Back(chunk.to) \in Nat /\ maxChars \in Nat
          /\ Back(chunk.to) <= chunk.to
          /\ chunk.to < Back(chunk.to) + maxChars
      BY ChunkAssumption, <2>3 DEF Back, maxChars, overlapChars
    <2> QED
      BY <2>1, <2>2, <2>3, <2>4
  <1> QED
    BY <1>1, LoopInvariant, PTL DEF ContentSpec, ChunksAreContiguous
=============================================================================
