------------------------------ MODULE EmbedJob ------------------------------
(***************************************************************************)
(* RunEmbedJob (internal/core/engine/embedder.go): the jobs that index the *)
(* files of one workspace.  A job claims the workspace in activeJobs, walks *)
(* the tree and picks the files whose hash differs from file_index, feeds  *)
(* them to embedWorker goroutines through a bounded work queue, and a      *)
(* processor goroutine (processEmbeddingResults) takes the results from a  *)
(* bounded result queue and records the hash of every file stored.         *)
(*                                                                         *)
(* Contents are versions.  A version has no chunks (the empty file), or    *)
(* one, or is one of LongVersions: more than 3200 runes, on which          *)
(* chunkContent never returns (module ChunkContent), so that no file gets  *)
(* several chunks.  Files are those the walk's filters let through and it   *)
(* can read; the order in which they are fed is left open.                 *)
(***************************************************************************)
EXTENDS Integers, Sequences, FiniteSets

CONSTANTS
    Jobs,           \* calls of RunEmbedJob for the workspace
    Files,          \* files the walk lets through
    Collections,    \* EmbedJobConfig.CollectionName: IPC and HTTP use different ones
    Workers,        \* embedWorker goroutines, 4 in the code
    QueueCap,       \* capacity of workQueue and resultQueue, 16 in the code
    Versions,       \* contents of files
    EmptyVersions,  \* contents without chunks
    LongVersions,   \* contents chunkContent never returns from
    Missing,        \* "no version": nothing indexed or stored
    MaxEdits        \* bound: changes of files by the user

ASSUME EmbedAssumption ==
    /\ Workers # {}
    /\ QueueCap \in Nat \ {0}
    /\ EmptyVersions \subseteq Versions
    /\ LongVersions \subseteq Versions
    /\ Missing \notin Versions
    /\ MaxEdits \in Nat

VARIABLES
    disk,       \* content of each file
    index,      \* bucket file_index of the workspace's KV store: hash per file
    store,      \* history: the files and contents each collection was given
    active,     \* activeJobs[workspace]
    phase,      \* where each call of RunEmbedJob is
    coll,       \* the collection the job stores into
    todo,       \* filesToEmbed not fed yet
    holding,    \* item read by the feeder and not yet sent
    workQ, workClosed,
    worker,     \* each embedWorker: [at, item, failed]
    resQ, resClosed,
    processor,  \* processEmbeddingResults: running or exited
    errors,     \* totalErrors, shared by feeder and processor without a lock
    loaded,     \* the feeder's copy of totalErrors in its unlocked increment
    cancelled,  \* ctx is done
    outcome,    \* history: what each job reported for each file
    edits       \* changes of files so far

queues  == <<workQ, workClosed, resQ, resClosed>>
inputs  == <<disk, edits>>
results == <<index, store>>
vars    == <<inputs, results, active, phase, coll, todo, holding, queues, worker,
             processor, errors, loaded, cancelled, outcome>>

NoItem == [file |-> Missing, ver |-> Missing]

Idle == [at |-> "idle", item |-> NoItem, failed |-> FALSE]

Running  == {"walking", "feeding", "chunking", "sending", "counting", "waiting", "collecting"}
Returned == {"done", "aborted", "rejected"}

Init ==
    /\ disk \in [Files -> Versions]
    /\ index = [f \in Files |-> Missing]
    /\ store = [c \in Collections |-> {}]
    /\ active = FALSE
    /\ phase = [j \in Jobs |-> "new"]
    /\ coll \in [Jobs -> Collections]
    /\ todo = [j \in Jobs |-> {}]
    /\ holding = [j \in Jobs |-> NoItem]
    /\ workQ = [j \in Jobs |-> <<>>]
    /\ workClosed = [j \in Jobs |-> FALSE]
    /\ worker = [j \in Jobs |-> [w \in Workers |-> Idle]]
    /\ resQ = [j \in Jobs |-> <<>>]
    /\ resClosed = [j \in Jobs |-> FALSE]
    /\ processor = [j \in Jobs |-> "running"]
    /\ errors = [j \in Jobs |-> 0]
    /\ loaded = [j \in Jobs |-> 0]
    /\ cancelled = [j \in Jobs |-> FALSE]
    /\ outcome = [j \in Jobs |-> [f \in Files |-> "none"]]
    /\ edits = 0

Goto(j, label) == phase' = [phase EXCEPT ![j] = label]
Report(j, f, what) == outcome' = [outcome EXCEPT ![j][f] = what]

-----------------------------------------------------------------------------
\* Mutant: activeJobs is set but not looked at.
BugStart(j) ==
    /\ phase[j] = "new"
    /\ active' = TRUE
    /\ Goto(j, "walking")
    /\ UNCHANGED <<inputs, results, coll, todo, holding, queues, worker, processor,
                   errors, loaded, cancelled, outcome>>

\* The claim of the workspace, refused while another job holds it.
Start(j) ==
    /\ phase[j] = "new"
    /\ active' = TRUE
    /\ Goto(j, IF active THEN "rejected" ELSE "walking")
    /\ UNCHANGED <<inputs, results, coll, todo, holding, queues, worker, processor,
                   errors, loaded, cancelled, outcome>>

\* A provider that is not configured ends the job at once.
Unconfigured(j) ==
    /\ phase[j] = "walking"
    /\ Goto(j, "done")
    /\ active' = FALSE
    /\ UNCHANGED <<inputs, results, coll, todo, holding, queues, worker, processor,
                   errors, loaded, cancelled, outcome>>

\* Mutant: any indexed file is taken for unchanged.
BugChanged == {f \in Files : index[f] = Missing}

\* Files whose content does not have the indexed hash.
Changed == {f \in Files : index[f] # disk[f]}

\* The walk keeps the changed files, those whose entry it cannot get, and with
\* Force all of them; with nothing to embed the job is complete.
Walk(j) ==
    /\ phase[j] = "walking"
    /\ \E picked \in SUBSET Files :
         /\ Changed \subseteq picked
         /\ todo' = [todo EXCEPT ![j] = picked]
         /\ outcome' = [outcome EXCEPT ![j] =
                [f \in Files |-> IF f \in picked THEN "pending" ELSE "skipped"]]
         /\ Goto(j, IF picked = {} THEN "done" ELSE "feeding")
         /\ active' = (picked # {})
    /\ UNCHANGED <<inputs, results, coll, holding, queues, worker, processor,
                   errors, loaded, cancelled>>

-----------------------------------------------------------------------------
\* The feeding loop looks at ctx only before it reads a file.
Abort(j) ==
    /\ phase[j] = "feeding"
    /\ todo[j] # {}
    /\ cancelled[j]
    /\ workClosed' = [workClosed EXCEPT ![j] = TRUE]
    /\ Goto(j, "aborted")
    /\ active' = FALSE
    /\ UNCHANGED <<inputs, results, coll, todo, holding, workQ, resQ, resClosed,
                   worker, processor, errors, loaded, cancelled, outcome>>

\* The file is read, at the content it has now.
ReadFile(j, f) ==
    /\ phase[j] = "feeding"
    /\ ~cancelled[j]
    /\ f \in todo[j]
    /\ todo' = [todo EXCEPT ![j] = @ \ {f}]
    /\ holding' = [holding EXCEPT ![j] = [file |-> f, ver |-> disk[f]]]
    /\ Goto(j, "chunking")
    /\ UNCHANGED <<inputs, results, active, coll, queues, worker, processor,
                   errors, loaded, cancelled, outcome>>

\* The file cannot be read: totalErrors++ next to the processor's own, with no
\* lock, so the load and the store are two steps.  (Splitting the processor's
\* increment instead would lose the other one of the two.)
ReadFails(j, f) ==
    /\ phase[j] = "feeding"
    /\ ~cancelled[j]
    /\ f \in todo[j]
    /\ todo' = [todo EXCEPT ![j] = @ \ {f}]
    /\ loaded' = [loaded EXCEPT ![j] = errors[j]]
    /\ Report(j, f, "failed")
    /\ Goto(j, "counting")
    /\ UNCHANGED <<inputs, results, active, coll, holding, queues, worker, processor,
                   errors, cancelled>>

CountReadError(j) ==
    /\ phase[j] = "counting"
    /\ errors' = [errors EXCEPT ![j] = loaded[j] + 1]
    /\ Goto(j, "feeding")
    /\ UNCHANGED <<inputs, results, active, coll, todo, holding, queues, worker,
                   processor, loaded, cancelled, outcome>>

\* chunkContent returns, except for a long file.
Chunk(j) ==
    /\ phase[j] = "chunking"
    /\ holding[j].ver \notin LongVersions
    /\ Goto(j, "sending")
    /\ UNCHANGED <<inputs, results, active, coll, todo, holding, queues, worker,
                   processor, errors, loaded, cancelled, outcome>>

\* The send on workQueue blocks while the queue is full and does not watch ctx.
SendWork(j) ==
    /\ phase[j] = "sending"
    /\ Len(workQ[j]) < QueueCap
    /\ workQ' = [workQ EXCEPT ![j] = Append(@, holding[j])]
    /\ holding' = [holding EXCEPT ![j] = NoItem]
    /\ Goto(j, "feeding")
    /\ UNCHANGED <<inputs, results, active, coll, todo, workClosed, resQ, resClosed,
                   worker, processor, errors, loaded, cancelled, outcome>>

CloseWork(j) ==
    /\ phase[j] = "feeding"
    /\ todo[j] = {}
    /\ workClosed' = [workClosed EXCEPT ![j] = TRUE]
    /\ Goto(j, "waiting")
    /\ UNCHANGED <<inputs, results, active, coll, todo, holding, workQ, resQ, resClosed,
                   worker, processor, errors, loaded, cancelled, outcome>>

\* wg.Wait() returns when the workers have exited.
Exited(j) == \A w \in Workers : worker[j][w].at = "exited"

\* Mutant: the result queue is closed without waiting for the workers.
BugCloseResults(j) ==
    /\ phase[j] = "waiting"
    /\ resClosed' = [resClosed EXCEPT ![j] = TRUE]
    /\ Goto(j, "collecting")
    /\ UNCHANGED <<inputs, results, active, coll, todo, holding, workQ, workClosed, resQ,
                   worker, processor, errors, loaded, cancelled, outcome>>

\* wg.Wait(), then close(resultQueue).
CloseResults(j) ==
    /\ phase[j] = "waiting"
    /\ Exited(j)
    /\ resClosed' = [resClosed EXCEPT ![j] = TRUE]
    /\ Goto(j, "collecting")
    /\ UNCHANGED <<inputs, results, active, coll, todo, holding, workQ, workClosed, resQ,
                   worker, processor, errors, loaded, cancelled, outcome>>

\* resultWg.Wait(), the final progress, and the deferred release of the workspace.
Complete(j) ==
    /\ phase[j] = "collecting"
    /\ processor[j] = "exited"
    /\ Goto(j, "done")
    /\ active' = FALSE
    /\ UNCHANGED <<inputs, results, coll, todo, holding, queues, worker, processor,
                   errors, loaded, cancelled, outcome>>

-----------------------------------------------------------------------------
\* A worker's loop over workQueue.
Move(j, w, to) == worker' = [worker EXCEPT ![j][w] = to]

TakeWork(j, w) ==
    /\ worker[j][w].at = "idle"
    /\ workQ[j] # <<>>
    /\ workQ' = [workQ EXCEPT ![j] = Tail(@)]
    /\ Move(j, w, IF cancelled[j] THEN [Idle EXCEPT !.at = "exited"]
                  ELSE IF Head(workQ[j]).ver \in EmptyVersions
                       THEN [at |-> "reporting", item |-> Head(workQ[j]), failed |-> FALSE]
                       ELSE [at |-> "embedding", item |-> Head(workQ[j]), failed |-> FALSE])
    /\ UNCHANGED <<inputs, results, active, phase, coll, todo, holding, workClosed, resQ,
                   resClosed, processor, errors, loaded, cancelled, outcome>>

WorkerExits(j, w) ==
    /\ worker[j][w].at = "idle"
    /\ workQ[j] = <<>>
    /\ workClosed[j]
    /\ Move(j, w, [Idle EXCEPT !.at = "exited"])
    /\ UNCHANGED <<inputs, results, active, phase, coll, todo, holding, queues,
                   processor, errors, loaded, cancelled, outcome>>

Upsert(j, item) ==
    store' = [store EXCEPT ![coll[j]] = @ \cup {<<item.file, item.ver>>}]

\* Embed and UpsertChunk succeed.
EmbedChunk(j, w) ==
    /\ worker[j][w].at = "embedding"
    /\ Upsert(j, worker[j][w].item)
    /\ Move(j, w, [worker[j][w] EXCEPT !.at = "reporting"])
    /\ UNCHANGED <<inputs, index, active, phase, coll, todo, holding, queues,
                   processor, errors, loaded, cancelled, outcome>>

\* Embed fails, or UpsertChunk does, before or after it has committed the chunk.
EmbedFails(j, w) ==
    /\ worker[j][w].at = "embedding"
    /\ \/ Upsert(j, worker[j][w].item)
       \/ UNCHANGED store
    /\ Move(j, w, [worker[j][w] EXCEPT !.at = "reporting", !.failed = TRUE])
    /\ UNCHANGED <<inputs, index, active, phase, coll, todo, holding, queues,
                   processor, errors, loaded, cancelled, outcome>>

ResultOf(s) == [file |-> s.item.file, ver |-> s.item.ver, failed |-> s.failed]

\* The send on resultQueue blocks while the queue is full.
SendResult(j, w) ==
    /\ worker[j][w].at = "reporting"
    /\ Len(resQ[j]) < QueueCap
    /\ resQ' = [resQ EXCEPT ![j] = Append(@, ResultOf(worker[j][w]))]
    /\ Move(j, w, Idle)
    /\ UNCHANGED <<inputs, results, active, phase, coll, todo, holding, workQ, workClosed,
                   resClosed, processor, errors, loaded, cancelled, outcome>>

-----------------------------------------------------------------------------
\* One result: an error is counted, a stored file gets its hash recorded unless
\* kvStore.Set fails, which is ignored, an empty file neither.
ProcessResult(j) ==
    /\ processor[j] = "running"
    /\ resQ[j] # <<>>
    /\ ~cancelled[j]
    /\ resQ' = [resQ EXCEPT ![j] = Tail(@)]
    /\ LET r == Head(resQ[j])
       IN  \/ /\ r.failed
              /\ errors' = [errors EXCEPT ![j] = @ + 1]
              /\ Report(j, r.file, "failed")
              /\ UNCHANGED index
           \/ /\ ~r.failed
              /\ r.ver \in EmptyVersions
              /\ Report(j, r.file, "empty")
              /\ UNCHANGED <<index, errors>>
           \/ /\ ~r.failed
              /\ r.ver \notin EmptyVersions
              /\ index' = [index EXCEPT ![r.file] = r.ver] \/ UNCHANGED index
              /\ Report(j, r.file, "indexed")
              /\ UNCHANGED errors
    /\ UNCHANGED <<inputs, store, active, phase, coll, todo, holding, workQ, workClosed,
                   resClosed, worker, processor, loaded, cancelled>>

\* Mutant: the processor takes an empty queue for the end of the results.
BugProcessorExits(j) ==
    /\ processor[j] = "running"
    /\ resQ[j] = <<>>
    /\ processor' = [processor EXCEPT ![j] = "exited"]
    /\ UNCHANGED <<inputs, results, active, phase, coll, todo, holding, queues, worker,
                   errors, loaded, cancelled, outcome>>

\* The processor exits at a closed empty queue, or drops a result when cancelled.
ProcessorExits(j) ==
    /\ processor[j] = "running"
    /\ \/ /\ resQ[j] = <<>> /\ resClosed[j]
          /\ UNCHANGED resQ
       \/ /\ resQ[j] # <<>> /\ cancelled[j]
          /\ resQ' = [resQ EXCEPT ![j] = Tail(@)]
    /\ processor' = [processor EXCEPT ![j] = "exited"]
    /\ UNCHANGED <<inputs, results, active, phase, coll, todo, holding, workQ, workClosed,
                   resClosed, worker, errors, loaded, cancelled, outcome>>

-----------------------------------------------------------------------------
\* The user edits a file, forward or back to an earlier content.
EditFile(f, v) ==
    /\ edits < MaxEdits
    /\ disk[f] # v
    /\ disk' = [disk EXCEPT ![f] = v]
    /\ edits' = edits + 1
    /\ UNCHANGED <<results, active, phase, coll, todo, holding, queues, worker,
                   processor, errors, loaded, cancelled, outcome>>

Cancel(j) ==
    /\ phase[j] \in Running
    /\ ~cancelled[j]
    /\ cancelled' = [cancelled EXCEPT ![j] = TRUE]
    /\ UNCHANGED <<inputs, results, active, phase, coll, todo, holding, queues, worker,
                   processor, errors, loaded, outcome>>

\* The goroutine that called RunEmbedJob.
Feeder(j) ==
    \/ Start(j) \/ Unconfigured(j) \/ Walk(j)
    \/ Abort(j) \/ CountReadError(j) \/ Chunk(j) \/ SendWork(j)
    \/ \E f \in Files : ReadFile(j, f) \/ ReadFails(j, f)
    \/ CloseWork(j) \/ CloseResults(j) \/ Complete(j)

\* Workers and processor run once the walk has found files.
Pool == {"feeding", "chunking", "sending", "counting", "waiting", "collecting", "aborted"}

EmbedWorker(j, w) ==
    /\ phase[j] \in Pool
    /\ TakeWork(j, w) \/ WorkerExits(j, w) \/ EmbedChunk(j, w) \/ EmbedFails(j, w)
         \/ SendResult(j, w)

Processor(j) ==
    /\ phase[j] \in Pool
    /\ ProcessResult(j) \/ ProcessorExits(j)

\* chunkContent loops on a long file for ever, and keeps the workspace claimed.
Spinning(j) == phase[j] = "chunking" /\ holding[j].ver \in LongVersions

\* After a cancellation the feeder may wait for ever: to send to workers that have
\* exited, or for workers that send to a processor that has.
Hanging(j) == cancelled[j] /\ phase[j] \in {"sending", "waiting"}

\* Every call has returned, or may never do.
Quiet == \A j \in Jobs : phase[j] \in Returned \/ Spinning(j) \/ Hanging(j)

Next ==
    \/ \E j \in Jobs : Feeder(j) \/ Processor(j) \/ Cancel(j)
    \/ \E j \in Jobs, w \in Workers : EmbedWorker(j, w)
    \/ \E f \in Files, v \in Versions : EditFile(f, v)
    \/ Quiet /\ UNCHANGED vars

Spec == Init /\ [][Next]_vars

\* Goroutines that can run do run: Go schedules them, embeddings return.
Fairness ==
    /\ \A j \in Jobs : WF_vars(Feeder(j)) /\ WF_vars(Processor(j))
    /\ \A j \in Jobs, w \in Workers : WF_vars(EmbedWorker(j, w))

FairSpec == Spec /\ Fairness

=============================================================================
