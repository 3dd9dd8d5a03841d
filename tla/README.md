# TLA+ verification of VectoraGO

VectoraGO (`src/`) is a local daemon, written in Go, that indexes workspaces into vector
stores and answers questions about them with an LLM and tools. It is reached over IPC, HTTP
and WebSocket, JSON-RPC, MCP and ACP. This directory holds TLA+ models of the parts in which
concurrency, failure and ordering matter, TLC configurations that check them on small
instances, and TLAPS proofs of what matters most for every size. `PROJECT.json` maps every
definition to the lines it models and lists runs, mutants, hazards, findings and theorems.

Run a check with `tlc -workers 2 -config MCIpcChannel.cfg MCIpcChannel` and a proof with
`tlapm IpcChannelProofs.tla`. Paths below are relative to `src/internal/`.

## 1. Inventory

| Component | State | Operations | Meets | Hard behaviour | What makes it correct |
|---|---|---|---|---|---|
| Circuit breaker, `core/manager/resource_pool.go` 64-78, 258-372 | per tenant: state, failure count, successes since open, time of opening | `CanMakeLLMCall`, `RecordLLMSuccess`, `RecordLLMFailure` | LLM callers | state read without the lock, stale write of half-open, map written under a read lock | counters fit the state, closes only on unbroken successes, gets out of open |
| Indexing queue, `resource_pool.go` 99-242 | task list, weighted semaphore, error counts | `EnqueueIndexing`, `processIndexQueue`, `ResetTenantStats` | `semaphore.Weighted` | a goroutine takes another's task, a wait times out while its permit arrives, retry | bounded, no task lost or run twice, no permit lost |
| Embedding job, `core/engine/embedder.go` | `activeJobs`, two queues, counters, `file_index` | `RunEmbedJob`, `embedWorker`, `processEmbeddingResults` | KV and vector store, provider, broadcasts | feeder, workers and processor on bounded queues; edits between hashing and reading; cancellation; unlocked counter | recorded hash was embedded, jobs do not overlap, the job ends |
| Chunking, `embedder.go` 529-568 | position in the content | `chunkContent` | job | overlap at the end of the content | nothing left out, chunks bounded, it returns |
| Vector store, `storage/db/vector.go` | BoltDB buckets per collection, one index in memory, its file | `UpsertChunk(s)`, `Query`, `DeleteCollection`, `Close`, opening | jobs, tools, retrieval | three steps with a failure or a crash between them, one index for all collections | a hit is the chunk its vector belongs to, what is stored is found |
| Tenant manager, `core/manager/tenant.go` | map of open workspaces, last use | `GetOrCreateTenant`, `GetTenant`, `ReleaseTenant`, eviction ticker | IPC, HTTP, WebSocket | eviction under clients, partly failed opening or closing | mapped tenants are open, open stores are mapped |
| Agent loop, `core/engine/engine.go` | history, turn, channel | `Query`, `StreamQuery` | provider, executor, readers | unbuffered channel, reader that leaves, cancellation, repeated call IDs | every call answered, one final chunk, it ends |
| Tool executor, `tools/executor.go` | results by ID, semaphore | `ExecuteParallel`, `ExecuteSequential` | agent loop, tools | cancellation before and after the wait for a place | contained, a result for every ID, order of dependencies |
| IPC, `api/ipc/server.go`, `client.go`, `router.go` | connections, token, `activeTenant`; pending requests | accept, authenticate, dispatch, `Broadcast`, `Shutdown`; `SendRaw`, `listenForResponses` | tenants, engine, jobs, commands of `../cmd/core` | late answers, connections that break with calls pending, accept against shutdown, events of other jobs | a call ends once, with its own answer; a command ends |
| LLM providers, `llm/router.go`, `setup.go`, `*_provider.go` | keys, default provider | `SetupRouter`, `Embed`, `Complete` | jobs, queries, tools | fallback from family to family, retries with other models | vectors that are compared are of one model, no request is repeated for ever |
| Settings, `storage/infra/config.go`, `preferences.go`, `tray/tray.go` | `config.yaml`, `preferences.json` | set, save, click, reload | three writers in two processes | read, change, empty, write back | an acknowledged edit stays |
| Embedding tools, `tools/embedding/*.go` | what a run has stored | eleven tools of calls to embed, query and store | providers, vector store | a call fails in the middle and the tool goes on | what is missing from the store is a call that failed |
| Conversations, `llm/service.go`, `storage/conversations`; trust list, `../cmd/core/trust.go` | messages in the KV store, log files, a list | create, rename, add, delete, append, clear, trust | KV store, IPC, CLI | read-modify-write without a lock | no acknowledged change lost |
| File tools, `tools/write_file.go`, `tools/edit.go` | files, backups by base name | write, edit | protocol servers, executor | backup that fails, is cut short, emptied or replaced by another | a backup is what was replaced |
| Protocol servers, `api/mcp`, `api/jsonrpc`, `api/acp` | a session's lines and answers, sessions | initialise, prompt, tools | engine, tools | lines of every kind while a tool is half done, long and cut-off lines | each line answered once, with its ID |
| HTTP server, `../internal/server` | routes, requests under way | middleware, handlers, stop | tenants, engine, jobs | refused, failed, cut-off requests that have begun something | an error has started nothing |
| Process lifecycle, `../cmd/core/main.go`, `platform/service` | lock file, stores, socket, token, signals | start, stop, restart, reset, ask, agents | all processes | unlink after unlock, two goroutines on one signal, kill by name | one holder, a ready daemon is found |

How they meet: a transport asks the tenant manager for a tenant, which owns two stores and an
engine. An embed request starts a job on them, which broadcasts its progress over IPC; a query
runs the agent loop, which reads the vector store and runs tools through the executor. Jobs,
queries and tools embed through the router that their process built when it started. The
breaker and the queue of `resource_pool.go` are written for these paths; in the present
program `CanMakeLLMCall`, `EnqueueIndexing` and `ReleaseTenant` have no caller outside tests
and `resource_pool.go` itself. They are modelled as their tests and their comments use them.

The remaining components (section 7) are in `PROJECT.json` with the reason.

## 2. How the modules are put together

| Component | Module, and what it EXTENDS or INSTANCEs | Properties | Proofs |
|---|---|---|---|
| Circuit breaker | `CircuitBreaker`; abstract `AtomicBreaker` | `CircuitBreakerProps` | `ManagerProofs` |
| Indexing queue | `IndexQueue` <- `WeightedSemaphore` | `IndexQueueProps` | `ManagerProofs` |
| Tenant manager | `TenantManager` | `TenantManager` | `ManagerProofs` |
| Embedding job, chunking | `EmbedJob`; `ChunkContent` | `EmbedJobProps`, `ChunkContent` | `EmbedJobProofs` |
| Vector store | `VectorStore` | `VectorStoreProps` | `VectorStoreProofs` |
| Agent loop, executor | `AgentLoop` <- `ToolExecutor` | `AgentLoopProps` | `AgentLoopProofs` |
| IPC | `IpcChannel`; abstract `RemoteCalls` | `IpcChannelProps` | `IpcChannelProofs` |
| Settings, providers, embedding tools, what is asked of them | `Knowledge` <- `Settings`, `Providers`, `EmbeddingTools` | `KnowledgeProps` | `KnowledgeProofs` |
| Conversations, files, protocol servers, HTTP | `FrontEnds` <- `ProtocolServers` <- `Documents`; `HttpServer` | `FrontEndsProps` | `FrontEndsProofs` |
| Processes | `Daemon` | `DaemonProps` | `DaemonProofs` |

`MC...` modules hold the model values where a `.cfg` cannot. Operators named `Bug...` are
mutants: each stands before the definition it changes the way a plausible mistake would, and
the property named with it in `PROJECT.json` fails when it is put in place. They are used
nowhere else. Variables marked "history" in a module record what the properties speak of; no
guard of the code reads them.

Modules that are proved about together keep their specifications apart by name: `BreakerSpec`,
`TenantSpec` and `ContentSpec` are those of `CircuitBreaker`, `TenantManager` and `ChunkContent`.

Every safety property that a run checks is also proved (section 6). What could be added next are
abstract specifications of further components, as `AtomicBreaker` and `RemoteCalls` are of two,
with their refinements: a vector store that is a set of findable chunks, and a job that is a
claim, its reports and a release.

## 3. Modules and the code

**CircuitBreaker.** One tenant's entry of `circuitBreakers`. A caller's `pc` says where in
`CanMakeLLMCall` it is: `Lookup` is the block under RLock (316-323), `InsertEntry` the map write
that should not happen there, `CheckState` the unlocked reads, `TripHalfOpen` the write under
Lock without a second look. `RecordLLM*` hold the lock throughout and are one step.
`ConcurrentMapWrite` is the runtime's fatal error when two first callers write the map. Time is
the bit `resetElapsed`, true at first since the zero `OpenedAt` is long ago. `RecordLLMFailure`
sets the state before `OpenedAt`, so an unlocked reader may pair the new state with the old time:
`ReadEarly` moves the callers that do. `outage` counts the failures the provider still has in
store. `AtomicBreaker` is the textbook breaker, in which every call is a step.

**EmbedJob.** `active` is the workspace's entry of `activeJobs`. A job's goroutines are the
feeder (`phase`, the body of `RunEmbedJob`), the workers (`worker`) and the processor; `workQ`
and `resQ` are the two channels. `Walk` is one step: it picks the files that differ from
`file_index`, and any others whose entry cannot be read or which are forced, and later edits
(`EditFile`) are seen by `ReadFile`. `errors` is incremented by load and store, from two
goroutines. A content is a version: it is empty, has one chunk, or is long, and then the feeder,
which cuts it up, never comes back (module `ChunkContent`). `Cancel` cancels the context at any
moment, as the job's parameter allows, although the two callers of today pass
`context.Background()`. `store` remembers what each collection was given.

**ChunkContent.** The loop of `chunkContent` over `total` runes with newlines anywhere, keeping
only the last chunk, so that a loop without progress is a cycle.

**IndexQueue, WeightedSemaphore.** `spawned` counts goroutines that have not taken a task;
`at` is the place of each task: queued, blocked in `Acquire`, timed out, running and so on.
`Wake` and `TimesOut` are the two ways out of `Acquire`; `GiveUp` is the external semaphore's
rule that a permit which comes at that moment passes on. Priorities and quotas appear in
comments (`resource_pool.go` 144-145), not in the code, and not in the model.

**VectorStore.** `db` has, per collection, the buckets of chunk to number, number to chunk and
metadata, and the sequence; `index` is the one USearch index, `saved` its file. `UpsertChunk` is
`PutMetadata` (one BoltDB transaction), `AddVector`, `SaveIndex`; `UpsertChunks` is `BeginBatch`,
`AddInBatch` for every chunk, `SaveInBatch`, `Commit`, in one transaction that is rolled back on
an error while vectors already added stay. The store's mutex admits one writer, so one `call` is
enough. `Crash` may come between any two steps. A save that fails or is cut off leaves the old
file or one that does not load. Adding a number the index has fails or replaces: USearch is
external and both are allowed.

**TenantManager.** `tenants` are objects, `active` the map; an evicted and reopened workspace is
a new object. `conn` is what `workspace.init` gave a connection, `request` the tenant of an HTTP
or WebSocket request between looking it up and using its stores. Opening fails when the BoltDB
file is open elsewhere.

**ToolExecutor, AgentLoop.** `at` is the place of each execution of a batch: it looks at ctx,
waits for the semaphore, executes, is done. `AgentLoop` is the goroutine of `StreamQuery`:
`phase` is its place, `offered` the chunk in the unbuffered channel, `history` the messages sent
to the LLM. `Receive` is the reader (`Query`, WebSocket), `Leave` the harness that stops reading
over budget. In behaviours that start in phase "direct" the executor is called with batches that
have dependencies, which the loop never builds. A response may name one ID twice, since Gemini's
calls have the tool's name as ID.

**IpcChannel, RemoteCalls.** A client is a command of the CLI and runs its `Script`: the
handshake if it finds a token, `workspace.init`, its request. `pending` is the client's map of
channels, `answers` what is in those channels, `toServer` and `toClient` the frames under way:
`Send` registers and writes, `Receive` is `listenForResponses`, `TakeAnswer` and `GiveUp` the two
arms of the select in `SendRaw`. At the server, `ReadFrame` is the loop of `handleConnection`,
which answers the handshake itself and gives other requests a goroutine (`Handle`,
`WriteReply`), so that answers may come in any order and late. A connection is in the backlog,
accepted, served, refused, left by the client, or gone: `Shutdown` closes those that are
registered and misses the one accepted just now, as the code does; `Die` ends the daemon.
Embedding jobs broadcast their end to all connections; one that meets a long file stays for ever,
with its workspace claimed (`Spin`). An answer of success that does not parse is an error to the
caller (`TakeAnswer`). `RemoteCalls` says what a caller may rely
on: a call ends once, its handler succeeds at most once, and success is reported only after it.

**Settings, Providers, EmbeddingTools, Knowledge.** `Settings` is the two files and their
writers: load, empty, write, or be cut off. `Providers` is what `SetupRouter` makes of them and,
as operators, the resolution of embedding models, the fallback of `Router.Embed`, and which model
`Complete` tries when one has failed; registries keep the members that the code treats apart.
`EmbeddingTools` has each of the eleven tools as a program of calls with what happens when a call
fails; a run counts the chunks it has put and, as a history, the calls that have failed.
`Knowledge` is two processes with their routers and stores: a vector is the model that made it,
with or without encoding, under the collection that its transport names. It composes what
`EmbedJob` and `VectorStore` model one by one, and asks what a question finds.

**Documents, ProtocolServers, HttpServer, FrontEnds.** A document is a conversation, a session, a
log, a trust list or a file, and a worker a goroutine or process that loads it, changes its copy
and writes it back. A log is opened and then appended to, and may be removed in between. Files
are backed up, emptied and written in steps: `BackupFails` is `backupFileLocally` returning
nothing, after which the write goes on all the same, `CopyToBackup` may copy a part, `WriteFails`
leaves the file alone, `CutOffChange` is a crash or a full disk between two system calls.
`ProtocolServers` are the reading loops of MCP and of JSON-RPC over stdio and TCP: lines are
requests, notifications, not JSON, huge, cut off, and so on, and a tool that writes a file is as
many steps as in `Documents`. `HttpServer` takes requests of every route through the middleware
in its order to the handler, which is as many steps as it asks others for something: a query of
the engine, then of the store, the start of a job, then the answer. Clients may leave at any of
them (`Leave`) and hear nothing. Whether chi accepts routes that are mounted before `Use` is left
open, since its version decides. `FrontEnds` runs them beside each other.

**Daemon.** Processes are daemons, agents (`vectora mcp`, `vectora acp`) and the commands start,
stop, restart, reset and "ask", which stands for those that connect. They share the lock file
(`lockPath` is the file that has the name, `inode` the one that a process has opened), the two
global stores, the socket and the token file. Each step of `runCore` that another process can see
is an action; `ending` holds the three goroutines that call `Unlock` (`main`, and the two that
wait for one signal, of which one does so from before the stores are opened). `RunStop` is `pkill
-f` or `taskkill`. Unix and Windows are behaviours of one specification.

## 4. Runs

Distinct states are those that TLC counts; all runs pass.

| Run | What it asks | Bounds, and why they are enough | States |
|---|---|---|---|
| `breaker` | counters, closing, getting out of open | 3 callers: one stale writer, one that records in between, one first caller more; thresholds 3 and 2; 7 failures open the circuit and reopen it | 17,053 |
| `embed_job` | what jobs record, report and skip | 2 jobs of either collection, 2 files, 2 workers, queues of 1 (so that both fill), one edit; jobs, files, workers and collections are symmetric | 2,043,754 |
| `embed_job_ends` | no deadlock of the pipeline | 1 job, 3 files, 1 worker, queues of 1: more files than worker and queues hold; empty and long contents | 81,642 |
| `chunk_content` | the loop | every content of up to 14 runes, chunks of 8, overlap of 4: three chunks, newlines anywhere | 166,398 |
| `index_queue` | queue and semaphore | 4 tasks for 2 permits, 2 timeouts: two waiters, either may time out, and again | 23,895 |
| `vector_store` | what is found, and by whose vector | 2 collections of 2 chunks and 2 numbers, single upserts and batches of 1 or 2, 2 crashes: numbers meet across collections, and the second crash finds the state a first one left | 2,422,356 |
| `tenants` | the map and its stores | 2 workspaces for 1 place, a connection, a request, 3 objects: a workspace can be opened again | 176,088 |
| `agent_loop` | executor and loop | 3 turns, responses of up to 3 calls for 2 workers, batches of 2 executions with any dependencies or 3 with one each | 56,232 |
| `ipc` | the channel | each command with each token beside one that only asks for the status; two jobs of one workspace; an embedding beside a chat; some with a long file; the daemon shuts down or dies at any moment | 80,981 |
| `knowledge` | settings, providers, queries, tools | five sets of keys and preferences, from one provider to a gateway with and without a native one; three edits and a restart; one edit, one restart and any queries and jobs, with and without a configured fallback; any tool with up to two items | 242,162 |
| `front_ends` | documents, lines, requests | two workers of a kind at a document and 3 changes; two lines of any of 15 kinds to each server; two servers that write files of one name; any HTTP request beside one that works, whose clients may leave | 1,206,090 |
| `daemon` | processes | two commands or agents and the two daemons they may start, or a command and two daemons: one that ends, one that starts, one that asks; Unix and Windows | 1,715,526 |

Deadlock is checked in every run but three: in `breaker` the runtime may stop the process, in
`front_ends` the number of changes and lines is bounded and clients leave, in `daemon` all
processes end. Modules whose work ends otherwise have a `Finished` or `Stopped` step that is
enabled only when everything is at rest, so that a deadlock is real.

What they show. All properties hold. Where the code does less than its text says, the property
states what it does do, and a finding quotes the text (17 findings in `PROJECT.json`):

- A content of more than one chunk is never done (`LongContentNeverReturns`, also proved): at the
  end of the content the step back by the overlap leaves `start` below `totalRunes`
  (`embedder.go` 559). Such a file occupies the feeder of its job for ever; `EveryJobEnds`
  excludes jobs that meet one, and `CommandsEnd` the embed command that waits for such a job of
  its own. The model keeps only the last chunk and lets the process live, in which the list of
  chunks grows until there is no memory left.
- `UpsertChunk` writes no reverse entry, so chunks it numbered are never found
  (`FoundIffBatched`); nothing in the program stores otherwise, so that retrieval finds nothing
  (`RetrievalFindsNothing`).
- Collections share one index but not one sequence: of two chunks of one number one is found by
  the other's vector (`FoundByOwnVector`). `file_index` does not know collections
  (`SkippedWereStored`).
- Eviction takes tenants that connections hold (`IdleAreEvicted`); a tenant that could not be
  released stays mapped and closed (`MappedAreOpen`).
- The HTTP search embeds its question with any provider (`ComparedInOneSpace`). Gemini's "once a
  fallback" is two where the configuration names one, and the second may be the model that failed
  first (`RetriesEnd`). Seven tools say "stored" when storing has failed: what holds is that a chunk is
  missing only after a call to embed or to store it has failed (`ClaimsAreStored`).
- A file is overwritten, with a report of success, when its backup has failed or was cut short
  (`BackupIsWhatWasReplaced` speaks only of writes that have a snapshot).
- Calls of one ID share a result (`OutputOfSameId`); dependencies are listed, not sorted
  (`ListOrderIsEnough`).
- `chat` opens no workspace and is refused whatever it asks (`ServedAfterInit`).
- MCP answers notifications, and the limit of the JSON-RPC server is one of the session, not of
  the line (`AnsweredOnce`).
- `TenantMiddleware` refuses every route behind it (`ErrorsStartNothing`).
- Two daemons may hold the singleton lock after its file was removed from under one
  (`OneHolder`); restart and reset on Unix end themselves (`RestartSpawns`); a daemon that ends
  gives up its lock before its socket and its token, so that a new one may find them in use
  (`FoundWhenReady` excludes such overlaps).

What the code does not promise, the properties exclude by name, and they say nothing of it:
goroutines of a cancelled job that are still writing when the next one starts (`JobsDoNotOverlap`,
`EveryJobEnds`); stores that eviction closes under a connection, and a map that is over its limit
while all of it is in use (`MappedAreOpen`, `IdleAreEvicted`); settings that are not uniform and the
HTTP search (`ComparedInOneSpace`); dependencies listed out of order (`ListOrderIsEnough`); two
writers at one document, settings file or backup, and writes that are cut off (`disturbed`, `mixed`);
a lock file removed from under a daemon, and daemons that overlap (`removed`, `overlap`).

Two more that no property states: `FailureCount` is called consecutive (`resource_pool.go:67`)
and is kept across half-open successes; a job's `TotalErrors` counts failed reads and failed
embeddings, not chunks.

## 5. Fairness

Weak fairness of a goroutine is what the Go scheduler gives. `breaker`: every caller keeps
calling, and time passes. `embed_job_ends`: feeder, processor and each worker; not the edit, the
cancellation, nor a choice of outcome. `index_queue`: each goroutine; timeouts are bounded by
`MaxTimeouts`, since waits that time out for ever do starve a task. `tenants`: the eviction
ticker. `agent_loop`: the goroutine, the tools (each returns) and the reader; not `Leave` or
`CancelQuery`. `ipc`: each client's goroutines, the server's goroutines of a connection, the
handlers and the jobs; not `GiveUp`, `Shutdown` or `Die`. That a job ends is what
`embed_job_ends` shows for those that meet no long file; the others are `Spin`ning in `ipc` too,
where the fairness of the jobs is of no help to them, and `Hangs` excuses who waits for one. No
strong fairness is assumed anywhere. `knowledge`, `front_ends` and `daemon` check safety only: a
user need not edit, a client need not send, and a process may be killed at any moment.

## 6. Proofs

All 30 invariants that the runs check and all safety properties of steps are theorems, for every
value of the constants, and so are the two refinements. The constants have the named assumptions
of their modules and nothing else is assumed: positive thresholds, permits, sizes and numbers of
workers; an overlap smaller than a chunk; finitely many processes; documents, servers, commands
and settings of the kinds that the code has; values for "none" (`None`, 0, `Missing`, `Nobody`)
that are not chunks, workspaces, versions or processes. TLC evaluates each assumption in the run
of its module. The invariants that had to be found were checked with TLC, on the instances of
section 4, before they were proved.

**ManagerProofs.**
- *Breaker.* `TypeCorrect`: `BreakerTypeOK` is inductive. `CountersCorrect`: `CountersFitState`
  is inductive on top of it; the stale half-open write is harmless because it also resets
  `successAfterOpen`. `ClosingCorrect` strengthens it with `ProbesAreStreak`: in half-open, the
  successes counted are no more than the last unbroken streak. `SequentialRefinement`: with a
  single caller, `TripIsFresh` says that a caller about to write half-open still finds the
  circuit open with its timeout passed, and every step is one of `AtomicBreaker` or a stutter.
- *Queue.* `QueueInv`: the queue has each waiting task once and as many goroutines. `RunInv`:
  only a permit holder runs, and a task that runs or is done has run once. `WaitInv`: who waits
  at the semaphore is a blocked task without a permit, each once, and a blocked task waits or has
  a permit. Lemmas about the semaphore say what `Release` and `Cancel` make of its waiters; with
  them follow `BoundedIndexing`, `ItemsServed`, `CalledOnce`, and `PermitsInUse`: a permit that
  comes while its waiter times out passes on.
- *Tenants.* `TenantInv`: an object that was not made yet is not open, an open store belongs to
  the entry of its workspace, an entry is open or its release failed. No part is inductive alone:
  a new entry must not take an object that is open elsewhere. `StoresAreOwned` and
  `EntriesAreOpen` are two of its parts.

**EmbedJobProofs.** `EmbedInv` has four parts. `ClaimInv`: one job runs and has the workspace.
`CloseInv` and `ExitInv`: a queue is closed only after all who send on it have gone, and who has
gone without a cancellation left nothing in the queue it reads. `ReportInv`: a file that is
pending is with the feeder, in a queue, with a worker or with the processor (`Carried`), and one
that failed is counted or being counted, even when two goroutines increment from the same value.
`StoredInv`: what `file_index` has, or is about to get, was stored in some collection.
`OneJobAtATime`, `ReportsAreComplete` and the step property `NothingIsSkippedUnstored` follow: a
job is done when its processor has exited, hence when both queues are closed and empty.
*Chunking*: `LoopInv` says where each chunk starts and that the loop is inside the content
(`LoopInvariant`); `EmitSteps` gives the chunk of an iteration. `ChunksBounded`,
`ChunksContiguous` and `NeverReturns` follow for all contents, sizes and overlaps.

**VectorStoreProofs.** `StoreInv` holds between and inside calls (`StoreInvariant`). Of each
collection, `CollectionInv`: numbers are given once and lead back to their chunk if it came in a
batch (`Numbered`), a number has the vector of its own chunk or of another collection's, in the
index and in its file (`OwnVectors`), what is acknowledged has a number and a saved vector.
`SingleInv` and `BatchInv` say what a call under way has done so far: a transaction only adds to
what is committed, and before its commit the file is the index. `BatchedAreFound` and
`OwnVectorsFind` follow, through rollbacks, deletions, failed saves and crashes.

**AgentLoopProofs.** `PlacesInv` (a call that returns leaves no execution under way; a sequential
batch is done in order), `WorkersInv` (the semaphore), `ResultsInv` (what is kept under an ID is
of an execution with that ID, and without dependencies all are over in the end), `CallInv` (the
executor works only while the loop waits for it), `HistoryInv` (every assistant message is
followed by its tool messages, but for the last while its calls are executed) and `FinalInv` (one
final chunk, the last one sent). `ToolsStayInside`, `DependenciesFirst`, `FinalChunk`,
`NoCallUnanswered` and `OutputsMatch` follow.

**KnowledgeProofs.** `SettingsInv`: an undisturbed file has one writer at most, whose copy is
what was acknowledged. `StoreInv`: no chunk can be reached from its number. `RouterInv`: the
default provider has a key. `UniformInv`: while all is set for Gemini's embeddings, its vectors
fill the daemon's store and the questions. `QueryInv`: a query has found nothing, and is at the
model it asked for, at its fallback or at the last resort (`Chain`). `RunInv`: of the items a
tool is through with, each is stored or has failed (`Accounted`): exactly, for tools that leave
an item when they cannot embed it; at least, for the two with plans, which embed twice; every
other one for `bug_pattern_detection`, whose query finds nothing. The lemmas compute, over all
tables of models, which model a provider embeds with; the first provider with a key exists
because a set of naturals has a least element (the library's well-foundedness of <, which stands
in for induction). `OneSpace`, `NothingIsFound`, `EditsAreKept`, `FewRetries` and `ClaimsHold`
follow from `Invariants`.

**FrontEndsProofs.** All hold in `FrontEnds`, where documents, servers and HTTP run side by side.
- `ErrorsAreHonest`: `HttpInv` adds to the property what a request has done at each step before
  it is over (`DoneSoFar`: a started job is not answered yet, a query that ended has an answer to
  come), and that only what needs no tenant gets past the middleware.
- `AcknowledgedStays`: at an undisturbed document there is one worker at most, its copy is what
  was acknowledged, and so is the document except while it is being written (`KeptAt`);
  appends to a log may meet (`LogIsAcked`). `BackupStays`: of an unmixed base name, what a worker
  has backed up is what its file still holds, or a part of it (`Holds`, `BackupOf`).
- `LinesAreAnswered`: the lines that a server has handled are answered one by one (`HandledBy`,
  which counts the one whose tool is at work as in hand, `InHand`), and an answer that says
  success names a change that is made and stays made (`AllTrue`). For that every change has a
  number of its own (`NumbersInv`): an answer is never made true or false by another's change.

**DaemonProofs.** `LockExcludes`: unless a file was removed from under a process, whatever is
opened has the name, and one process holds it (`LockInv`); a daemon closes its file before it
removes the name. `RestartOnUnix`: a restart or reset that has run `pkill` has ended
(`StopsItself`). `ReadyIsFound`: while daemons past the lock do not overlap, the one that serves
has the socket and the token (`ServedInv`), and a command that asks is connected to the daemon
that was ready, with its token, or that daemon is ending (`AskOk`).

**IpcChannelProofs.** `ServedIsInitialised`, and `ChannelRefines`: for any number of clients,
every step of the channel is a step of `RemoteCalls` or a stutter. The refinement needs to know
that a request runs at most once and that an answer is the answer to what the client waits for;
neither follows from a single variable. The invariant `Inv` therefore speaks of a call on all of
its way: `ClientInv` (calls are made one after another; an answer that is kept is of a call that
ended, or of the one that waits, and if it is a success the handler has succeeded), `WireInv`
(frames are in order, what has not been read has not run, what has run was sent, a frame that
says success is true), `RequestInv` (one goroutine for a call, whose frame is gone, and it has
not run before it says so) and `ServedInv` (a connection has a workspace only after its
`workspace.init` has run, and only such connections have goroutines).

Only model-checked: liveness (`EventuallyClosed`, `EveryJobEnds`, `EveryTaskDone`,
`IdleAreEvicted`, `QueryEnds`, `CommandsEnd`) and with it all that needs ENABLED, which this
prover does not handle, and freedom from deadlock. What a recursive definition computes cannot
be proved either; no module declares a RECURSIVE operator. `AnsweredOnce` is stated with the
number of lines owed an answer rather than with a selected sequence for this reason.

## 7. Not modelled, and why

- No caller in the program: `AcquireLLMSlot` (the semaphore is the one of the indexing queue),
  `StreamWriter` and `StreamBuffer`, the memory service, git snapshots and undo, the updater,
  issuing and refreshing tokens, the permission tables.
- No state of their own, or pure text and numbers: `grep`, terminal, read and web tools,
  ingestion, translations, trimming of contexts, quantisation (floating point; that a store
  encodes or not is in `Knowledge`), screens and command lines (what they call is in
  `IpcChannel`), logs and metrics that nobody reads back.
- Abstracted inside modelled components: formats, prompts, logging; the content of messages, of
  which Claude's provider leaves out those of role "system", with the context in them
  (`llm/claude_provider.go` 180); names of models that a provider's API knows by another; the
  filters of the walk, which decide what files exist for the model; KV errors other than when a
  hash is recorded, which the code reads as "no entry"; IPC framing (a frame is one message);
  listings and status reads, which change nothing; the file and terminal requests of ACP to its
  editor; the installation.
- External, and modelled by how they are used: USearch, BoltDB's transactions and file lock,
  `semaphore.Weighted`, the LLM and embedding services, chi, `pkill` and `taskkill`.
