----------------------------- MODULE AgentLoop ------------------------------
(***************************************************************************)
(* Engine.StreamQuery (internal/core/engine/engine.go): a goroutine that   *)
(* embeds the query, then asks the LLM for at most MaxTurns turns, runs the *)
(* tools each answer calls through the Executor, puts their outputs into   *)
(* the history, and sends what it does as chunks on an unbuffered channel, *)
(* which it closes.  A send returns when the reader takes the chunk; it    *)
(* does not watch ctx.  Engine.Query and the WebSocket handler read until  *)
(* the channel is closed, the harness may leave (runner.go, over budget).  *)
(* In a behaviour that starts "direct" there is no query: the Executor is   *)
(* called with batches of any kind, which no query makes.                  *)
(***************************************************************************)
EXTENDS ToolExecutor

CONSTANTS
    Responses,      \* the tool calls of a response, by ID; none in a last answer
    MaxTurns,       \* 5, or 10 in planning mode
    Batches         \* the executions of direct calls of the Executor

ASSUME AgentAssumption ==
    /\ Responses \subseteq Seq(Ids)
    /\ MaxTurns \in Nat
    /\ Batches \subseteq Seq(Execution)

VARIABLES
    phase,      \* where the goroutine is
    turn,
    history,    \* messages after the system's and the user's
    calls,      \* resp.ToolCalls of this turn
    announced,  \* how many of them the reader has been told of
    offered,    \* the chunk being sent
    reader,     \* reading or left
    finals      \* history: final chunks the reader has taken

loop == <<turn, history, calls, announced>>
talk == <<offered, reader, finals>>
vars == <<executorVars, phase, loop, talk>>

Nothing == "nothing"    \* no chunk is being sent

Init ==
    /\ ExecutorInit
    /\ phase \in {"start", "direct"}
    /\ turn = 0
    /\ history = <<>>
    /\ calls = <<>>
    /\ announced = 0
    /\ offered = Nothing
    /\ reader = "reading"
    /\ finals = 0

-----------------------------------------------------------------------------
\* The goroutine starts to send a chunk; after a final one it returns.
Offer(kind, next) ==
    /\ offered = Nothing
    /\ offered' = kind
    /\ phase' = next

\* Mutant: an error of the LLM is not final.
BugEnd == Offer("other", "closing")

\* A final chunk: the answer, an error or the end of the turns.
End == Offer("final", "closing")

At(place) == phase = place /\ offered = Nothing

Begin ==
    /\ At("start")
    /\ End \/ Offer("other", "embedding")
    /\ UNCHANGED <<executorVars, loop, reader, finals>>

\* The query is embedded and the context retrieved; an error of Storage.Query
\* leaves the context empty.
EmbedQuery ==
    /\ At("embedding")
    /\ \/ phase' = "asking" /\ UNCHANGED offered
       \/ End
    /\ UNCHANGED <<executorVars, loop, reader, finals>>

Assistant(ids) == [role |-> "assistant", ids |-> ids]
Tool(id, of)   == [role |-> "tool", id |-> id, of |-> of]

TurnsLeft == turn < MaxTurns

\* provider.Complete: tools to call, or the last answer.
Complete(r) ==
    /\ At("asking")
    /\ TurnsLeft
    /\ calls' = r
    /\ history' = Append(history, Assistant(r))
    /\ announced' = 0
    /\ \/ r = <<>> /\ End
       \/ r # <<>> /\ phase' = "announcing" /\ UNCHANGED offered
    /\ UNCHANGED <<executorVars, turn, reader, finals>>

\* provider.Complete fails, or no turns are left.
GiveUp ==
    /\ At("asking")
    /\ End
    /\ UNCHANGED <<executorVars, loop, reader, finals>>

Announce ==
    /\ At("announcing")
    /\ announced < Len(calls)
    /\ announced' = announced + 1
    /\ Offer("other", "announcing")
    /\ UNCHANGED <<executorVars, turn, history, calls, reader, finals>>

\* The executions carry no dependencies.
Executions == [i \in DOMAIN calls |-> [id |-> calls[i], dependsOn |-> {}]]

RunTools ==
    /\ At("announcing")
    /\ announced = Len(calls)
    /\ ExecuteParallel(Executions)
    /\ phase' = "executing"
    /\ UNCHANGED <<loop, talk>>

\* Mutant: calls that failed get no message.
BugOutputs ==
    LET Good(id) == ~results[id].isError
        ids == SelectSeq(calls, Good)
    IN  [i \in DOMAIN ids |-> Tool(ids[i], results[ids[i]].of)]

\* Mutant: the outputs are taken in another order than the calls.
BugOutputsOrder ==
    [i \in DOMAIN calls |-> Tool(calls[i], results[calls[Len(calls) + 1 - i]].of)]

\* One message for each call, with what the results have under its ID.
Outputs == [i \in DOMAIN calls |-> Tool(calls[i], results[calls[i]].of)]

Collect ==
    /\ At("executing")
    /\ Return
    /\ history' = history \o Outputs
    /\ turn' = turn + 1
    /\ phase' = "asking"
    /\ UNCHANGED <<calls, announced, talk>>

\* The deferred close.
Close ==
    /\ At("closing")
    /\ phase' = "closed"
    /\ UNCHANGED <<executorVars, loop, talk>>

-----------------------------------------------------------------------------
Receive ==
    /\ reader = "reading"
    /\ offered # Nothing
    /\ finals' = IF offered = "final" THEN finals + 1 ELSE finals
    /\ offered' = Nothing
    /\ UNCHANGED <<executorVars, phase, loop, reader>>

Leave ==
    /\ reader = "reading"
    /\ phase \notin {"closed", "direct"}
    /\ reader' = "left"
    /\ UNCHANGED <<executorVars, phase, loop, offered, finals>>

DirectCall ==
    /\ phase = "direct"
    /\ Return \/ \E b \in Batches : ExecuteParallel(b)
    /\ UNCHANGED <<phase, loop, talk>>

Executor ==
    /\ phase \in {"executing", "direct"}
    /\ Step
    /\ UNCHANGED <<phase, loop, talk>>

CancelQuery ==
    /\ phase # "closed"
    /\ Cancel
    /\ UNCHANGED <<phase, loop, talk>>

\* Closed, or left alone with a chunk nobody takes.
Stopped ==
    /\ phase = "closed" \/ (reader = "left" /\ offered # Nothing)
    /\ UNCHANGED vars

Goroutine ==
    \/ Begin \/ EmbedQuery \/ GiveUp \/ (\E r \in Responses : Complete(r))
    \/ Announce \/ RunTools \/ Collect \/ Close

Next == Goroutine \/ DirectCall \/ Executor \/ Receive \/ Leave \/ CancelQuery \/ Stopped

Spec == Init /\ [][Next]_vars

\* The goroutines run, providers and tools return, and the reader keeps reading.
FairSpec ==
    /\ Spec
    /\ WF_vars(Goroutine) /\ WF_vars(Executor) /\ WF_vars(Receive)
=============================================================================
