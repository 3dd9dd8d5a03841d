--------------------------- MODULE AgentLoopProps ---------------------------
(* What StreamQuery promises to the reader of its channel and to the LLM,  *)
(* and the Executor to whoever calls it.                                   *)
EXTENDS AgentLoop

\* However goroutines and ctx interleave, no tool of a batch runs on when its call
\* has returned, none runs while the LLM is asked or after the channel is closed,
\* and at no time run more than there are workers.
ToolsContained ==
    /\ mode \in {"idle", "returning"} \/ phase \notin {"executing", "direct"} => Executing = {}
    /\ Cardinality(Executing) <= MaxWorkers

Named(i, id) == \E j \in 1 .. i : batch[j].id = id

\* Every execution is listed after those it depends on.
ListedInOrder == \A i \in DOMAIN batch : \A id \in batch[i].dependsOn : Named(i - 1, id)

Satisfied(i) ==
    \A id \in batch[i].dependsOn :
        \E j \in DOMAIN batch : batch[j].id = id /\ at[j] = "done"

\* executor.go:43, "For tools with dependencies, respects the dependency order":
\* the dependencies are not sorted, but in a batch listed in order a tool runs only
\* after those it depends on have succeeded.
ListOrderIsEnough == ListedInOrder => \A i \in Executing : Satisfied(i)

\* Whatever ends a query, a reader that stays gets exactly one final chunk, and
\* it is the last one.
OneFinalChunk ==
    /\ phase = "closed" /\ reader = "reading" => finals = 1
    /\ finals > 0 => offered = Nothing /\ phase \in {"closing", "closed"}

Assistants == {k \in DOMAIN history : history[k].role = "assistant"}

\* When the LLM is asked, every call of every turn before has its tool message,
\* in the order of the calls, whatever failed or was cancelled: LLM APIs refuse a
\* history in which a call has no answer.
EveryCallAnswered ==
    phase = "asking" =>
        \A k \in Assistants : \A i \in DOMAIN history[k].ids :
            /\ k + i <= Len(history)
            /\ history[k + i].role = "tool"
            /\ history[k + i].id = history[k].ids[i]

\* Each tool message has the output of a call with the ID of the one it answers:
\* of that call itself if the response gives its calls different IDs.  Gemini's
\* are the names of the tools (gemini_provider.go:146), and then it may have the
\* output of another call of the same tool.
OutputOfSameId ==
    \A k \in Assistants : \A i \in DOMAIN history[k].ids :
        LET ids == history[k].ids
            of  == history[k + i].of
        IN  k + i <= Len(history) => of \in DOMAIN ids /\ ids[of] = ids[i]

\* The channel is closed in the end, unless its reader leaves.
QueryEnds == phase = "start" ~> (phase = "closed" \/ reader = "left")
=============================================================================
