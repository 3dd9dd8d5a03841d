---------------------------- MODULE MCAgentLoop -----------------------------
(* Responses and batches of up to three calls.                             *)
EXTENDS AgentLoopProps

CONSTANTS a, b, c

\* IDs of the provider's, and names of tools in their place.
SomeCalls == {<<>>, <<a>>, <<a, b, c>>, <<a, b, a>>}

Sane == {e \in Execution : e.id \notin e.dependsOn}
Alone == {e \in Sane : Cardinality(e.dependsOn) <= 1}

\* Any two executions, or three with at most one dependency each.
SmallBatches ==
    UNION {[1 .. n -> Sane] : n \in 0 .. 2}
      \cup {s \in [1 .. 3 -> Alone] : s[1].id = a /\ s[2].id # s[3].id}
=============================================================================
