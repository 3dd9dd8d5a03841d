---------------------------- MODULE ChunkContent ----------------------------
(***************************************************************************)
(* chunkContent (internal/core/engine/embedder.go): the loop that cuts a   *)
(* file into chunks of about maxTokens * 4 runes, each starting overlap * 4 *)
(* runes before the end of the one before it.  A content is its length and *)
(* the positions of its newlines; of the chunks the last one is kept, so   *)
(* that a loop that emits the same chunk for ever is a cycle of states.    *)
(***************************************************************************)
EXTENDS Integers

CONSTANTS
    MaxTokens,      \* 800 in embedWorker's caller
    OverlapTokens,  \* 100 there
    MaxRunes        \* bound: length of a content

ASSUME ChunkAssumption ==
    /\ MaxTokens \in Nat \ {0}
    /\ OverlapTokens \in Nat
    /\ OverlapTokens < MaxTokens
    /\ MaxRunes \in Nat

VARIABLES
    total,      \* runes of the content
    newlines,   \* positions of its newlines
    start,      \* where the next chunk starts
    chunk,      \* the last chunk: runes from .. to - 1
    pc

cvars == <<total, newlines, start, chunk, pc>>

maxChars == MaxTokens * 4
overlapChars == OverlapTokens * 4

ContentInit ==
    /\ total \in 0 .. MaxRunes
    /\ newlines \in SUBSET (0 .. total - 1)
    /\ start = 0
    /\ chunk = [from |-> 0, to |-> 0]
    /\ pc = "call"

\* A content of at most maxChars is one chunk, an empty one none.
Call ==
    /\ pc = "call"
    /\ \/ /\ total <= maxChars
          /\ chunk' = [from |-> 0, to |-> total]
          /\ pc' = "done"
       \/ /\ total > maxChars
          /\ UNCHANGED chunk
          /\ pc' = "loop"
    /\ UNCHANGED <<total, newlines, start>>

\* Mutant: the search for a newline runs to the end of the content.
BugWindow(end) == {i \in newlines : end <= i}

\* The newlines at which a chunk may end late.
Window(end) == {i \in newlines : end <= i /\ i < end + maxChars \div 2}

\* Where the chunk after one that ends at to starts.
Back(to) == IF to - overlapChars < 0 THEN 0 ELSE to - overlapChars

\* Mutant: the loop ends with the chunk that reaches the end of the content.
BugLeaves(to) == to >= total

\* The break, and the condition of the loop.
Leaves(to) == Back(to) >= to \/ Back(to) >= total

\* Mutant: the slice starts one rune late.
BugEmit(to) ==
    /\ chunk' = [from |-> start + 1, to |-> to]
    /\ start' = Back(to)
    /\ pc' = IF Leaves(to) THEN "done" ELSE "loop"

Emit(to) ==
    /\ chunk' = [from |-> start, to |-> to]
    /\ start' = Back(to)
    /\ pc' = IF Leaves(to) THEN "done" ELSE "loop"

End == IF start + maxChars > total THEN total ELSE start + maxChars

\* One iteration: a chunk of maxChars, or up to the first newline after them.
Iterate ==
    /\ pc = "loop"
    /\ \/ Window(End) = {} /\ Emit(End)
       \/ \E i \in Window(End) :
            /\ \A j \in Window(End) : i <= j
            /\ Emit(i + 1)
    /\ UNCHANGED <<total, newlines>>

Finished == pc = "done" /\ UNCHANGED cvars

ContentNext == Call \/ Iterate \/ Finished

ContentSpec == ContentInit /\ [][ContentNext]_cvars

-----------------------------------------------------------------------------
ContentTypeOK ==
    /\ total \in 0 .. MaxRunes
    /\ newlines \subseteq 0 .. total - 1
    /\ start \in 0 .. total
    /\ chunk \in [from : 0 .. total, to : 0 .. total]
    /\ pc \in {"call", "loop", "done"}

\* No chunk is longer than half as much again as maxChars, wherever the content
\* has its newlines: what the embedding model is sent is bounded.
ChunksAreBounded == chunk.to - chunk.from <= maxChars + maxChars \div 2

\* Every chunk starts at or before the end of the one before it and, until the
\* content is used up, ends after it: no rune of the content is left out.
ChunksAreContiguous ==
    [][pc = "loop" =>
         /\ chunk'.from <= chunk.to
         /\ (chunk.to < total => chunk'.to > chunk.to)]_cvars

\* With an overlap, a content longer than one chunk is never done: at the end of
\* the content the loop steps back by the overlap and emits the last runes again,
\* for ever.  embedder_test.go:72 expects such a call to return.
LongContentNeverReturns ==
    OverlapTokens > 0 /\ total > maxChars => pc # "done"
=============================================================================
