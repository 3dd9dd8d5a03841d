--------------------------- MODULE EmbeddingTools ----------------------------
(***************************************************************************)
(* The tools of internal/tools/embedding as programs of three calls: embed *)
(* by the default provider, query the store, put one chunk into it.  A     *)
(* step names the call, whether it is made ("when"), and what its failure  *)
(* leads to: "error" ends the tool with an error, "next" goes to the next  *)
(* item, "on" goes on.  A program is run once for each item.  What a tool  *)
(* makes of a text (patterns, plans, metrics) is left out.                 *)
(***************************************************************************)
EXTENDS Naturals, Sequences

Emb(else)       == [call |-> "embed", when |-> "always", else |-> else]
Qry(when, else) == [call |-> "query", when |-> when, else |-> else]
Put(when, else) == [call |-> "put", when |-> when, else |-> else]

EmbedTool            == <<Emb("error"), Put("always", "error")>>
SearchDatabase       == <<Emb("error"), Qry("always", "error")>>
WebSearchAndEmbed    == <<Emb("next"), Put("always", "next")>>
WebFetchAndEmbed     == <<Emb("next"), Put("always", "next")>>

\* Mutant: a plan is stored only if a similar one was found.
BugPlanMode          == <<Emb("on"), Qry("embedded", "on"), Emb("on"), Put("found", "on")>>

PlanMode             == <<Emb("on"), Qry("embedded", "on"), Emb("on"), Put("embedded", "on")>>
RefactorWithContext  == <<Emb("on"), Qry("embedded", "on"), Emb("on"), Put("embedded", "on")>>
AnalyzeCodePatterns  == <<Emb("next"), Qry("always", "next"), Put("found", "on")>>
BugPatternDetection  == <<Emb("next"), Qry("always", "on"), Put("foundOrEven", "on")>>
DocCoverageAnalysis  == <<Emb("error"), Put("always", "on")>>
KnowledgeGraph       == <<Emb("error"), Put("always", "on")>>
TestGeneration       == <<Emb("error"), Qry("always", "on"), Put("always", "on")>>

\* What a tool says of storing when it ends without an error: "true" whatever
\* happened, the number of chunks stored, or nothing.  Texts that are cut up, and
\* snippets, are several items; the two of the web may be told to take none.
Tool ==
    [embed                 |-> [program |-> EmbedTool, says |-> "true", items |-> {1}],
     search_database       |-> [program |-> SearchDatabase, says |-> "nothing", items |-> {1}],
     web_search_and_embed  |-> [program |-> WebSearchAndEmbed, says |-> "count", items |-> {0, 1, 2}],
     web_fetch_and_embed   |-> [program |-> WebFetchAndEmbed, says |-> "count", items |-> {0, 1, 2}],
     plan_mode             |-> [program |-> PlanMode, says |-> "true", items |-> {1}],
     refactor_with_context |-> [program |-> RefactorWithContext, says |-> "true", items |-> {1}],
     analyze_code_patterns |-> [program |-> AnalyzeCodePatterns, says |-> "true", items |-> {1, 2}],
     bug_pattern_detection |-> [program |-> BugPatternDetection, says |-> "true", items |-> {1, 2}],
     doc_coverage_analysis |-> [program |-> DocCoverageAnalysis, says |-> "true", items |-> {1}],
     knowledge_graph_analysis |-> [program |-> KnowledgeGraph, says |-> "true", items |-> {1}],
     test_generation       |-> [program |-> TestGeneration, says |-> "true", items |-> {1}]]

-----------------------------------------------------------------------------
\* A run of a tool: the items it has taken and those that are left, the step it is at,
\* what it has got, how many chunks it has put into the store, and, as a history, how
\* many of its calls to embed and to put have failed.

Begin(name, n) ==
    [tool |-> name, taken |-> n, left |-> n, step |-> 1, space |-> "", hits |-> {},
     put |-> 0, lost |-> 0, end |-> "no"]

Program(run) == Tool[run.tool].program
Current(run) == Program(run)[run.step]
AtCall(run)  == run.end = "no" /\ run.left > 0

Made(run) ==
    CASE Current(run).when = "always" -> TRUE
      [] Current(run).when = "embedded" -> run.space # ""
      [] Current(run).when = "found" -> run.hits # {}
      [] Current(run).when = "foundOrEven" -> run.hits # {} \/ (run.taken - run.left) % 2 = 0

\* The next step, and after the last one the next item.
NextItem(run) == [run EXCEPT !.left = @ - 1, !.step = 1, !.space = "", !.hits = {}]
GoOn(run)     == IF run.step = Len(Program(run)) THEN NextItem(run) ELSE [run EXCEPT !.step = @ + 1]

Embedded(run, space) == GoOn([run EXCEPT !.space = space])
Queried(run, hits)   == GoOn([run EXCEPT !.hits = hits])
PutIn(run)           == GoOn([run EXCEPT !.put = @ + 1])

AfterFailure(run) ==
    CASE Current(run).else = "error" -> [run EXCEPT !.end = "error"]
      [] Current(run).else = "next" -> NextItem(run)
      [] OTHER -> GoOn([run EXCEPT !.space = IF Current(run).call = "embed" THEN "" ELSE @,
                                   !.hits = IF Current(run).call = "query" THEN {} ELSE @])

Fails(run) == AfterFailure([run EXCEPT !.lost = IF Current(run).call = "query" THEN @ ELSE @ + 1])

AtEnd(run) == run.end = "no" /\ run.left = 0
=============================================================================
