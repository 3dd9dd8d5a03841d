--------------------------- MODULE KnowledgeProps ----------------------------
EXTENDS Knowledge

\* What jobs and tools have stored is found by no query of any transport, and by no
\* tool: numbers lead back to chunks only if UpsertChunks has stored them, and
\* nothing calls that.  analyze_code_patterns, which keeps a snippet only when
\* something like it is found, keeps none.
RetrievalFindsNothing ==
    /\ query \notin {NoQuery, Absent} => query.hits = {}
    /\ run \notin {NoRun, Absent} => run.hits = {} /\ (run.tool = "analyze_code_patterns" => run.put = 0)

\* As long as all settings are for Gemini's embeddings and one encoding, the vector
\* of a question and those it is compared with come from one model, whichever call
\* of whichever service fails, restarts and edits of other settings included.
\* The HTTP server's search is not so: it names no model, and takes another
\* provider's vector when Gemini fails.
ComparedInOneSpace ==
    uniform /\ query \notin {NoQuery, Absent} /\ query.route # "search" =>
        \A space \in query.compared : space = query.vector

\* An edit that was acknowledged stays in its file, unless two edits of the file
\* were under way at once or the writing of one was cut off.
SettingsKept ==
    \A f \in DOMAIN files \ disturbed :
        (\A w \in At(f) : editing[w].at = "loaded") => files[f] = acked[f]

\* However many requests fail, a question ends: Claude's provider tries one model more,
\* the others none.  Gemini's tries one more, or two where the configuration names another
\* fallback than its last resort; only that may be a model that has failed before.
MayRetry(provider) == CASE provider = "gemini" -> 2 [] provider = "claude" -> 1 [] OTHER -> 0

RetriesEnd ==
    query \notin {NoQuery, Absent} =>
        /\ query.retries <= MayRetry(query.provider)
        /\ query.retries = 2 => router["daemon"].fallbacks["gemini"] \notin {"", LastResort}
        /\ query.model \in query.tried => query.retries = 2 /\ query.asked = LastResort

\* What tools say of storing is true unless a call to embed or to store has failed: for
\* each item there is a chunk or a failed call, but for the tools that store only what
\* they find, or every other finding.  The counts say how many calls have not failed,
\* and embed, which ends with an error then, only says so when it has stored.
Due(tool, n) ==
    CASE tool \in {"search_database", "analyze_code_patterns"} -> 0
      [] tool = "bug_pattern_detection" -> (n + 1) \div 2
      [] OTHER -> n

ClaimsAreStored ==
    run \notin {NoRun, Absent} /\ run.end = "result" =>
        /\ run.put + run.lost >= Due(run.tool, run.taken)
        /\ Tool[run.tool].says = "count" => run.put + run.lost = run.taken
        /\ run.tool = "embed" => run.put = run.taken
=============================================================================
