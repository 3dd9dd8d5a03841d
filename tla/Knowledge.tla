------------------------------ MODULE Knowledge ------------------------------
(***************************************************************************)
(* What the processes know and how it is asked for: the router each builds *)
(* from the settings when it starts, the vectors that embedding jobs and   *)
(* tools put into its store, the queries of every transport.  The daemon   *)
(* has a tray and the store of a workspace; the MCP server has the global  *)
(* store, to which only its tools write.  Both outlive edits of the        *)
(* settings: the router stays as it was, the preferences are read again.   *)
(***************************************************************************)
EXTENDS Settings, Providers, EmbeddingTools

CONSTANTS
    Models,         \* models a request may name
    Scenes          \* the processes that run, how many edits and restarts there are

VARIABLES
    router,     \* of each process: the providers with a key, their fallbacks, the default
    starts,     \* how many are still to come
    stale,      \* the settings were written since the process started
    shown,      \* the tray's ActiveProviderID
    turbo,      \* of each store, since it was opened: vectors are encoded
    index,      \* of each store: where its vectors come from
    query,      \* the query the daemon answers
    run,        \* the tool the MCP server runs
    uniform     \* history: everything so far was set to embed with one model

processes == <<router, starts, stale, shown, turbo>>
kvars == <<svars, processes, index, query, run, uniform>>

Processes == {"daemon", "mcp"}
NoQuery == [at |-> "none"]
NoRun   == [tool |-> "none"]
Absent  == [at |-> "absent", tool |-> "absent"]   \* the process does not run
DefaultEmbedding == "gemini-embedding-2-preview"

RouterOf(config, prefs) ==
    [keys |-> config.keys \cap Range(Registered), fallbacks |-> config.fallbacks,
     default |-> SetupRouter(config.keys, config.gateway, prefs.provider)]

\* ReloadActiveProvider: what the tray shows.
ReloadActiveProvider(config, prefs, before) ==
    LET wanted == Or(prefs.provider, before)
        first  == FirstWithKey(TrayProviders, config.keys)
    IN  IF wanted \in config.keys \cap Range(TrayProviders) THEN wanted
        ELSE IF first = "none" THEN before ELSE first

\* Gemini embeds all, and no store is opened with another encoding.
Uniform(r, prefs) ==
    /\ r["daemon"].default = "gemini"
    /\ FamilyFromModel(Or(prefs.embedding, DefaultEmbedding)) = "google"
    /\ prefs.turbo = turbo["daemon"]

InScene(s) ==
    /\ SettingsInit(s.edits)
    /\ starts = s.starts
    /\ query = IF "daemon" \in s.processes THEN NoQuery ELSE Absent
    /\ run = IF "mcp" \in s.processes THEN NoRun ELSE Absent

Init ==
    /\ \E s \in Scenes : InScene(s)
    /\ router = [p \in Processes |-> RouterOf(files.config, files.prefs)]
    /\ stale = [p \in Processes |-> FALSE]
    /\ shown = ReloadActiveProvider(files.config, files.prefs, "none")
    /\ turbo = [p \in Processes |-> files.prefs.turbo]
    /\ index = [p \in Processes |-> {}]
    /\ uniform = Uniform(router, files.prefs)

StillUniform == uniform' = (uniform /\ Uniform(router', files'.prefs))

-----------------------------------------------------------------------------
\* The settings, as far as the processes see their edits.

\* A click on a provider shows it, with or without a key.
LoadSettings(w, e) ==
    /\ LoadFile(w, e)
    /\ shown' = IF w = "tray" /\ e.by = "provider" THEN e.value ELSE shown
    /\ UNCHANGED <<router, starts, stale, turbo, index, query, run, uniform>>

TruncateSettings(w) ==
    /\ Truncate(w)
    /\ stale' = [p \in Processes |-> TRUE]
    /\ UNCHANGED <<router, starts, shown, turbo, index, query, run>>
    /\ StillUniform

\* A click on a gateway shows it if it has a key.
WriteSettings(w) ==
    /\ Write(w)
    /\ LET e == editing[w].edit
       IN  shown' = IF w = "tray" /\ e.by = "gateway" /\ e.value \in editing[w].copy.keys THEN e.value ELSE shown
    /\ stale' = [p \in Processes |-> TRUE]
    /\ UNCHANGED <<router, starts, turbo, index, query, run>>
    /\ StillUniform

CutOffSettings(w) ==
    /\ CutOff(w)
    /\ UNCHANGED <<processes, index, query, run, uniform>>

\* provider.reload, of the IPC, changes what the tray shows and nothing else.
Reload ==
    /\ shown' = ReloadActiveProvider(files.config, files.prefs, shown)
    /\ UNCHANGED <<svars, router, starts, stale, turbo, index, query, run, uniform>>

\* A process starts again: it loads the settings and builds the router; the MCP
\* server opens its store.
Start(p) ==
    /\ starts > 0
    /\ starts' = starts - 1
    /\ p = "daemon" => query = NoQuery /\ "tray" \notin {w \in DOMAIN Writers : editing[w] # Idle}
    /\ p = "mcp" => run = NoRun
    /\ router' = [router EXCEPT ![p] = RouterOf(files.config, files.prefs)]
    /\ stale' = [stale EXCEPT ![p] = FALSE]
    /\ shown' = IF p = "daemon" THEN ReloadActiveProvider(files.config, files.prefs, "none") ELSE shown
    /\ turbo' = IF p = "mcp" THEN [turbo EXCEPT ![p] = files.prefs.turbo] ELSE turbo
    /\ UNCHANGED <<svars, index, query, run>>
    /\ StillUniform

\* SavePreferences keeps the readers of its own process off the file.
CanReadPrefs == "tray" \in DOMAIN Writers => editing["tray"] = Idle \/ editing["tray"].at = "loaded"

\* The store of a workspace is opened when the workspace is, and again after an
\* eviction; NewVectorStoreAtPath reads the preference.
OpenStore ==
    /\ query = NoQuery
    /\ CanReadPrefs
    /\ turbo' = [turbo EXCEPT !["daemon"] = files.prefs.turbo]
    /\ UNCHANGED <<svars, router, starts, stale, shown, index, query, run, uniform>>

-----------------------------------------------------------------------------
\* What is stored.

\* Mutant: the entry from number to chunk is written as well.
BugChunk(p, coll, space) == [coll |-> coll, space |-> <<space, turbo[p]>>, reverse |-> TRUE]

\* UpsertChunk, which jobs and tools call one by one, writes no entry from the
\* number to the chunk.
Chunk(p, coll, space) == [coll |-> coll, space |-> <<space, turbo[p]>>, reverse |-> FALSE]

\* Each transport has its way to name the collection of a workspace; the queries of
\* the IPC name it after a conversation.  The WebSocket's and the plans' are as HTTP's.
JobCollection   == [ipc |-> "hash", http |-> "workspace"]
QueryCollection == [ipc |-> "conversation", http |-> "workspace", search |-> "workspace"]

\* A chunk of an embedding job: the default provider embeds it, also if it is a gateway.
JobStores(transport) ==
    LET d == router["daemon"].default
    IN  /\ d # "none"
        /\ \E space \in Embed(d, "") \ {Failed} :
             index' = [index EXCEPT !["daemon"] = @ \cup {Chunk("daemon", JobCollection[transport], space)}]
    /\ UNCHANGED <<svars, processes, query, run, uniform>>

\* The store compares with all its vectors; a hit is one of the collection whose
\* number leads to a chunk.
Hits(p, coll) == {c \in index[p] : c.coll = coll /\ c.reverse}

-----------------------------------------------------------------------------
\* A query.

\* StreamQuery reads the preferences, finds its provider and embeds the question;
\* the search of the HTTP server only embeds, for no model.
Ask(route, model) ==
    /\ query = NoQuery
    /\ CanReadPrefs
    /\ LET prefs    == files.prefs
           r        == router["daemon"]
           named    == Or(model, prefs.model)
           provider == ProviderFor(r.keys, r.default, named)
           embedder == IF route = "search" THEN "" ELSE Or(prefs.embedding, DefaultEmbedding)
       IN  /\ provider # "none" \/ route = "search"
           /\ \E vector \in RouterEmbed(r.keys, r.default, embedder) \ {Failed} :
                query' = [at |-> "embedded", route |-> route, provider |-> provider, asked |-> named,
                          model |-> named, fallback |-> FallbackModel(r.fallbacks, provider), vector |-> vector,
                          compared |-> {}, hits |-> {}, retries |-> 0, tried |-> {}]
    /\ UNCHANGED <<svars, processes, index, run, uniform>>

Retrieve ==
    /\ query.at = "embedded"
    /\ query' = [query EXCEPT !.at = IF query.route = "search" THEN "done" ELSE "completing",
                              !.vector = <<@, turbo["daemon"]>>,
                              !.compared = {c.space : c \in index["daemon"]},
                              !.hits = Hits("daemon", QueryCollection[query.route])]
    /\ UNCHANGED <<svars, processes, index, run, uniform>>

\* The request for the fallback names no further one.
TryNext(m) ==
    query' = [query EXCEPT !.model = m, !.fallback = "", !.retries = @ + 1, !.tried = @ \cup {query.model}]

\* Complete: a request is answered, or it fails and another one is tried; the failure
\* of the last is an answer as well.
Complete ==
    /\ query.at = "completing"
    /\ \/ query' = [query EXCEPT !.at = "done"]
       \/ \E m \in Retry(query.provider, query.model, query.fallback) : TryNext(m)
    /\ UNCHANGED <<svars, processes, index, run, uniform>>

Answer ==
    /\ query.at = "done"
    /\ query' = NoQuery
    /\ UNCHANGED <<svars, processes, index, run, uniform>>

-----------------------------------------------------------------------------
\* A tool of the MCP server.

\* tools/call; without a provider every tool ends at once, with an error.
CallTool(name, n) ==
    /\ run = NoRun
    /\ run' = IF router["mcp"].default = "none" THEN [Begin(name, n) EXCEPT !.end = "error"] ELSE Begin(name, n)
    /\ UNCHANGED <<svars, processes, index, query, uniform>>

SkipStep ==
    /\ ~Made(run)
    /\ run' = GoOn(run)
    /\ UNCHANGED index

EmbedStep ==
    /\ Made(run) /\ Current(run).call = "embed"
    /\ \E space \in Embed(router["mcp"].default, "") :
         run' = IF space = Failed THEN Fails(run) ELSE Embedded(run, space)
    /\ UNCHANGED index

QueryStep ==
    /\ Made(run) /\ Current(run).call = "query"
    /\ run' \in {Fails(run), Queried(run, Hits("mcp", "workspace"))}
    /\ UNCHANGED index

\* Storing fails before or after the vector is in.
PutStep ==
    /\ Made(run) /\ Current(run).call = "put"
    /\ \/ run' = Fails(run) /\ UNCHANGED index
       \/ /\ index' = [index EXCEPT !["mcp"] = @ \cup {Chunk("mcp", "workspace", run.space)}]
          /\ run' \in {Fails(run), PutIn(run)}

StepTool ==
    /\ run \notin {NoRun, Absent} /\ AtCall(run)
    /\ SkipStep \/ EmbedStep \/ QueryStep \/ PutStep
    /\ UNCHANGED <<svars, processes, query, uniform>>

EndTool ==
    /\ run \notin {NoRun, Absent}
    /\ run' = IF AtEnd(run) THEN [run EXCEPT !.end = "result"] ELSE NoRun
    /\ AtEnd(run) \/ run.end # "no"
    /\ UNCHANGED <<svars, processes, index, query, uniform>>

-----------------------------------------------------------------------------
Next ==
    \/ \E w \in DOMAIN Writers :
          (\E e \in Writers[w] : LoadSettings(w, e)) \/ TruncateSettings(w) \/ WriteSettings(w) \/ CutOffSettings(w)
    \/ Reload \/ OpenStore \/ \E p \in Processes : Start(p)
    \/ \E t \in DOMAIN JobCollection : JobStores(t)
    \/ \E route \in DOMAIN QueryCollection, m \in Models : Ask(route, m)
    \/ Retrieve \/ Complete \/ Answer
    \/ \E name \in DOMAIN Tool : \E n \in Tool[name].items : CallTool(name, n)
    \/ StepTool \/ EndTool

Spec == Init /\ [][Next]_kvars
=============================================================================
