-------------------------- MODULE KnowledgeProofs ---------------------------
(* Settings, retrieval and tools for all settings files, edits and models.  *)
EXTENDS KnowledgeProps, WellFoundedInduction, TLAPS

\* The model that embeds for Gemini, whatever Google model it is asked for.
Google == "gemini-embedding-2-preview"

Files == {"config", "prefs"}

\* An undisturbed file is edited by one writer at most, who has loaded it as the edits
\* before leave it, and while nobody is writing it that is what it holds.
SettingsInv ==
    /\ DOMAIN files = Files /\ DOMAIN acked = Files
    /\ DOMAIN editing = DOMAIN Writers
    /\ \A w \in DOMAIN Writers :
          \/ editing[w] = Idle
          \/ /\ editing[w] = [at |-> editing[w].at, edit |-> editing[w].edit, copy |-> editing[w].copy]
             /\ editing[w].at \in {"loaded", "emptied"}
             /\ editing[w].edit \in Edits
    /\ \A f \in Files \ disturbed :
          /\ \A w1, w2 \in At(f) : w1 = w2
          /\ \A w \in At(f) : editing[w].copy = acked[f]
          /\ (\A w \in At(f) : editing[w].at = "loaded") => files[f] = acked[f]

\* No chunk is reached from its number.
StoreInv ==
    /\ DOMAIN index = Processes
    /\ \A p \in Processes : \A c \in index[p] : ~c.reverse

\* The default provider of a router has a key.
RouterInv ==
    /\ DOMAIN router = Processes /\ DOMAIN turbo = Processes
    /\ \A p \in Processes : router[p].default \in router[p].keys \cup {"none"}

\* The fields of a query.
Fields(q) ==
    q = [at |-> q.at, route |-> q.route, provider |-> q.provider, asked |-> q.asked,
         model |-> q.model, fallback |-> q.fallback, vector |-> q.vector,
         compared |-> q.compared, hits |-> q.hits, retries |-> q.retries, tried |-> q.tried]

\* How a question has come to the model it is at: the one asked for, its fallback, or
\* Gemini's last resort; the configuration names the fallbacks fb.
AtFirst(q, fb) ==
    q.tried = {} /\ q.model = q.asked /\ q.fallback = FallbackModel(fb, q.provider)

AtFallback(q, fb) ==
    /\ q.provider \in {"gemini", "claude"} /\ q.fallback = ""
    /\ q.tried = {q.asked} /\ q.model # q.asked
    /\ q.provider = "gemini" => q.model = Or(fb["gemini"], LastResort)

AtLastResort(q, fb) ==
    /\ q.provider = "gemini" /\ q.fallback = "" /\ q.model = LastResort
    /\ fb["gemini"] \notin {"", LastResort} /\ q.tried = {q.asked, fb["gemini"]}

Chain(q, fb) ==
    /\ q.retries \in {0, 1, 2}
    /\ q.retries = 0 => AtFirst(q, fb)
    /\ q.retries = 1 => AtFallback(q, fb)
    /\ q.retries = 2 => AtLastResort(q, fb)

\* A query has found nothing.
QueryInv ==
    \/ query \in {NoQuery, Absent}
    \/ /\ Fields(query) /\ query.at \in {"embedded", "completing", "done"}
       /\ query.hits = {} /\ (query.at = "embedded" => query.compared = {})
       /\ Chain(query, router["daemon"].fallbacks)

\* While everything is set for Gemini's embeddings, its vectors fill the store and
\* the questions.
UniformInv ==
    uniform =>
        /\ Uniform(router, files.prefs)
        /\ \A c \in index["daemon"] : c.space = <<Google, turbo["daemon"]>>
        /\ query \notin {NoQuery, Absent} /\ query.route # "search" =>
              /\ query.at = "embedded" => query.vector = Google
              /\ query.at # "embedded" =>
                    /\ query.vector = <<Google, turbo["daemon"]>>
                    /\ \A space \in query.compared : space = <<Google, turbo["daemon"]>>

\* The fields of a run.
IsRun(r) ==
    r = [tool |-> r.tool, taken |-> r.taken, left |-> r.left, step |-> r.step, space |-> r.space,
         hits |-> r.hits, put |-> r.put, lost |-> r.lost, end |-> r.end]

\* The tools that embed and store every item or count a failure, and those that store a
\* plan if their second embedding has not failed.
Exact == {"embed", "web_search_and_embed", "web_fetch_and_embed", "doc_coverage_analysis",
          "knowledge_graph_analysis", "test_generation"}
Plans == {"plan_mode", "refactor_with_context"}

\* The items a tool is through with are stored or have failed: all, or every other of
\* bug_pattern_detection's, whose query finds nothing.
Accounted(r) ==
    /\ r.tool \in Exact /\ r.end # "error" => r.put + r.lost = r.taken - r.left
    /\ r.tool = "embed" /\ r.end # "error" => r.lost = 0
    /\ r.tool \in Plans =>
          /\ r.put + r.lost >= r.taken - r.left
          /\ r.step = 4 /\ r.space = "" => r.put + r.lost > r.taken - r.left
    /\ r.tool = "bug_pattern_detection" => 2 * (r.put + r.lost) >= r.taken - r.left
    /\ r.tool = "analyze_code_patterns" => r.put = 0

\* A tool is at one of its steps and has found nothing.
Nothing(r) == r.hits = {}

Typed(r) ==
    /\ IsRun(r) /\ r.tool \in DOMAIN Tool /\ Nothing(r)
    /\ r.taken \in Nat /\ r.left \in Nat /\ r.put \in Nat /\ r.lost \in Nat
    /\ r.step \in 1 .. Len(Program(r))

Running(r) == Typed(r) /\ (r.end = "result" => r.left = 0) /\ Accounted(r)

RunInv == run \in {NoRun, Absent} \/ Running(run)

-----------------------------------------------------------------------------
\* What the providers embed with.

LEMMA LeastNatural ==
    ASSUME NEW T, T \subseteq Nat, T # {}
    PROVE  \E x \in T : \A y \in T : x <= y
  <1>1. \E x \in T : \A y \in T : ~(<<y, x>> \in OpToRel(<, Nat))
    BY NatLessThanWellFounded, WFMin
  <1>2. \A x, y \in T : ~(<<y, x>> \in OpToRel(<, Nat)) => x <= y
    BY DEF OpToRel
  <1> QED
    BY <1>1, <1>2

\* The first provider with a key has one, and is of the list.
LEMMA FirstHasKey ==
    ASSUME NEW order, NEW keys, DOMAIN order \subseteq Nat
    PROVE  FirstWithKey(order, keys) \in (keys \cap Range(order)) \cup {"none"}
  <1> DEFINE found == {i \in DOMAIN order : order[i] \in keys}
  <1>1. CASE found = {}
    BY <1>1 DEF FirstWithKey
  <1>2. CASE found # {}
    <2>1. \E x \in found : \A y \in found : x <= y
      BY <1>2, LeastNatural
    <2>2. Min(found) \in found
      BY <2>1 DEF Min
    <2>3. FirstWithKey(order, keys) = order[Min(found)]
      BY <1>2 DEF FirstWithKey
    <2> QED
      BY <2>2, <2>3 DEF Range
  <1> QED
    BY <1>1, <1>2

LEMMA DefaultHasKey ==
    ASSUME NEW config, NEW prefs
    PROVE  RouterOf(config, prefs).default \in RouterOf(config, prefs).keys \cup {"none"}
  <1> DEFINE keys == config.keys
             d == SetupRouter(keys, config.gateway, prefs.provider)
  <1>1. DOMAIN Registered \subseteq Nat
    BY DEF Registered
  <1>2. FirstWithKey(Registered, keys) \in (keys \cap Range(Registered)) \cup {"none"}
    BY <1>1, FirstHasKey
  <1>3. d \in (keys \cap Range(Registered)) \cup {"none"}
    BY <1>2 DEF SetupRouter
  <1> HIDE DEF d
  <1> QED
    BY <1>3 DEF RouterOf, d

\* Gemini embeds every Google model, and what no model is named for, with one.
LEMMA GeminiEmbeds ==
    ASSUME NEW model, model = "" \/ FamilyFromModel(model) = "google"
    PROVE  Embed("gemini", model) \ {Failed} \subseteq {Google}
  <1>1. Lookup(FamilyEmbedding, "google", "") = Google
    BY DEF Lookup, FamilyEmbedding, Google
  <1>2. FamilyFromModel("") = "unknown"
    <2>1. DOMAIN Family = {"google", "anthropic", "openai", "qwen", "voyage"}
      BY DEF Family
    <2>2. /\ "" \notin Family["google"] /\ "" \notin Family["anthropic"]
          /\ "" \notin Family["openai"] /\ "" \notin Family["qwen"] /\ "" \notin Family["voyage"]
      BY DEF Family
    <2>3. \A f \in DOMAIN Family : "" \notin Family[f]
      BY <2>1, <2>2
    <2> QED
      BY <2>3 DEF FamilyFromModel
  <1>3. ResolveEmbeddingModel("google", model) = Google
    <2>1. CASE FamilyFromModel(model) = "google"
      BY <1>1, <2>1 DEF ResolveEmbeddingModel
    <2>2. CASE model = ""
      BY <1>1, <1>2, <2>2 DEF ResolveEmbeddingModel
    <2> QED
      BY <2>1, <2>2
  <1>4. EmbedModel("gemini", model) = Google
    <2>1. EmbedModel("gemini", model) = Or(Google, Google)
      BY <1>3 DEF EmbedModel, Gateways, Google
    <2> QED
      BY <2>1 DEF Or
  <1> QED
    BY <1>4 DEF Embed

\* With a key for Gemini a Google model is embedded by Gemini or not at all.
LEMMA RouterEmbedsGoogle ==
    ASSUME NEW keys, NEW default, NEW model, "gemini" \in keys,
           FamilyFromModel(model) = "google"
    PROVE  RouterEmbed(keys, default, model) \ {Failed} \subseteq {Google}
  <1>1. "google" \in DOMAIN NativeProvider /\ NativeProvider["google"] = "gemini"
    BY DEF NativeProvider
  <1>2. RouterEmbed(keys, default, model) = Embed("gemini", model)
    BY <1>1 DEF RouterEmbed, HasNative
  <1> QED
    BY <1>2, GeminiEmbeds

-----------------------------------------------------------------------------
\* An edit of a settings file, and who is at it then.

LEMMA Loading ==
    ASSUME SettingsInv, NEW w \in DOMAIN Writers, NEW e \in Writers[w], LoadFile(w, e)
    PROVE  SettingsInv'
  <1>1. /\ e \in Edits /\ e.file \in Files
        /\ files' = files /\ acked' = acked
        /\ editing[w] = Idle
        /\ editing' = [editing EXCEPT ![w] = [at |-> "loaded", edit |-> e, copy |-> files[e.file]]]
        /\ disturbed' = IF At(e.file) # {} THEN disturbed \cup {e.file} ELSE disturbed
    BY SettingsAssumption DEF LoadFile, Edits, Files
  <1>2. /\ DOMAIN editing' = DOMAIN Writers
        /\ \A v \in DOMAIN Writers : v # w => editing'[v] = editing[v]
        /\ editing'[w] = [at |-> "loaded", edit |-> e, copy |-> files[e.file]]
    BY <1>1 DEF SettingsInv
  <1>3. editing'[w] # Idle /\ editing'[w].at = "loaded" /\ editing'[w].edit = e
        /\ editing'[w].copy = files[e.file]
    BY <1>2 DEF Idle
  <1>4. \A f \in Files : f # e.file => At(f)' = At(f)
    BY <1>1, <1>2, <1>3 DEF At
  <1>5. At(e.file) = {} => \A v \in DOMAIN Writers : v \in At(e.file)' => v = w
    BY <1>2 DEF At
  <1>6. \A f \in Files \ disturbed' :
           /\ \A w1, w2 \in At(f)' : w1 = w2
           /\ \A v \in At(f)' : editing'[v].copy = acked[f]
           /\ (\A v \in At(f)' : editing'[v].at = "loaded") => files[f] = acked[f]
    <2> TAKE f \in Files \ disturbed'
    <2>0. f \in Files \ disturbed
      BY <1>1
    <2>1. CASE f = e.file
      <3>1. At(f) = {}
        BY <1>1, <2>1
      <3>2. files[f] = acked[f]
        BY <2>0, <3>1 DEF SettingsInv
      <3>3. \A v \in At(f)' : v = w
        BY <1>5, <2>1, <3>1 DEF At
      <3> QED
        BY <1>3, <2>1, <3>2, <3>3
    <2>2. CASE f # e.file
      <3>1. At(f)' = At(f) /\ \A v \in At(f) : editing'[v] = editing[v]
        BY <1>1, <1>2, <1>4, <2>2 DEF At
      <3> QED
        BY <2>0, <3>1 DEF SettingsInv
    <2> QED
      BY <2>1, <2>2
  <1>7. \A v \in DOMAIN Writers :
           \/ editing'[v] = Idle
           \/ /\ editing'[v] = [at |-> editing'[v].at, edit |-> editing'[v].edit,
                                copy |-> editing'[v].copy]
              /\ editing'[v].at \in {"loaded", "emptied"}
              /\ editing'[v].edit \in Edits
    <2> TAKE v \in DOMAIN Writers
    <2>1. CASE v = w
      BY <1>1, <1>2, <1>3, <2>1
    <2>2. CASE v # w
      BY <1>2, <2>2 DEF SettingsInv
    <2> QED
      BY <2>1, <2>2
  <1> QED
    BY <1>1, <1>2, <1>6, <1>7 DEF SettingsInv

LEMMA Emptying ==
    ASSUME SettingsInv, NEW w \in DOMAIN Writers, Truncate(w)
    PROVE  SettingsInv'
  <1> DEFINE e == editing[w].edit
  <1>1. /\ editing[w].at = "loaded" /\ editing[w] # Idle
        /\ editing[w] = [at |-> editing[w].at, edit |-> e, copy |-> editing[w].copy]
        /\ e \in Edits
    BY DEF Truncate, SettingsInv, Idle
  <1>2. /\ files' = [files EXCEPT ![e.file] = Blank[e.file]]
        /\ acked' = acked /\ disturbed' = disturbed
        /\ editing' = [editing EXCEPT ![w].at = "emptied"]
    BY DEF Truncate
  <1>3. editing'[w] = [at |-> "emptied", edit |-> e, copy |-> editing[w].copy]
    BY <1>1, <1>2 DEF SettingsInv
  <1>4. /\ DOMAIN files' = Files /\ \A f \in Files : f # e.file => files'[f] = files[f]
        /\ DOMAIN editing' = DOMAIN Writers
        /\ \A v \in DOMAIN Writers : v # w => editing'[v] = editing[v]
    BY <1>2 DEF SettingsInv
  <1>5. /\ editing'[w] # Idle /\ editing'[w].at = "emptied"
        /\ editing'[w].edit = e /\ editing'[w].copy = editing[w].copy
    BY <1>3 DEF Idle
  <1> HIDE DEF e
  <1>6. \A f : At(f)' = At(f)
    BY <1>1, <1>4, <1>5 DEF At, e
  <1>7. w \in At(e.file)
    BY <1>1 DEF At, e
  <1>8. \A v \in DOMAIN Writers : editing'[v].copy = editing[v].copy
    BY <1>4, <1>5
  <1>9. \A f \in Files \ disturbed' :
           /\ \A w1, w2 \in At(f)' : w1 = w2
           /\ \A v \in At(f)' : editing'[v].copy = acked[f]
           /\ (\A v \in At(f)' : editing'[v].at = "loaded") => files'[f] = acked[f]
    <2> TAKE f \in Files \ disturbed'
    <2>1. /\ \A w1, w2 \in At(f)' : w1 = w2
          /\ \A v \in At(f)' : editing'[v].copy = acked[f]
      <3>1. /\ \A w1, w2 \in At(f) : w1 = w2
            /\ \A v \in At(f) : v \in DOMAIN Writers /\ editing[v].copy = acked[f]
        BY <1>2 DEF SettingsInv, At
      <3> QED
        BY <1>6, <1>8, <3>1
    <2>2. CASE f = e.file
      BY <1>5, <1>6, <1>7, <2>1, <2>2
    <2>3. CASE f # e.file
      <3>1. w \notin At(f)
        BY <2>3 DEF At, e
      <3>2. \A v \in At(f) : editing'[v] = editing[v]
        BY <1>4, <3>1 DEF At
      <3> QED
        BY <1>2, <1>4, <1>6, <2>1, <2>3, <3>2 DEF SettingsInv
    <2> QED
      BY <2>2, <2>3
  <1>10. \A v \in DOMAIN Writers :
           \/ editing'[v] = Idle
           \/ /\ editing'[v] = [at |-> editing'[v].at, edit |-> editing'[v].edit,
                                copy |-> editing'[v].copy]
              /\ editing'[v].at \in {"loaded", "emptied"}
              /\ editing'[v].edit \in Edits
    <2> TAKE v \in DOMAIN Writers
    <2>1. CASE v = w
      BY <1>1, <1>3, <1>5, <2>1 DEF e
    <2>2. CASE v # w
      BY <1>4, <2>2 DEF SettingsInv
    <2> QED
      BY <2>1, <2>2
  <1> QED
    BY <1>2, <1>4, <1>9, <1>10 DEF SettingsInv

\* The edit ends, done or cut off.
LEMMA Ending ==
    ASSUME SettingsInv, NEW w \in DOMAIN Writers, Write(w) \/ CutOff(w)
    PROVE  SettingsInv'
  <1> DEFINE e == editing[w].edit
  <1>1. /\ editing[w].at = "emptied" /\ editing[w] # Idle
        /\ editing' = [editing EXCEPT ![w] = Idle]
    BY DEF Write, CutOff, Idle
  <1>2. /\ DOMAIN editing' = DOMAIN Writers
        /\ \A v \in DOMAIN Writers : editing'[v] = IF v = w THEN Idle ELSE editing[v]
    BY <1>1 DEF SettingsInv
  <1>3. /\ DOMAIN files' = Files /\ DOMAIN acked' = Files
        /\ \A f \in Files : f # e.file => files'[f] = files[f] /\ acked'[f] = acked[f]
    BY DEF Write, CutOff, SettingsInv
  <1>4. disturbed \subseteq disturbed'
    BY DEF Write, CutOff
  <1>5. e \in Edits /\ e.file \in Files /\ w \in At(e.file)
    BY <1>1 DEF SettingsInv, Edits, Files, At
  <1>7. ASSUME e.file \notin disturbed'
        PROVE  files'[e.file] = acked'[e.file]
    <2>1. Write(w)
      BY <1>7 DEF CutOff
    <2>2. /\ files' = [files EXCEPT ![e.file] = Change(e, editing[w].copy)]
          /\ acked' = [acked EXCEPT ![e.file] = Change(e, @)]
      BY <2>1 DEF Write
    <2>3. editing[w].copy = acked[e.file]
      BY <1>4, <1>5, <1>7 DEF SettingsInv
    <2> QED
      BY <1>5, <2>2, <2>3 DEF SettingsInv
  <1> HIDE DEF e
  <1>8. \A f : At(f)' = At(f) \ {w}
    BY <1>2 DEF At
  <1>9. \A f \in Files : f # e.file => w \notin At(f)
    BY DEF At, e
  <1>10. \A f \in Files \ disturbed' :
           /\ \A w1, w2 \in At(f)' : w1 = w2
           /\ \A v \in At(f)' : editing'[v].copy = acked'[f]
           /\ (\A v \in At(f)' : editing'[v].at = "loaded") => files'[f] = acked'[f]
    <2> TAKE f \in Files \ disturbed'
    <2>0. /\ \A w1, w2 \in At(f) : w1 = w2
          /\ \A v \in At(f) : editing[v].copy = acked[f]
          /\ (\A v \in At(f) : editing[v].at = "loaded") => files[f] = acked[f]
      BY <1>4 DEF SettingsInv
    <2>1. CASE f = e.file
      <3>1. At(f)' = {}
        BY <1>5, <1>8, <2>0, <2>1
      <3> QED
        BY <1>7, <2>1, <3>1
    <2>2. CASE f # e.file
      <3>1. At(f)' = At(f) /\ \A v \in At(f) : editing'[v] = editing[v]
        BY <1>2, <1>8, <1>9, <2>2 DEF At
      <3> QED
        BY <1>3, <2>0, <2>2, <3>1
    <2> QED
      BY <2>1, <2>2
  <1> QED
    BY <1>2, <1>3, <1>10 DEF SettingsInv

LEMMA SettingsInductive == SettingsInv /\ [Next]_kvars => SettingsInv'
  <1> SUFFICES ASSUME SettingsInv, [Next]_kvars
               PROVE  SettingsInv'
    OBVIOUS
  <1>1. ASSUME NEW w \in DOMAIN Writers, NEW e \in Writers[w], LoadSettings(w, e)
        PROVE  SettingsInv'
    BY <1>1, Loading DEF LoadSettings
  <1>2. ASSUME NEW w \in DOMAIN Writers, TruncateSettings(w)
        PROVE  SettingsInv'
    BY <1>2, Emptying DEF TruncateSettings
  <1>3. ASSUME NEW w \in DOMAIN Writers, WriteSettings(w)
        PROVE  SettingsInv'
    BY <1>3, Ending DEF WriteSettings
  <1>4. ASSUME NEW w \in DOMAIN Writers, CutOffSettings(w)
        PROVE  SettingsInv'
    BY <1>4, Ending DEF CutOffSettings
  <1>5. ASSUME UNCHANGED svars
        PROVE  SettingsInv'
    BY <1>5 DEF svars, SettingsInv, At
  <1>6. CASE Reload \/ OpenStore \/ Retrieve \/ Complete \/ Answer \/ StepTool \/ EndTool
    BY <1>5, <1>6 DEF Reload, OpenStore, Retrieve, Complete, Answer, StepTool, EndTool
  <1>7. ASSUME NEW p \in Processes, Start(p)
        PROVE  SettingsInv'
    BY <1>5, <1>7 DEF Start
  <1>8. ASSUME NEW t \in DOMAIN JobCollection, JobStores(t)
        PROVE  SettingsInv'
    BY <1>5, <1>8 DEF JobStores
  <1>9. ASSUME NEW route \in DOMAIN QueryCollection, NEW m \in Models, Ask(route, m)
        PROVE  SettingsInv'
    BY <1>5, <1>9 DEF Ask
  <1>10. ASSUME NEW name \in DOMAIN Tool, NEW n \in Tool[name].items, CallTool(name, n)
         PROVE  SettingsInv'
    BY <1>5, <1>10 DEF CallTool
  <1>11. CASE UNCHANGED kvars
    BY <1>5, <1>11 DEF kvars
  <1> QED
    BY <1>1, <1>2, <1>3, <1>4, <1>6, <1>7, <1>8, <1>9, <1>10, <1>11 DEF Next

-----------------------------------------------------------------------------
LEMMA RouterInductive == RouterInv /\ [Next]_kvars => RouterInv'
  <1> SUFFICES ASSUME RouterInv, [Next]_kvars
               PROVE  RouterInv'
    OBVIOUS
  <1>1. ASSUME UNCHANGED <<router, turbo>>
        PROVE  RouterInv'
    BY <1>1 DEF RouterInv
  <1>2. ASSUME NEW w \in DOMAIN Writers,
               \/ \E e \in Writers[w] : LoadSettings(w, e)
               \/ TruncateSettings(w) \/ WriteSettings(w) \/ CutOffSettings(w)
        PROVE  RouterInv'
    BY <1>1, <1>2
    DEF LoadSettings, TruncateSettings, WriteSettings, CutOffSettings, processes
  <1>3. CASE Reload \/ Retrieve \/ Complete \/ Answer \/ StepTool \/ EndTool
    BY <1>1, <1>3 DEF Reload, Retrieve, Complete, Answer, StepTool, EndTool, processes
  <1>4. CASE OpenStore
    BY <1>4 DEF OpenStore, RouterInv
  <1>5. ASSUME NEW p \in Processes, Start(p)
        PROVE  RouterInv'
    <2>1. /\ router' = [router EXCEPT ![p] = RouterOf(files.config, files.prefs)]
          /\ DOMAIN turbo' = DOMAIN turbo
      BY <1>5 DEF Start
    <2>2. RouterOf(files.config, files.prefs).default
             \in RouterOf(files.config, files.prefs).keys \cup {"none"}
      BY DefaultHasKey
    <2> QED
      BY <2>1, <2>2 DEF RouterInv
  <1>6. ASSUME NEW t \in DOMAIN JobCollection, JobStores(t)
        PROVE  RouterInv'
    BY <1>1, <1>6 DEF JobStores, processes
  <1>7. ASSUME NEW route \in DOMAIN QueryCollection, NEW m \in Models, Ask(route, m)
        PROVE  RouterInv'
    BY <1>1, <1>7 DEF Ask, processes
  <1>8. ASSUME NEW name \in DOMAIN Tool, NEW n \in Tool[name].items, CallTool(name, n)
        PROVE  RouterInv'
    BY <1>1, <1>8 DEF CallTool, processes
  <1>9. CASE UNCHANGED kvars
    BY <1>1, <1>9 DEF kvars, processes
  <1> QED
    BY <1>2, <1>3, <1>4, <1>5, <1>6, <1>7, <1>8, <1>9 DEF Next

\* What a step puts into a store is without a way back.
LEMMA StoreInductive == StoreInv /\ [Next]_kvars => StoreInv'
  <1> SUFFICES ASSUME StoreInv, [Next]_kvars
               PROVE  StoreInv'
    OBVIOUS
  <1>1. ASSUME UNCHANGED index
        PROVE  StoreInv'
    BY <1>1 DEF StoreInv
  <1>2. ASSUME NEW p \in Processes, NEW coll, NEW space,
               index' = [index EXCEPT ![p] = @ \cup {Chunk(p, coll, space)}]
        PROVE  StoreInv'
    <2>1. ~Chunk(p, coll, space).reverse
      BY DEF Chunk
    <2> QED
      BY <1>2, <2>1 DEF StoreInv
  <1>3. ASSUME NEW w \in DOMAIN Writers,
               \/ \E e \in Writers[w] : LoadSettings(w, e)
               \/ TruncateSettings(w) \/ WriteSettings(w) \/ CutOffSettings(w)
        PROVE  StoreInv'
    BY <1>1, <1>3 DEF LoadSettings, TruncateSettings, WriteSettings, CutOffSettings
  <1>4. CASE Reload \/ OpenStore \/ Retrieve \/ Complete \/ Answer \/ EndTool
    BY <1>1, <1>4 DEF Reload, OpenStore, Retrieve, Complete, Answer, EndTool
  <1>5. CASE StepTool
    <2>1. CASE PutStep
      <3>1. \/ index' = index
            \/ index' = [index EXCEPT !["mcp"] = @ \cup {Chunk("mcp", "workspace", run.space)}]
        BY <2>1 DEF PutStep
      <3>2. "mcp" \in Processes
        BY DEF Processes
      <3> QED
        BY <1>1, <1>2, <3>1, <3>2
    <2>2. CASE SkipStep \/ EmbedStep \/ QueryStep
      BY <1>1, <2>2 DEF SkipStep, EmbedStep, QueryStep
    <2> QED
      BY <1>5, <2>1, <2>2 DEF StepTool
  <1>6. ASSUME NEW p \in Processes, Start(p)
        PROVE  StoreInv'
    BY <1>1, <1>6 DEF Start
  <1>7. ASSUME NEW t \in DOMAIN JobCollection, JobStores(t)
        PROVE  StoreInv'
    <2>1. \E space : index' =
             [index EXCEPT !["daemon"] = @ \cup {Chunk("daemon", JobCollection[t], space)}]
      BY <1>7 DEF JobStores
    <2>2. "daemon" \in Processes
      BY DEF Processes
    <2> QED
      BY <1>2, <2>1, <2>2
  <1>8. ASSUME NEW route \in DOMAIN QueryCollection, NEW m \in Models, Ask(route, m)
        PROVE  StoreInv'
    BY <1>1, <1>8 DEF Ask
  <1>9. ASSUME NEW name \in DOMAIN Tool, NEW n \in Tool[name].items, CallTool(name, n)
        PROVE  StoreInv'
    BY <1>1, <1>9 DEF CallTool
  <1>10. CASE UNCHANGED kvars
    BY <1>1, <1>10 DEF kvars
  <1> QED
    BY <1>3, <1>4, <1>5, <1>6, <1>7, <1>8, <1>9, <1>10 DEF Next

LEMMA NoHits ==
    ASSUME StoreInv, NEW p \in Processes, NEW coll
    PROVE  Hits(p, coll) = {}
  BY DEF StoreInv, Hits

-----------------------------------------------------------------------------
\* What Ask, Retrieve and Complete make of the query.
LEMMA FirstChain ==
    ASSUME NEW q, NEW fb, AtFirst(q, fb), q.retries = 0
    PROVE  Chain(q, fb)
  BY DEF Chain

LEMMA Asked ==
    ASSUME NEW route, NEW m, Ask(route, m)
    PROVE  /\ Fields(query)' /\ query'.at = "embedded" /\ query'.route = route
           /\ query'.hits = {} /\ query'.compared = {}
           /\ Chain(query', router["daemon"].fallbacks)
           /\ route # "search" =>
                 query'.vector \in RouterEmbed(router["daemon"].keys, router["daemon"].default,
                                               Or(files.prefs.embedding, DefaultEmbedding)) \ {Failed}
  <1> DEFINE prefs    == files.prefs
             r        == router["daemon"]
             named    == Or(m, prefs.model)
             provider == ProviderFor(r.keys, r.default, named)
             embedder == IF route = "search" THEN "" ELSE Or(prefs.embedding, DefaultEmbedding)
  <1>1. PICK vector \in RouterEmbed(r.keys, r.default, embedder) \ {Failed} :
           query' = [at |-> "embedded", route |-> route, provider |-> provider, asked |-> named,
                     model |-> named, fallback |-> FallbackModel(r.fallbacks, provider), vector |-> vector,
                     compared |-> {}, hits |-> {}, retries |-> 0, tried |-> {}]
    BY DEF Ask
  <1>2. PICK fallback : fallback = FallbackModel(r.fallbacks, provider)
    OBVIOUS
  <1> HIDE DEF named, provider
  <1>3. query' = [at |-> "embedded", route |-> route, provider |-> provider, asked |-> named,
                  model |-> named, fallback |-> fallback, vector |-> vector,
                  compared |-> {}, hits |-> {}, retries |-> 0, tried |-> {}]
    BY <1>1, <1>2
  <1>4. /\ Fields(query)' /\ query'.at = "embedded" /\ query'.route = route
        /\ query'.hits = {} /\ query'.compared = {} /\ query'.vector = vector
        /\ query'.retries = 0 /\ query'.tried = {} /\ query'.model = query'.asked
        /\ query'.fallback = fallback /\ query'.provider = provider
    BY <1>3 DEF Fields
  <1>5. Chain(query', router["daemon"].fallbacks)
    <2>1. PICK fb : fb = router["daemon"].fallbacks
      OBVIOUS
    <2>2. query'.fallback = FallbackModel(fb, query'.provider)
      BY <1>2, <1>4, <2>1
    <2>3. AtFirst(query', fb)
      BY <1>4, <2>2 DEF AtFirst
    <2>4. PICK q : q = query'
      OBVIOUS
    <2>5. AtFirst(q, fb) /\ q.retries = 0
      BY <1>4, <2>3, <2>4, Zenon
    <2>6. Chain(q, fb)
      BY <2>5, FirstChain, Zenon
    <2> QED
      BY <2>1, <2>4, <2>6, Zenon
  <1> QED
    BY <1>1, <1>4, <1>5

LEMMA Retrieved ==
    ASSUME Fields(query), Retrieve
    PROVE  /\ Fields(query)' /\ query.at = "embedded" /\ query'.at \in {"completing", "done"}
           /\ query'.route = query.route /\ query'.provider = query.provider
           /\ query'.vector = <<query.vector, turbo["daemon"]>>
           /\ query'.compared = {c.space : c \in index["daemon"]}
           /\ query'.hits = Hits("daemon", QueryCollection[query.route])
           /\ \A fb : Chain(query, fb) => Chain(query', fb)
  <1> DEFINE next == IF query.route = "search" THEN "done" ELSE "completing"
             vector == <<query.vector, turbo["daemon"]>>
             compared == {c.space : c \in index["daemon"]}
             hits == Hits("daemon", QueryCollection[query.route])
  <1>1. /\ query.at = "embedded"
        /\ query' = [query EXCEPT !.at = next, !.vector = vector, !.compared = compared, !.hits = hits]
    BY DEF Retrieve
  <1>2. next \in {"completing", "done"}
    OBVIOUS
  <1> HIDE DEF next, vector, compared, hits
  <1>3. query' = [at |-> next, route |-> query.route, provider |-> query.provider,
                  asked |-> query.asked, model |-> query.model, fallback |-> query.fallback,
                  vector |-> vector, compared |-> compared, hits |-> hits,
                  retries |-> query.retries, tried |-> query.tried]
    BY <1>1 DEF Fields
  <1>4. \A fb : Chain(query, fb) => Chain(query', fb)
    <2>1. /\ query'.provider = query.provider /\ query'.asked = query.asked
          /\ query'.model = query.model /\ query'.fallback = query.fallback
          /\ query'.retries = query.retries /\ query'.tried = query.tried
      BY <1>3
    <2> QED
      BY <2>1 DEF Chain, AtFirst, AtFallback, AtLastResort
  <1> QED
    BY <1>1, <1>2, <1>3, <1>4 DEF Fields, vector, compared, hits

\* Another model is tried: the fallback, or the last resort after it.
LEMMA Retried ==
    ASSUME NEW fb, Fields(query), Chain(query, fb), NEW m, TryNext(m),
           m \in Retry(query.provider, query.model, query.fallback)
    PROVE  /\ Fields(query)' /\ query'.at = query.at
           /\ query'.route = query.route /\ query'.provider = query.provider
           /\ query'.vector = query.vector /\ query'.compared = query.compared
           /\ query'.hits = query.hits
           /\ Chain(query', fb)
  <1> DEFINE retries == query.retries + 1
             tried == query.tried \cup {query.model}
  <1>1. query' = [query EXCEPT !.model = m, !.fallback = "", !.retries = retries, !.tried = tried]
    BY DEF TryNext
  <1> HIDE DEF retries, tried
  <1>2. query' = [at |-> query.at, route |-> query.route, provider |-> query.provider,
                  asked |-> query.asked, model |-> m, fallback |-> "",
                  vector |-> query.vector, compared |-> query.compared, hits |-> query.hits,
                  retries |-> retries, tried |-> tried]
    BY <1>1 DEF Fields
  <1>3. /\ query'.provider = query.provider /\ query'.asked = query.asked
        /\ query'.model = m /\ query'.fallback = ""
    BY <1>2
  <1>4. query'.tried = query.tried \cup {query.model}
    BY <1>2 DEF tried
  <1>5. query'.retries = query.retries + 1
    BY <1>2 DEF retries
  <1>6. m # query.model /\ query.provider \in {"gemini", "claude"}
    BY DEF Retry
  <1>7. query.provider = "gemini" => m = Or(query.fallback, LastResort)
    BY DEF Retry
  <1>8. query.provider = "claude" => m = query.fallback /\ m # ""
    BY DEF Retry
  <1>9. ASSUME query.retries = 0
        PROVE  Chain(query', fb)
    <2>1. AtFirst(query, fb)
      BY <1>9 DEF Chain
    <2>2. query.tried = {} /\ query.model = query.asked /\ query.fallback = FallbackModel(fb, query.provider)
      BY <2>1 DEF AtFirst
    <2>3. query.provider = "gemini" => m = Or(fb["gemini"], LastResort)
      <3>1. Or(Or(fb["gemini"], LastResort), LastResort) = Or(fb["gemini"], LastResort)
        BY DEF Or
      <3> QED
        BY <1>7, <2>2, <3>1 DEF FallbackModel, LastResort
    <2>4. query.tried \cup {query.model} = {query.asked}
      BY <2>2
    <2>5. AtFallback(query', fb)
      BY <1>3, <1>4, <1>6, <2>2, <2>3, <2>4 DEF AtFallback
    <2>6. query'.retries = 1
      BY <1>5, <1>9
    <2>7. PICK q : q = query'
      OBVIOUS
    <2>8. AtFallback(q, fb) /\ q.retries = 1
      BY <2>5, <2>6, <2>7
    <2>9. Chain(q, fb)
      BY <2>8 DEF Chain
    <2> QED
      BY <2>7, <2>9, Zenon
  <1>10. ASSUME query.retries = 1
         PROVE  Chain(query', fb)
    <2>1. AtFallback(query, fb)
      BY <1>10 DEF Chain
    <2>2. /\ query.fallback = "" /\ query.tried = {query.asked}
          /\ query.provider = "gemini" => query.model = Or(fb["gemini"], LastResort)
      BY <2>1 DEF AtFallback
    <2>3. query.provider = "gemini"
      BY <1>6, <1>8, <2>2
    <2>4. m = LastResort
      BY <1>7, <2>2, <2>3 DEF Or
    <2>5. fb["gemini"] \notin {"", LastResort} /\ query.model = fb["gemini"]
      BY <1>6, <2>2, <2>3, <2>4 DEF Or
    <2>6. query'.tried = {query'.asked, fb["gemini"]}
      BY <1>3, <1>4, <2>2, <2>5
    <2>7. AtLastResort(query', fb)
      BY <1>3, <2>3, <2>4, <2>5, <2>6 DEF AtLastResort
    <2>8. query'.retries = 2
      BY <1>5, <1>10
    <2>9. PICK q : q = query'
      OBVIOUS
    <2>10. AtLastResort(q, fb) /\ q.retries = 2
      BY <2>7, <2>8, <2>9
    <2>11. Chain(q, fb)
      BY <2>10 DEF Chain
    <2> QED
      BY <2>9, <2>11, Zenon
  <1>11. query.retries # 2
    <2> SUFFICES ASSUME query.retries = 2 PROVE FALSE
      OBVIOUS
    <2>1. query.provider = "gemini" /\ query.fallback = "" /\ query.model = LastResort
      BY DEF Chain, AtLastResort
    <2> QED
      BY <1>6, <1>7, <2>1 DEF Or
  <1> QED
    <2>1. query.retries \in {0, 1, 2}
      BY DEF Chain
    <2>2. Chain(query', fb)
      BY <1>9, <1>10, <1>11, <2>1
    <2> QED
      BY <1>2, <2>2 DEF Fields

LEMMA Completed ==
    ASSUME NEW fb, Fields(query), Chain(query, fb), Complete
    PROVE  /\ Fields(query)' /\ query.at = "completing" /\ query'.at \in {"completing", "done"}
           /\ query'.route = query.route /\ query'.provider = query.provider
           /\ query'.vector = query.vector /\ query'.compared = query.compared
           /\ query'.hits = query.hits
           /\ Chain(query', fb)
  <1>1. query.at = "completing"
    BY DEF Complete
  <1>2. ASSUME NEW m \in Retry(query.provider, query.model, query.fallback), TryNext(m)
        PROVE  /\ Fields(query)' /\ query'.at = query.at
               /\ query'.route = query.route /\ query'.provider = query.provider
               /\ query'.vector = query.vector /\ query'.compared = query.compared
               /\ query'.hits = query.hits
               /\ Chain(query', fb)
    BY <1>2, Retried
  <1>3. CASE query' = [query EXCEPT !.at = "done"]
    <2>1. query' = [at |-> "done", route |-> query.route, provider |-> query.provider,
                    asked |-> query.asked, model |-> query.model, fallback |-> query.fallback,
                    vector |-> query.vector, compared |-> query.compared, hits |-> query.hits,
                    retries |-> query.retries, tried |-> query.tried]
      BY <1>3 DEF Fields
    <2>2. /\ query'.provider = query.provider /\ query'.asked = query.asked
          /\ query'.model = query.model /\ query'.fallback = query.fallback
          /\ query'.retries = query.retries /\ query'.tried = query.tried
      BY <2>1
    <2>3. Chain(query', fb)
      BY <2>2 DEF Chain, AtFirst, AtFallback, AtLastResort
    <2> QED
      BY <1>1, <2>1, <2>3 DEF Fields
  <1>4. \/ query' = [query EXCEPT !.at = "done"]
        \/ \E m \in Retry(query.provider, query.model, query.fallback) : TryNext(m)
    BY DEF Complete
  <1> QED
    BY <1>1, <1>2, <1>3, <1>4

\* There is a query when Retrieve and Complete are enabled.
LEMMA AtWork ==
    ASSUME QueryInv, query.at \in {"embedded", "completing", "done"}
    PROVE  /\ Fields(query) /\ query \notin {NoQuery, Absent}
           /\ query.hits = {} /\ (query.at = "embedded" => query.compared = {})
           /\ Chain(query, router["daemon"].fallbacks)
  BY DEF QueryInv, NoQuery, Absent, Fields

LEMMA QueryInductive == StoreInv /\ RouterInv /\ QueryInv /\ [Next]_kvars => QueryInv'
  <1> SUFFICES ASSUME StoreInv, RouterInv, QueryInv, [Next]_kvars
               PROVE  QueryInv'
    OBVIOUS
  <1>1. ASSUME UNCHANGED <<query, router>>
        PROVE  QueryInv'
    <2>1. query' = query /\ router' = router
      BY <1>1
    <2> QED
      BY <2>1 DEF QueryInv, Fields
  <1>2. ASSUME Fields(query)', query'.at \in {"embedded", "completing", "done"}, query'.hits = {},
               query'.at = "embedded" => query'.compared = {},
               Chain(query', router["daemon"].fallbacks), router' = router
        PROVE  QueryInv'
    BY <1>2 DEF QueryInv
  <1>3. ASSUME NEW w \in DOMAIN Writers,
               \/ \E e \in Writers[w] : LoadSettings(w, e)
               \/ TruncateSettings(w) \/ WriteSettings(w) \/ CutOffSettings(w)
        PROVE  QueryInv'
    BY <1>1, <1>3 DEF LoadSettings, TruncateSettings, WriteSettings, CutOffSettings, processes
  <1>4. CASE Reload \/ OpenStore \/ StepTool \/ EndTool
    BY <1>1, <1>4 DEF Reload, OpenStore, StepTool, EndTool, processes
  <1>5. ASSUME NEW p \in Processes, Start(p)
        PROVE  QueryInv'
    <2>1. query' = query
      BY <1>5 DEF Start
    <2>2. CASE p = "daemon"
      BY <1>5, <2>1, <2>2 DEF Start, QueryInv
    <2>3. CASE p # "daemon"
      <3>1. router' = [router EXCEPT ![p] = RouterOf(files.config, files.prefs)]
        BY <1>5 DEF Start
      <3>2. router'["daemon"] = router["daemon"]
        BY <2>3, <3>1 DEF RouterInv, Processes
      <3> QED
        BY <2>1, <3>2 DEF QueryInv, Fields
    <2> QED
      BY <2>2, <2>3
  <1>6. ASSUME NEW t \in DOMAIN JobCollection, JobStores(t)
        PROVE  QueryInv'
    BY <1>1, <1>6 DEF JobStores, processes
  <1>7. ASSUME NEW route \in DOMAIN QueryCollection, NEW m \in Models, Ask(route, m)
        PROVE  QueryInv'
    <2>1. router' = router
      BY <1>7 DEF Ask, processes
    <2> QED
      BY <1>2, <1>7, <2>1, Asked
  <1>8. CASE Retrieve
    <2>1. Fields(query) /\ Chain(query, router["daemon"].fallbacks)
      BY <1>8, AtWork DEF Retrieve
    <2>2. Hits("daemon", QueryCollection[query.route]) = {}
      BY NoHits DEF Processes
    <2>3. router' = router
      BY <1>8 DEF Retrieve, processes
    <2>4. /\ Fields(query)' /\ query'.at \in {"completing", "done"} /\ query'.hits = {}
          /\ Chain(query', router["daemon"].fallbacks)
      BY <1>8, <2>1, <2>2, Retrieved
    <2> QED
      BY <1>2, <2>3, <2>4
  <1>9. CASE Complete
    <2>1. Fields(query) /\ query.hits = {} /\ Chain(query, router["daemon"].fallbacks)
      BY <1>9, AtWork DEF Complete
    <2>2. router' = router
      BY <1>9 DEF Complete, processes
    <2>3. PICK fb : fb = router["daemon"].fallbacks
      OBVIOUS
    <2>4. /\ Fields(query)' /\ query'.at \in {"completing", "done"} /\ query'.hits = {}
          /\ Chain(query', fb)
      BY <1>9, <2>1, <2>3, Completed
    <2> QED
      BY <1>2, <2>2, <2>3, <2>4
  <1>10. CASE Answer
    BY <1>10 DEF Answer, QueryInv
  <1>11. ASSUME NEW name \in DOMAIN Tool, NEW n \in Tool[name].items, CallTool(name, n)
         PROVE  QueryInv'
    BY <1>1, <1>11 DEF CallTool, processes
  <1>12. CASE UNCHANGED kvars
    BY <1>1, <1>12 DEF kvars, processes
  <1> QED
    BY <1>3, <1>4, <1>5, <1>6, <1>7, <1>8, <1>9, <1>10, <1>11, <1>12 DEF Next

-----------------------------------------------------------------------------
\* A step that leaves the settings of the daemon, its store and its query alone.
LEMMA UniformKept ==
    ASSUME UniformInv, uniform' => uniform /\ Uniform(router, files.prefs)',
           turbo'["daemon"] = turbo["daemon"], UNCHANGED <<index, query>>
    PROVE  UniformInv'
  BY DEF UniformInv

LEMMA SettingsAsTheyWere ==
    ASSUME UNCHANGED <<files, router, uniform>>, turbo'["daemon"] = turbo["daemon"], UniformInv
    PROVE  uniform' => uniform /\ Uniform(router, files.prefs)'
  BY DEF UniformInv, Uniform

LEMMA UniformInductive ==
    RouterInv /\ QueryInv /\ StoreInv /\ UniformInv /\ [Next]_kvars => UniformInv'
  <1> SUFFICES ASSUME RouterInv, QueryInv, StoreInv, UniformInv, [Next]_kvars
               PROVE  UniformInv'
    OBVIOUS
  <1>0. "daemon" \in Processes
    BY DEF Processes
  <1>1. ASSUME UNCHANGED <<files, router, uniform, turbo, index, query>>
        PROVE  UniformInv'
    BY <1>1, SettingsAsTheyWere, UniformKept
  <1>2. ASSUME StillUniform, turbo'["daemon"] = turbo["daemon"], UNCHANGED <<index, query>>
        PROVE  UniformInv'
    <2>1. Uniform(router', files'.prefs) => Uniform(router, files.prefs)'
      BY <1>2 DEF Uniform
    <2> QED
      BY <1>2, <2>1, UniformKept DEF StillUniform
  <1>3. ASSUME NEW w \in DOMAIN Writers, \E e \in Writers[w] : LoadSettings(w, e)
        PROVE  UniformInv'
    BY <1>1, <1>3 DEF LoadSettings, LoadFile
  <1>4. ASSUME NEW w \in DOMAIN Writers, TruncateSettings(w) \/ WriteSettings(w)
        PROVE  UniformInv'
    BY <1>2, <1>4 DEF TruncateSettings, WriteSettings
  <1>5. ASSUME NEW w \in DOMAIN Writers, CutOffSettings(w)
        PROVE  UniformInv'
    BY <1>1, <1>5 DEF CutOffSettings, CutOff, processes
  <1>6. CASE Reload \/ StepTool \/ EndTool
    <2>1. CASE Reload \/ EndTool
      BY <1>1, <2>1 DEF Reload, EndTool, svars, processes
    <2>2. CASE StepTool
      <3>1. UNCHANGED <<files, router, uniform, turbo, query>>
        BY <2>2 DEF StepTool, svars, processes
      <3>2. index'["daemon"] = index["daemon"]
        <4>1. \/ index' = index
              \/ \E c : index' = [index EXCEPT !["mcp"] = @ \cup {c}]
          BY <2>2 DEF StepTool, SkipStep, EmbedStep, QueryStep, PutStep
        <4>2. "daemon" # "mcp"
          OBVIOUS
        <4> QED
          BY <1>0, <4>1, <4>2 DEF StoreInv
      <3>3. uniform' => uniform /\ Uniform(router, files.prefs)'
        BY <3>1, SettingsAsTheyWere
      <3> QED
        BY <3>1, <3>2, <3>3 DEF UniformInv
    <2> QED
      BY <1>6, <2>1, <2>2
  <1>7. ASSUME NEW p \in Processes, Start(p)
        PROVE  UniformInv'
    <2>1. turbo'["daemon"] = turbo["daemon"]
      BY <1>0, <1>7 DEF Start, RouterInv
    <2> QED
      BY <1>2, <1>7, <2>1 DEF Start
  <1>8. CASE OpenStore
    <2>1. UNCHANGED <<files, router, uniform, index, query>> /\ query = NoQuery
      BY <1>8 DEF OpenStore, svars
    <2>2. turbo'["daemon"] = files.prefs.turbo
      BY <1>0, <1>8 DEF OpenStore, RouterInv
    <2>3. uniform => turbo'["daemon"] = turbo["daemon"]
      BY <2>2 DEF UniformInv, Uniform
    <2> QED
      BY <2>1, <2>3 DEF UniformInv, Uniform
  <1>9. ASSUME NEW t \in DOMAIN JobCollection, JobStores(t)
        PROVE  UniformInv'
    <2>1. UNCHANGED <<files, router, uniform, turbo, query>>
      BY <1>9 DEF JobStores, svars, processes
    <2>2. PICK space \in Embed(router["daemon"].default, "") \ {Failed} :
             index' = [index EXCEPT !["daemon"] = @ \cup {Chunk("daemon", JobCollection[t], space)}]
      BY <1>9 DEF JobStores
    <2>3. uniform' => uniform /\ Uniform(router, files.prefs)'
      BY <2>1, SettingsAsTheyWere
    <2>4. ASSUME uniform
          PROVE  space = Google
      <3>1. router["daemon"].default = "gemini"
        BY <2>4 DEF UniformInv, Uniform
      <3>2. Embed("gemini", "") \ {Failed} \subseteq {Google}
        BY GeminiEmbeds
      <3> QED
        BY <2>2, <3>1, <3>2
    <2>5. uniform => \A c \in index'["daemon"] : c.space = <<Google, turbo["daemon"]>>
      <3>1. index'["daemon"] = index["daemon"] \cup {Chunk("daemon", JobCollection[t], space)}
        BY <1>0, <2>2 DEF StoreInv
      <3>2. Chunk("daemon", JobCollection[t], space).space = <<space, turbo["daemon"]>>
        BY DEF Chunk
      <3> QED
        BY <2>4, <3>1, <3>2 DEF UniformInv
    <2> QED
      BY <2>1, <2>3, <2>5 DEF UniformInv
  <1>10. ASSUME NEW route \in DOMAIN QueryCollection, NEW m \in Models, Ask(route, m)
         PROVE  UniformInv'
    <2>1. UNCHANGED <<files, router, uniform, turbo, index>>
      BY <1>10 DEF Ask, svars, processes
    <2>2. /\ query'.at = "embedded" /\ query'.route = route
          /\ route # "search" =>
                query'.vector \in RouterEmbed(router["daemon"].keys, router["daemon"].default,
                                              Or(files.prefs.embedding, DefaultEmbedding)) \ {Failed}
      BY <1>10, Asked
    <2>3. ASSUME uniform, route # "search"
          PROVE  query'.vector = Google
      <3>1. /\ router["daemon"].default = "gemini"
            /\ FamilyFromModel(Or(files.prefs.embedding, DefaultEmbedding)) = "google"
        BY <2>3 DEF UniformInv, Uniform
      <3>2. "gemini" \in router["daemon"].keys
        BY <1>0, <3>1 DEF RouterInv
      <3> QED
        BY <2>2, <2>3, <3>1, <3>2, RouterEmbedsGoogle
    <2>4. uniform' => uniform /\ Uniform(router, files.prefs)'
      BY <2>1, SettingsAsTheyWere
    <2> QED
      BY <2>1, <2>2, <2>3, <2>4 DEF UniformInv
  <1>11. CASE Retrieve
    <2>1. UNCHANGED <<files, router, uniform, turbo, index>>
      BY <1>11 DEF Retrieve, svars, processes
    <2>2. Fields(query) /\ query \notin {NoQuery, Absent}
      BY <1>11, AtWork DEF Retrieve
    <2>3. /\ query.at = "embedded" /\ query'.at \in {"completing", "done"}
          /\ query'.route = query.route
          /\ query'.vector = <<query.vector, turbo["daemon"]>>
          /\ query'.compared = {c.space : c \in index["daemon"]}
      BY <1>11, <2>2, Retrieved
    <2>4. uniform' => uniform /\ Uniform(router, files.prefs)'
      BY <2>1, SettingsAsTheyWere
    <2>5. ASSUME uniform, query.route # "search"
          PROVE  /\ query'.vector = <<Google, turbo["daemon"]>>
                 /\ \A space \in query'.compared : space = <<Google, turbo["daemon"]>>
      BY <2>2, <2>3, <2>5 DEF UniformInv
    <2>6. uniform => \A c \in index["daemon"] : c.space = <<Google, turbo["daemon"]>>
      BY DEF UniformInv
    <2>7. query'.at # "embedded"
      BY <2>3
    <2> QED
      BY <2>1, <2>3, <2>4, <2>5, <2>6, <2>7 DEF UniformInv
  <1>12. CASE Complete
    <2>1. UNCHANGED <<files, router, uniform, turbo, index>>
      BY <1>12 DEF Complete, svars, processes
    <2>2. Fields(query) /\ query \notin {NoQuery, Absent}
      BY <1>12, AtWork DEF Complete
    <2>5. PICK fb : fb = router["daemon"].fallbacks
      OBVIOUS
    <2>6. Chain(query, fb)
      BY <1>12, <2>5, AtWork DEF Complete
    <2>3. /\ query.at = "completing" /\ query'.at \in {"completing", "done"}
          /\ query'.route = query.route /\ query'.vector = query.vector
          /\ query'.compared = query.compared
      BY <1>12, <2>2, <2>6, Completed
    <2>4. uniform' => uniform /\ Uniform(router, files.prefs)'
      BY <2>1, SettingsAsTheyWere
    <2> QED
      BY <2>1, <2>2, <2>3, <2>4 DEF UniformInv
  <1>13. CASE Answer
    <2>1. UNCHANGED <<files, router, uniform, turbo, index>> /\ query' = NoQuery
      BY <1>13 DEF Answer, svars, processes
    <2>2. uniform' => uniform /\ Uniform(router, files.prefs)'
      BY <2>1, SettingsAsTheyWere
    <2> QED
      BY <2>1, <2>2 DEF UniformInv
  <1>14. ASSUME NEW name \in DOMAIN Tool, NEW n \in Tool[name].items, CallTool(name, n)
         PROVE  UniformInv'
    BY <1>1, <1>14 DEF CallTool, svars, processes
  <1>15. CASE UNCHANGED kvars
    BY <1>1, <1>15 DEF kvars, svars, processes
  <1> QED
    BY <1>3, <1>4, <1>5, <1>6, <1>7, <1>8, <1>9, <1>10, <1>11, <1>12, <1>13, <1>14, <1>15 DEF Next

-----------------------------------------------------------------------------
\* The programs of the tools.
LEMMA Programs ==
    ASSUME NEW t \in DOMAIN Tool
    PROVE  Len(Tool[t].program) \in Nat \ {0} /\ Tool[t].items \subseteq Nat
  <1>1. DOMAIN Tool = {"embed", "search_database", "web_search_and_embed", "web_fetch_and_embed",
                       "plan_mode", "refactor_with_context", "analyze_code_patterns",
                       "bug_pattern_detection", "doc_coverage_analysis",
                       "knowledge_graph_analysis", "test_generation"}
    BY DEF Tool
  <1>2. /\ Tool["embed"].program = EmbedTool
        /\ Tool["search_database"].program = SearchDatabase
        /\ Tool["web_search_and_embed"].program = WebSearchAndEmbed
        /\ Tool["web_fetch_and_embed"].program = WebFetchAndEmbed
        /\ Tool["plan_mode"].program = PlanMode
        /\ Tool["refactor_with_context"].program = RefactorWithContext
        /\ Tool["analyze_code_patterns"].program = AnalyzeCodePatterns
        /\ Tool["bug_pattern_detection"].program = BugPatternDetection
        /\ Tool["doc_coverage_analysis"].program = DocCoverageAnalysis
        /\ Tool["knowledge_graph_analysis"].program = KnowledgeGraph
        /\ Tool["test_generation"].program = TestGeneration
    BY DEF Tool
  <1>3. /\ Tool["embed"].items = {1} /\ Tool["search_database"].items = {1}
        /\ Tool["web_search_and_embed"].items = {0, 1, 2}
        /\ Tool["web_fetch_and_embed"].items = {0, 1, 2}
        /\ Tool["plan_mode"].items = {1} /\ Tool["refactor_with_context"].items = {1}
        /\ Tool["analyze_code_patterns"].items = {1, 2}
        /\ Tool["bug_pattern_detection"].items = {1, 2}
        /\ Tool["doc_coverage_analysis"].items = {1}
        /\ Tool["knowledge_graph_analysis"].items = {1} /\ Tool["test_generation"].items = {1}
    BY DEF Tool
  <1>4. /\ Len(EmbedTool) = 2 /\ Len(SearchDatabase) = 2 /\ Len(WebSearchAndEmbed) = 2
        /\ Len(WebFetchAndEmbed) = 2 /\ Len(PlanMode) = 4 /\ Len(RefactorWithContext) = 4
        /\ Len(AnalyzeCodePatterns) = 3 /\ Len(BugPatternDetection) = 3
        /\ Len(DocCoverageAnalysis) = 2 /\ Len(KnowledgeGraph) = 2 /\ Len(TestGeneration) = 3
    BY DEF EmbedTool, SearchDatabase, WebSearchAndEmbed, WebFetchAndEmbed, PlanMode,
           RefactorWithContext, AnalyzeCodePatterns, BugPatternDetection, DocCoverageAnalysis,
           KnowledgeGraph, TestGeneration
  <1>5. Tool[t].items \subseteq Nat
    BY <1>1, <1>3
  <1>6. Len(Tool[t].program) \in {2, 3, 4}
    BY <1>1, <1>2, <1>4, Zenon
  <1> QED
    BY <1>5, <1>6

\* The exact ones make every call, put in last, and go to the next item or end when they
\* cannot embed.
LEMMA ExactPrograms ==
    ASSUME NEW t \in Exact, NEW i \in 1 .. Len(Tool[t].program), NEW c, c = Tool[t].program[i]
    PROVE  /\ c.when = "always" /\ c.call \in {"embed", "query", "put"}
           /\ c.call = "put" <=> i = Len(Tool[t].program)
           /\ c.call = "embed" => c.else \in {"error", "next"}
           /\ c.call = "query" => c.else = "on"
           /\ t = "embed" => c.else = "error"
  <1>1. CASE t = "embed"
    <2>1. Tool[t].program = EmbedTool
      BY <1>1 DEF Tool
    <2>2. i \in {1, 2} /\ Len(EmbedTool) = 2
      BY <2>1 DEF EmbedTool
    <2> QED
      BY <2>1, <2>2 DEF EmbedTool, Emb, Put
  <1>2. CASE t \in {"web_search_and_embed", "web_fetch_and_embed"}
    <2>1. Tool[t].program \in {WebSearchAndEmbed, WebFetchAndEmbed}
      BY <1>2 DEF Tool
    <2>2. WebFetchAndEmbed = WebSearchAndEmbed
      BY DEF WebFetchAndEmbed, WebSearchAndEmbed
    <2>3. i \in {1, 2} /\ Len(WebSearchAndEmbed) = 2
      BY <2>1, <2>2 DEF WebSearchAndEmbed
    <2>4. Tool[t].program = WebSearchAndEmbed /\ t # "embed"
      BY <1>2, <2>1, <2>2
    <2> QED
      BY <2>3, <2>4 DEF WebSearchAndEmbed, Emb, Put
  <1>3. CASE t \in {"doc_coverage_analysis", "knowledge_graph_analysis"}
    <2>1. Tool[t].program \in {DocCoverageAnalysis, KnowledgeGraph}
      BY <1>3 DEF Tool
    <2>2. KnowledgeGraph = DocCoverageAnalysis
      BY DEF KnowledgeGraph, DocCoverageAnalysis
    <2>3. i \in {1, 2} /\ Len(DocCoverageAnalysis) = 2
      BY <2>1, <2>2 DEF DocCoverageAnalysis
    <2>4. Tool[t].program = DocCoverageAnalysis /\ t # "embed"
      BY <1>3, <2>1, <2>2
    <2> QED
      BY <2>3, <2>4 DEF DocCoverageAnalysis, Emb, Put
  <1>4. CASE t = "test_generation"
    <2>1. Tool[t].program = TestGeneration
      BY <1>4 DEF Tool
    <2>2. i \in {1, 2, 3} /\ Len(TestGeneration) = 3
      BY <2>1 DEF TestGeneration
    <2> QED
      BY <1>4, <2>1, <2>2 DEF TestGeneration, Emb, Qry, Put
  <1> QED
    BY <1>1, <1>2, <1>3, <1>4 DEF Exact

\* The two with plans go on whatever fails; they store unless the embedding failed.
LEMMA PlansPrograms ==
    ASSUME NEW t \in Plans, NEW i \in 1 .. Len(Tool[t].program), NEW c, c = Tool[t].program[i]
    PROVE  /\ Len(Tool[t].program) = 4 /\ i \in {1, 2, 3, 4} /\ c.else = "on"
           /\ i = 1 => c.call = "embed" /\ c.when = "always"
           /\ i = 2 => c.call = "query"
           /\ i = 3 => c.call = "embed" /\ c.when = "always"
           /\ i = 4 => c.call = "put" /\ c.when = "embedded"
  <1>1. Tool[t].program \in {PlanMode, RefactorWithContext}
    BY DEF Tool, Plans
  <1>2. RefactorWithContext = PlanMode
    BY DEF RefactorWithContext, PlanMode
  <1>3. Len(PlanMode) = 4 /\ i \in {1, 2, 3, 4}
    BY <1>1, <1>2 DEF PlanMode
  <1> QED
    BY <1>1, <1>2, <1>3 DEF PlanMode, Emb, Qry, Put

LEMMA BugProgram ==
    ASSUME NEW i \in 1 .. Len(Tool["bug_pattern_detection"].program),
           NEW c, c = Tool["bug_pattern_detection"].program[i]
    PROVE  /\ Len(Tool["bug_pattern_detection"].program) = 3 /\ i \in {1, 2, 3}
           /\ i = 1 => c.call = "embed" /\ c.when = "always" /\ c.else = "next"
           /\ i = 2 => c.call = "query" /\ c.when = "always" /\ c.else = "on"
           /\ i = 3 => c.call = "put" /\ c.when = "foundOrEven" /\ c.else = "on"
  <1>1. Tool["bug_pattern_detection"].program = BugPatternDetection
    BY DEF Tool
  <1>2. Len(BugPatternDetection) = 3 /\ i \in {1, 2, 3}
    BY <1>1 DEF BugPatternDetection
  <1> QED
    BY <1>1, <1>2 DEF BugPatternDetection, Emb, Qry, Put

\* analyze_code_patterns puts in only what it has found.
LEMMA AnalyzeProgram ==
    ASSUME NEW i \in 1 .. Len(Tool["analyze_code_patterns"].program),
           Tool["analyze_code_patterns"].program[i].call = "put"
    PROVE  Tool["analyze_code_patterns"].program[i].when = "found"
  <1>1. Tool["analyze_code_patterns"].program = AnalyzeCodePatterns
    BY DEF Tool
  <1>2. /\ Len(AnalyzeCodePatterns) = 3 /\ AnalyzeCodePatterns[1].call = "embed"
        /\ AnalyzeCodePatterns[2].call = "query" /\ AnalyzeCodePatterns[3].when = "found"
    BY DEF AnalyzeCodePatterns, Emb, Qry, Put
  <1>3. i \in {1, 2, 3}
    BY <1>1, <1>2
  <1> QED
    BY <1>1, <1>2, <1>3

\* No vector is of the model without a name.
LEMMA SpacesHaveNames ==
    ASSUME NEW p, NEW space \in Embed(p, "")
    PROVE  space # ""
  <1>1. CASE CanServe(p, "")
    <2>1. DOMAIN Serves = {"gemini", "openai", "qwen", "voyage"}
      BY DEF Serves
    <2>2. /\ Serves["gemini"] = {"gemini-embedding-2-preview"}
          /\ Serves["openai"] = {"text-embedding-3-large"}
          /\ Serves["qwen"] = {"qwen3-embedding-8b"} /\ Serves["voyage"] = {"voyage-code-3"}
      BY DEF Serves
    <2>3. ASSUME NEW s \in DOMAIN Serves
          PROVE  "" \notin Serves[s]
      <3>1. CASE s = "gemini"
        BY <2>2, <3>1
      <3>2. CASE s = "openai"
        BY <2>2, <3>2
      <3>3. CASE s = "qwen"
        BY <2>2, <3>3
      <3>4. CASE s = "voyage"
        BY <2>2, <3>4
      <3> QED
        BY <2>1, <3>1, <3>2, <3>3, <3>4
    <2>4. EmbedModel(p, "") # ""
      BY <1>1, <2>3 DEF CanServe
    <2>5. space \in {Failed, EmbedModel(p, "")}
      BY <1>1 DEF Embed
    <2> QED
      BY <2>4, <2>5 DEF Failed
  <1>2. CASE ~CanServe(p, "")
    BY <1>2 DEF Embed, Failed
  <1> QED
    BY <1>1, <1>2

-----------------------------------------------------------------------------
\* How a run becomes another: it goes to its next step, or from the last one to the next
\* item, it drops the item, or it stops; n calls are put in and m have failed.
Same(r, g, n, m) ==
    /\ IsRun(g) /\ g.tool = r.tool /\ g.taken = r.taken /\ Nothing(g)
    /\ g.put = r.put + n /\ g.lost = r.lost + m

Drops(r, g, n, m) ==
    Same(r, g, n, m) /\ g.end = r.end /\ g.left = r.left - 1 /\ g.step = 1 /\ g.space = ""

Goes(r, g, space, n, m) ==
    /\ r.step = Len(Program(r)) => Drops(r, g, n, m)
    /\ r.step # Len(Program(r)) =>
          Same(r, g, n, m) /\ g.end = r.end /\ g.left = r.left /\ g.step = r.step + 1 /\ g.space = space

Stops(r, g, end, m) ==
    Same(r, g, 0, m) /\ g.end = end /\ g.left = r.left /\ g.step = r.step /\ g.space = r.space

\* What that does to the counts.
LEMMA DropsCounts ==
    ASSUME NEW r, NEW g, NEW n, NEW m, Drops(r, g, n, m)
    PROVE  /\ g.taken = r.taken /\ g.put = r.put + n /\ g.lost = r.lost + m
           /\ g.left = r.left - 1 /\ g.step = 1
  BY DEF Drops, Same

LEMMA GoesCounts ==
    ASSUME NEW r, NEW g, NEW space, NEW n, NEW m, Goes(r, g, space, n, m)
    PROVE  /\ g.taken = r.taken /\ g.put = r.put + n /\ g.lost = r.lost + m
           /\ r.step = Len(Program(r)) => g.left = r.left - 1 /\ g.step = 1
           /\ r.step # Len(Program(r)) => g.left = r.left /\ g.step = r.step + 1 /\ g.space = space
  <1>1. CASE r.step = Len(Program(r))
    BY <1>1, DropsCounts DEF Goes
  <1>2. CASE r.step # Len(Program(r))
    <2>1. /\ Same(r, g, n, m) /\ g.left = r.left /\ g.step = r.step + 1 /\ g.space = space
      BY <1>2 DEF Goes
    <2> QED
      BY <1>2, <2>1 DEF Same
  <1> QED
    BY <1>1, <1>2

\* A run with another space, other hits, other counts.
With(r, space, hits, put, lost) ==
    [tool |-> r.tool, taken |-> r.taken, left |-> r.left, step |-> r.step, space |-> space,
     hits |-> hits, put |-> put, lost |-> lost, end |-> r.end]

Moved(q, g) ==
    /\ IsRun(g) /\ g.tool = q.tool /\ g.taken = q.taken /\ g.left = q.left - 1 /\ g.step = 1
    /\ g.space = "" /\ Nothing(g) /\ g.put = q.put /\ g.lost = q.lost /\ g.end = q.end

LEMMA NextItemIs ==
    ASSUME NEW q, IsRun(q)
    PROVE  Moved(q, NextItem(q))
  <1>1. PICK left : left = q.left - 1
    OBVIOUS
  <1>2. PICK none : none = {}
    OBVIOUS
  <1>3. PICK h : h = [q EXCEPT !.left = left, !.step = 1, !.space = "", !.hits = none]
    OBVIOUS
  <1>4. /\ IsRun(h) /\ h.tool = q.tool /\ h.taken = q.taken /\ h.left = left /\ h.step = 1
        /\ h.space = "" /\ h.hits = none /\ h.put = q.put /\ h.lost = q.lost /\ h.end = q.end
    <2>1. h = [tool |-> q.tool, taken |-> q.taken, left |-> left, step |-> 1, space |-> "",
               hits |-> none, put |-> q.put, lost |-> q.lost, end |-> q.end]
      BY <1>3 DEF IsRun
    <2> QED
      BY <2>1 DEF IsRun
  <1>5. NextItem(q) = h
    BY <1>1, <1>2, <1>3, Zenon DEF NextItem
  <1>6. Moved(q, h)
    BY <1>1, <1>2, <1>4, Zenon DEF Moved, Nothing
  <1> QED
    BY <1>5, <1>6, Zenon

LEMMA NextOne ==
    ASSUME NEW r, Typed(r), NEW space, NEW n \in Nat, NEW m \in Nat, NEW hits,
           NEW q, q = With(r, space, hits, r.put + n, r.lost + m)
    PROVE  Drops(r, NextItem(q), n, m)
  <1>1. PICK g : g = NextItem(q)
    OBVIOUS
  <1>2. /\ IsRun(q) /\ q.tool = r.tool /\ q.taken = r.taken /\ q.left = r.left
        /\ q.put = r.put + n /\ q.lost = r.lost + m /\ q.end = r.end
    <2>1. PICK put : put = r.put + n
      OBVIOUS
    <2>2. PICK lost : lost = r.lost + m
      OBVIOUS
    <2>3. q = [tool |-> r.tool, taken |-> r.taken, left |-> r.left, step |-> r.step, space |-> space,
               hits |-> hits, put |-> put, lost |-> lost, end |-> r.end]
      BY <2>1, <2>2 DEF With
    <2>4. IsRun(q)
      BY <2>3 DEF IsRun
    <2> QED
      BY <2>1, <2>2, <2>3, <2>4
  <1>3. Moved(q, g)
    BY <1>1, <1>2, NextItemIs, Zenon
  <1>4. Drops(r, g, n, m)
    BY <1>2, <1>3, Zenon DEF Moved, Drops, Same
  <1> QED
    BY <1>1, <1>4, Zenon

LEMMA GoesOn ==
    ASSUME NEW r, Typed(r), NEW space, NEW n \in Nat, NEW m \in Nat,
           NEW q, q = With(r, space, {}, r.put + n, r.lost + m)
    PROVE  Goes(r, GoOn(q), space, n, m)
  <1>1. /\ q.tool = r.tool /\ q.step = r.step
        /\ Program(q) = Program(r)
    BY DEF With, Program
  <1>2. CASE r.step = Len(Program(r))
    <2>1. GoOn(q) = NextItem(q)
      BY <1>1, <1>2 DEF GoOn
    <2> QED
      BY <1>2, <2>1, NextOne DEF Goes
  <1>3. CASE r.step # Len(Program(r))
    <2>1. GoOn(q) = [q EXCEPT !.step = @ + 1]
      BY <1>1, <1>3 DEF GoOn
    <2>2. PICK put : put = r.put + n
      OBVIOUS
    <2>3. PICK lost : lost = r.lost + m
      OBVIOUS
    <2>4. PICK step : step = r.step + 1
      OBVIOUS
    <2>5. q = [tool |-> r.tool, taken |-> r.taken, left |-> r.left, step |-> r.step, space |-> space,
               hits |-> {}, put |-> put, lost |-> lost, end |-> r.end]
      BY <2>2, <2>3 DEF With
    <2>6. GoOn(q) = [q EXCEPT !.step = step]
      BY <2>1, <2>4, <1>1
    <2>7. GoOn(q) = [tool |-> r.tool, taken |-> r.taken, left |-> r.left, step |-> step,
                     space |-> space, hits |-> {}, put |-> put, lost |-> lost, end |-> r.end]
      BY <2>5, <2>6
    <2> QED
      BY <1>3, <2>2, <2>3, <2>4, <2>7 DEF Goes, Same, IsRun, Nothing
  <1> QED
    BY <1>2, <1>3

LEMMA Ended ==
    ASSUME NEW r, Typed(r), NEW end, NEW m \in Nat, NEW q, q = With(r, r.space, {}, r.put, r.lost + m),
           NEW g, g = [q EXCEPT !.end = end]
    PROVE  Stops(r, g, end, m)
  <1>1. PICK lost : lost = r.lost + m
    OBVIOUS
  <1>2. g = [tool |-> r.tool, taken |-> r.taken, left |-> r.left, step |-> r.step, space |-> r.space,
             hits |-> {}, put |-> r.put, lost |-> lost, end |-> end]
    BY <1>1 DEF With
  <1> QED
    BY <1>1, <1>2 DEF Stops, Same, IsRun, Typed, Nothing

\* What a call that fails leads to.
LEMMA Failing ==
    ASSUME NEW r, Typed(r), NEW c, c = Current(r), NEW g, g = Fails(r),
           NEW m \in Nat, m = IF c.call = "query" THEN 0 ELSE 1
    PROVE  /\ c.else = "error" => Stops(r, g, "error", m)
           /\ c.else = "next" => Drops(r, g, 0, m)
           /\ c.else \notin {"error", "next"} =>
                 Goes(r, g, IF c.call = "embed" THEN "" ELSE r.space, 0, m)
  <1>1. PICK lost : lost = r.lost + m
    OBVIOUS
  <1>2. (IF Current(r).call = "query" THEN r.lost ELSE r.lost + 1) = lost
    BY <1>1 DEF Typed
  <1>3. PICK q : q = With(r, r.space, {}, r.put, lost)
    OBVIOUS
  <1>4. [r EXCEPT !.lost = lost] = q
    <2>1. PICK p : p = [r EXCEPT !.lost = lost]
      OBVIOUS
    <2>2. p = With(r, r.space, r.hits, r.put, lost)
      BY <2>1 DEF With, Typed, IsRun, Nothing
    <2> QED
      BY <1>3, <2>1, <2>2 DEF Typed, Nothing
  <1>5. g = AfterFailure(q)
    BY <1>2, <1>4 DEF Fails
  <1>6. q.tool = r.tool /\ q.step = r.step /\ q.space = r.space /\ q.hits = {}
    BY <1>3 DEF With
  <1>7. Current(q) = c
    BY <1>6 DEF Current, Program
  <1>8. q = With(r, r.space, {}, r.put + 0, r.lost + m)
    BY <1>1, <1>3 DEF Typed
  <1>9. CASE c.else = "error"
    <2>1. g = [q EXCEPT !.end = "error"]
      BY <1>5, <1>7, <1>9 DEF AfterFailure
    <2> QED
      BY <1>1, <1>3, <1>9, <2>1, Ended
  <1>10. CASE c.else = "next"
    <2>1. g = NextItem(q)
      BY <1>5, <1>7, <1>10 DEF AfterFailure
    <2> QED
      BY <1>8, <1>10, <2>1, NextOne
  <1>11. CASE c.else \notin {"error", "next"}
    <2>1. PICK space : space = IF c.call = "embed" THEN "" ELSE r.space
      OBVIOUS
    <2>2. g = GoOn([q EXCEPT !.space = IF c.call = "embed" THEN "" ELSE @,
                             !.hits = IF c.call = "query" THEN {} ELSE @])
      BY <1>5, <1>7, <1>11 DEF AfterFailure
    <2>3. /\ (IF c.call = "embed" THEN "" ELSE q.space) = space
          /\ (IF c.call = "query" THEN {} ELSE q.hits) = {}
      BY <1>6, <2>1
    <2>4. g = GoOn([q EXCEPT !.space = space, !.hits = {}])
      BY <2>2, <2>3
    <2>5. PICK p : p = [q EXCEPT !.space = space, !.hits = {}]
      OBVIOUS
    <2>6. p = With(r, space, {}, r.put, lost)
      BY <1>3, <2>5 DEF With
    <2>7. p = With(r, space, {}, r.put + 0, r.lost + m)
      BY <1>1, <2>6 DEF Typed
    <2>8. Goes(r, GoOn(p), space, 0, m)
      BY <2>7, GoesOn
    <2> QED
      BY <1>11, <2>1, <2>4, <2>5, <2>8
  <1> QED
    BY <1>9, <1>10, <1>11

\* What a step of a tool may do.
Steps(r, g) ==
    LET c == Current(r)
        m == IF c.call = "query" THEN 0 ELSE 1
    IN  \/ ~Made(r) /\ Goes(r, g, r.space, 0, 0)
        \/ Made(r) /\ c.call = "embed" /\ \E space : space # "" /\ Goes(r, g, space, 0, 0)
        \/ Made(r) /\ c.call = "query" /\ Goes(r, g, r.space, 0, 0)
        \/ Made(r) /\ c.call = "put" /\ Goes(r, g, r.space, 1, 0)
        \/ Made(r) /\ c.else = "error" /\ Stops(r, g, "error", m)
        \/ Made(r) /\ c.else = "next" /\ Drops(r, g, 0, m)
        \/ Made(r) /\ c.else \notin {"error", "next"}
              /\ Goes(r, g, IF c.call = "embed" THEN "" ELSE r.space, 0, m)

LEMMA Stepping ==
    ASSUME StoreInv, Typed(run), StepTool, NEW g, g = run'
    PROVE  Steps(run, g)
  <1>0. PICK r : r = run
    OBVIOUS
  <1>1. Typed(r) /\ r = With(r, r.space, {}, r.put + 0, r.lost + 0)
    BY <1>0 DEF Typed, IsRun, Nothing, With
  <1>2. ASSUME Made(r), g = Fails(r)
        PROVE  Steps(r, g)
    <2>1. PICK m \in Nat : m = IF Current(r).call = "query" THEN 0 ELSE 1
      OBVIOUS
    <2>2. PICK c : c = Current(r)
      OBVIOUS
    <2>3. /\ c.else = "error" => Stops(r, g, "error", m)
          /\ c.else = "next" => Drops(r, g, 0, m)
          /\ c.else \notin {"error", "next"} =>
                Goes(r, g, IF c.call = "embed" THEN "" ELSE r.space, 0, m)
      BY <1>1, <1>2, <2>1, <2>2, Failing
    <2> QED
      BY <1>2, <2>1, <2>2, <2>3 DEF Steps
  <1>7. r.put + 0 = r.put /\ r.lost + 0 = r.lost
    <2>1. r.put \in Nat /\ r.lost \in Nat
      BY <1>1, Zenon DEF Typed
    <2> QED
      BY <2>1
  <1>3. CASE SkipStep
    <2>1. g = GoOn(r) /\ ~Made(r)
      BY <1>0, <1>3 DEF SkipStep
    <2>2. Goes(r, g, r.space, 0, 0)
      BY <1>1, <2>1, GoesOn
    <2> QED
      BY <1>0, <2>1, <2>2 DEF Steps
  <1>4. CASE EmbedStep
    <2>1. PICK space \in Embed(router["mcp"].default, "") :
             g = IF space = Failed THEN Fails(r) ELSE Embedded(r, space)
      BY <1>0, <1>4 DEF EmbedStep
    <2>2. space # ""
      BY <2>1, SpacesHaveNames
    <2>3. Made(r) /\ Current(r).call = "embed"
      BY <1>0, <1>4 DEF EmbedStep
    <2>4. CASE g = Embedded(r, space)
      <3>1. PICK q : q = [r EXCEPT !.space = space]
        OBVIOUS
      <3>2. q = With(r, space, {}, r.put + 0, r.lost + 0)
        <4>1. q = With(r, space, r.hits, r.put, r.lost)
          BY <1>1, <3>1 DEF With, Typed, IsRun
        <4>2. r.put + 0 = r.put /\ r.lost + 0 = r.lost
          BY <1>7
        <4>3. r.hits = {}
          BY <1>1, Zenon DEF Typed, Nothing
        <4> QED
          BY <4>1, <4>2, <4>3, Zenon
      <3>3. g = GoOn(q)
        BY <2>4, <3>1 DEF Embedded
      <3>4. Goes(r, g, space, 0, 0)
        BY <1>1, <3>2, <3>3, GoesOn
      <3> QED
        BY <1>0, <2>2, <2>3, <3>4 DEF Steps
    <2> QED
      BY <1>0, <1>2, <2>1, <2>3, <2>4
  <1>5. CASE QueryStep
    <2>1. g \in {Fails(r), Queried(r, {})} /\ Made(r) /\ Current(r).call = "query"
      BY <1>0, <1>5, NoHits DEF QueryStep, Processes
    <2>2. CASE g = Queried(r, {})
      <3>1. PICK q : q = [r EXCEPT !.hits = {}]
        OBVIOUS
      <3>2. q = With(r, r.space, {}, r.put + 0, r.lost + 0)
        BY <1>1, <3>1 DEF With, Typed, IsRun, Nothing
      <3>3. g = GoOn(q)
        BY <2>2, <3>1 DEF Queried
      <3>4. Goes(r, g, r.space, 0, 0)
        BY <1>1, <3>2, <3>3, GoesOn
      <3> QED
        BY <1>0, <2>1, <3>4 DEF Steps
    <2> QED
      BY <1>0, <1>2, <2>1, <2>2
  <1>6. CASE PutStep
    <2>1. g \in {Fails(r), PutIn(r)} /\ Made(r) /\ Current(r).call = "put"
      BY <1>0, <1>6 DEF PutStep
    <2>2. CASE g = PutIn(r)
      <3>1. PICK put : put = r.put + 1
        OBVIOUS
      <3>2. PICK q : q = [r EXCEPT !.put = put]
        OBVIOUS
      <3>3. q = With(r, r.space, {}, put, r.lost + 0)
        <4>1. q = With(r, r.space, r.hits, put, r.lost)
          BY <1>1, <3>2 DEF With, Typed, IsRun
        <4>2. r.put + 0 = r.put /\ r.lost + 0 = r.lost
          BY <1>7
        <4>3. r.hits = {}
          BY <1>1, Zenon DEF Typed, Nothing
        <4> QED
          BY <4>1, <4>2, <4>3, Zenon
      <3>4. g = GoOn(q)
        BY <2>2, <3>1, <3>2 DEF PutIn
      <3>5. Goes(r, g, r.space, 1, 0)
        BY <1>1, <3>1, <3>3, <3>4, GoesOn
      <3> QED
        BY <1>0, <2>1, <3>5 DEF Steps
    <2> QED
      BY <1>0, <1>2, <2>1, <2>2
  <1> QED
    BY <1>3, <1>4, <1>5, <1>6 DEF StepTool

\* Going on one step, but not from the last one, or back to the first.
LEMMA StaysWithin ==
    ASSUME NEW last \in Nat \ {0}, NEW i \in 1 .. last, NEW j, j \in {1, i, i + 1}, j \notin {1, i} => i # last
    PROVE  j \in 1 .. last
  OBVIOUS

LEMMA Goings ==
    ASSUME NEW r, Typed(r), AtCall(r), NEW g, Steps(r, g)
    PROVE  /\ Typed(g) /\ g.tool = r.tool /\ g.taken = r.taken /\ g.end \in {"no", "error"}
           /\ g.left \in {r.left, r.left - 1}
  <1>1. Len(Program(r)) \in Nat \ {0}
    BY Programs DEF Typed, Program
  <1>2. r.end = "no" /\ r.left \in Nat \ {0} /\ r.step \in 1 .. Len(Program(r))
    BY DEF Typed, AtCall
  <1>3. PICK n \in {0, 1}, m \in {0, 1} :
           \/ \E space : Goes(r, g, space, n, m)
           \/ Drops(r, g, n, m)
           \/ Stops(r, g, "error", m) /\ n = 0
    BY DEF Steps
  <1>4. Same(r, g, n, m)
    BY <1>3 DEF Goes, Drops, Stops
  <1>5. /\ g.left \in {r.left, r.left - 1} /\ g.end \in {"no", "error"}
        /\ g.step \in 1 .. Len(Program(r))
    <2>1. ASSUME NEW space, Goes(r, g, space, n, m)
          PROVE  /\ g.left \in {r.left, r.left - 1} /\ g.end = "no"
                 /\ g.step \in {1, r.step + 1} /\ (g.step # 1 => r.step # Len(Program(r)))
      <3>1. CASE r.step = Len(Program(r))
        BY <1>2, <2>1, <3>1 DEF Goes, Drops
      <3>2. CASE r.step # Len(Program(r))
        BY <1>2, <2>1, <3>2 DEF Goes
      <3> QED
        BY <3>1, <3>2
    <2>2. ASSUME Drops(r, g, n, m)
          PROVE  g.left \in {r.left, r.left - 1} /\ g.end = "no" /\ g.step = 1
      BY <1>2, <2>2 DEF Drops
    <2>3. ASSUME Stops(r, g, "error", m)
          PROVE  g.left \in {r.left, r.left - 1} /\ g.end = "error" /\ g.step = r.step
      BY <2>3 DEF Stops
    <2>4. /\ g.left \in {r.left, r.left - 1} /\ g.end \in {"no", "error"}
          /\ g.step \in {1, r.step, r.step + 1}
          /\ (g.step \notin {1, r.step} => r.step # Len(Program(r)))
      BY <1>3, <2>1, <2>2, <2>3
    <2>5. g.step \in 1 .. Len(Program(r))
      BY <1>1, <1>2, <2>4, StaysWithin, Zenon
    <2> QED
      BY <2>4, <2>5
  <1>6. Program(g) = Program(r)
    BY <1>4 DEF Same, Program
  <1>7. g.left \in Nat /\ g.put \in Nat /\ g.lost \in Nat
    <2>1. g.put = r.put + n /\ g.lost = r.lost + m /\ r.put \in Nat /\ r.lost \in Nat
      BY <1>4, Zenon DEF Same, Typed
    <2> QED
      BY <1>2, <1>5, <2>1
  <1>8. /\ IsRun(g) /\ Nothing(g) /\ g.tool = r.tool /\ g.taken = r.taken
        /\ r.tool \in DOMAIN Tool /\ r.taken \in Nat
    BY <1>4, Zenon DEF Same, Typed
  <1> QED
    BY <1>5, <1>6, <1>7, <1>8, Zenon DEF Typed

\* An exact tool that ends no item unaccounted for.
LEMMA ExactAccounts ==
    ASSUME NEW r, Running(r), AtCall(r), r.tool \in Exact, NEW g, Steps(r, g), g.end # "error"
    PROVE  g.put + g.lost = g.taken - g.left /\ (r.tool = "embed" => g.lost = 0)
  <1>1. PICK c : c = Current(r)
    OBVIOUS
  <1>2. /\ c.when = "always" /\ c.call \in {"embed", "query", "put"}
        /\ c.call = "put" <=> r.step = Len(Program(r))
        /\ c.call = "embed" => c.else \in {"error", "next"}
        /\ c.call = "query" => c.else = "on"
        /\ r.tool = "embed" => c.else = "error"
    <2>1. /\ r.step \in 1 .. Len(Tool[r.tool].program) /\ c = Tool[r.tool].program[r.step]
          /\ Len(Program(r)) = Len(Tool[r.tool].program)
      BY <1>1, Zenon DEF Current, Running, Typed, Program
    <2> QED
      BY <2>1, ExactPrograms
  <1>3. Made(r)
    BY <1>1, <1>2 DEF Made
  <1>4. /\ r.taken \in Nat /\ r.left \in Nat /\ r.put \in Nat /\ r.lost \in Nat
        /\ r.put + r.lost = r.taken - r.left
    BY DEF Running, Typed, AtCall, Accounted
  <1>11. r.tool = "embed" => r.lost = 0
    BY DEF Running, AtCall, Accounted
  <1>5. ASSUME NEW space, Goes(r, g, space, 0, 0), c.call # "put"
        PROVE  g.put + g.lost = g.taken - g.left /\ (r.tool = "embed" => g.lost = 0)
    <2>1. g.taken = r.taken /\ g.put = r.put + 0 /\ g.lost = r.lost + 0 /\ g.left = r.left
      BY <1>2, <1>5, GoesCounts
    <2>2. g.put + g.lost = g.taken - g.left
      BY <1>4, <2>1
    <2>3. g.lost = r.lost
      BY <1>4, <2>1
    <2> QED
      BY <1>11, <2>2, <2>3, Zenon
  <1>6. ASSUME NEW space, Goes(r, g, space, 1, 0), c.call = "put"
        PROVE  g.put + g.lost = g.taken - g.left /\ (r.tool = "embed" => g.lost = 0)
    <2>1. g.taken = r.taken /\ g.put = r.put + 1 /\ g.lost = r.lost + 0 /\ g.left = r.left - 1
      BY <1>2, <1>6, GoesCounts
    <2>2. g.put + g.lost = g.taken - g.left
      BY <1>4, <2>1
    <2>3. g.lost = r.lost
      BY <1>4, <2>1
    <2> QED
      BY <1>11, <2>2, <2>3, Zenon
  <1>7. ASSUME NEW space, Goes(r, g, space, 0, 1), c.call = "put", c.else # "error"
        PROVE  g.put + g.lost = g.taken - g.left /\ (r.tool = "embed" => g.lost = 0)
    <2>1. g.taken = r.taken /\ g.put = r.put + 0 /\ g.lost = r.lost + 1 /\ g.left = r.left - 1
      BY <1>2, <1>7, GoesCounts
    <2>2. r.tool # "embed"
      BY <1>2, <1>7
    <2>3. g.put + g.lost = g.taken - g.left
      BY <1>4, <2>1
    <2> QED
      BY <2>2, <2>3, Zenon
  <1>8. ASSUME Drops(r, g, 0, 1), c.else = "next"
        PROVE  g.put + g.lost = g.taken - g.left /\ (r.tool = "embed" => g.lost = 0)
    <2>1. g.taken = r.taken /\ g.put = r.put + 0 /\ g.lost = r.lost + 1 /\ g.left = r.left - 1
      BY <1>8, DropsCounts
    <2>2. r.tool # "embed"
      BY <1>2, <1>8
    <2>3. g.put + g.lost = g.taken - g.left
      BY <1>4, <2>1
    <2> QED
      BY <2>2, <2>3, Zenon
  <1>9. ~ \E m : Stops(r, g, "error", m)
    BY DEF Stops
  <1>10. \/ c.call # "put" /\ \E space : Goes(r, g, space, 0, 0)
         \/ c.call = "put" /\ \E space : Goes(r, g, space, 1, 0)
         \/ c.call = "put" /\ c.else # "error" /\ \E space : Goes(r, g, space, 0, 1)
         \/ c.else = "next" /\ Drops(r, g, 0, 1)
    BY <1>1, <1>2, <1>3, <1>9 DEF Steps
  <1> QED
    BY <1>5, <1>6, <1>7, <1>8, <1>10

LEMMA PlansAccounts ==
    ASSUME NEW r, Running(r), AtCall(r), r.tool \in Plans, NEW g, Steps(r, g)
    PROVE  /\ g.put + g.lost >= g.taken - g.left
           /\ g.step = 4 /\ g.space = "" => g.put + g.lost > g.taken - g.left
  <1>1. PICK c : c = Current(r)
    OBVIOUS
  <1>2. /\ Len(Program(r)) = 4 /\ r.step \in {1, 2, 3, 4} /\ c.else = "on"
        /\ r.step = 1 => c.call = "embed" /\ c.when = "always"
        /\ r.step = 2 => c.call = "query"
        /\ r.step = 3 => c.call = "embed" /\ c.when = "always"
        /\ r.step = 4 => c.call = "put" /\ c.when = "embedded"
    BY <1>1, PlansPrograms DEF Current, Running, Typed, Program
  <1>3. /\ r.taken \in Nat /\ r.left \in Nat /\ r.put \in Nat /\ r.lost \in Nat
        /\ r.put + r.lost >= r.taken - r.left
    BY DEF Running, Typed, Accounted
  <1>12. r.step = 4 /\ r.space = "" => r.put + r.lost > r.taken - r.left
    BY DEF Running, Accounted
  <1>13. Len(Program(r)) = 4 /\ r.step \in {1, 2, 3, 4}
    BY <1>2
  <1>4. /\ c.when = "always" => Made(r)
        /\ c.when = "embedded" => (Made(r) <=> r.space # "")
    BY <1>1 DEF Made
  <1>5. ASSUME NEW space, Goes(r, g, space, 0, 0),
               r.step = 3 => space # "", r.step = 4 => r.space = ""
        PROVE  /\ g.put + g.lost >= g.taken - g.left
               /\ g.step = 4 /\ g.space = "" => g.put + g.lost > g.taken - g.left
    <2>0. Goes(r, g, space, 0, 0)
      BY <1>5
    <2>1. g.taken = r.taken /\ g.put = r.put + 0 /\ g.lost = r.lost + 0
      BY <2>0, GoesCounts
    <2>2. CASE r.step = 4
      <3>1. g.left = r.left - 1 /\ g.step = 1
        BY <1>13, <2>0, <2>2, GoesCounts
      <3>2. r.put + r.lost > r.taken - r.left
        BY <1>5, <1>12, <2>2
      <3>3. g.put + g.lost >= g.taken - g.left /\ g.step # 4
        BY <1>3, <2>1, <3>1, <3>2
      <3> QED
        BY <3>3, Zenon
    <2>3. CASE r.step # 4
      <3>0. r.step # Len(Program(r))
        BY <1>13, <2>3
      <3>1. g.left = r.left /\ g.step = r.step + 1 /\ g.space = space
        BY <2>0, <3>0, GoesCounts
      <3>2. g.step = 4 => r.step = 3
        BY <1>13, <3>1
      <3>3. ~(g.step = 4 /\ g.space = "")
        BY <1>5, <3>1, <3>2, Zenon
      <3>4. g.put + g.lost >= g.taken - g.left
        BY <1>3, <2>1, <3>1
      <3> QED
        BY <3>3, <3>4, Zenon
    <2> QED
      BY <2>2, <2>3
  <1>6. ASSUME NEW space, Goes(r, g, space, 0, 1)
        PROVE  g.put + g.lost >= g.taken - g.left /\ (g.step = 4 => g.put + g.lost > g.taken - g.left)
    <2>1. g.taken = r.taken /\ g.put = r.put + 0 /\ g.lost = r.lost + 1
      BY <1>6, GoesCounts
    <2>2. g.left = r.left \/ (g.left = r.left - 1 /\ g.step = 1)
      BY <1>6, GoesCounts
    <2> QED
      BY <1>3, <2>1, <2>2
  <1>7. ASSUME NEW space, Goes(r, g, space, 1, 0)
        PROVE  g.put + g.lost >= g.taken - g.left /\ (g.step = 4 => g.put + g.lost > g.taken - g.left)
    <2>1. g.taken = r.taken /\ g.put = r.put + 1 /\ g.lost = r.lost + 0
      BY <1>7, GoesCounts
    <2>2. g.left = r.left \/ (g.left = r.left - 1 /\ g.step = 1)
      BY <1>7, GoesCounts
    <2> QED
      BY <1>3, <2>1, <2>2
  <1>8. CASE ~Made(r)
    <2>1. Goes(r, g, r.space, 0, 0) /\ r.step # 3
      BY <1>2, <1>4, <1>8 DEF Steps
    <2>2. r.step = 4 => r.space = ""
      BY <1>2, <1>4, <1>8
    <2>3. PICK space : Goes(r, g, space, 0, 0)
      BY <2>1, Zenon
    <2> QED
      BY <1>5, <2>1, <2>2, <2>3, Zenon
  <1>9. CASE Made(r) /\ c.call = "embed"
    <2>1. r.step # 4
      BY <1>2, <1>9
    <2>2. CASE \E s : s # "" /\ Goes(r, g, s, 0, 0)
      BY <1>5, <2>1, <2>2, Zenon
    <2>3. CASE Goes(r, g, "", 0, 1)
      BY <1>6, <2>3, Zenon
    <2>4. \/ \E s : s # "" /\ Goes(r, g, s, 0, 0)
          \/ Goes(r, g, "", 0, 1)
      BY <1>1, <1>2, <1>9 DEF Steps
    <2> QED
      BY <2>2, <2>3, <2>4
  <1>10. CASE Made(r) /\ c.call = "query"
    <2>1. Goes(r, g, r.space, 0, 0)
      BY <1>1, <1>2, <1>10 DEF Steps
    <2>2. r.step # 3 /\ r.step # 4
      BY <1>2, <1>10
    <2> QED
      BY <1>5, <2>1, <2>2, Zenon
  <1>11. CASE Made(r) /\ c.call = "put"
    <2>1. Goes(r, g, r.space, 1, 0) \/ Goes(r, g, r.space, 0, 1)
      BY <1>1, <1>2, <1>11 DEF Steps
    <2> QED
      BY <1>6, <1>7, <2>1, Zenon
  <1> QED
    BY <1>2, <1>8, <1>9, <1>10, <1>11

LEMMA BugAccounts ==
    ASSUME NEW r, Running(r), AtCall(r), r.tool = "bug_pattern_detection", NEW g, Steps(r, g)
    PROVE  2 * (g.put + g.lost) >= g.taken - g.left
  <1>1. PICK c : c = Current(r)
    OBVIOUS
  <1>2. /\ Len(Program(r)) = 3 /\ r.step \in {1, 2, 3}
        /\ r.step = 1 => c.call = "embed" /\ c.when = "always" /\ c.else = "next"
        /\ r.step = 2 => c.call = "query" /\ c.when = "always" /\ c.else = "on"
        /\ r.step = 3 => c.call = "put" /\ c.when = "foundOrEven" /\ c.else = "on"
    BY <1>1, BugProgram DEF Current, Running, Typed, Program
  <1>8. Len(Program(r)) = 3
    BY <1>2
  <1>3. /\ r.taken \in Nat /\ r.left \in Nat /\ r.put \in Nat /\ r.lost \in Nat
        /\ 2 * (r.put + r.lost) >= r.taken - r.left
    BY DEF Running, Typed, Accounted
  <1>4. /\ c.when = "always" => Made(r)
        /\ c.when = "foundOrEven" => (Made(r) <=> (r.taken - r.left) % 2 = 0)
    BY <1>1 DEF Made, Running, Typed, Nothing
  <1>5. CASE r.step = 3 /\ ~Made(r)
    <2>0. r.step = Len(Program(r))
      BY <1>5, <1>8
    <2>1. PICK space : Goes(r, g, space, 0, 0)
      BY <1>1, <1>5 DEF Steps
    <2>2. g.left = r.left - 1 /\ g.taken = r.taken /\ g.put = r.put + 0 /\ g.lost = r.lost + 0
      BY <2>1, <2>0, GoesCounts
    <2>3. (r.taken - r.left) % 2 # 0
      BY <1>2, <1>4, <1>5
    <2>4. 2 * (r.put + r.lost) # r.taken - r.left
      BY <1>3, <2>3
    <2> QED
      BY <1>3, <2>2, <2>4
  <1>6. CASE r.step = 3 /\ Made(r)
    <2>0. r.step = Len(Program(r))
      BY <1>6, <1>8
    <2>1. PICK space : Goes(r, g, space, 1, 0) \/ Goes(r, g, space, 0, 1)
      BY <1>1, <1>2, <1>6 DEF Steps
    <2>2. /\ g.left = r.left - 1 /\ g.taken = r.taken
          /\ \/ g.put = r.put + 1 /\ g.lost = r.lost + 0
             \/ g.put = r.put + 0 /\ g.lost = r.lost + 1
      BY <2>1, <2>0, GoesCounts
    <2> QED
      BY <1>3, <2>2
  <1>7. CASE r.step # 3
    <2>0. r.step # Len(Program(r))
      BY <1>7, <1>8
    <2>1. PICK space : Goes(r, g, space, 0, 0) \/ Drops(r, g, 0, 1)
      BY <1>1, <1>2, <1>4, <1>7 DEF Steps
    <2>2. \/ g.left = r.left /\ g.taken = r.taken /\ g.put = r.put + 0 /\ g.lost = r.lost + 0
          \/ g.left = r.left - 1 /\ g.taken = r.taken /\ g.put = r.put + 0 /\ g.lost = r.lost + 1
      BY <2>1, <2>0, GoesCounts, DropsCounts
    <2> QED
      BY <1>3, <2>2
  <1> QED
    BY <1>5, <1>6, <1>7

\* It puts in only what it finds, and finds nothing.
LEMMA AnalyzeAccounts ==
    ASSUME NEW r, Running(r), r.tool = "analyze_code_patterns", NEW g, Steps(r, g)
    PROVE  g.put = 0
  <1>1. ~(Made(r) /\ Current(r).call = "put")
    BY AnalyzeProgram DEF Made, Current, Program, Running, Typed, Nothing
  <1>2. PICK m \in {0, 1} :
           \/ \E space : Goes(r, g, space, 0, m)
           \/ Drops(r, g, 0, m) \/ Stops(r, g, "error", m)
    BY <1>1 DEF Steps
  <1>3. r.put = 0
    BY DEF Running, Accounted
  <1>4. g.put = r.put + 0
    BY <1>2, GoesCounts, DropsCounts DEF Stops, Same
  <1> QED
    BY <1>3, <1>4

LEMMA RunsOn ==
    ASSUME NEW r, Running(r), AtCall(r), NEW g, Steps(r, g)
    PROVE  Running(g)
  <1>1. Typed(g) /\ g.tool = r.tool /\ g.end \in {"no", "error"}
    BY Goings DEF Running
  <1>2. r.tool \in Exact /\ g.end # "error" =>
           g.put + g.lost = g.taken - g.left /\ (r.tool = "embed" => g.lost = 0)
    BY ExactAccounts
  <1>3. r.tool \in Plans =>
           /\ g.put + g.lost >= g.taken - g.left
           /\ g.step = 4 /\ g.space = "" => g.put + g.lost > g.taken - g.left
    BY PlansAccounts
  <1>4. r.tool = "bug_pattern_detection" => 2 * (g.put + g.lost) >= g.taken - g.left
    BY BugAccounts
  <1>5. r.tool = "analyze_code_patterns" => g.put = 0
    BY AnalyzeAccounts
  <1>6. "embed" \in Exact
    BY DEF Exact
  <1>7. Accounted(g)
    BY <1>1, <1>2, <1>3, <1>4, <1>5, <1>6, Zenon DEF Accounted
  <1> QED
    BY <1>1, <1>7 DEF Running

\* What CallTool begins.
Called(name, n) == {Begin(name, n), [Begin(name, n) EXCEPT !.end = "error"]}

LEMMA Started ==
    ASSUME NEW name \in DOMAIN Tool, NEW n \in Tool[name].items, NEW b \in Called(name, n)
    PROVE  Running(b)
  <1>1. PICK end : end \in {"no", "error"} /\
           b = [tool |-> name, taken |-> n, left |-> n, step |-> 1, space |-> "", hits |-> {},
                put |-> 0, lost |-> 0, end |-> end]
    BY DEF Called, Begin
  <1>2. n \in Nat /\ Len(Tool[name].program) \in Nat \ {0}
    BY Programs
  <1>3. IsRun(b)
    BY <1>1 DEF IsRun
  <1>4. /\ b.tool = name /\ b.taken = n /\ b.left = n /\ b.put = 0 /\ b.lost = 0 /\ b.end = end
        /\ b.step = 1 /\ b.hits = {}
    BY <1>1
  <1>5. 1 \in 1 .. Len(Program(b))
    BY <1>2, <1>4 DEF Program
  <1>6. Typed(b)
    BY <1>2, <1>3, <1>4, <1>5 DEF Typed, Nothing
  <1>7. Accounted(b)
    BY <1>2, <1>4 DEF Accounted
  <1> QED
    BY <1>1, <1>4, <1>6, <1>7 DEF Running

LEMMA RunInductive == StoreInv /\ RunInv /\ [Next]_kvars => RunInv'
  <1> SUFFICES ASSUME StoreInv, RunInv, [Next]_kvars
               PROVE  RunInv'
    OBVIOUS
  <1>1. ASSUME UNCHANGED run
        PROVE  RunInv'
    BY <1>1 DEF RunInv, Running, Typed, Nothing, Accounted, IsRun, Program
  <1>2. ASSUME NEW r, run' = r, Running(r)
        PROVE  RunInv'
    BY <1>2 DEF RunInv, Running, Typed, Nothing, Accounted, IsRun, Program
  <1>3. ASSUME NEW w \in DOMAIN Writers,
               \/ \E e \in Writers[w] : LoadSettings(w, e)
               \/ TruncateSettings(w) \/ WriteSettings(w) \/ CutOffSettings(w)
        PROVE  RunInv'
    BY <1>1, <1>3 DEF LoadSettings, TruncateSettings, WriteSettings, CutOffSettings
  <1>4. CASE Reload \/ OpenStore \/ Retrieve \/ Complete \/ Answer
    BY <1>1, <1>4 DEF Reload, OpenStore, Retrieve, Complete, Answer
  <1>5. ASSUME NEW p \in Processes, Start(p)
        PROVE  RunInv'
    BY <1>1, <1>5 DEF Start
  <1>6. ASSUME NEW t \in DOMAIN JobCollection, JobStores(t)
        PROVE  RunInv'
    BY <1>1, <1>6 DEF JobStores
  <1>7. ASSUME NEW route \in DOMAIN QueryCollection, NEW m \in Models, Ask(route, m)
        PROVE  RunInv'
    BY <1>1, <1>7 DEF Ask
  <1>8. ASSUME NEW name \in DOMAIN Tool, NEW n \in Tool[name].items, CallTool(name, n)
        PROVE  RunInv'
    <2>1. PICK b : b = run'
      OBVIOUS
    <2>2. b \in Called(name, n)
      BY <1>8, <2>1 DEF CallTool, Called
    <2>3. Running(b)
      BY <2>2, Started
    <2> QED
      BY <1>2, <2>1, <2>3
  <1>9. CASE StepTool
    <2>1. PICK g : g = run'
      OBVIOUS
    <2>2. Running(run) /\ AtCall(run)
      BY <1>9 DEF StepTool, RunInv
    <2>3. Steps(run, g)
      BY <1>9, <2>1, <2>2, Stepping DEF Running
    <2>4. Running(g)
      BY <2>2, <2>3, RunsOn
    <2> QED
      BY <1>2, <2>1, <2>4
  <1>10. CASE EndTool
    <2>1. Running(run)
      BY <1>10 DEF EndTool, RunInv
    <2>2. CASE AtEnd(run)
      <3>1. PICK r : r = run
        OBVIOUS
      <3>2. PICK g : g = run'
        OBVIOUS
      <3>3. g = [r EXCEPT !.end = "result"] /\ Typed(r) /\ Accounted(r) /\ r.left = 0 /\ r.end = "no"
        BY <1>10, <2>1, <2>2, <3>1, <3>2 DEF EndTool, Running, AtEnd
      <3>4. r = With(r, r.space, {}, r.put, r.lost + 0)
        BY <3>3 DEF With, Typed, IsRun, Nothing
      <3>5. Stops(r, g, "result", 0)
        BY <3>3, <3>4, Ended
      <3>6. Typed(g) /\ g.end = "result" /\ g.left = 0
        BY <3>3, <3>5 DEF Stops, Same, Typed, Program
      <3>7. Accounted(g)
        <4>1. /\ g.tool = r.tool /\ g.taken = r.taken /\ g.left = r.left /\ g.step = r.step
              /\ g.space = r.space /\ g.put = r.put + 0 /\ g.lost = r.lost + 0
          BY <3>5 DEF Stops, Same
        <4>2. g.put = r.put /\ g.lost = r.lost
          BY <3>3, <4>1 DEF Typed
        <4>3. r.end # "error"
          BY <3>3
        <4> QED
          BY <3>3, <4>1, <4>2, <4>3, Zenon DEF Accounted
      <3>8. Running(g)
        BY <3>6, <3>7 DEF Running
      <3> QED
        BY <1>2, <3>2, <3>8
    <2>3. CASE ~AtEnd(run)
      BY <1>10, <2>3 DEF EndTool, RunInv
    <2> QED
      BY <2>2, <2>3
  <1>11. CASE UNCHANGED kvars
    BY <1>1, <1>11 DEF kvars
  <1> QED
    BY <1>3, <1>4, <1>5, <1>6, <1>7, <1>8, <1>9, <1>10, <1>11 DEF Next

-----------------------------------------------------------------------------
IndInv == SettingsInv /\ StoreInv /\ RouterInv /\ QueryInv /\ UniformInv /\ RunInv

LEMMA Initial == Init => IndInv
  <1> SUFFICES ASSUME Init
               PROVE  IndInv
    OBVIOUS
  <1>1. PICK s \in Scenes : InScene(s)
    BY DEF Init
  <1>2. /\ files \in InitFiles /\ editing = [w \in DOMAIN Writers |-> Idle]
        /\ acked = files /\ disturbed = {} /\ query \in {NoQuery, Absent} /\ run \in {NoRun, Absent}
    BY <1>1 DEF InScene, SettingsInit
  <1>3. SettingsInv
    <2>1. DOMAIN files = Files
      BY <1>2, SettingsAssumption DEF Files
    <2>2. \A f : At(f) = {}
      BY <1>2 DEF At
    <2> QED
      BY <1>2, <2>1, <2>2 DEF SettingsInv
  <1>4. StoreInv
    BY DEF Init, StoreInv
  <1>5. RouterInv
    BY DefaultHasKey DEF Init, RouterInv
  <1>6. QueryInv /\ RunInv
    BY <1>2 DEF QueryInv, RunInv
  <1>7. UniformInv
    <2>1. index["daemon"] = {} /\ uniform = Uniform(router, files.prefs)
      BY DEF Init, Processes
    <2> QED
      BY <1>2, <2>1 DEF UniformInv
  <1> QED
    BY <1>3, <1>4, <1>5, <1>6, <1>7 DEF IndInv

\* The settings are edited one at a time or marked as disturbed, stores lead nowhere,
\* default providers have keys, and queries and tools are as they are for it.
THEOREM Invariants == Spec => []IndInv
  <1>1. IndInv /\ [Next]_kvars => IndInv'
    BY SettingsInductive, StoreInductive, RouterInductive, QueryInductive, UniformInductive,
       RunInductive DEF IndInv
  <1> QED
    BY Initial, <1>1, PTL DEF Spec

\* Whatever is stored in any order by any job and tool, no query of any transport and
\* no tool has a hit, and analyze_code_patterns never stores a snippet: UpsertChunk
\* writes no entry from number to chunk.
THEOREM NothingIsFound == Spec => []RetrievalFindsNothing
  <1>1. IndInv => RetrievalFindsNothing
    BY DEF IndInv, QueryInv, RunInv, Running, Typed, Nothing, Accounted, RetrievalFindsNothing
  <1> QED
    BY <1>1, Invariants, PTL

\* While everything is set for Gemini's embeddings and one encoding, a question's
\* vector and all it is compared with come from one model, for any settings files,
\* edits and restarts.
THEOREM OneSpace == Spec => []ComparedInOneSpace
  <1>1. IndInv => ComparedInOneSpace
    <2> SUFFICES ASSUME IndInv, uniform, query \notin {NoQuery, Absent}, query.route # "search",
                        NEW space \in query.compared
                 PROVE  space = query.vector
      BY DEF ComparedInOneSpace
    <2>1. QueryInv /\ UniformInv
      BY DEF IndInv
    <2>2. query.at # "embedded"
      BY <2>1 DEF QueryInv
    <2>3. /\ query.vector = <<Google, turbo["daemon"]>>
          /\ \A s \in query.compared : s = <<Google, turbo["daemon"]>>
      BY <2>1, <2>2 DEF UniformInv
    <2> QED
      BY <2>3
  <1> QED
    BY <1>1, Invariants, PTL

\* The fields that acknowledged edits have set are in the file, for any number of
\* writers, unless two edited it at once or one was cut off.
THEOREM EditsAreKept == Spec => []SettingsKept
  <1>1. IndInv => SettingsKept
    BY DEF IndInv, SettingsInv, SettingsKept
  <1> QED
    BY <1>1, Invariants, PTL

\* Whatever the configuration names and however many requests fail, a question is asked
\* three times at most, and again of a model that has failed only as the last resort.
THEOREM FewRetries == Spec => []RetriesEnd
  <1>1. IndInv => RetriesEnd
    <2> SUFFICES ASSUME QueryInv, query \notin {NoQuery, Absent}
                 PROVE  /\ query.retries <= MayRetry(query.provider)
                        /\ query.retries = 2 => router["daemon"].fallbacks["gemini"] \notin {"", LastResort}
                        /\ query.model \in query.tried => query.retries = 2 /\ query.asked = LastResort
      BY DEF IndInv, RetriesEnd
    <2>1. PICK fb : fb = router["daemon"].fallbacks
      OBVIOUS
    <2>2. Chain(query, fb)
      BY <2>1 DEF QueryInv
    <2>3. CASE query.retries = 0
      <3>1. query.tried = {}
        BY <2>2, <2>3 DEF Chain, AtFirst
      <3>2. MayRetry(query.provider) \in {0, 1, 2}
        BY DEF MayRetry
      <3>3. query.model \notin query.tried
        BY <3>1
      <3> QED
        BY <2>3, <3>2, <3>3
    <2>4. CASE query.retries = 1
      <3>1. AtFallback(query, fb)
        BY <2>2, <2>4 DEF Chain
      <3>2. query.model \notin query.tried
        BY <3>1 DEF AtFallback
      <3>3. MayRetry(query.provider) \in {1, 2}
        BY <3>1 DEF AtFallback, MayRetry
      <3> QED
        BY <2>4, <3>2, <3>3
    <2>5. CASE query.retries = 2
      <3>1. AtLastResort(query, fb)
        BY <2>2, <2>5 DEF Chain
      <3>2. /\ router["daemon"].fallbacks["gemini"] \notin {"", LastResort}
            /\ query.model \in query.tried => query.asked = LastResort
        BY <2>1, <3>1 DEF AtLastResort
      <3>3. MayRetry(query.provider) = 2
        BY <3>1 DEF AtLastResort, MayRetry
      <3>4. query.retries <= MayRetry(query.provider)
        BY <2>5, <3>3
      <3> QED
        BY <2>5, <3>2, <3>4, Zenon
    <2> QED
      BY <2>2, <2>3, <2>4, <2>5 DEF Chain
  <1> QED
    BY <1>1, Invariants, PTL

\* For any number of items, and whichever calls fail, a tool that ends without an error
\* has for each one it should store a stored chunk or a failed call to show.
THEOREM ClaimsHold == Spec => []ClaimsAreStored
  <1>1. IndInv => ClaimsAreStored
    <2> SUFFICES ASSUME RunInv, run \notin {NoRun, Absent}, run.end = "result"
                 PROVE  /\ run.put + run.lost >= Due(run.tool, run.taken)
                        /\ Tool[run.tool].says = "count" => run.put + run.lost = run.taken
                        /\ run.tool = "embed" => run.put = run.taken
      BY DEF IndInv, ClaimsAreStored
    <2>1. /\ run.tool \in DOMAIN Tool /\ run.left = 0
          /\ run.taken \in Nat /\ run.put \in Nat /\ run.lost \in Nat /\ Accounted(run)
      BY DEF RunInv, Running, Typed
    <2>2. CASE run.tool \in Exact
      <3>1. /\ run.put + run.lost = run.taken - run.left
            /\ run.tool = "embed" => run.lost = 0
        BY <2>1, <2>2 DEF Accounted
      <3>2. run.put + run.lost = run.taken /\ (run.tool = "embed" => run.put = run.taken)
        BY <2>1, <3>1
      <3>3. Due(run.tool, run.taken) = run.taken
        BY <2>2 DEF Due, Exact
      <3> QED
        BY <2>1, <3>2, <3>3
    <2>3. CASE run.tool \in Plans
      <3>1. Tool["plan_mode"].says = "true" /\ Tool["refactor_with_context"].says = "true"
        BY DEF Tool
      <3>2. run.put + run.lost >= run.taken - run.left
        BY <2>1, <2>3 DEF Accounted
      <3>3. run.put + run.lost >= run.taken
        BY <2>1, <3>2
      <3>4. Due(run.tool, run.taken) = run.taken /\ run.tool # "embed" /\ Tool[run.tool].says = "true"
        BY <2>3, <3>1 DEF Due, Plans
      <3> QED
        BY <3>3, <3>4
    <2>4. CASE run.tool = "bug_pattern_detection"
      <3>1. Tool["bug_pattern_detection"].says = "true"
        BY DEF Tool
      <3>4. 2 * (run.put + run.lost) >= run.taken - run.left
        BY <2>1, <2>4 DEF Accounted
      <3>2. 2 * (run.put + run.lost) >= run.taken
        BY <2>1, <3>4
      <3>3. run.put + run.lost >= (run.taken + 1) \div 2
        BY <2>1, <3>2
      <3> QED
        BY <2>4, <3>1, <3>3 DEF Due
    <2>5. CASE run.tool \in {"search_database", "analyze_code_patterns"}
      <3>1. Tool["search_database"].says = "nothing" /\ Tool["analyze_code_patterns"].says = "true"
        BY DEF Tool
      <3> QED
        BY <2>1, <2>5, <3>1 DEF Due
    <2> QED
      <3>1. DOMAIN Tool = {"embed", "search_database", "web_search_and_embed", "web_fetch_and_embed",
                           "plan_mode", "refactor_with_context", "analyze_code_patterns",
                           "bug_pattern_detection", "doc_coverage_analysis",
                           "knowledge_graph_analysis", "test_generation"}
        BY DEF Tool
      <3> QED
        BY <2>1, <2>2, <2>3, <2>4, <2>5, <3>1 DEF Exact, Plans
  <1> QED
    BY <1>1, Invariants, PTL
=============================================================================
