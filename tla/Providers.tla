------------------------------ MODULE Providers ------------------------------
(***************************************************************************)
(* The providers of internal/llm and how a model name finds one: the       *)
(* families of models.go, SetupRouter, Router.Embed, the Embed methods of  *)
(* the providers and the retries of Complete.  A name stands for itself;   *)
(* each family keeps the members that the code treats apart.  Whether a    *)
(* call succeeds is decided by the services, outside.                      *)
(***************************************************************************)
EXTENDS Sequences, FiniteSets, TLC, SequencesExt

\* SetupRouter registers those that have a key, in this order.
Registered == <<"gemini", "claude", "openai", "qwen", "voyage", "openrouter", "anannas">>
Gateways   == {"openrouter", "anannas"}

\* Those of the tray's menu, in its order; the last four exist only there.
TrayProviders == <<"gemini", "claude", "openai", "deepseek", "mistral", "grok", "zhipu">>

FirstWithKey(order, keys) ==
    LET found == {i \in DOMAIN order : order[i] \in keys}
    IN  IF found = {} THEN "none" ELSE order[Min(found)]

\* The active gateway if it has a key, else the preferred provider if it is
\* registered, else the first.
SetupRouter(keys, gateway, preferred) ==
    LET wanted == IF gateway \in Gateways \cap keys THEN gateway ELSE preferred
    IN  IF wanted \in keys \cap Range(Registered) THEN wanted ELSE FirstWithKey(Registered, keys)

-----------------------------------------------------------------------------
\* Names of models.

Lookup(table, name, otherwise) == IF name \in DOMAIN table THEN table[name] ELSE otherwise

\* FamilyFromModel looks for a part of the name.  OpenAI's own embedding models
\* have none of the parts it knows.
Family ==
    [google    |-> {"gemini", "gemini-3-flash", "gemini-3-flash-preview", "gemini-3.1-pro",
                   "gemini-embedding-2-preview"},
     anthropic |-> {"claude-4.6-sonnet"},
     openai    |-> {"gpt-5.4-mini"},
     qwen      |-> {"qwen3-embedding-8b"},
     voyage    |-> {"voyage-3"}]

FamilyFromModel(model) ==
    LET fs == {f \in DOMAIN Family : model \in Family[f]}
    IN  IF fs = {} THEN "unknown" ELSE CHOOSE f \in fs : TRUE

\* FamilyEmbeddingRegistry
FamilyEmbedding ==
    [google |-> "gemini-embedding-2-preview", openai |-> "text-embedding-3-large",
     qwen   |-> "qwen3-embedding-8b"]

\* The provider's family stands in for one that the name does not tell.
ResolveEmbeddingModel(family, model) ==
    LET told == FamilyFromModel(model)
    IN  Lookup(FamilyEmbedding, IF told = "unknown" THEN family ELSE told, "")

EmbeddingModelForGateway(model) ==
    IF model = "" THEN FamilyEmbedding["openai"] ELSE Lookup(FamilyEmbedding, FamilyFromModel(model), "")

-----------------------------------------------------------------------------
\* Embedding.

Or(model, otherwise) == IF model = "" THEN otherwise ELSE model

\* The embedding model that a provider's Embed asks its service for.
EmbedModel(provider, model) ==
    CASE provider = "gemini" -> Or(ResolveEmbeddingModel("google", model), "gemini-embedding-2-preview")
      [] provider \in {"openai", "qwen"} -> Or(ResolveEmbeddingModel(provider, model), "text-embedding-3-large")
      [] provider = "voyage" -> "voyage-code-3"
      [] provider \in Gateways -> EmbeddingModelForGateway(model)
      [] OTHER -> ""

\* What each service has; a gateway may have any of them.
Serves ==
    [gemini |-> {"gemini-embedding-2-preview"}, openai |-> {"text-embedding-3-large"},
     qwen |-> {"qwen3-embedding-8b"}, voyage |-> {"voyage-code-3"}]

CanServe(provider, model) ==
    \/ provider \in DOMAIN Serves /\ EmbedModel(provider, model) \in Serves[provider]
    \/ provider \in Gateways /\ EmbedModel(provider, model) # ""

\* The space of a vector is the model that made it.  A call may always fail.
Failed == "failed"
Embed(provider, model) ==
    {Failed} \cup (IF CanServe(provider, model) THEN {EmbedModel(provider, model)} ELSE {})

\* The families whose own provider must embed.
NativeProvider == [google |-> "gemini", openai |-> "openai", qwen |-> "qwen", voyage |-> "voyage"]

HasNative(keys, model) ==
    FamilyFromModel(model) \in DOMAIN NativeProvider /\ NativeProvider[FamilyFromModel(model)] \in keys

\* The default provider unless it is a gateway, then gemini, openai and voyage.
Others(keys, default, model) == ({default} \ (Gateways \cup {"none"})) \cup ({"gemini", "openai", "voyage"} \cap keys)

\* Mutant: when the native provider fails the others are tried.
BugRouterEmbed(keys, default, model) ==
    {Failed} \cup UNION {Embed(p, model) : p \in Others(keys, default, model) \cup
                          (IF HasNative(keys, model) THEN {NativeProvider[FamilyFromModel(model)]} ELSE {})}

\* Router.Embed: what a query's embedding may be.  Each of the others is reached
\* when those before it have failed.
RouterEmbed(keys, default, model) ==
    IF HasNative(keys, model) THEN Embed(NativeProvider[FamilyFromModel(model)], model)
    ELSE {Failed} \cup UNION {Embed(p, model) : p \in Others(keys, default, model)}

-----------------------------------------------------------------------------
\* Completion.

\* The models that complete when the one asked for fails: those that the configuration
\* names, or
FallbackModel(fallbacks, provider) ==
    CASE provider = "gemini" -> Or(fallbacks["gemini"], "gemini-3-flash-preview")
      [] provider = "claude" -> Or(fallbacks["claude"], "claude-4.6-sonnet")
      [] provider = "openai" -> Or(fallbacks["openai"], "gpt-5.4-mini")
      [] provider = "qwen"   -> Or(fallbacks["qwen"], "qwen3.6-turbo")
      [] OTHER -> ""

\* Gemini's provider always knows one more.
LastResort == "gemini-3-flash-preview"

\* StreamQuery: the provider of a model told by its prefix, if it has a key.
ProviderFor(keys, default, model) ==
    LET told == CASE FamilyFromModel(model) = "anthropic" -> "claude"
                  [] FamilyFromModel(model) = "google" -> "gemini"
                  [] OTHER -> "none"
    IN  IF told \in keys THEN told ELSE default

\* Mutant: the model that has failed is not compared with its fallback.
BugRetry(provider, model, fallback) ==
    CASE provider = "gemini" -> {Or(fallback, LastResort)}
      [] provider = "claude" -> {fallback} \ {""}
      [] OTHER -> {}

\* What Complete asks for when a model has failed, if anything: one more model, unless
\* it has the name of the one that failed.
Retry(provider, model, fallback) ==
    CASE provider = "gemini" -> {Or(fallback, LastResort)} \ {model}
      [] provider = "claude" -> {fallback} \ {"", model}
      [] OTHER -> {}
=============================================================================
