---------------------------- MODULE MCKnowledge ----------------------------
EXTENDS KnowledgeProps

NoFallbacks == [p \in HasFallback |-> ""]
ConfigOf(keys, gateway) == [keys |-> keys, gateway |-> gateway, fallbacks |-> NoFallbacks]
Falling(config, p, model) == [config EXCEPT !.fallbacks[p] = model]
PrefsOf(provider, embedding) ==
    [provider |-> provider, model |-> "", embedding |-> embedding, turbo |-> FALSE, language |-> "en"]

\* One provider, two with a fallback of their own, a gateway with and without a native provider, one of the
\* tray only, and none.
SomeFiles ==
    {[config |-> ConfigOf({"gemini", "voyage"}, ""), prefs |-> PrefsOf("", "")],
     [config |-> Falling(ConfigOf({"gemini", "openai"}, ""), "gemini", "gemini-3.1-pro"), prefs |-> PrefsOf("gemini", "")],
     [config |-> ConfigOf({"gemini", "claude"}, ""), prefs |-> PrefsOf("claude", "")],
     [config |-> ConfigOf({"openrouter", "gemini"}, "openrouter"), prefs |-> PrefsOf("", "")],
     [config |-> ConfigOf({"voyage", "deepseek"}, ""), prefs |-> PrefsOf("", "voyage-3")]}

SomeWriters ==
    [cli   |-> {SetKey("openai"), ClearKey("gemini"), SaveGateway("openrouter")},
     tray  |-> {SaveGateway(""), ClickProvider("openai"), ClickEmbedding("text-embedding-3-large"),
                ClickModel("gemini-3-flash"), ClickLanguage("pt"), ClickTurboQuant},
     embed |-> {EmbedTurboQuant}]

\* Edits by themselves, edits and a restart around jobs and queries, tools.
SomeScenes ==
    {[processes |-> {}, edits |-> 3, starts |-> 1],
     [processes |-> {"daemon"}, edits |-> 1, starts |-> 1],
     [processes |-> {"mcp"}, edits |-> 0, starts |-> 0]}

SomeModels == {"", "claude-4.6-sonnet", "gemini-3-flash-preview"}
=============================================================================
