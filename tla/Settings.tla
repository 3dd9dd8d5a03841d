------------------------------ MODULE Settings -------------------------------
(***************************************************************************)
(* The two files of settings, config.yaml and preferences.json             *)
(* (internal/storage/infra), and those who edit them, each in a process or *)
(* a goroutine of its own: `vectora config`, the tray's menus, `vectora    *)
(* embed --turboquant`.  An edit loads the whole file, changes what it is  *)
(* about and writes the whole file: os.WriteFile empties it first.  There  *)
(* is no lock between processes, nor over load and save together.          *)
(***************************************************************************)
EXTENDS Naturals, FiniteSets, TLC

CONSTANTS
    Writers,    \* who edits: a function to what each may do, a set of Edits
    InitFiles   \* what the files may hold at first

\* The fields of the two files that anything depends on.
HasFallback == {"gemini", "claude", "openai", "qwen"}
Config == [keys : SUBSET STRING, gateway : STRING, fallbacks : [HasFallback -> STRING]]
Prefs  == [provider : STRING, model : STRING, embedding : STRING, turbo : BOOLEAN, language : STRING]

Edits ==
    [file : {"config"}, by : {"key", "noKey", "gateway"}, value : STRING] \cup
    [file : {"prefs"}, by : {"provider", "model", "embedding", "language", "toggle", "turbo"},
     value : STRING]

ASSUME SettingsAssumption ==
    /\ InitFiles \subseteq [config : Config, prefs : Prefs]
    /\ \A w \in DOMAIN Writers : Writers[w] \subseteq Edits

VARIABLES
    files,      \* what the two files hold: [config, prefs], each a function of fields
    editing,    \* the edit each writer is at, how far, and the copy it has loaded
    edits,      \* how many are still to come
    acked,      \* history: the fields as the edits that were acknowledged leave them
    disturbed   \* history: files edited by two at once, or whose writing was cut off

svars == <<files, editing, edits, acked, disturbed>>

\* What is read from a file that is missing or empty: no key, the first language.
Blank ==
    [config |-> [keys |-> {}, gateway |-> "", fallbacks |-> [p \in HasFallback |-> ""]],
     prefs  |-> [provider |-> "", model |-> "", embedding |-> "", turbo |-> FALSE, language |-> "en"]]

Idle == [at |-> "idle"]

SettingsInit(n) ==
    /\ files \in InitFiles
    /\ editing = [w \in DOMAIN Writers |-> Idle]
    /\ edits = n
    /\ acked = files
    /\ disturbed = {}

-----------------------------------------------------------------------------
\* The edits.  Those of the configuration:

SetKey(p)      == [file |-> "config", by |-> "key", value |-> p]
ClearKey(p)    == [file |-> "config", by |-> "noKey", value |-> p]
SaveGateway(g) == [file |-> "config", by |-> "gateway", value |-> g]

\* and those of the preferences.
ClickProvider(p)  == [file |-> "prefs", by |-> "provider", value |-> p]
ClickModel(m)     == [file |-> "prefs", by |-> "model", value |-> m]
ClickEmbedding(m) == [file |-> "prefs", by |-> "embedding", value |-> m]
ClickLanguage(l)  == [file |-> "prefs", by |-> "language", value |-> l]
ClickTurboQuant   == [file |-> "prefs", by |-> "toggle", value |-> ""]
EmbedTurboQuant   == [file |-> "prefs", by |-> "turbo", value |-> ""]

Change(e, c) ==
    CASE e.by = "key"    -> [c EXCEPT !.keys = @ \cup {e.value}]
      [] e.by = "noKey"  -> [c EXCEPT !.keys = @ \ {e.value}]
      [] e.by = "toggle" -> [c EXCEPT !.turbo = ~@]
      [] e.by = "turbo"  -> [c EXCEPT !.turbo = TRUE]
      [] OTHER -> [c EXCEPT ![e.by] = e.value]

At(file) == {w \in DOMAIN Writers : editing[w] # Idle /\ editing[w].edit.file = file}

\* LoadConfig or LoadPreferences.
LoadFile(w, e) ==
    /\ editing[w] = Idle
    /\ edits > 0
    /\ edits' = edits - 1
    /\ editing' = [editing EXCEPT ![w] = [at |-> "loaded", edit |-> e, copy |-> files[e.file]]]
    /\ disturbed' = IF At(e.file) # {} THEN disturbed \cup {e.file} ELSE disturbed
    /\ UNCHANGED <<files, acked>>

\* SaveConfig or SavePreferences: the file is emptied,
Truncate(w) ==
    /\ editing[w].at = "loaded"
    /\ files' = [files EXCEPT ![editing[w].edit.file] = Blank[editing[w].edit.file]]
    /\ editing' = [editing EXCEPT ![w].at = "emptied"]
    /\ UNCHANGED <<edits, acked, disturbed>>

\* Mutant: the fields that the edit is not about are not carried over.
BugWrite(w) ==
    /\ editing[w].at = "emptied"
    /\ LET e == editing[w].edit
       IN  /\ files' = [files EXCEPT ![e.file] = Change(e, Blank[e.file])]
           /\ acked' = [acked EXCEPT ![e.file] = Change(e, @)]
    /\ editing' = [editing EXCEPT ![w] = Idle]
    /\ UNCHANGED <<edits, disturbed>>

\* then written.
Write(w) ==
    /\ editing[w].at = "emptied"
    /\ LET e == editing[w].edit
       IN  /\ files' = [files EXCEPT ![e.file] = Change(e, editing[w].copy)]
           /\ acked' = [acked EXCEPT ![e.file] = Change(e, @)]
    /\ editing' = [editing EXCEPT ![w] = Idle]
    /\ UNCHANGED <<edits, disturbed>>

\* The process ends, or the disk is full, in between.
CutOff(w) ==
    /\ editing[w].at = "emptied"
    /\ disturbed' = disturbed \cup {editing[w].edit.file}
    /\ editing' = [editing EXCEPT ![w] = Idle]
    /\ UNCHANGED <<files, edits, acked>>

=============================================================================
