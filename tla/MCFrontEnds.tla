---------------------------- MODULE MCFrontEnds -----------------------------
EXTENDS FrontEndsProps, TLC

CONSTANTS i1, i2, a1, a2, k1, k2, m, o, t1
CONSTANTS r1, r2
CONSTANTS talk, session, log, trusted, file, other

MCDocs == (talk :> "conversation") @@ (session :> "session") @@ (log :> "log")
          @@ (trusted :> "trust") @@ (file :> "file") @@ (other :> "file")

\* Two files of different directories and one name.
MCBase == (file :> "name") @@ (other :> "name")

MCLocals  == (i1 :> "ipc") @@ (i2 :> "ipc") @@ (a1 :> "acp") @@ (a2 :> "acp") @@ (k1 :> "cli") @@ (k2 :> "cli")
MCServers == (m :> "mcp") @@ (o :> "stdio") @@ (t1 :> "tcp")
MCWorkers == DOMAIN MCLocals \cup DOMAIN MCServers

Plain(method) == [method |-> method, op |-> "none", doc |-> file, value |-> 0]
Tool(op, d, v) == [method |-> "tools/call", op |-> op, doc |-> d, value |-> v]

Tools == {Tool("write_file", file, 0), Tool("write_file", other, 0), Tool("edit", file, 1)}
RequestsFor(calls) == {[form |-> "request", call |-> c] : c \in calls}
OtherForms == {"notification", "stringId", "version", "noMethod", "broken", "huge", "unterminated"}
Lines == RequestsFor(Tools \cup {Plain(x) : x \in {"initialize", "tools/list", "session/new", "session/prompt", "unknown"}})
         \cup {[form |-> f, call |-> Tool("write_file", file, 0)] : f \in OtherForms}

\* Two of each kind that changes documents by itself, each server with any lines, and two
\* servers whose tools write files of one name.
MCScenes ==
    {[workers |-> ws, lines |-> {}, http |-> FALSE] : ws \in {{i1, i2}, {a1, a2}, {k1, k2}}}
    \cup {[workers |-> {s}, lines |-> Lines, http |-> FALSE] : s \in {m, o, t1}}
    \cup {[workers |-> {m, t1}, lines |-> RequestsFor(Tools), http |-> FALSE],
           [workers |-> {}, lines |-> {}, http |-> TRUE]}

Routes == {"health", "legacy chat", "chat", "stream", "history", "plan", "get plan", "plan step",
           "list", "embed", "progress", "status", "search", "stats", "admin"}

\* Any request beside one that starts a job or asks.
AnyAsk == [route : Routes, mount : {"server", "direct"}, token : {"good", "none"},
           id : {"short", "long"}, body : {"valid", "other"}]
Working == {a \in AnyAsk : a.route \in {"embed", "legacy chat"} /\ a.token = "good"
                            /\ a.id = "long" /\ a.body = "valid"}
MCAsks == {(r1 :> a) @@ (r2 :> b) : a \in AnyAsk, b \in Working}
=============================================================================
