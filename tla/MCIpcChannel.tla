---------------------------- MODULE MCIpcChannel ----------------------------
EXTENDS IpcChannelProps

CONSTANTS c1, c2, w1, w2

Run(cmd, tok, ws) == [command |-> cmd, token |-> tok, workspace |-> ws]

\* One client may start at any time and only asks for the status.
Aside == Run("status", "missing", w2)

\* Any command by itself with any token, two embeddings of a workspace, and one
\* while a chat is tried in it.
AnySettings ==
    {(c1 :> Run(cmd, tok, w1)) @@ (c2 :> Aside) :
        cmd \in {"ask", "models", "submit", "embed", "chat", "caller"},
        tok \in {"current", "stale", "missing"}}
    \cup {(c1 :> Run("embed", "current", w1)) @@ (c2 :> Run("embed", "current", w1)),
          (c1 :> Run("embed", "current", w1)) @@ (c2 :> Run("chat", "current", w1))}
=============================================================================
