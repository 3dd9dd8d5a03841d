-------------------------- MODULE IpcChannelProps ---------------------------
(***************************************************************************)
(* What the IPC channel of IpcChannel does for its commands.               *)
(***************************************************************************)
EXTENDS IpcChannel

Calls == Clients \X (1 .. MaxStep)

\* How the abstract specification sees a call.
StatusOf(k) ==
    LET c == k[1]
        n == k[2]
    IN  IF n <= Len(outcome[c]) THEN (IF outcome[c][n] THEN "ok" ELSE "failed")
        ELSE IF n \in pending[c] \cup {a.call : a \in answers[c]} THEN "made"
        ELSE "new"

Abstract == INSTANCE RemoteCalls WITH
    Calls <- Calls, status <- [k \in Calls |-> StatusOf(k)], runs <- runs

\* A call is made of requests, goroutines and answers that may come late or not
\* at all; it still ends once, with the answer to itself (SendRaw and
\* listenForResponses in client.go, handleConnection in server.go).
ImplementsRemoteCalls == Abstract!Spec

\* Only a connection that has shown the token and then opened its workspace gets
\* a request served: chat, which opens none, is refused whatever it asks
\* (handleConnection; chatCmd in cmd/core/chat.go).
ServedAfterInit ==
    \A c \in Clients, n \in 1 .. MaxStep :
        /\ runs[<<c, n>>] > 0
        /\ Method(c, n) \notin {"ipc.auth", "workspace.init"}
        =>
        /\ token[c] = "current"
        /\ command[c] # "chat"
        /\ \E i \in 1 .. n - 1 : Method(c, i) = "workspace.init" /\ runs[<<c, i>>] > 0

\* An embed listens for the end of its job, and its job spins on a long file.
Hangs(c) ==
    /\ command[c] = "embed"
    /\ at[c] = "listening"
    /\ \E j \in jobs : j.by = c /\ j.place = "spinning"

\* Every command of the CLI ends unless the server closes its connection under a
\* call, or it is the embed whose own job meets a file that cannot be cut: a call
\* is answered even if it is refused, and embed hears of the end of its job even
\* if another job, which may spin, has its workspace (runEmbed in
\* cmd/core/main.go, RunEmbedJob).
CommandsEnd == \A c \in Clients : <>(at[c] = "done" \/ conn[c] = "gone" \/ Hangs(c))
=============================================================================
