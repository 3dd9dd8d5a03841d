---------------------------- MODULE DaemonProps -----------------------------
(***************************************************************************)
(* What the processes may rely on.                                         *)
(***************************************************************************)
EXTENDS Daemon

\* The singleton lock excludes: two daemons hold it at once only after the file of one
\* was removed while another had it open, between Close and Remove of Unlock
\* (singleton_unix.go:43-48); Windows does not remove an open file.
OneHolder ==
    (\E p, q \in Procs : p # q /\ holds[p] /\ holds[q]) => removed /\ platform = "unix"

\* A command finds the daemon that was ready when it began: it starts another one, waits
\* or gives up only if that daemon has ended or is about to, or if a daemon has locked
\* while another one was still there: one that ends gives its lock up first, and may take
\* the socket and the token, or keep a pipe, until it is gone.
FoundWhenReady ==
    \A c \in Procs :
        kind[c] = "ask" /\ at[c] \in {"spawning", "waiting", "gave up"} =>
            \/ readyAt[c] = Nobody
            \/ ~Ready(readyAt[c])
            \/ overlap

\* restart and reset start a daemon only where their own runStop spares them: pkill ends
\* the command that has called it.
RestartSpawns ==
    \A c \in spawned : kind[c] \in {"restart", "reset"} => platform = "windows"
=============================================================================
