------------------------------- MODULE Daemon -------------------------------
(***************************************************************************)
(* The processes of the program and what they share: the daemon, which     *)
(* cmd/core/main.go starts, with its singleton lock, its socket and its    *)
(* token; the agents `vectora mcp` and `vectora acp`, which open the same  *)
(* global stores; the commands that stop, restart or reset the daemon and  *)
(* those that start it when they do not reach it.  Any process may be      *)
(* killed at any moment.                                                   *)
(***************************************************************************)
EXTENDS Naturals, FiniteSets

CONSTANTS
    Procs,      \* processes
    Platforms,  \* "unix", "windows"
    Scenes,     \* what runs at first: functions from some Procs
    Retries     \* how often a command tries again to connect

VARIABLES
    platform,
    kind,       \* what each process is
    at,         \* where it is
    lockPath,   \* the lock file that has the name now
    inode,      \* the lock file that each process has opened
    holds,      \* it has locked it
    owner,      \* who has opened each global store
    socket,     \* the daemon whose listener has the name now
    tokenFile,  \* the daemon whose token is in the file
    ipc,        \* how far the IPC server of each daemon is
    signal,     \* a SIGTERM waits in sigChan
    ending,     \* where the goroutines of a daemon are that end it
    conn,       \* the daemon each command is connected to
    token,      \* the token that it has read
    tries,      \* how often it may still try
    readyAt,    \* history: a daemon that was ready when the command began
    spawned,    \* history: commands that have started a daemon
    removed,    \* history: a lock file was removed that another process had opened
    overlap     \* history: a daemon has locked while another one that had was still there

locks   == <<lockPath, inode, holds, removed, overlap>>
serving == <<socket, tokenFile, ipc>>
asking  == <<conn, token, tries, readyAt, spawned>>
vars    == <<platform, kind, at, locks, owner, serving, signal, ending, asking>>

Nobody == "nobody"
Former == "former"      \* a daemon of an earlier time, whose token is left

ASSUME RetriesAssumption == Retries \in Nat

ASSUME ProcsAssumption ==
    /\ IsFiniteSet(Procs) /\ Nobody \notin Procs /\ Former \notin Procs
    /\ Platforms \subseteq {"unix", "windows"}

NoFile == 0
Files  == 1 .. Cardinality(Procs) + 1
Stores == {"kv", "vectors"}
Goroutines == {"main", "plain", "http"}     \* those of runCore that call Unlock
Least(S) == CHOOSE i \in S : \A j \in S : i <= j

Init ==
    /\ platform \in Platforms
    /\ \E s \in Scenes : kind = [p \in Procs |-> IF p \in DOMAIN s THEN s[p] ELSE "none"]
    /\ at = [p \in Procs |-> "start"]
    /\ lockPath = NoFile
    /\ inode = [p \in Procs |-> NoFile]
    /\ holds = [p \in Procs |-> FALSE]
    /\ owner = [s \in Stores |-> Nobody]
    /\ socket = Nobody
    /\ tokenFile \in {Nobody, Former}
    /\ ipc = [p \in Procs |-> "off"]
    /\ signal = [p \in Procs |-> FALSE]
    /\ ending = [p \in Procs |-> [g \in Goroutines |-> "no"]]
    /\ conn = [p \in Procs |-> Nobody]
    /\ token = [p \in Procs |-> Nobody]
    /\ tries = [p \in Procs |-> Retries]
    /\ readyAt = [p \in Procs |-> Nobody]
    /\ spawned = {}
    /\ removed = FALSE
    /\ overlap = FALSE

Alive(p) == kind[p] # "none" /\ at[p] # "ended"
Ready(p) == kind[p] = "daemon" /\ Alive(p) /\ ipc[p] = "accepts" /\ \A g \in Goroutines : ending[p][g] = "no"

\* What the system takes back from the processes of S that end.
EndOf(S) ==
    /\ at' = [p \in Procs |-> IF p \in S THEN "ended" ELSE at[p]]
    /\ holds' = [p \in Procs |-> holds[p] /\ p \notin S]
    /\ inode' = [p \in Procs |-> IF p \in S THEN NoFile ELSE inode[p]]
    /\ owner' = [s \in Stores |-> IF owner[s] \in S THEN Nobody ELSE owner[s]]
    /\ ipc' = [p \in Procs |-> IF p \in S THEN "off" ELSE ipc[p]]

Ends(p) == EndOf({p}) /\ UNCHANGED <<platform, kind, lockPath, removed, overlap, socket, tokenFile, signal, ending, asking>>

Go(p, from, to) == at[p] = from /\ at' = [at EXCEPT ![p] = to]

-----------------------------------------------------------------------------
\* The singleton lock.

LockedFile(i) == \E q \in Procs : holds[q] /\ inode[q] = i

\* The lock file is opened, or created.
OpenLock(p) ==
    /\ kind[p] = "daemon" /\ Go(p, "start", "opened")
    /\ LET used == {inode[q] : q \in Procs}
       IN  inode' = [inode EXCEPT ![p] = IF lockPath # NoFile THEN lockPath ELSE Least(Files \ used)]
    /\ lockPath' = inode'[p]
    /\ platform = "windows" => ~LockedFile(inode'[p])
    /\ UNCHANGED <<platform, kind, holds, removed, overlap, owner, serving, signal, ending, asking>>

\* On Windows the file of another process cannot be opened at all.
CannotOpenLock(p) ==
    /\ kind[p] = "daemon" /\ at[p] = "start"
    /\ platform = "windows" /\ LockedFile(lockPath)
    /\ Ends(p)

\* A daemon that has had the lock, and may have given it up since, but not ended.
PastLock(p) ==
    kind[p] = "daemon" /\ at[p] \in {"locked", "opening kv", "opening vectors", "routing", "routed", "in tray"}

\* Mutant: the lock is shared.
BugTryLock(p) ==
    /\ kind[p] = "daemon" /\ Go(p, "opened", "locked")
    /\ holds' = [holds EXCEPT ![p] = TRUE]
    /\ overlap' = (overlap \/ \E q \in Procs : PastLock(q))
    /\ UNCHANGED <<platform, kind, lockPath, inode, removed, owner, serving, signal, ending, asking>>

\* LOCK_EX and LOCK_NB; on Windows the open file is the lock.
TryLock(p) ==
    /\ kind[p] = "daemon" /\ at[p] = "opened"
    /\ IF LockedFile(inode[p]) THEN Ends(p)
       ELSE /\ Go(p, "opened", "locked")
            /\ holds' = [holds EXCEPT ![p] = TRUE]
            /\ overlap' = (overlap \/ \E q \in Procs : PastLock(q))
            /\ UNCHANGED <<platform, kind, lockPath, inode, removed, owner, serving, signal, ending, asking>>

\* Unlock closes the file first
Unlock(p, g) ==
    /\ Alive(p) /\ ending[p][g] = "unlock"
    /\ holds' = [holds EXCEPT ![p] = FALSE]
    /\ inode' = [inode EXCEPT ![p] = NoFile]
    /\ ending' = [ending EXCEPT ![p][g] = "remove"]
    /\ UNCHANGED <<platform, kind, at, lockPath, removed, overlap, owner, serving, signal, asking>>

\* and then removes what has its name; Windows does not remove an open file.
RemoveLock(p, g) ==
    /\ Alive(p) /\ ending[p][g] = "remove"
    /\ LET others == {q \in Procs \ {p} : inode[q] = lockPath /\ lockPath # NoFile}
       IN  IF platform = "windows" /\ others # {}
           THEN UNCHANGED <<lockPath, removed>>
           ELSE /\ lockPath' = NoFile
                /\ removed' = (removed \/ others # {})
    /\ ending' = [ending EXCEPT ![p][g] = "exit"]
    /\ UNCHANGED <<platform, kind, at, inode, holds, overlap, owner, serving, signal, asking>>

Exit(p, g) ==
    /\ Alive(p) /\ ending[p][g] = "exit"
    /\ Ends(p)

-----------------------------------------------------------------------------
\* runCore.

\* From here on signals go to sigChan.
HandleSignals(p) ==
    /\ kind[p] = "daemon" /\ Go(p, "locked", "opening kv")
    /\ UNCHANGED <<platform, kind, locks, owner, serving, signal, ending, asking>>

\* A store is opened; after a second of waiting for its lock the daemon goes on
\* without it.
OpenStore(p, s, to) ==
    /\ owner' = IF owner[s] = Nobody THEN [owner EXCEPT ![s] = p] ELSE owner
    /\ at' = [at EXCEPT ![p] = to]
    /\ UNCHANGED <<platform, kind, locks, serving, signal, ending, asking>>

OpenStores(p) ==
    /\ kind[p] = "daemon"
    /\ \/ at[p] = "opening kv" /\ OpenStore(p, "kv", "opening vectors")
       \/ at[p] = "opening vectors" /\ OpenStore(p, "vectors", "routing")

Up(p) == kind[p] = "daemon" /\ at[p] \in {"routing", "routed", "in tray"}

\* The daemons that have a handler for SIGTERM.
Handlers == {p \in Procs : Up(p) \/ (kind[p] = "daemon" /\ at[p] \in {"opening kv", "opening vectors"})}

\* The daemons that a dialled connection may reach: the one with the name, or on Windows
\* the one that has fallen back to a TCP port.
Reached ==
    IF socket # Nobody /\ Alive(socket) THEN {socket}
    ELSE {p \in Procs : platform = "windows" /\ Alive(p) /\ ipc[p] # "off"}

\* The goroutine of the IPC server: on Unix the listener takes the name from another one's,
Listen(p) ==
    /\ Up(p) /\ ipc[p] = "off"
    /\ socket' = IF platform = "windows" /\ socket # Nobody /\ Alive(socket) THEN socket ELSE p
    /\ ipc' = [ipc EXCEPT ![p] = "listens"]
    /\ UNCHANGED <<platform, kind, at, locks, owner, tokenFile, signal, ending, asking>>

\* Mutant: the token is not written again.
BugGenerateToken(p) ==
    /\ Up(p) /\ ipc[p] = "listens"
    /\ tokenFile' = IF tokenFile = Nobody THEN p ELSE tokenFile
    /\ ipc' = [ipc EXCEPT ![p] = "accepts"]
    /\ UNCHANGED <<platform, kind, at, locks, owner, socket, signal, ending, asking>>

\* then the token is written, and connections are accepted.
GenerateToken(p) ==
    /\ Up(p) /\ ipc[p] = "listens"
    /\ tokenFile' = p
    /\ ipc' = [ipc EXCEPT ![p] = "accepts"]
    /\ UNCHANGED <<platform, kind, at, locks, owner, socket, signal, ending, asking>>

\* chi's Use, after a route of the same router, panics or not: runCore recovers and
\* ends.
RegisterRoutes(p) ==
    /\ kind[p] = "daemon" /\ at[p] = "routing"
    /\ \/ at' = [at EXCEPT ![p] = "routed"] /\ UNCHANGED ending
       \/ UNCHANGED at /\ ending[p]["main"] = "no" /\ ending' = [ending EXCEPT ![p]["main"] = "unlock"]
    /\ UNCHANGED <<platform, kind, locks, owner, serving, signal, asking>>

\* Setup of the tray returns at once where there is none, and so does runCore,
\* without Unlock.
SetupTray(p) ==
    /\ kind[p] = "daemon" /\ at[p] = "routed"
    /\ IF platform = "unix" THEN Ends(p)
       ELSE /\ Go(p, "routed", "in tray")
            /\ UNCHANGED <<platform, kind, locks, owner, serving, signal, ending, asking>>

\* Two goroutines wait for a signal: one from the start, and the one that stops the
\* HTTP server first, from when it has its routes.
TakeSignal(p, g) ==
    /\ p \in Handlers /\ signal[p]
    /\ g = "plain" \/ (g = "http" /\ at[p] \in {"routed", "in tray"})
    /\ ending[p][g] = "no"
    /\ signal' = [signal EXCEPT ![p] = FALSE]
    /\ ending' = [ending EXCEPT ![p][g] = "unlock"]
    /\ UNCHANGED <<platform, kind, at, locks, owner, serving, asking>>

DaemonStep(p) ==
    \/ OpenLock(p) \/ CannotOpenLock(p) \/ TryLock(p) \/ HandleSignals(p) \/ OpenStores(p)
    \/ Listen(p) \/ GenerateToken(p) \/ RegisterRoutes(p) \/ SetupTray(p)
    \/ \E g \in Goroutines : TakeSignal(p, g) \/ Unlock(p, g) \/ RemoveLock(p, g) \/ Exit(p, g)

-----------------------------------------------------------------------------
\* runMcp and runAcp: a store that stays taken for a second ends the agent.
OpenAgentStore(p, s, from, to) ==
    /\ at[p] = from
    /\ IF owner[s] = Nobody THEN OpenStore(p, s, to) ELSE Ends(p)

AgentStep(p) ==
    /\ kind[p] = "agent"
    /\ \/ OpenAgentStore(p, "kv", "start", "opening vectors")
       \/ OpenAgentStore(p, "vectors", "opening vectors", "answering")
       \/ at[p] = "answering" /\ Ends(p)

-----------------------------------------------------------------------------
\* spawnDetached: a new process, if there can be one.
Spawn(c, from, to) ==
    /\ Go(c, from, to)
    /\ \/ \E p \in Procs : /\ kind[p] = "none"
                           /\ kind' = [kind EXCEPT ![p] = "daemon"]
                           /\ spawned' = spawned \cup {c}
       \/ /\ \A p \in Procs : kind[p] # "none"
          /\ UNCHANGED <<kind, spawned>>
    /\ UNCHANGED <<platform, locks, owner, serving, signal, ending, conn, token, tries, readyAt>>

Victims(c) == {p \in Procs : Alive(p)} \ (IF platform = "windows" THEN {c} ELSE {})

\* Mutant: pkill spares its caller.
BugRunStop(c) ==
    /\ kind[c] \in {"stop", "restart", "reset"} /\ at[c] = "start"
    /\ LET killed == (Victims(c) \ {c}) \ (IF platform = "windows" THEN {} ELSE Handlers)
       IN  /\ at' = [p \in Procs |-> IF p = c THEN "stopped" ELSE IF p \in killed THEN "ended" ELSE at[p]]
           /\ holds' = [p \in Procs |-> holds[p] /\ p \notin killed]
           /\ inode' = [p \in Procs |-> IF p \in killed THEN NoFile ELSE inode[p]]
           /\ owner' = [s \in Stores |-> IF owner[s] \in killed THEN Nobody ELSE owner[s]]
           /\ ipc' = [p \in Procs |-> IF p \in killed THEN "off" ELSE ipc[p]]
    /\ signal' = [p \in Procs |-> signal[p] \/ (platform = "unix" /\ p \in Handlers)]
    /\ UNCHANGED <<platform, kind, lockPath, removed, overlap, socket, tokenFile, ending, asking>>

\* runStop: taskkill ends all processes of the name but its caller; pkill -f sends
\* SIGTERM to all of them, its caller too.
RunStop(c) ==
    /\ kind[c] \in {"stop", "restart", "reset"} /\ at[c] = "start"
    /\ LET killed == Victims(c) \ (IF platform = "windows" THEN {} ELSE Handlers)
       IN  /\ at' = [p \in Procs |-> IF p \in killed THEN "ended" ELSE IF p = c THEN "stopped" ELSE at[p]]
           /\ holds' = [p \in Procs |-> holds[p] /\ p \notin killed]
           /\ inode' = [p \in Procs |-> IF p \in killed THEN NoFile ELSE inode[p]]
           /\ owner' = [s \in Stores |-> IF owner[s] \in killed THEN Nobody ELSE owner[s]]
           /\ ipc' = [p \in Procs |-> IF p \in killed THEN "off" ELSE ipc[p]]
    /\ signal' = [p \in Procs |-> signal[p] \/ (platform = "unix" /\ p \in Handlers)]
    /\ UNCHANGED <<platform, kind, lockPath, removed, overlap, socket, tokenFile, ending, asking>>

\* restart and reset go on; reset has deleted the data.
AfterStop(c) ==
    \/ kind[c] \in {"restart", "reset"} /\ Spawn(c, "stopped", "spawned")
    \/ kind[c] = "stop" /\ at[c] = "stopped" /\ Ends(c)
    \/ kind[c] \in {"start", "restart", "reset"} /\ at[c] = "spawned" /\ Ends(c)

\* `vectora start`.
StartDetached(c) == kind[c] = "start" /\ Spawn(c, "start", "spawned")

-----------------------------------------------------------------------------
\* ensureCoreConnected.

BeginAsking(c) ==
    /\ kind[c] = "ask" /\ Go(c, "start", "dialling")
    /\ \/ \E p \in Procs : Ready(p) /\ readyAt' = [readyAt EXCEPT ![c] = p]
       \/ (\A p \in Procs : ~Ready(p)) /\ UNCHANGED readyAt
    /\ UNCHANGED <<platform, kind, locks, owner, serving, signal, ending, conn, token, tries, spawned>>

\* Connect has failed: the first time a daemon is started, then it is tried again.
Offline(c) == IF c \in spawned \/ tries[c] < Retries THEN "waiting" ELSE "spawning"

Dial(c) ==
    /\ kind[c] = "ask" /\ at[c] = "dialling"
    /\ \/ /\ \E p \in Reached : conn' = [conn EXCEPT ![c] = p]
          /\ at' = [at EXCEPT ![c] = "reading token"]
       \/ /\ Reached = {}
          /\ at' = [at EXCEPT ![c] = Offline(c)]
          /\ UNCHANGED conn
    /\ UNCHANGED <<platform, kind, locks, owner, serving, signal, ending, token, tries, readyAt, spawned>>

\* Without a token there is no handshake.
ReadToken(c) ==
    /\ kind[c] = "ask" /\ at[c] = "reading token"
    /\ token' = [token EXCEPT ![c] = tokenFile]
    /\ at' = [at EXCEPT ![c] = IF tokenFile = Nobody THEN "connected" ELSE "authenticating"]
    /\ UNCHANGED <<platform, kind, locks, owner, serving, signal, ending, conn, tries, readyAt, spawned>>

\* The daemon answers, unless it has ended: then the call waits for ever.
Authenticated(c) ==
    /\ kind[c] = "ask" /\ at[c] = "authenticating"
    /\ ipc[conn[c]] = "accepts"
    /\ at' = [at EXCEPT ![c] = IF token[c] = conn[c] THEN "connected" ELSE Offline(c)]
    /\ UNCHANGED <<platform, kind, locks, owner, serving, signal, ending, asking>>

TryAgain(c) ==
    /\ kind[c] = "ask" /\ at[c] = "waiting"
    /\ at' = [at EXCEPT ![c] = IF tries[c] = 0 THEN "gave up" ELSE "dialling"]
    /\ tries' = [tries EXCEPT ![c] = IF @ = 0 THEN @ ELSE @ - 1]
    /\ UNCHANGED <<platform, kind, locks, owner, serving, signal, ending, conn, token, readyAt, spawned>>

CommandStep(c) ==
    \/ RunStop(c) \/ AfterStop(c) \/ StartDetached(c)
    \/ BeginAsking(c) \/ Dial(c) \/ ReadToken(c) \/ Authenticated(c) \/ TryAgain(c)
    \/ kind[c] = "ask" /\ Spawn(c, "spawning", "waiting")

-----------------------------------------------------------------------------
Killed(p) ==
    /\ kind[p] \in {"daemon", "agent"} /\ Alive(p)
    /\ Ends(p)

Next == \E p \in Procs : DaemonStep(p) \/ AgentStep(p) \/ CommandStep(p) \/ Killed(p)

Spec == Init /\ [][Next]_vars
=============================================================================
