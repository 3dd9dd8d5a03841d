------------------------------ MODULE FrontEnds -----------------------------
(***************************************************************************)
(* Who changes the documents, at the same time: the IPC handlers of the    *)
(* daemon (one goroutine each) its conversations, the requests of an ACP   *)
(* client (one goroutine each) its sessions, commands and goroutines of    *)
(* the storage package logs and the trust list, and the tools that the     *)
(* protocol servers call the files.  The HTTP server works beside them:    *)
(* none of its routes changes a document.                                  *)
(***************************************************************************)
EXTENDS ProtocolServers, HttpServer

CONSTANTS
    Locals,     \* the workers that serve no lines: a function to "ipc", "acp", "cli"
    Scenes      \* which workers there are at a time, the lines that clients send them,
                \* and whether there are requests to the HTTP server

VARIABLE scene

vars == <<dvars, pvars, hvars, scene>>

ASSUME LocalsAssumption ==
    /\ \A w \in DOMAIN Locals : Locals[w] \in {"ipc", "acp", "cli"}
    /\ \A c \in Scenes : c.workers \subseteq Workers
    /\ \A c \in Scenes : \A line \in c.lines : line.call.doc \in DOMAIN Docs
    /\ Workers = DOMAIN Locals \cup DOMAIN Servers

\* Which documents a worker changes.
Changes == [ipc |-> {"conversation"}, acp |-> {"session"}, cli |-> {"log", "trust"}]

Init ==
    /\ DocumentsInit /\ ServersInit /\ HttpInit
    /\ scene \in Scenes
    /\ scene.http \/ (server = "down" /\ ask = CHOOSE a \in Asks : TRUE)

\* chat.create, chat.rename, message.add and chat.delete; session/new and
\* session/prompt; entries of a log; trust add and trust rm.
LocalStep(w) ==
    /\ w \in scene.workers
    /\ \E d \in {e \in DOMAIN Docs : Docs[e] \in Changes[Locals[w]]} :
          \/ \E op \in AtOnce[Docs[d]] : ChangeAtOnce(w, op, d)
          \/ \E op \in AfterReading[Docs[d]] : Load(w, op, d, 0)
          \/ OpenLog(w, d)
    /\ UNCHANGED <<pvars, hvars, scene>>

\* A handler goes on until it is done.
LocalGoesOn(w) ==
    /\ Save(w) \/ AppendLine(w) \/ WriteFails(w) \/ Truncate(w) \/ Write(w) \/ CutOffChange(w)
    /\ UNCHANGED <<pvars, hvars, scene>>

ClientSends(s) ==
    /\ s \in scene.workers
    /\ \E line \in scene.lines : SendLine(s, line)
    /\ UNCHANGED <<dvars, hvars, scene>>

ServerGoesOn(s) ==
    /\ s \in scene.workers
    /\ ServerStep(s)
    /\ UNCHANGED <<hvars, scene>>

HttpGoesOn ==
    /\ scene.http
    /\ HttpStep
    /\ UNCHANGED <<dvars, pvars, scene>>

Next ==
    \/ \E w \in DOMAIN Locals : LocalStep(w) \/ LocalGoesOn(w)
    \/ \E s \in DOMAIN Servers : ClientSends(s) \/ ServerGoesOn(s)
    \/ HttpGoesOn

Spec == Init /\ [][Next]_vars
=============================================================================
