----------------------------- MODULE IpcChannel -----------------------------
(***************************************************************************)
(* The IPC channel between the commands of the CLI and the daemon:         *)
(* internal/api/ipc/client.go, server.go and the routes of router.go that  *)
(* the commands of cmd/core use.  A command makes its calls one after      *)
(* another: the handshake with the token, workspace.init, its request.  A  *)
(* connection has a reading goroutine at either end and one goroutine at   *)
(* the server for each request that needs a workspace.  Events go to every *)
(* connection.  The daemon may die at any moment or shut its server down.  *)
(* The command "caller" stands for any user of ipc.Client whose contexts   *)
(* may end; those of the CLI do not.                                       *)
(***************************************************************************)
EXTENDS Integers, Sequences, FiniteSets, TLC

CONSTANTS
    Clients,    \* processes of the CLI
    Settings    \* what they run: a command, where, and the token they find, each

VARIABLES
    command,    \* the command of each client
    token,      \* the file ipc.token as the client finds it: current, stale, missing
    workspace,  \* where the client runs
    at,         \* where the client is
    step,       \* the number of its current call, its ID
    pending,    \* Client.pending: calls whose channel is registered
    answers,    \* the channels of calls that hold an answer
    conn,       \* the connection
    toServer,   \* frames sent and not read
    toClient,
    authorized, \* per connection, in handleConnection
    tenant,     \* activeTenant is set
    running,    \* requests in a goroutine of their own, with how far they are
    jobs,       \* embedding jobs: whose, of which workspace, how far
    up,         \* the daemon lives
    listening,  \* the server accepts connections
    outcome,    \* history: how the client's calls ended
    runs        \* history: how often the handler of a call has succeeded

client == <<at, step, pending, answers, outcome>>
wire   == <<conn, toServer, toClient>>
server == <<authorized, tenant, running, jobs, runs>>
daemon == <<up, listening>>
fixed  == <<command, token, workspace>>
vars   == <<client, wire, server, daemon, fixed>>

MaxStep == 3

\* The calls of each command after the handshake; chat repeats its own.
Script ==
    [ask    |-> <<"workspace.init", "workspace.query">>,
     models |-> <<"workspace.init", "models.list">>,
     embed  |-> <<"workspace.init", "workspace.embed.start">>,
     submit |-> <<"workspace.init", "workspace.embed.start">>,
     chat   |-> <<"workspace.query">>,
     status |-> <<>>,
     caller |-> <<"workspace.init", "fs/completion">>]

\* What the user and the directory of the daemon may have made of a client.
ASSUME SettingsAssumption == \A s \in Settings : \A c \in Clients :
    /\ s[c].command \in DOMAIN Script
    /\ s[c].token \in {"current", "stale", "missing"}

\* Connect shakes hands if there is a token.
CallsOf(c) == (IF token[c] = "missing" THEN <<>> ELSE <<"ipc.auth">>) \o Script[command[c]]
Method(c, n) == CallsOf(c)[n]

Init ==
    /\ \E s \in Settings :
         /\ command = [c \in Clients |-> s[c].command]
         /\ token = [c \in Clients |-> s[c].token]
         /\ workspace = [c \in Clients |-> s[c].workspace]
    /\ at = [c \in Clients |-> "start"]
    /\ step = [c \in Clients |-> 1]
    /\ pending = [c \in Clients |-> {}]
    /\ answers = [c \in Clients |-> {}]
    /\ conn = [c \in Clients |-> "none"]
    /\ toServer = [c \in Clients |-> <<>>]
    /\ toClient = [c \in Clients |-> <<>>]
    /\ authorized = [c \in Clients |-> FALSE]
    /\ tenant = [c \in Clients |-> FALSE]
    /\ running = {}
    /\ jobs = {}
    /\ up = TRUE
    /\ listening = TRUE
    /\ outcome = [c \in Clients |-> <<>>]
    /\ runs = [k \in Clients \X (1 .. MaxStep) |-> 0]

-----------------------------------------------------------------------------
\* The client.

\* The command ends; its connection is closed.
Exits(c) ==
    /\ at' = [at EXCEPT ![c] = "done"]
    /\ conn' = [conn EXCEPT ![c] = IF @ \in {"none", "refused", "gone"} THEN @ ELSE "left"]
    /\ UNCHANGED <<toServer, toClient>>

Connect(c) ==
    /\ at[c] = "start"
    /\ IF listening
       THEN /\ conn' = [conn EXCEPT ![c] = "backlog"]
            /\ at' = [at EXCEPT ![c] = "ready"]
            /\ UNCHANGED <<toServer, toClient>>
       ELSE Exits(c)
    /\ UNCHANGED <<step, pending, answers, outcome, server, daemon, fixed>>

\* A call that failed ends the command, but for those that only show the error.
GoesOn(c, ok) == ok \/ (command[c] \in {"models", "chat", "caller"} /\ Method(c, step[c]) # "ipc.auth")

\* A call returns to its caller.
Ends(c, ok) ==
    /\ outcome' = [outcome EXCEPT ![c] = Append(@, ok)]
    /\ step' = [step EXCEPT ![c] = @ + 1]
    /\ IF GoesOn(c, ok)
       THEN at' = [at EXCEPT ![c] = "ready"] /\ UNCHANGED wire
       ELSE Exits(c)

\* SendRaw registers the channel of the answer, then writes the frame.
Send(c) ==
    /\ at[c] = "ready"
    /\ step[c] <= Len(CallsOf(c))
    /\ IF conn[c] = "gone"
       THEN Ends(c, FALSE) /\ UNCHANGED pending
       ELSE /\ pending' = [pending EXCEPT ![c] = @ \cup {step[c]}]
            /\ toServer' = [toServer EXCEPT ![c] = Append(@, step[c])]
            /\ at' = [at EXCEPT ![c] = "waiting"]
            /\ UNCHANGED <<step, outcome, conn, toClient>>
    /\ UNCHANGED <<answers, server, daemon, fixed>>

\* Mutant: answers are told apart by nothing.
BugTakeAnswer(c) ==
    /\ at[c] = "waiting"
    /\ \E a \in answers[c] : Ends(c, a.ok)
    /\ answers' = [answers EXCEPT ![c] = {}]
    /\ UNCHANGED <<pending, server, daemon, fixed>>

\* An answer of success may still not be one the command can read.
TakeAnswer(c) ==
    /\ at[c] = "waiting"
    /\ \E a \in answers[c] : a.call = step[c] /\ \E ok \in {a.ok, FALSE} : Ends(c, ok)
    /\ answers' = [answers EXCEPT ![c] = {}]
    /\ UNCHANGED <<pending, server, daemon, fixed>>

\* The call's context ends first.  A channel with an answer in it is left behind.
GiveUp(c) ==
    /\ command[c] = "caller"
    /\ at[c] = "waiting"
    /\ pending' = [pending EXCEPT ![c] = @ \ {step[c]}]
    /\ Ends(c, FALSE)
    /\ UNCHANGED <<answers, server, daemon, fixed>>

\* After its last call the command is done; embed then waits for events.
Finish(c) ==
    /\ at[c] = "ready"
    /\ step[c] > Len(CallsOf(c))
    /\ IF command[c] = "embed"
       THEN at' = [at EXCEPT ![c] = "listening"] /\ UNCHANGED wire
       ELSE Exits(c)
    /\ UNCHANGED <<step, pending, answers, outcome, server, daemon, fixed>>

\* runEmbed sets OnEvent when the workspace is initialised.
HearsEvents(c) ==
    /\ command[c] = "embed"
    /\ "workspace.init" \in {Method(c, n) : n \in 1 .. step[c] - 1}

\* listenForResponses: an answer goes to the channel of its call if that is still
\* registered, a completion ends embed, other events are only shown.
Receive(c) ==
    /\ at[c] # "done"
    /\ toClient[c] # <<>>
    /\ LET msg == Head(toClient[c])
       IN  \/ /\ msg.type = "response"
              /\ pending' = [pending EXCEPT ![c] = @ \ {msg.call}]
              /\ answers' = IF msg.call \in pending[c]
                            THEN [answers EXCEPT ![c] = @ \cup {[call |-> msg.call, ok |-> msg.ok]}]
                            ELSE answers
              /\ UNCHANGED <<at, conn>>
           \/ /\ msg.type = "event"
              /\ UNCHANGED <<pending, answers>>
              /\ IF HearsEvents(c)
                 THEN /\ at' = [at EXCEPT ![c] = "done"]
                      /\ conn' = [conn EXCEPT ![c] = IF @ \in {"refused", "gone"} THEN @ ELSE "left"]
                 ELSE UNCHANGED <<at, conn>>
    /\ toClient' = [toClient EXCEPT ![c] = Tail(@)]
    /\ UNCHANGED <<step, outcome, toServer, server, daemon, fixed>>

-----------------------------------------------------------------------------
\* The server.

\* The goroutine of Start: a connection is registered after Accept has returned.
Accept(c) ==
    /\ listening
    /\ conn[c] = "backlog"
    /\ conn' = [conn EXCEPT ![c] = "accepted"]
    /\ UNCHANGED <<client, toServer, toClient, server, daemon, fixed>>

Register(c) ==
    /\ up
    /\ conn[c] = "accepted"
    /\ conn' = [conn EXCEPT ![c] = "served"]
    /\ UNCHANGED <<client, toServer, toClient, server, daemon, fixed>>

Response(n, ok) == [type |-> "response", call |-> n, ok |-> ok]

\* writeMessage: what is written to a connection the client has left is lost.
Reply(c, n, ok) ==
    toClient' = IF conn[c] \in {"served", "refused"} THEN [toClient EXCEPT ![c] = Append(@, Response(n, ok))]
                ELSE toClient

\* The reading goroutine answers what needs no workspace itself.
Ok(c, n) ==
    /\ Reply(c, n, TRUE)
    /\ runs' = [runs EXCEPT ![<<c, n>>] = @ + 1]
    /\ UNCHANGED conn

Refuse(c, n) ==
    /\ Reply(c, n, FALSE)
    /\ UNCHANGED <<conn, runs>>

RefuseAndClose(c, n) ==
    /\ Reply(c, n, FALSE)
    /\ conn' = [conn EXCEPT ![c] = IF @ = "left" THEN "gone" ELSE "refused"]
    /\ UNCHANGED runs

\* Mutant: no workspace is asked for.
BugDispatch(c, n) ==
    /\ running' = running \cup {[client |-> c, call |-> n, place |-> "handler", ok |-> FALSE]}
    /\ UNCHANGED <<conn, toClient, runs, authorized, tenant>>

\* Requests of a connection without a workspace are refused, others get a goroutine.
Dispatch(c, n) ==
    /\ IF tenant[c]
       THEN /\ running' = running \cup {[client |-> c, call |-> n, place |-> "handler", ok |-> FALSE]}
            /\ UNCHANGED <<conn, toClient, runs>>
       ELSE Refuse(c, n) /\ UNCHANGED running
    /\ UNCHANGED <<authorized, tenant>>

\* workspace.init: opening the tenant may fail.
InitWorkspace(c, n) ==
    /\ \/ Ok(c, n) /\ tenant' = [tenant EXCEPT ![c] = TRUE]
       \/ Refuse(c, n) /\ UNCHANGED tenant
    /\ UNCHANGED <<authorized, running>>

Authenticate(c, n) ==
    /\ IF token[c] = "current"
       THEN Ok(c, n) /\ authorized' = [authorized EXCEPT ![c] = TRUE]
       ELSE RefuseAndClose(c, n) /\ UNCHANGED authorized
    /\ UNCHANGED <<tenant, running>>

Unauthorized(c, n) ==
    /\ RefuseAndClose(c, n)
    /\ UNCHANGED <<authorized, tenant, running>>

\* The reading loop of handleConnection; also over frames of a client that has left.
ReadFrame(c) ==
    /\ conn[c] \in {"served", "left"}
    /\ up
    /\ toServer[c] # <<>>
    /\ LET n == Head(toServer[c])
       IN  \/ Method(c, n) = "ipc.auth" /\ Authenticate(c, n)
           \/ Method(c, n) # "ipc.auth" /\ ~authorized[c] /\ Unauthorized(c, n)
           \/ Method(c, n) = "workspace.init" /\ authorized[c] /\ InitWorkspace(c, n)
           \/ Method(c, n) \notin {"ipc.auth", "workspace.init"} /\ authorized[c] /\ Dispatch(c, n)
    /\ toServer' = [toServer EXCEPT ![c] = Tail(@)]
    /\ UNCHANGED <<client, jobs, daemon, fixed>>

\* The client has closed its end, or was refused: the connection is taken off the
\* list and closed.  What the client has sent since the refusal is not read.
EndOfInput(c) ==
    /\ \/ conn[c] = "refused"
       \/ conn[c] = "left" /\ toServer[c] = <<>>
    /\ conn' = [conn EXCEPT ![c] = "gone"]
    /\ UNCHANGED <<client, toServer, toClient, server, daemon, fixed>>

Advance(r, ok) == running' = (running \ {r}) \cup {[r EXCEPT !.place = "reply", !.ok = ok]}

Fails(r)    == Advance(r, FALSE) /\ UNCHANGED runs
Succeeds(r) == Advance(r, TRUE) /\ runs' = [runs EXCEPT ![<<r.client, r.call>>] = @ + 1]

\* The handlers: the payload, the provider or the engine may fail.
Query(r) ==
    /\ Method(r.client, r.call) = "workspace.query"
    /\ (Fails(r) \/ Succeeds(r)) /\ UNCHANGED jobs

Completion(r) ==
    /\ Method(r.client, r.call) = "fs/completion"
    /\ (Fails(r) \/ Succeeds(r)) /\ UNCHANGED jobs

ListModels(r) ==
    /\ Method(r.client, r.call) = "models.list"
    /\ (Fails(r) \/ Succeeds(r)) /\ UNCHANGED jobs

StartEmbed(r) ==
    /\ Method(r.client, r.call) = "workspace.embed.start"
    /\ \/ Fails(r) /\ UNCHANGED jobs
       \/ /\ Succeeds(r)
          /\ jobs' = jobs \cup {[by |-> r.client, workspace |-> workspace[r.client], place |-> "new"]}

Handle(r) ==
    /\ r.place = "handler"
    /\ Query(r) \/ Completion(r) \/ ListModels(r) \/ StartEmbed(r)
    /\ UNCHANGED <<client, wire, authorized, tenant, daemon, fixed>>

WriteReply(r) ==
    /\ r.place = "reply"
    /\ Reply(r.client, r.call, r.ok)
    /\ running' = running \ {r}
    /\ UNCHANGED <<client, conn, toServer, authorized, tenant, jobs, runs, daemon, fixed>>

-----------------------------------------------------------------------------
\* The jobs and their events.

\* Broadcast writes to the connections that are registered.
Broadcast ==
    toClient' = [c \in Clients |-> IF conn[c] \in {"served", "refused"}
                                   THEN Append(toClient[c], [type |-> "event"])
                                   ELSE toClient[c]]

Move(j, place) == jobs' = (jobs \ {j}) \cup {[j EXCEPT !.place = place]}

Claimed(w) == \E j \in jobs : j.workspace = w /\ j.place \in {"active", "spinning", "told"}

\* Mutant: a job that is not needed says nothing.
BugClaim(j) ==
    /\ j.place = "new"
    /\ IF Claimed(j.workspace) THEN jobs' = jobs \ {j} ELSE Move(j, "active")
    /\ UNCHANGED <<client, wire, authorized, tenant, running, runs, daemon, fixed>>

\* RunEmbedJob: one at a time for a workspace; another one is complete at once.
Claim(j) ==
    /\ j.place = "new"
    /\ IF Claimed(j.workspace)
       THEN Broadcast /\ jobs' = jobs \ {j}
       ELSE Move(j, "active") /\ UNCHANGED toClient
    /\ UNCHANGED <<client, conn, toServer, authorized, tenant, running, runs, daemon, fixed>>

\* Cutting a file of more than 3200 runes does not end (ChunkContent): neither does
\* the job, which keeps its claim and says nothing.
Spin(j) ==
    /\ j.place = "active"
    /\ Move(j, "spinning")
    /\ UNCHANGED <<client, wire, authorized, tenant, running, runs, daemon, fixed>>

\* The last progress is sent before the claim is given up.
Complete(j) ==
    /\ j.place = "active"
    /\ Broadcast
    /\ Move(j, "told")
    /\ UNCHANGED <<client, conn, toServer, authorized, tenant, running, runs, daemon, fixed>>

Unclaim(j) ==
    /\ j.place = "told"
    /\ jobs' = jobs \ {j}
    /\ UNCHANGED <<client, wire, authorized, tenant, running, runs, daemon, fixed>>

-----------------------------------------------------------------------------
\* Connections that are registered or wait are closed; one accepted just now is not.
Shutdown ==
    /\ up /\ listening
    /\ listening' = FALSE
    /\ conn' = [c \in Clients |-> IF conn[c] \in {"backlog", "served", "refused"} THEN "gone" ELSE conn[c]]
    /\ UNCHANGED <<client, toServer, toClient, server, up, fixed>>

Die ==
    /\ up
    /\ up' = FALSE
    /\ listening' = FALSE
    /\ conn' = [c \in Clients |-> IF conn[c] = "none" THEN "none" ELSE "gone"]
    /\ running' = {}
    /\ jobs' = {}
    /\ UNCHANGED <<client, toServer, toClient, authorized, tenant, runs, fixed>>

\* What was sent has been read, and nobody is at work.
Stopped ==
    /\ \A c \in Clients : at[c] = "done" \/ (conn[c] = "gone" /\ at[c] \in {"waiting", "listening"})
    /\ UNCHANGED vars

ClientStep(c) ==
    Connect(c) \/ Send(c) \/ TakeAnswer(c) \/ Finish(c) \/ Receive(c)

ServerStep(c) == Accept(c) \/ Register(c) \/ ReadFrame(c) \/ EndOfInput(c)

RequestStep == \E r \in running : Handle(r) \/ WriteReply(r)
JobStep     == \E j \in jobs : Claim(j) \/ Complete(j) \/ Unclaim(j)

Next ==
    \/ \E c \in Clients : ClientStep(c) \/ GiveUp(c) \/ ServerStep(c)
    \/ RequestStep \/ JobStep \/ \E j \in jobs : Spin(j)
    \/ Shutdown \/ Die \/ Stopped

Spec == Init /\ [][Next]_vars

\* Goroutines and processes run; a handler returns, and a job comes to its end
\* unless it spins.
FairSpec ==
    /\ Spec
    /\ \A c \in Clients : WF_vars(ClientStep(c)) /\ WF_vars(ServerStep(c))
    /\ WF_vars(RequestStep) /\ WF_vars(JobStep)
=============================================================================
