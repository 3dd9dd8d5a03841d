----------------------------- MODULE HttpServer ------------------------------
(***************************************************************************)
(* The HTTP server of the daemon (internal/server) with its middleware and *)
(* the handlers of chat, plan and embed, and the tokens it asks for        *)
(* (internal/auth).  A request goes through the middleware of its route,   *)
(* or straight to the handler when something else mounts it.  Queries take *)
(* time; clients may leave, the server stop and the process end meanwhile. *)
(***************************************************************************)
EXTENDS Naturals

CONSTANTS
    Requests,   \* the requests
    Asks        \* what they may be, all of them: functions to records with
                \* route, mount, token, id and body

VARIABLES
    server,     \* "up", "stopping" or "down"
    ask,        \* what each request is
    expired,    \* the token of the request has expired
    place,      \* where each request is
    status,     \* the status it is answered with
    left,       \* requests whose client has left
    queried,    \* history: requests whose query the engine has answered
    started     \* history: requests that have started an embedding job

hvars == <<server, ask, expired, place, status, left, queried, started>>

None == 0

\* Start: down when chi has refused the routes, or the port is taken.
HttpInit ==
    /\ server \in {"up", "down"}
    /\ ask \in Asks
    /\ expired = [r \in Requests |-> FALSE]
    /\ place = [r \in Requests |-> "coming"]
    /\ status = [r \in Requests |-> None]
    /\ left = {}
    /\ queried = {}
    /\ started = {}

\* RegisterRoutes: what stands before each handler.
Layers(r) ==
    IF ask[r].mount = "direct" \/ ask[r].route = "health" THEN {}
    ELSE IF ask[r].route = "legacy chat" THEN {"jwt"}
    ELSE {"jwt", "tenant"} \cup (IF ask[r].route = "admin" THEN {"admin"} ELSE {})

-----------------------------------------------------------------------------
\* WriteJSON and WriteError: the request is over; a client that has left hears nothing.
Answer(r, code) ==
    /\ status' = IF r \in left THEN status ELSE [status EXCEPT ![r] = code]
    /\ place' = [place EXCEPT ![r] = "over"]

Goes(r, to) == place' = [place EXCEPT ![r] = to] /\ UNCHANGED status

\* ValidateToken.
ValidToken(r) == ask[r].token = "good" /\ ~expired[r]

\* The claims are stored under a key of type ContextKey and looked for under a string:
\* what a middleware below JWTAuthMiddleware looks for is never there.
ClaimsFound(r) == FALSE

\* The middleware; the first one that refuses answers.
Admit(r) ==
    /\ ask[r].mount = "direct" \/ server = "up"
    /\ place[r] = "coming"
    /\ \/ /\ "jwt" \in Layers(r) /\ ~ValidToken(r)
          /\ Answer(r, 401)
       \/ /\ "jwt" \in Layers(r) => ValidToken(r)
          /\ "tenant" \in Layers(r) /\ ~ClaimsFound(r)
          /\ Answer(r, 403)
       \/ /\ "jwt" \in Layers(r) => ValidToken(r)
          /\ "tenant" \in Layers(r) => ClaimsFound(r)
          /\ Goes(r, "handling")
    /\ UNCHANGED <<server, ask, expired, left, queried, started>>

\* PanicRecoveryMiddleware answers for a handler that has panicked; without it the
\* connection is closed.
Panic(r) ==
    IF ask[r].mount = "direct" THEN Goes(r, "over") ELSE Answer(r, 500)

\* requestID[:8] of an ID that the client has given, or of none.
ShortId(r) == ask[r].id = "short"

\* Decode and Validate.
BadRequest(r) ==
    /\ place[r] = "handling"
    /\ ask[r].body # "valid" /\ ask[r].route \notin {"health", "admin", "list"}
    /\ Answer(r, 400)
    /\ UNCHANGED <<queried, started>>

Valid(r, routes) ==
    /\ place[r] = "handling"
    /\ ask[r].route \in routes
    /\ ask[r].body = "valid"

\* GetTenant: the workspace is not open.
NotFound(r) ==
    /\ Valid(r, {"chat", "legacy chat", "plan", "embed", "search"})
    /\ Answer(r, 404)
    /\ UNCHANGED <<queried, started>>

BeginQuery(r) ==
    /\ Valid(r, {"chat", "legacy chat", "plan", "search"})
    /\ Goes(r, "querying")
    /\ UNCHANGED <<queried, started>>

\* The engine fails, or the request's time is over, or the client has left.
QueryFails(r) ==
    /\ place[r] = "querying"
    /\ Answer(r, 500)
    /\ UNCHANGED <<queried, started>>

\* What the handlers do with the answer of the engine is a step of its own.
QueryEnds(r) ==
    /\ place[r] = "querying"
    /\ queried' = queried \cup {r}
    /\ Goes(r, "answered")
    /\ UNCHANGED started

HasResult(r, routes) ==
    /\ place[r] = "answered"
    /\ ask[r].route \in routes
    /\ UNCHANGED <<queried, started>>

HandleChat(r) == HasResult(r, {"chat", "legacy chat"}) /\ Answer(r, 200)

\* The ID of the plan is made after the query.
HandleCreatePlan(r) ==
    /\ HasResult(r, {"plan"})
    /\ IF ShortId(r) THEN Panic(r) ELSE Answer(r, 201)

\* The vector of the engine is looked up in the store, which may fail.
HandleSearchEmbeddings(r) == HasResult(r, {"search"}) /\ (Answer(r, 200) \/ Answer(r, 500))

\* Mutant: the ID of the job is made when it has been started.
BugHandleStartEmbed(r) ==
    /\ Valid(r, {"embed"})
    /\ started' = started \cup {r}
    /\ IF ShortId(r) THEN Panic(r) ELSE Goes(r, "started")
    /\ UNCHANGED queried

\* The provider is not configured, or the job is started once it has its ID,
HandleStartEmbed(r) ==
    /\ Valid(r, {"embed"})
    /\ \/ Answer(r, 412) /\ UNCHANGED started
       \/ ShortId(r) /\ Panic(r) /\ UNCHANGED started
       \/ ~ShortId(r) /\ Goes(r, "started") /\ started' = started \cup {r}
    /\ UNCHANGED queried

\* and runs while the handler answers.
AcceptEmbed(r) ==
    /\ place[r] = "started"
    /\ Answer(r, 202)
    /\ UNCHANGED <<queried, started>>

\* The writer that logging wraps is no Flusher.
HandleStreamChat(r) ==
    /\ Valid(r, {"stream"})
    /\ Answer(r, IF ask[r].mount = "direct" THEN 200 ELSE 500)
    /\ UNCHANGED <<queried, started>>

\* What is answered from no store.
HandleChatHistory(r)    == Valid(r, {"history"}) /\ Answer(r, 200) /\ UNCHANGED <<queried, started>>
HandleGetPlan(r)        == Valid(r, {"get plan"}) /\ Answer(r, 200) /\ UNCHANGED <<queried, started>>
HandleUpdatePlanStep(r) == Valid(r, {"plan step"}) /\ Answer(r, 200) /\ UNCHANGED <<queried, started>>
HandleEmbedProgress(r)  == Valid(r, {"progress"}) /\ Answer(r, 200) /\ UNCHANGED <<queried, started>>
HandleEmbedStatus(r)    == Valid(r, {"status"}) /\ Answer(r, 200) /\ UNCHANGED <<queried, started>>
HandleEmbedStats(r)     == Valid(r, {"stats"}) /\ Answer(r, 200) /\ UNCHANGED <<queried, started>>

\* handleHealth, HandleListPlans and the stubs of the admin routes read no input.
HandleWithoutInput(r) ==
    /\ place[r] = "handling"
    /\ ask[r].route \in {"health", "list", "admin"}
    /\ Answer(r, 200)
    /\ UNCHANGED <<queried, started>>

HandleHttp(r) ==
    /\ \/ BadRequest(r) \/ NotFound(r) \/ BeginQuery(r) \/ QueryFails(r) \/ QueryEnds(r)
       \/ HandleChat(r) \/ HandleStreamChat(r) \/ HandleChatHistory(r)
       \/ HandleCreatePlan(r) \/ HandleGetPlan(r) \/ HandleUpdatePlanStep(r)
       \/ HandleStartEmbed(r) \/ AcceptEmbed(r) \/ HandleSearchEmbeddings(r)
       \/ HandleEmbedProgress(r) \/ HandleEmbedStatus(r) \/ HandleEmbedStats(r)
       \/ HandleWithoutInput(r)
    /\ ask[r].mount = "direct" \/ server # "down"
    /\ UNCHANGED <<server, ask, expired, left>>

\* What the handler does does not depend on who waits for it.
Leave(r) ==
    /\ place[r] # "over" /\ r \notin left
    /\ left' = left \cup {r}
    /\ UNCHANGED <<server, ask, expired, place, status, queried, started>>

Expire(r) ==
    /\ ask[r].token = "good" /\ ~expired[r] /\ place[r] = "coming"
    /\ expired' = [expired EXCEPT ![r] = TRUE]
    /\ UNCHANGED <<server, ask, place, status, left, queried, started>>

\* Stop: nothing more is accepted, what is at work may end.
Stop ==
    /\ server = "up"
    /\ server' = "stopping"
    /\ UNCHANGED <<ask, expired, place, status, left, queried, started>>

\* Shutdown has returned, or its ten seconds are over: the process ends.
Down ==
    /\ server = "stopping"
    /\ server' = "down"
    /\ UNCHANGED <<ask, expired, place, status, left, queried, started>>

HttpStep == \/ \E r \in Requests : Admit(r) \/ HandleHttp(r) \/ Leave(r) \/ Expire(r)
            \/ Stop \/ Down
=============================================================================
