--------------------------- MODULE TenantManager ----------------------------
(***************************************************************************)
(* TenantManager (internal/core/manager/tenant.go) with those who use it:  *)
(* IPC connections (internal/api/ipc/server.go), which keep the tenant that *)
(* workspace.init gave them, WebSocket queries, which get or create theirs, *)
(* and HTTP requests, which only look it up.                               *)
(*                                                                         *)
(* A tenant is an object: a workspace that is evicted and opened again has *)
(* a new one, and whoever holds the old one holds closed stores.  The      *)
(* methods run under tm.mu and are one step each.  A store is a BoltDB     *)
(* file, locked by whoever has it open: opening it twice fails.            *)
(***************************************************************************)
EXTENDS Integers, FiniteSets

CONSTANTS
    Workspaces,
    Conns,          \* IPC connections
    Requests,       \* requests, of any transport
    MaxTenants,     \* EvictionPolicy.MaxTenants, 10 in main.go
    IdleTimeout,    \* EvictionPolicy.IdleTimeout, 30 minutes in main.go
    MaxOpens,       \* bound: tenant objects
    MaxClock        \* bound: time

ASSUME TenantAssumption ==
    /\ 0 \notin Workspaces
    /\ MaxTenants \in Nat \ {0}
    /\ IdleTimeout \in Nat
    /\ MaxOpens \in Nat
    /\ MaxClock \in Nat

Objects == 1 .. MaxOpens
Nobody == 0         \* nil, or no entry

VARIABLES
    active,     \* activeTenants: the tenant object of each workspace
    tenants,    \* the tenant objects: workspace, stores open, LastActivity
    made,       \* tenant objects made so far
    conn,       \* activeTenant of each connection
    request,    \* where each request is and the tenant it captured
    unreleased, \* history: tenants that ReleaseTenant failed to close
    clock

tvars == <<active, tenants, made, conn, request, unreleased, clock>>

Unmade == [ws |-> Nobody, vec |-> FALSE, kv |-> FALSE, last |-> 0]

TenantInit ==
    /\ active = [ws \in Workspaces |-> Nobody]
    /\ tenants = [i \in Objects |-> Unmade]
    /\ made = 0
    /\ conn = [c \in Conns |-> Nobody]
    /\ request = [r \in Requests |-> [at |-> "new", tenant |-> Nobody]]
    /\ unreleased = {}
    /\ clock = 0

Mapped == {ws \in Workspaces : active[ws] # Nobody}

\* Files of a workspace that some tenant object has open.
VecLocked(ws) == \E i \in Objects : tenants[i].ws = ws /\ tenants[i].vec
KvLocked(ws)  == \E i \in Objects : tenants[i].ws = ws /\ tenants[i].kv

\* A new tenant object.
Object(ws, isOpen) == [ws |-> ws, vec |-> isOpen, kv |-> isOpen, last |-> clock]

-----------------------------------------------------------------------------
\* A tenant in the map is given out again, and counts as active from now.
GetExisting(ws, i) ==
    /\ active[ws] # Nobody
    /\ i = active[ws]
    /\ tenants' = [tenants EXCEPT ![i].last = clock]
    /\ UNCHANGED <<active, made>>

Room == Cardinality(Mapped) < MaxTenants

NoRoom(ws, i) ==
    /\ active[ws] = Nobody
    /\ ~Room
    /\ i = Nobody
    /\ UNCHANGED <<active, tenants, made>>

\* The directory or the vector store cannot be made or opened.
NoVectorStore(ws, i) ==
    /\ active[ws] = Nobody
    /\ Room
    /\ i = Nobody
    /\ UNCHANGED <<active, tenants, made>>

\* Mutant: the vector store is left open when the KV store cannot be opened.
BugNoKVStore(ws, i) ==
    /\ active[ws] = Nobody
    /\ Room /\ ~VecLocked(ws) /\ made < MaxOpens
    /\ i = Nobody
    /\ made' = made + 1
    /\ tenants' = [tenants EXCEPT ![made'] = [Object(ws, FALSE) EXCEPT !.vec = TRUE]]
    /\ UNCHANGED active

\* The vector store is opened and, when the KV store cannot be, closed again.
NoKVStore(ws, i) ==
    /\ active[ws] = Nobody
    /\ Room /\ ~VecLocked(ws) /\ made < MaxOpens
    /\ i = Nobody
    /\ made' = made + 1
    /\ tenants' = [tenants EXCEPT ![made'] = Object(ws, FALSE)]
    /\ UNCHANGED active

Create(ws, i) ==
    /\ active[ws] = Nobody
    /\ Room /\ ~VecLocked(ws) /\ ~KvLocked(ws) /\ made < MaxOpens
    /\ i = made + 1
    /\ made' = i
    /\ tenants' = [tenants EXCEPT ![i] = Object(ws, TRUE)]
    /\ active' = [active EXCEPT ![ws] = i]

\* The call returns tenant i, or Nobody and an error.
GetOrCreateTenant(ws, i) ==
    \/ GetExisting(ws, i) \/ Create(ws, i)
    \/ NoRoom(ws, i) \/ NoVectorStore(ws, i) \/ NoKVStore(ws, i)

-----------------------------------------------------------------------------
\* workspace.init: on an error the connection stays with the tenant it had.
WorkspaceInit(c, ws) ==
    \E i \in 0 .. MaxOpens :
        /\ GetOrCreateTenant(ws, i)
        /\ conn' = IF i = Nobody THEN conn ELSE [conn EXCEPT ![c] = i]
        /\ UNCHANGED <<request, unreleased, clock>>

\* Requests of a connection go on when it is closed.
Disconnect(c) ==
    /\ conn[c] # Nobody
    /\ conn' = [conn EXCEPT ![c] = Nobody]
    /\ UNCHANGED <<active, tenants, made, request, unreleased, clock>>

Begin(r, i) ==
    /\ request[r].at = "new"
    /\ request' = [request EXCEPT ![r] = IF i = Nobody THEN [at |-> "refused", tenant |-> i]
                                         ELSE [at |-> "running", tenant |-> i]]

\* A command on an IPC connection: its goroutine is given the connection's tenant.
Command(r, c) ==
    /\ Begin(r, conn[c])
    /\ UNCHANGED <<active, tenants, made, conn, unreleased, clock>>

\* GetTenant: the workspace is looked up, LastActivity stays.
HttpRequest(r, ws) ==
    /\ Begin(r, active[ws])
    /\ UNCHANGED <<active, tenants, made, conn, unreleased, clock>>

WebSocketQuery(r, ws) ==
    \E i \in 0 .. MaxOpens :
        /\ GetOrCreateTenant(ws, i)
        /\ Begin(r, i)
        /\ UNCHANGED <<conn, unreleased, clock>>

\* The request gets to its stores, which may be closed by now.
UseStores(r) ==
    /\ request[r].at = "running"
    /\ LET t == tenants[request[r].tenant]
       IN  request' = [request EXCEPT ![r].at = IF t.vec /\ t.kv THEN "served" ELSE "failed"]
    /\ UNCHANGED <<active, tenants, made, conn, unreleased, clock>>

-----------------------------------------------------------------------------
Expired(ws) ==
    active[ws] # Nobody /\ clock - tenants[active[ws]].last > IdleTimeout

\* Mutant: the stores are closed, the entries stay.
BugEvictIdleTenants ==
    /\ \E ws \in Workspaces : Expired(ws)
    /\ tenants' = [i \in Objects |->
           IF \E ws \in Workspaces : Expired(ws) /\ i = active[ws]
           THEN [tenants[i] EXCEPT !.vec = FALSE, !.kv = FALSE]
           ELSE tenants[i]]
    /\ UNCHANGED <<active, made, conn, request, unreleased, clock>>

\* Mutant: tenants that a connection holds are left alone.
BugEvictUnheld ==
    /\ \E ws \in Workspaces : Expired(ws) /\ \A c \in Conns : conn[c] # active[ws]
    /\ tenants' = [i \in Objects |->
           IF \E ws \in Workspaces : Expired(ws) /\ i = active[ws] /\ \A c \in Conns : conn[c] # i
           THEN [tenants[i] EXCEPT !.vec = FALSE, !.kv = FALSE]
           ELSE tenants[i]]
    /\ active' = [ws \in Workspaces |->
           IF Expired(ws) /\ \A c \in Conns : conn[c] # active[ws] THEN Nobody ELSE active[ws]]
    /\ UNCHANGED <<made, conn, request, unreleased, clock>>

\* evictIdleTenants: the stores are closed, errors are ignored, the entries go.
EvictIdleTenants ==
    /\ \E ws \in Workspaces : Expired(ws)
    /\ tenants' = [i \in Objects |->
           IF \E ws \in Workspaces : Expired(ws) /\ i = active[ws]
           THEN [tenants[i] EXCEPT !.vec = FALSE, !.kv = FALSE]
           ELSE tenants[i]]
    /\ active' = [ws \in Workspaces |-> IF Expired(ws) THEN Nobody ELSE active[ws]]
    /\ UNCHANGED <<made, conn, request, unreleased, clock>>

\* ReleaseTenant: an error of either store ends the call before the entry goes,
\* although a BoltDB file that reports an error when closed is closed.
ReleaseTenant(ws) ==
    /\ active[ws] # Nobody
    /\ \/ /\ tenants' = [tenants EXCEPT ![active[ws]].vec = FALSE, ![active[ws]].kv = FALSE]
          /\ active' = [active EXCEPT ![ws] = Nobody]
          /\ UNCHANGED unreleased
       \/ /\ \/ tenants' = [tenants EXCEPT ![active[ws]].vec = FALSE]
             \/ tenants' = [tenants EXCEPT ![active[ws]].vec = FALSE, ![active[ws]].kv = FALSE]
          /\ unreleased' = unreleased \cup {active[ws]}
          /\ UNCHANGED active
    /\ UNCHANGED <<made, conn, request, clock>>

Tick ==
    /\ clock < MaxClock
    /\ clock' = clock + 1
    /\ UNCHANGED <<active, tenants, made, conn, request, unreleased>>

TenantNext ==
    \/ \E c \in Conns, ws \in Workspaces : WorkspaceInit(c, ws)
    \/ \E c \in Conns : Disconnect(c)
    \/ \E r \in Requests, c \in Conns : Command(r, c)
    \/ \E r \in Requests, ws \in Workspaces : HttpRequest(r, ws) \/ WebSocketQuery(r, ws)
    \/ \E r \in Requests : UseStores(r)
    \/ \E ws \in Workspaces : ReleaseTenant(ws)
    \/ EvictIdleTenants \/ Tick

TenantSpec == TenantInit /\ [][TenantNext]_tvars

\* The ticker of StartEvictionRoutine.
FairTenantSpec == TenantSpec /\ WF_tvars(EvictIdleTenants)

-----------------------------------------------------------------------------
\* The store of no workspace is left open by an object that is not in the map:
\* nobody would close it, and its lock would keep the workspace from opening.
OpenAreMapped ==
    \A i \in Objects : tenants[i].vec \/ tenants[i].kv =>
        tenants[i].ws # Nobody /\ active[tenants[i].ws] = i

\* A tenant in the map has both stores open, so that whoever is given it now can
\* be served; but one that ReleaseTenant failed to close is given out for ever.
MappedAreOpen ==
    \A ws \in Mapped : LET t == tenants[active[ws]]
                       IN  t.ws = ws /\ ((t.vec /\ t.kv) \/ active[ws] \in unreleased)

\* A tenant past its idle timeout is evicted unless a client comes back first,
\* whatever requests still hold it.
IdleAreEvicted ==
    \A ws \in Workspaces : Expired(ws) ~> ~Expired(ws)
=============================================================================
