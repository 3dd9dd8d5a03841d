-------------------------- MODULE IpcChannelProofs --------------------------
(***************************************************************************)
(* Proofs about the IPC channel, for any number of clients, whatever they  *)
(* run and find: calls are remote calls as RemoteCalls has them, and only  *)
(* what has opened a workspace is served.                                  *)
(***************************************************************************)
EXTENDS IpcChannelProps, SequenceTheorems, TLAPS

Numbers == 1 .. MaxStep
Frames  == [type : {"response"}, call : Numbers, ok : BOOLEAN] \cup [type : {"event"}]
Answers == [call : Numbers, ok : BOOLEAN]

\* Call n of c has been made.
Sent(c, n) == n <= Len(outcome[c]) \/ n \in pending[c] \cup {a.call : a \in answers[c]}

FixedInv == \A c \in Clients : command[c] \in DOMAIN Script /\ token[c] \in {"current", "stale", "missing"}

TypeInv ==
    /\ FixedInv
    /\ at \in [Clients -> {"start", "ready", "waiting", "listening", "done"}]
    /\ step \in [Clients -> Nat]
    /\ pending \in [Clients -> SUBSET Numbers]
    /\ answers \in [Clients -> SUBSET Answers]
    /\ toServer \in [Clients -> Seq(Numbers)]
    /\ toClient \in [Clients -> Seq(Frames)]
    /\ authorized \in [Clients -> BOOLEAN]
    /\ tenant \in [Clients -> BOOLEAN]
    /\ running \subseteq [client : Clients, call : Numbers, place : {"handler", "reply"}, ok : BOOLEAN]
    /\ outcome \in [Clients -> Seq(BOOLEAN)]
    /\ runs \in [Calls -> {0, 1}]

Methods == {"ipc.auth", "workspace.init", "workspace.query", "models.list", "workspace.embed.start", "fs/completion"}

LEMMA ScriptShape ==
    ASSUME NEW m \in DOMAIN Script
    PROVE  /\ Script[m] \in Seq(Methods) /\ Len(Script[m]) \in Nat /\ Len(Script[m]) <= 2
           /\ Len(Script[m]) > 0 => Script[m][1] = "workspace.init" \/ m = "chat"
           /\ m = "chat" => Len(Script[m]) = 1 /\ Script[m][1] = "workspace.query"
           /\ Len(Script[m]) = 2 => Script[m][2] # "workspace.init"
<1>1. m \in {"ask", "models", "embed", "submit", "chat", "status", "caller"}
  BY DEF Script
<1>2. \A x, y \in Methods : <<x, y>> \in Seq(Methods) /\ Len(<<x, y>>) = 2 /\ <<x, y>>[1] = x /\ <<x, y>>[2] = y
  OBVIOUS
<1>3. CASE m \in {"ask", "models", "embed", "submit", "caller"}
  <2>1. PICK y \in Methods \ {"workspace.init"} : Script[m] = <<"workspace.init", y>>
    BY <1>3 DEF Script, Methods
  <2>2. "workspace.init" \in Methods
    BY DEF Methods
  <2> QED BY <1>2, <1>3, <2>1, <2>2
<1>4. CASE m = "chat"
  <2>1. Script[m] = <<"workspace.query">>
    BY <1>4 DEF Script
  <2>2. "workspace.query" \in Methods
    BY DEF Methods
  <2> QED BY <1>4, <2>1, <2>2
<1>5. CASE m = "status"
  <2>1. Script[m] = << >>
    BY <1>5 DEF Script
  <2> QED BY <1>5, <2>1
<1> QED BY <1>1, <1>3, <1>4, <1>5

LEMMA CallsShape ==
    ASSUME NEW c \in Clients, FixedInv
    PROVE  /\ CallsOf(c) \in Seq(Methods)
           /\ Len(CallsOf(c)) \in Nat /\ Len(CallsOf(c)) <= 3
           /\ \A i, n \in 1 .. Len(CallsOf(c)) :
                 token[c] = "current" /\ Method(c, i) = "workspace.init" /\ Method(c, n) \notin {"ipc.auth", "workspace.init"}
                 => i < n /\ command[c] # "chat"
<1> DEFINE s == Script[command[c]]
<1>1. command[c] \in DOMAIN Script
  BY DEF FixedInv
<1>2. /\ s \in Seq(Methods) /\ Len(s) \in Nat /\ Len(s) <= 2
      /\ Len(s) > 0 => s[1] = "workspace.init" \/ command[c] = "chat"
      /\ command[c] = "chat" => Len(s) = 1 /\ s[1] = "workspace.query"
      /\ Len(s) = 2 => s[2] # "workspace.init"
  BY <1>1, ScriptShape
<1>3. CASE token[c] = "missing"
  <2>1. CallsOf(c) = << >> \o s
    BY <1>3 DEF CallsOf
  <2> HIDE DEF s
  <2>2. CallsOf(c) = s
    BY <1>2, <2>1, ConcatEmptySeq
  <2>3. token[c] # "current"
    BY <1>3
  <2> QED BY <1>2, <2>2, <2>3
<1>4. CASE token[c] # "missing"
  <2> DEFINE a == <<"ipc.auth">>
  <2>1. CallsOf(c) = a \o s
    BY <1>4 DEF CallsOf
  <2>2. a \in Seq(Methods) /\ Len(a) = 1 /\ a[1] = "ipc.auth"
    BY DEF Methods
  <2> HIDE DEF s, a
  <2>3. /\ CallsOf(c) \in Seq(Methods) /\ Len(CallsOf(c)) = 1 + Len(s)
        /\ \A i \in 1 .. 1 + Len(s) : CallsOf(c)[i] = IF i <= 1 THEN a[i] ELSE s[i - 1]
    <3>1. s \in Seq(Methods)
      BY <1>2
    <3>2. /\ a \o s \in Seq(Methods) /\ Len(a \o s) = Len(a) + Len(s)
          /\ \A i \in 1 .. Len(a) + Len(s) : (a \o s)[i] = IF i <= Len(a) THEN a[i] ELSE s[i - Len(a)]
      BY <3>1, <2>2, ConcatProperties
    <3>3. Len(a) = 1
      BY <2>2
    <3> QED BY <3>2, <3>3, <2>1
  <2>4. SUFFICES ASSUME NEW i \in 1 .. Len(CallsOf(c)), NEW n \in 1 .. Len(CallsOf(c)),
                        Method(c, i) = "workspace.init", Method(c, n) \notin {"ipc.auth", "workspace.init"}
                 PROVE  i < n /\ command[c] # "chat"
    BY <1>2, <2>3 DEF MaxStep
  <2>5. i # 1 /\ n # 1
    BY <2>2, <2>3, <2>4 DEF Method
  <2>6. s[i - 1] = "workspace.init" /\ s[n - 1] # "workspace.init"
    BY <2>3, <2>4, <2>5 DEF Method
  <2> QED BY <1>2, <2>3, <2>5, <2>6
<1> QED BY <1>3, <1>4

-----------------------------------------------------------------------------
\* The invariant.  Handshake needs no workspace.

Handshake == {"ipc.auth", "workspace.init"}

\* Calls are made one after another; the answers that are kept are of calls that ended,
\* or of the one that waits.
ClientInv(c) ==
    /\ Len(outcome[c]) = step[c] - 1
    /\ step[c] <= Len(CallsOf(c)) + 1
    /\ at[c] = "waiting" => step[c] <= Len(CallsOf(c))
    /\ pending[c] \subseteq {step[c]}
    /\ \A a \in answers[c] : a.call <= step[c] /\ a.call \notin pending[c] /\ (a.ok => runs[<<c, a.call>>] = 1)
    /\ at[c] \notin {"waiting", "done"} => pending[c] = {} /\ \A a \in answers[c] : a.call < step[c]
    /\ \A n \in 1 .. Len(outcome[c]) : outcome[c][n] => runs[<<c, n>>] = 1

\* What has not been read has not run.
Unread(c) ==
    \A i \in 1 .. Len(toServer[c]) :
        /\ toServer[c][i] \in 1 .. Len(CallsOf(c))
        /\ Sent(c, toServer[c][i])
        /\ runs[<<c, toServer[c][i]>>] = 0

Ran(c) == \A n \in Numbers : runs[<<c, n>>] = 1 => Sent(c, n)

InOrder(c) == \A i, j \in 1 .. Len(toServer[c]) : i < j => toServer[c][i] < toServer[c][j]

Honest(c, msg) == msg.type = "response" /\ msg.ok => runs[<<c, msg.call>>] = 1

WireInv(c) == Unread(c) /\ Ran(c) /\ InOrder(c) /\ \A i \in 1 .. Len(toClient[c]) : Honest(c, toClient[c][i])

\* A call has one request, which has not run before it is answered.
RequestInv(r) ==
    /\ r.call \in 1 .. Len(CallsOf(r.client))
    /\ Sent(r.client, r.call)
    /\ r.place = "handler" => runs[<<r.client, r.call>>] = 0
    /\ r.ok => r.place = "reply" /\ runs[<<r.client, r.call>>] = 1
    /\ \A i \in 1 .. Len(toServer[r.client]) : toServer[r.client][i] # r.call
    /\ \A q \in running : q.client = r.client /\ q.call = r.call => q = r

\* A connection with a workspace has run its workspace.init, and nothing else is served.
ServedInv(c) ==
    /\ authorized[c] => token[c] = "current"
    /\ tenant[c] => authorized[c] /\ \E i \in 1 .. Len(CallsOf(c)) : Method(c, i) = "workspace.init" /\ runs[<<c, i>>] = 1
    /\ \A r \in running : r.client = c => tenant[c] /\ Method(c, r.call) \notin Handshake
    /\ \A n \in Numbers : runs[<<c, n>>] = 1 => n \in 1 .. Len(CallsOf(c)) /\ (Method(c, n) \in Handshake \/ tenant[c])

Inv ==
    /\ TypeInv
    /\ \A c \in Clients : ClientInv(c) /\ WireInv(c) /\ ServedInv(c)
    /\ \A r \in running : RequestInv(r)

LEMMA InvInit == Init => Inv
<1> SUFFICES ASSUME Init PROVE Inv
  OBVIOUS
<1>1. TypeInv
  <2>1. FixedInv
    BY SettingsAssumption DEF Init, FixedInv
  <2> QED BY <2>1 DEF Init, TypeInv, Calls, Numbers
<1>2. ASSUME NEW c \in Clients PROVE ClientInv(c) /\ WireInv(c) /\ ServedInv(c)
  <2>1. Len(CallsOf(c)) \in Nat
    BY <1>1, CallsShape DEF TypeInv, MaxStep
  <2>2. outcome[c] = << >> /\ toServer[c] = << >> /\ toClient[c] = << >> /\ Len(<< >>) = 0
    BY DEF Init
  <2>3. \A n \in Numbers : runs[<<c, n>>] = 0
    BY DEF Init, Numbers
  <2>4. ClientInv(c)
    BY <2>1, <2>2 DEF Init, ClientInv
  <2>5. WireInv(c)
    BY <2>2, <2>3 DEF WireInv, Unread, Ran, InOrder
  <2> QED BY <2>3, <2>4, <2>5 DEF Init, ServedInv
<1>3. \A r \in running : RequestInv(r)
  BY DEF Init
<1> QED BY <1>1, <1>2, <1>3 DEF Inv

-----------------------------------------------------------------------------
\* What a step leaves alone.

LEMMA FixedKept ==
    ASSUME UNCHANGED fixed
    PROVE  /\ FixedInv => FixedInv'
           /\ \A c \in Clients : CallsOf(c)' = CallsOf(c) /\ \A n : Method(c, n)' = Method(c, n)
  BY DEF fixed, FixedInv, CallsOf, Method

RunsGrow == \A k \in Calls : runs[k] = 1 => runs'[k] = 1

LEMMA ClientKept ==
    ASSUME NEW c \in Clients, Inv, TypeInv', UNCHANGED fixed, RunsGrow,
           UNCHANGED <<step[c], pending[c], answers[c], outcome[c]>>,
           \/ at'[c] \in {at[c], "done"}
           \/ at[c] \notin {"waiting", "done"} /\ at'[c] # "waiting"
    PROVE  ClientInv(c)'
<1>1. ClientInv(c) /\ TypeInv
  BY DEF Inv
<1>2. CallsOf(c)' = CallsOf(c) /\ Len(CallsOf(c)) \in Nat /\ Len(CallsOf(c)) <= 3
  BY <1>1, FixedKept, CallsShape DEF TypeInv
<1>3. \A n \in Numbers : runs[<<c, n>>] = 1 => runs'[<<c, n>>] = 1
  BY DEF RunsGrow, Calls, Numbers
<1>4. answers[c] \subseteq Answers /\ Len(outcome[c]) \in Nat /\ step[c] \in Nat
  BY <1>1 DEF TypeInv
<1>5. \A a \in answers[c] : a.call \in Numbers
  BY <1>4 DEF Answers
<1>6. \A n \in 1 .. Len(outcome[c]) : n \in Numbers
  <2>1. Len(outcome[c]) <= 3
    BY <1>1, <1>2, <1>4 DEF ClientInv
  <2> QED BY <1>4, <2>1 DEF Numbers, MaxStep
<1>7. \A n \in 1 .. Len(outcome[c]) : outcome[c][n] => runs'[<<c, n>>] = 1
  BY <1>1, <1>3, <1>6 DEF ClientInv
<1>8. \A a \in answers[c] : a.call <= step[c] /\ a.call \notin pending[c] /\ (a.ok => runs'[<<c, a.call>>] = 1)
  BY <1>1, <1>3, <1>5 DEF ClientInv
<1> QED BY <1>1, <1>2, <1>7, <1>8 DEF ClientInv

LEMMA SentKept ==
    ASSUME NEW c \in Clients, UNCHANGED <<pending, answers, outcome>>, NEW n
    PROVE  Sent(c, n)' <=> Sent(c, n)
  BY DEF Sent

LEMMA UnreadKept ==
    ASSUME NEW c \in Clients, Inv, UNCHANGED <<fixed, runs>>, toServer'[c] = toServer[c],
           \A n \in Numbers : Sent(c, n) => Sent(c, n)'
    PROVE  Unread(c)' /\ Ran(c)' /\ InOrder(c)'
<1>1. Unread(c) /\ Ran(c) /\ InOrder(c) /\ toServer[c] \in Seq(Numbers) /\ CallsOf(c)' = CallsOf(c)
  BY FixedKept DEF Inv, WireInv, TypeInv
<1>2. \A i \in 1 .. Len(toServer[c]) : toServer[c][i] \in Numbers
  BY <1>1
<1> QED BY <1>1, <1>2 DEF Unread, Ran, InOrder

LEMMA RequestsKept ==
    ASSUME Inv, UNCHANGED <<fixed, toServer, runs>>, running' \subseteq running,
           \A c \in Clients : \A n \in Numbers : Sent(c, n) => Sent(c, n)'
    PROVE  \A r \in running' : RequestInv(r)'
<1> SUFFICES ASSUME NEW r \in running' PROVE RequestInv(r)'
  OBVIOUS
<1>1. RequestInv(r) /\ r.client \in Clients /\ r.call \in Numbers /\ CallsOf(r.client)' = CallsOf(r.client)
  BY FixedKept DEF Inv, TypeInv
<1> QED BY <1>1 DEF RequestInv

LEMMA ServedKept ==
    ASSUME NEW c \in Clients, Inv, UNCHANGED <<fixed, authorized, tenant, runs>>, running' \subseteq running
    PROVE  ServedInv(c)'
<1>1. ServedInv(c) /\ CallsOf(c)' = CallsOf(c) /\ token' = token
  BY FixedKept DEF Inv, fixed
<1>2. \A n : Method(c, n)' = Method(c, n)
  BY FixedKept
<1> QED BY <1>1, <1>2 DEF ServedInv

\* The frames to c, as they are honest after a step.
HonestAfter(c, s) == \A i \in 1 .. Len(s) : s[i].type = "response" /\ s[i].ok => runs'[<<c, s[i].call>>] = 1

\* A step that makes no call, ends none, and runs nothing.
LEMMA QuietStep ==
    ASSUME Inv, TypeInv',
           UNCHANGED <<fixed, step, pending, answers, outcome, toServer, authorized, tenant, runs>>,
           running' \subseteq running,
           \A c \in Clients : \/ at'[c] \in {at[c], "done"}
                              \/ at[c] \notin {"waiting", "done"} /\ at'[c] # "waiting",
           \A c \in Clients : HonestAfter(c, toClient'[c])
    PROVE  Inv'
<1>1. \A c \in Clients : \A n : Sent(c, n)' <=> Sent(c, n)
  BY SentKept
<1>2. \A c \in Clients : Unread(c)' /\ Ran(c)' /\ InOrder(c)'
  BY <1>1, UnreadKept
<1>3. \A r \in running' : RequestInv(r)'
  BY <1>1, RequestsKept
<1>4. \A c \in Clients : ServedInv(c)'
  BY ServedKept
<1>5. RunsGrow
  BY DEF RunsGrow
<1>6. \A c \in Clients : ClientInv(c)'
  BY <1>5, ClientKept
<1>7. \A c \in Clients : \A i \in 1 .. Len(toClient'[c]) : Honest(c, toClient[c][i])'
  BY DEF Honest, HonestAfter
<1> QED BY <1>2, <1>3, <1>4, <1>6, <1>7 DEF Inv, WireInv

-----------------------------------------------------------------------------
\* Frames that are written and read.

LEMMA TailAfter ==
    ASSUME NEW c, NEW s \in Seq(Frames), s # << >>, HonestAfter(c, s)
    PROVE  /\ Tail(s) \in Seq(Frames) /\ HonestAfter(c, Tail(s))
           /\ Head(s) \in Frames
           /\ Head(s).type = "response" /\ Head(s).ok => runs'[<<c, Head(s).call>>] = 1
<1> HIDE DEF Frames
<1>1. /\ Tail(s) \in Seq(Frames) /\ Len(Tail(s)) = Len(s) - 1 /\ Len(s) \in Nat /\ Len(s) > 0
      /\ \A i \in 1 .. Len(Tail(s)) : Tail(s)[i] = s[i + 1]
      /\ Head(s) = s[1] /\ s[1] \in Frames
  BY HeadTailProperties
<1> QED BY <1>1 DEF HonestAfter

LEMMA EventAfter ==
    ASSUME NEW c, NEW s \in Seq(Frames), HonestAfter(c, s)
    PROVE  Append(s, [type |-> "event"]) \in Seq(Frames) /\ HonestAfter(c, Append(s, [type |-> "event"]))
<1> DEFINE m == [type |-> "event"]
<1>1. m \in Frames /\ m.type # "response"
  BY DEF Frames
<1> HIDE DEF Frames, m
<1>2. /\ Append(s, m) \in Seq(Frames) /\ Len(Append(s, m)) = Len(s) + 1 /\ Len(s) \in Nat
      /\ \A i \in 1 .. Len(s) : Append(s, m)[i] = s[i]
      /\ Append(s, m)[Len(s) + 1] = m
  BY <1>1, AppendProperties
<1>3. HonestAfter(c, Append(s, m))
  BY <1>1, <1>2 DEF HonestAfter
<1> QED BY <1>2, <1>3 DEF m

LEMMA HonestGrows ==
    ASSUME NEW c \in Clients, NEW s \in Seq(Frames), RunsGrow, \A i \in 1 .. Len(s) : Honest(c, s[i])
    PROVE  HonestAfter(c, s)
<1> SUFFICES ASSUME NEW i \in 1 .. Len(s), s[i].type = "response", s[i].ok PROVE runs'[<<c, s[i].call>>] = 1
  BY DEF HonestAfter
<1>1. s[i] \in Frames
  OBVIOUS
<1>2. s[i].call \in Numbers
  BY <1>1 DEF Frames
<1>3. runs[<<c, s[i].call>>] = 1
  BY DEF Honest
<1> QED BY <1>2, <1>3 DEF RunsGrow, Calls, Numbers

LEMMA AppendAfter ==
    ASSUME NEW c \in Clients, NEW s \in Seq(Frames), HonestAfter(c, s), NEW n \in Numbers, NEW ok \in BOOLEAN,
           ok => runs'[<<c, n>>] = 1
    PROVE  /\ Append(s, Response(n, ok)) \in Seq(Frames)
           /\ HonestAfter(c, Append(s, Response(n, ok)))
<1> DEFINE m == Response(n, ok)
<1>1. m \in Frames /\ m.type = "response" /\ m.ok = ok /\ m.call = n
  BY DEF Response, Frames
<1> HIDE DEF m, Frames
<1>2. /\ Append(s, m) \in Seq(Frames) /\ Len(Append(s, m)) = Len(s) + 1 /\ Len(s) \in Nat
      /\ \A i \in 1 .. Len(s) : Append(s, m)[i] = s[i]
      /\ Append(s, m)[Len(s) + 1] = m
  BY <1>1, AppendProperties
<1>3. ASSUME NEW i \in 1 .. Len(s) + 1
      PROVE  Append(s, m)[i].type = "response" /\ Append(s, m)[i].ok => runs'[<<c, Append(s, m)[i].call>>] = 1
  <2>1. CASE i \in 1 .. Len(s)
    BY <1>2, <2>1 DEF HonestAfter
  <2>2. CASE i = Len(s) + 1
    BY <1>1, <1>2, <2>2
  <2>3. Len(s) \in Nat
    BY <1>2
  <2>4. i \in 1 .. Len(s) \/ i = Len(s) + 1
    BY <2>3
  <2> QED BY <2>1, <2>2, <2>4
<1>4. HonestAfter(c, Append(s, m))
  BY <1>2, <1>3 DEF HonestAfter
<1> QED BY <1>2, <1>4 DEF m

\* A response that is written keeps the frames honest.
LEMMA ReplyIsHonest ==
    ASSUME Inv, NEW c \in Clients, NEW n \in Numbers, NEW ok \in BOOLEAN, Reply(c, n, ok),
           ok => runs'[<<c, n>>] = 1, RunsGrow
    PROVE  /\ toClient' \in [Clients -> Seq(Frames)]
           /\ \A d \in Clients : HonestAfter(d, toClient'[d])
<1>1. toClient \in [Clients -> Seq(Frames)] /\ \A d \in Clients : HonestAfter(d, toClient[d])
  BY HonestGrows DEF Inv, TypeInv, WireInv
<1>2. /\ Append(toClient[c], Response(n, ok)) \in Seq(Frames)
      /\ HonestAfter(c, Append(toClient[c], Response(n, ok)))
  BY <1>1, AppendAfter
<1>3. \/ toClient' = toClient
      \/ toClient' = [toClient EXCEPT ![c] = Append(toClient[c], Response(n, ok))]
  BY DEF Reply
<1>4. CASE toClient' = toClient
  BY <1>1, <1>4
<1>5. CASE toClient' = [toClient EXCEPT ![c] = Append(toClient[c], Response(n, ok))]
  <2>1. toClient' \in [Clients -> Seq(Frames)]
    BY <1>1, <1>2, <1>5
  <2>2. \A d \in Clients : toClient'[d] = IF d = c THEN Append(toClient[c], Response(n, ok)) ELSE toClient[d]
    BY <1>1, <1>5
  <2> QED BY <1>1, <1>2, <2>1, <2>2
<1> QED BY <1>3, <1>4, <1>5

-----------------------------------------------------------------------------
\* The steps that make no call, end none and run nothing.

QuietClient(c) == Connect(c) \/ Finish(c)
QuietServer(c) == Accept(c) \/ Register(c) \/ EndOfInput(c)

LEMMA FramesKept ==
    ASSUME Inv, UNCHANGED <<runs, toClient>>
    PROVE  \A c \in Clients : HonestAfter(c, toClient'[c])
<1>1. RunsGrow
  BY DEF RunsGrow
<1> QED BY <1>1, HonestGrows DEF Inv, TypeInv, WireInv

LEMMA ClientQuiet == ASSUME Inv, NEW c \in Clients, QuietClient(c) PROVE Inv'
<1> USE DEF client, wire, server, daemon
<1>1. /\ UNCHANGED <<fixed, step, pending, answers, outcome, toServer, toClient, authorized, tenant, runs, running>>
      /\ \E to \in {"ready", "done", "listening"} : at' = [at EXCEPT ![c] = to]
      /\ at[c] \in {"start", "ready"}
  BY DEF QuietClient, Connect, Finish, Exits
<1>2. FixedInv'
  BY <1>1, FixedKept DEF Inv, TypeInv
<1>3. TypeInv'
  BY <1>1, <1>2 DEF Inv, TypeInv
<1>4. \A d \in Clients : \/ at'[d] \in {at[d], "done"}
                         \/ at[d] \notin {"waiting", "done"} /\ at'[d] # "waiting"
  BY <1>1 DEF Inv, TypeInv
<1>5. \A d \in Clients : HonestAfter(d, toClient'[d])
  BY <1>1, FramesKept
<1> QED BY <1>1, <1>3, <1>4, <1>5, QuietStep

LEMMA ServerQuiet ==
    ASSUME Inv, UNCHANGED <<client, toServer, toClient, authorized, tenant, runs, fixed>>, running' \subseteq running
    PROVE  Inv'
<1> USE DEF client
<1>1. FixedInv'
  BY FixedKept DEF Inv, TypeInv
<1>2. TypeInv'
  BY <1>1 DEF Inv, TypeInv
<1>3. \A d \in Clients : HonestAfter(d, toClient'[d])
  BY FramesKept
<1> QED BY <1>2, <1>3, QuietStep

LEMMA BroadcastQuiet ==
    ASSUME Inv, Broadcast, UNCHANGED <<client, toServer, authorized, tenant, running, runs, fixed>>
    PROVE  Inv'
<1> USE DEF client
<1>1. FixedInv'
  BY FixedKept DEF Inv, TypeInv
<1>2. RunsGrow
  BY DEF RunsGrow
<1>3. \A d \in Clients : toClient[d] \in Seq(Frames) /\ HonestAfter(d, toClient[d])
  BY <1>2, HonestGrows DEF Inv, TypeInv, WireInv
<1>4. \A d \in Clients : toClient'[d] \in {toClient[d], Append(toClient[d], [type |-> "event"])}
  BY DEF Broadcast
<1>5. \A d \in Clients : toClient'[d] \in Seq(Frames) /\ HonestAfter(d, toClient'[d])
  BY <1>3, <1>4, EventAfter
<1>6. toClient' \in [Clients -> Seq(Frames)]
  BY <1>5 DEF Broadcast
<1>7. TypeInv'
  BY <1>1, <1>6 DEF Inv, TypeInv
<1> QED BY <1>5, <1>7, QuietStep

LEMMA JobQuiet == ASSUME Inv, NEW j \in jobs, Claim(j) \/ Complete(j) \/ Unclaim(j) \/ Spin(j) PROVE Inv'
<1> USE DEF wire
<1>1. UNCHANGED <<client, toServer, authorized, tenant, running, runs, fixed>>
  BY DEF Claim, Complete, Unclaim, Spin
<1>2. Broadcast \/ UNCHANGED toClient
  BY DEF Claim, Complete, Unclaim, Spin
<1> QED BY <1>1, <1>2, BroadcastQuiet, ServerQuiet

LEMMA ReplyQuiet == ASSUME Inv, NEW r \in running, WriteReply(r) PROVE Inv'
<1> USE DEF client
<1>1. /\ r.client \in Clients /\ r.call \in Numbers /\ r.ok \in BOOLEAN
      /\ r.ok => runs[<<r.client, r.call>>] = 1
  BY DEF Inv, TypeInv, RequestInv
<1>2. /\ UNCHANGED <<fixed, at, step, pending, answers, outcome, toServer, authorized, tenant, runs>>
      /\ running' \subseteq running
      /\ Reply(r.client, r.call, r.ok)
  BY DEF WriteReply
<1>3. RunsGrow
  BY <1>2 DEF RunsGrow
<1>4. /\ toClient' \in [Clients -> Seq(Frames)]
      /\ \A d \in Clients : HonestAfter(d, toClient'[d])
  BY <1>1, <1>2, <1>3, ReplyIsHonest
<1>5. FixedInv'
  BY <1>2, FixedKept DEF Inv, TypeInv
<1>6. TypeInv'
  BY <1>2, <1>4, <1>5 DEF Inv, TypeInv
<1> QED BY <1>2, <1>4, <1>6, QuietStep

-----------------------------------------------------------------------------
\* The steps of a call at its client.

\* A client's step that leaves its requests to the server alone.
LEMMA CallStep ==
    ASSUME Inv, TypeInv', NEW c \in Clients,
           UNCHANGED <<fixed, toServer, authorized, tenant, running, runs>>,
           \A d \in Clients \ {c} : UNCHANGED <<at[d], step[d], pending[d], answers[d], outcome[d]>>,
           ClientInv(c)', \A n \in Numbers : Sent(c, n) => Sent(c, n)',
           \A d \in Clients : HonestAfter(d, toClient'[d])
    PROVE  Inv'
<1>1. \A d \in Clients : \A n \in Numbers : Sent(d, n) => Sent(d, n)'
  <2> SUFFICES ASSUME NEW d \in Clients \ {c}, NEW n \in Numbers, Sent(d, n) PROVE Sent(d, n)'
    OBVIOUS
  <2> QED BY DEF Sent
<1>2. \A d \in Clients : Unread(d)' /\ Ran(d)' /\ InOrder(d)'
  BY <1>1, UnreadKept
<1>3. \A r \in running' : RequestInv(r)'
  BY <1>1, RequestsKept
<1>4. \A d \in Clients : ServedInv(d)'
  BY ServedKept
<1>5. RunsGrow
  BY DEF RunsGrow
<1>6. \A d \in Clients : ClientInv(d)'
  <2> SUFFICES ASSUME NEW d \in Clients \ {c} PROVE ClientInv(d)'
    OBVIOUS
  <2>1. UNCHANGED <<step[d], pending[d], answers[d], outcome[d]>> /\ at'[d] = at[d]
    OBVIOUS
  <2> QED BY <1>5, <2>1, ClientKept
<1>7. \A d \in Clients : \A i \in 1 .. Len(toClient'[d]) : Honest(d, toClient[d][i])'
  BY DEF Honest, HonestAfter
<1> QED BY <1>2, <1>3, <1>4, <1>6, <1>7 DEF Inv, WireInv

\* What the end of a call of c leaves: types, the other clients' calls, what c has sent.
ClientTypes ==
    /\ at \in [Clients -> {"start", "ready", "waiting", "listening", "done"}]
    /\ step \in [Clients -> Nat] /\ outcome \in [Clients -> Seq(BOOLEAN)]
    /\ pending \in [Clients -> SUBSET Numbers] /\ answers \in [Clients -> SUBSET Answers]

OthersKept(c) ==
    \A d \in Clients \ {c} : UNCHANGED <<at[d], step[d], pending[d], answers[d], outcome[d]>>

SentStays(c) == \A n \in Numbers : Sent(c, n) => Sent(c, n)'

LEMMA EndOfCall ==
    ASSUME Inv, NEW c \in Clients, NEW ok \in BOOLEAN, Ends(c, ok), UNCHANGED <<fixed, runs>>,
           at[c] \in {"ready", "waiting"}, step[c] <= Len(CallsOf(c)), ok => runs[<<c, step[c]>>] = 1,
           pending' = [pending EXCEPT ![c] = {}], answers' \in {answers, [answers EXCEPT ![c] = {}]}
    PROVE  ClientInv(c)' /\ ClientTypes' /\ UNCHANGED <<toServer, toClient>> /\ OthersKept(c) /\ SentStays(c)
<1>1. TypeInv /\ ClientInv(c)
  BY DEF Inv
<1>2. PICK to \in {"ready", "done"} :
         /\ at' = [at EXCEPT ![c] = to]
         /\ UNCHANGED <<toServer, toClient>>
  BY DEF Ends, Exits, wire
<1>3. outcome' = [outcome EXCEPT ![c] = Append(outcome[c], ok)] /\ step' = [step EXCEPT ![c] = step[c] + 1]
  BY DEF Ends
<1>4. outcome[c] \in Seq(BOOLEAN) /\ step[c] \in Nat
  BY <1>1 DEF TypeInv
<1>5. /\ Append(outcome[c], ok) \in Seq(BOOLEAN) /\ Len(Append(outcome[c], ok)) = Len(outcome[c]) + 1
      /\ \A n \in 1 .. Len(outcome[c]) : Append(outcome[c], ok)[n] = outcome[c][n]
      /\ Append(outcome[c], ok)[Len(outcome[c]) + 1] = ok
      /\ Len(outcome[c]) \in Nat
  BY <1>4, AppendProperties
<1>6. /\ at' \in [Clients -> {"start", "ready", "waiting", "listening", "done"}]
      /\ step' \in [Clients -> Nat] /\ outcome' \in [Clients -> Seq(BOOLEAN)]
      /\ pending' \in [Clients -> SUBSET Numbers] /\ answers' \in [Clients -> SUBSET Answers]
      /\ \A d \in Clients \ {c} : UNCHANGED <<at[d], step[d], pending[d], answers[d], outcome[d]>>
  <2>1. at' \in [Clients -> {"start", "ready", "waiting", "listening", "done"}]
    BY <1>1, <1>2 DEF TypeInv
  <2>2. step' \in [Clients -> Nat] /\ outcome' \in [Clients -> Seq(BOOLEAN)]
    BY <1>1, <1>3, <1>4, <1>5 DEF TypeInv
  <2>3. pending' \in [Clients -> SUBSET Numbers] /\ answers' \in [Clients -> SUBSET Answers]
    BY <1>1 DEF TypeInv
  <2>4. ASSUME NEW d \in Clients \ {c} PROVE UNCHANGED <<at[d], step[d], pending[d], answers[d], outcome[d]>>
    BY <1>1, <1>2, <1>3 DEF TypeInv
  <2> QED BY <2>1, <2>2, <2>3, <2>4
<1>7. /\ at'[c] = to /\ step'[c] = step[c] + 1 /\ outcome'[c] = Append(outcome[c], ok)
      /\ pending'[c] = {} /\ answers'[c] \subseteq answers[c]
  BY <1>1, <1>2, <1>3 DEF TypeInv
<1>8. ClientInv(c)'
  <2>1. Len(outcome'[c]) = step'[c] - 1
    BY <1>1, <1>4, <1>5, <1>7 DEF ClientInv
  <2>2. CallsOf(c)' = CallsOf(c) /\ Len(CallsOf(c)) \in Nat
    BY <1>1, FixedKept, CallsShape DEF TypeInv
  <2>3. step'[c] <= Len(CallsOf(c)') + 1
    BY <1>4, <1>7, <2>2
  <2>4. \A a \in answers'[c] : a.call <= step[c] /\ a.call \in Numbers /\ (a.ok => runs'[<<c, a.call>>] = 1)
    BY <1>1, <1>7 DEF ClientInv, TypeInv, Answers
  <2>5. ASSUME NEW a \in answers'[c] PROVE a.call < step'[c] /\ a.call <= step'[c] /\ a.call \notin pending'[c]
    <3>1. a.call <= step[c] /\ a.call \in Numbers
      BY <2>4
    <3>2. a.call \in Nat
      BY <3>1 DEF Numbers, MaxStep
    <3> QED BY <1>4, <1>7, <3>1, <3>2
  <2>6. \A n \in 1 .. Len(outcome'[c]) : outcome'[c][n] => runs'[<<c, n>>] = 1
    <3> SUFFICES ASSUME NEW n \in 1 .. Len(outcome'[c]), outcome'[c][n] PROVE runs'[<<c, n>>] = 1
      OBVIOUS
    <3>1. CASE n \in 1 .. Len(outcome[c])
      BY <3>1, <1>1, <1>5, <1>7 DEF ClientInv
    <3>2. CASE n = Len(outcome[c]) + 1
      <4>1. n = step[c]
        BY <3>2, <1>1, <1>4, <1>5 DEF ClientInv
      <4>2. outcome'[c][n] = ok
        BY <3>2, <1>5, <1>7
      <4> QED BY <4>1, <4>2
    <3> QED BY <3>1, <3>2, <1>5, <1>7
  <2>7. at'[c] # "waiting"
    BY <1>7
  <2> QED BY <1>7, <2>1, <2>3, <2>4, <2>5, <2>6, <2>7 DEF ClientInv
<1>9. \A n \in Numbers : Sent(c, n) => Sent(c, n)'
  <2> SUFFICES ASSUME NEW n \in Numbers, Sent(c, n) PROVE n <= Len(outcome'[c])
    BY DEF Sent
  <2>1. Len(outcome'[c]) = step[c] /\ Len(outcome[c]) = step[c] - 1
    BY <1>1, <1>4, <1>5, <1>7 DEF ClientInv
  <2>2. CASE n <= Len(outcome[c])
    BY <1>4, <2>1, <2>2 DEF Numbers, MaxStep
  <2>3. CASE n \in pending[c]
    BY <1>1, <1>4, <2>1, <2>3 DEF ClientInv
  <2>4. CASE \E a \in answers[c] : a.call = n
    BY <1>1, <2>1, <2>4 DEF ClientInv
  <2> QED BY <2>2, <2>3, <2>4 DEF Sent
<1>10. ClientTypes' /\ OthersKept(c) /\ SentStays(c)
  BY <1>6, <1>9 DEF ClientTypes, OthersKept, SentStays
<1> QED BY <1>2, <1>8, <1>10

LEMMA EndOfCallKeeps ==
    ASSUME Inv, NEW c \in Clients, NEW ok \in BOOLEAN, Ends(c, ok), UNCHANGED <<fixed, authorized, tenant, running, runs>>,
           at[c] \in {"ready", "waiting"}, step[c] <= Len(CallsOf(c)), ok => runs[<<c, step[c]>>] = 1,
           pending' = [pending EXCEPT ![c] = {}], answers' \in {answers, [answers EXCEPT ![c] = {}]}
    PROVE  Inv'
<1>a. UNCHANGED <<fixed, runs>>
  OBVIOUS
<1>b. ClientInv(c)' /\ ClientTypes' /\ UNCHANGED <<toServer, toClient>> /\ OthersKept(c) /\ SentStays(c)
  BY <1>a, EndOfCall
<1>1. /\ ClientInv(c)' /\ UNCHANGED <<toServer, toClient>>
      /\ \A d \in Clients \ {c} : UNCHANGED <<at[d], step[d], pending[d], answers[d], outcome[d]>>
      /\ \A n \in Numbers : Sent(c, n) => Sent(c, n)'
  BY <1>b DEF OthersKept, SentStays
<1>2. TypeInv'
  <2>1. FixedInv'
    BY FixedKept DEF Inv, TypeInv
  <2>2. /\ at' \in [Clients -> {"start", "ready", "waiting", "listening", "done"}]
        /\ step' \in [Clients -> Nat] /\ outcome' \in [Clients -> Seq(BOOLEAN)]
        /\ pending' \in [Clients -> SUBSET Numbers] /\ answers' \in [Clients -> SUBSET Answers]
    BY <1>b DEF ClientTypes
  <2> QED BY <1>1, <2>1, <2>2 DEF Inv, TypeInv
<1>3. \A d \in Clients : HonestAfter(d, toClient'[d])
  BY <1>1, FramesKept
<1> QED BY <1>1, <1>2, <1>3, CallStep
LEMMA AnswerTaken == ASSUME Inv, NEW c \in Clients, TakeAnswer(c) PROVE Inv'
<1> USE DEF server, daemon
<1>0. PICK a \in answers[c] : a.call = step[c] /\ \E ok \in {a.ok, FALSE} : Ends(c, ok)
  BY DEF TakeAnswer
<1>1. PICK ok \in {a.ok, FALSE} : a.call = step[c] /\ Ends(c, ok)
  BY <1>0
<1>2. TypeInv /\ ClientInv(c)
  BY DEF Inv
<1>3. ok \in BOOLEAN
  <2>1. a.ok \in BOOLEAN
    BY <1>2 DEF TypeInv, Answers
  <2>2. ok = a.ok \/ ok = FALSE
    BY Zenon
  <2> QED BY <2>1, <2>2, Zenon
<1>4. /\ at[c] = "waiting" /\ answers' = [answers EXCEPT ![c] = {}]
      /\ UNCHANGED <<pending, fixed, authorized, tenant, running, runs>>
  BY DEF TakeAnswer
<1>5. pending[c] = {} /\ step[c] <= Len(CallsOf(c)) /\ (ok => runs[<<c, step[c]>>] = 1)
  BY <1>1, <1>2, <1>4 DEF ClientInv
<1>6. pending' = [pending EXCEPT ![c] = {}]
  BY <1>2, <1>4, <1>5 DEF TypeInv
<1> QED BY <1>1, <1>3, <1>4, <1>5, <1>6, EndOfCallKeeps

LEMMA CallGivenUp == ASSUME Inv, NEW c \in Clients, GiveUp(c) PROVE Inv'
<1> USE DEF server, daemon
<1>1. TypeInv /\ ClientInv(c)
  BY DEF Inv
<1>2. /\ at[c] = "waiting" /\ answers' = answers /\ Ends(c, FALSE)
      /\ pending' = [pending EXCEPT ![c] = pending[c] \ {step[c]}]
      /\ UNCHANGED <<fixed, authorized, tenant, running, runs>>
  BY DEF GiveUp
<1>3. pending[c] \ {step[c]} = {} /\ step[c] <= Len(CallsOf(c))
  BY <1>1, <1>2 DEF ClientInv
<1> QED BY <1>2, <1>3, EndOfCallKeeps

LEMMA Unsendable == ASSUME Inv, NEW c \in Clients, Send(c), conn[c] = "gone" PROVE Inv'
<1> USE DEF server, daemon
<1>1. TypeInv /\ ClientInv(c)
  BY DEF Inv
<1>2. /\ at[c] = "ready" /\ answers' = answers /\ pending' = pending /\ Ends(c, FALSE) /\ step[c] <= Len(CallsOf(c))
      /\ UNCHANGED <<fixed, authorized, tenant, running, runs>>
  BY DEF Send
<1>3. pending' = [pending EXCEPT ![c] = {}]
  BY <1>1, <1>2 DEF ClientInv, TypeInv
<1> QED BY <1>2, <1>3, EndOfCallKeeps

LEMMA CallSent == ASSUME Inv, NEW c \in Clients, Send(c), conn[c] # "gone" PROVE Inv'
<1> USE DEF server, daemon
<1> DEFINE n == step[c]
<1>1. TypeInv /\ ClientInv(c) /\ WireInv(c)
  BY DEF Inv
<1>2. /\ at[c] = "ready" /\ answers' = answers /\ n <= Len(CallsOf(c))
      /\ pending' = [pending EXCEPT ![c] = pending[c] \cup {n}]
      /\ toServer' = [toServer EXCEPT ![c] = Append(toServer[c], n)]
      /\ at' = [at EXCEPT ![c] = "waiting"]
      /\ UNCHANGED <<step, outcome, toClient, fixed, authorized, tenant, running, runs>>
  BY DEF Send
<1>3. CallsOf(c)' = CallsOf(c) /\ Len(CallsOf(c)) \in Nat /\ Len(CallsOf(c)) <= 3
  BY <1>1, <1>2, FixedKept, CallsShape DEF TypeInv
<1>4. /\ n \in Nat /\ Len(outcome[c]) \in Nat /\ Len(outcome[c]) = n - 1 /\ pending[c] = {}
      /\ \A a \in answers[c] : a.call < n
  BY <1>1, <1>2 DEF TypeInv, ClientInv
<1>5. n \in Numbers /\ n \in 1 .. Len(CallsOf(c))
  BY <1>2, <1>3, <1>4 DEF Numbers, MaxStep
<1>6. ASSUME NEW k \in Numbers, Sent(c, k) PROVE k < n
  <2>1. CASE k <= Len(outcome[c])
    BY <1>4, <2>1 DEF Numbers, MaxStep
  <2>2. CASE \E a \in answers[c] : a.call = k
    BY <1>4, <2>2
  <2> QED BY <1>4, <1>6, <2>1, <2>2 DEF Sent
<1>7. ~ Sent(c, n) /\ runs[<<c, n>>] = 0
  <2>1. ~ Sent(c, n)
    BY <1>4, <1>5, <1>6
  <2>2. runs[<<c, n>>] # 1
    BY <1>1, <1>5, <2>1 DEF WireInv, Ran
  <2> QED BY <1>1, <1>5, <2>1, <2>2 DEF TypeInv, Calls, Numbers
<1>8. Sent(c, n)' /\ \A d \in Clients, k \in Numbers : Sent(d, k) => Sent(d, k)'
  <2>1. n \in pending'[c] /\ \A d \in Clients : pending[d] \subseteq pending'[d]
    BY <1>1, <1>2 DEF TypeInv
  <2> QED BY <1>2, <2>1 DEF Sent
<1>9. TypeInv'
  <2>1. FixedInv'
    BY <1>1, <1>2, FixedKept DEF TypeInv
  <2>2. toServer' \in [Clients -> Seq(Numbers)]
    <3>1. toServer[c] \in Seq(Numbers)
      BY <1>1 DEF TypeInv
    <3>2. Append(toServer[c], n) \in Seq(Numbers)
      BY <1>5, <3>1, AppendProperties
    <3> QED BY <1>1, <1>2, <3>2 DEF TypeInv
  <2>3. pending' \in [Clients -> SUBSET Numbers]
    BY <1>1, <1>2, <1>5 DEF TypeInv
  <2> QED BY <1>1, <1>2, <2>1, <2>2, <2>3 DEF TypeInv
<1>10. RunsGrow
  BY <1>2 DEF RunsGrow
<1>11. ClientInv(c)'
  <2>1. at'[c] = "waiting" /\ pending'[c] = {n}
    BY <1>1, <1>2, <1>4 DEF TypeInv
  <2>2. \A a \in answers[c] : a.call <= n /\ a.call \notin {n} /\ a.call \in Numbers
    <3>1. \A a \in answers[c] : a.call \in Numbers
      BY <1>1 DEF TypeInv, Answers
    <3> QED BY <1>4, <3>1 DEF Numbers, MaxStep
  <2> QED BY <1>1, <1>2, <1>3, <1>4, <2>1, <2>2 DEF ClientInv
<1>12. \A d \in Clients \ {c} : ClientInv(d)'
  <2> SUFFICES ASSUME NEW d \in Clients \ {c} PROVE ClientInv(d)'
    OBVIOUS
  <2>1. UNCHANGED <<step[d], pending[d], answers[d], outcome[d]>> /\ at'[d] = at[d]
    BY <1>1, <1>2 DEF TypeInv
  <2> QED BY <1>2, <1>9, <1>10, <2>1, ClientKept
<1>13. toServer[c] \in Seq(Numbers) /\ toServer'[c] = Append(toServer[c], n)
  BY <1>1, <1>2 DEF TypeInv
<1>14. /\ Len(toServer'[c]) = Len(toServer[c]) + 1 /\ Len(toServer[c]) \in Nat
       /\ \A i \in 1 .. Len(toServer[c]) : toServer'[c][i] = toServer[c][i] /\ toServer[c][i] \in Numbers
       /\ toServer'[c][Len(toServer[c]) + 1] = n
  BY <1>5, <1>13, AppendProperties
<1>15. Unread(c)' /\ Ran(c)' /\ InOrder(c)'
  <2>1. ASSUME NEW i \in 1 .. Len(toServer'[c])
        PROVE  /\ toServer'[c][i] \in 1 .. Len(CallsOf(c)) /\ Sent(c, toServer[c][i])'
               /\ runs'[<<c, toServer'[c][i]>>] = 0
    <3>1. CASE i \in 1 .. Len(toServer[c])
      <4>1. toServer'[c][i] = toServer[c][i] /\ toServer[c][i] \in Numbers
        BY <1>14, <3>1
      <4>2. Sent(c, toServer[c][i]) /\ toServer[c][i] \in 1 .. Len(CallsOf(c)) /\ runs[<<c, toServer[c][i]>>] = 0
        BY <1>1, <3>1 DEF WireInv, Unread
      <4>3. \A k \in Numbers : Sent(c, k) => Sent(c, k)'
        BY <1>8
      <4>4. ASSUME NEW k \in Numbers, Sent(c, k)', k = toServer'[c][i] PROVE Sent(c, toServer[c][i])'
        BY <4>4 DEF Sent
      <4> QED BY <1>2, <4>1, <4>2, <4>3, <4>4
    <3>2. CASE i = Len(toServer[c]) + 1
      <4>1. toServer'[c][i] = n
        BY <1>14, <3>2
      <4>2. n <= Len(outcome'[c]) \/ n \in pending'[c] \cup {a.call : a \in answers'[c]}
        BY <1>2, <1>8 DEF Sent
      <4>3. Sent(c, toServer[c][i])'
        BY <4>1, <4>2 DEF Sent
      <4> QED BY <1>2, <1>5, <1>7, <4>1, <4>3
    <3> QED BY <1>14, <3>1, <3>2
  <2>2. Unread(c)'
    BY <1>3, <2>1 DEF Unread
  <2>3. Ran(c)'
    BY <1>1, <1>2, <1>8 DEF WireInv, Ran
  <2>4. ASSUME NEW i \in 1 .. Len(toServer'[c]), NEW j \in 1 .. Len(toServer'[c]), i < j
        PROVE  toServer'[c][i] < toServer'[c][j]
    <3>1. i \in 1 .. Len(toServer[c])
      BY <1>14, <2>4
    <3>2. toServer'[c][i] = toServer[c][i] /\ Sent(c, toServer[c][i]) /\ toServer[c][i] \in Numbers
      BY <1>1, <1>14, <3>1 DEF WireInv, Unread
    <3>3. CASE j \in 1 .. Len(toServer[c])
      BY <1>1, <1>14, <2>4, <3>1, <3>3 DEF WireInv, InOrder
    <3>4. CASE j = Len(toServer[c]) + 1
      BY <1>6, <1>14, <3>2, <3>4
    <3> QED BY <1>14, <3>3, <3>4
  <2>5. InOrder(c)'
    BY <2>4 DEF InOrder
  <2> QED BY <2>2, <2>3, <2>5
<1>16. \A d \in Clients \ {c} : Unread(d)' /\ Ran(d)' /\ InOrder(d)'
  <2> SUFFICES ASSUME NEW d \in Clients \ {c} PROVE Unread(d)' /\ Ran(d)' /\ InOrder(d)'
    OBVIOUS
  <2>1. toServer'[d] = toServer[d]
    BY <1>1, <1>2 DEF TypeInv
  <2> QED BY <1>2, <1>8, <2>1, UnreadKept
<1>17. \A r \in running' : RequestInv(r)'
  <2> SUFFICES ASSUME NEW r \in running PROVE RequestInv(r)'
    BY <1>2
  <2>1. RequestInv(r) /\ r.client \in Clients /\ r.call \in Numbers
    BY <1>1 DEF Inv, TypeInv
  <2>2. CallsOf(r.client)' = CallsOf(r.client) /\ Sent(r.client, r.call)'
    BY <1>2, <1>8, <2>1, FixedKept DEF RequestInv
  <2>3. \A i \in 1 .. Len(toServer'[r.client]) : toServer'[r.client][i] # r.call
    <3>1. CASE r.client = c
      <4>1. Sent(c, r.call) /\ r.call \in Numbers
            /\ \A i \in 1 .. Len(toServer[c]) : toServer[c][i] # r.call
        BY <2>1, <3>1 DEF RequestInv
      <4>2. r.call # n
        BY <1>7, <4>1
      <4>3. ASSUME NEW i \in 1 .. Len(toServer'[c]) PROVE toServer'[c][i] # r.call
        <5>1. CASE i \in 1 .. Len(toServer[c])
          BY <1>14, <4>1, <5>1
        <5>2. CASE i = Len(toServer[c]) + 1
          BY <1>14, <4>2, <5>2
        <5> QED BY <1>14, <5>1, <5>2
      <4> QED BY <3>1, <4>3
    <3>2. CASE r.client # c
      <4>1. toServer'[r.client] = toServer[r.client]
        BY <1>1, <1>2, <2>1, <3>2 DEF TypeInv
      <4> QED BY <2>1, <4>1 DEF RequestInv
    <3> QED BY <3>1, <3>2
  <2> QED BY <1>2, <2>1, <2>2, <2>3 DEF RequestInv
<1>18. \A d \in Clients : ServedInv(d)'
  BY <1>2, ServedKept
<1>19. \A d \in Clients : \A i \in 1 .. Len(toClient'[d]) : Honest(d, toClient[d][i])'
  BY <1>2, FramesKept DEF Honest, HonestAfter
<1> QED BY <1>9, <1>11, <1>12, <1>15, <1>16, <1>17, <1>18, <1>19 DEF Inv, WireInv

LEMMA FrameReceived == ASSUME Inv, NEW c \in Clients, Receive(c) PROVE Inv'
<1> USE DEF server, daemon
<1> DEFINE msg == Head(toClient[c])
<1>1. TypeInv /\ ClientInv(c)
  BY DEF Inv
<1>2. /\ toClient[c] # << >> /\ toClient' = [toClient EXCEPT ![c] = Tail(toClient[c])]
      /\ UNCHANGED <<step, outcome, toServer, authorized, tenant, running, runs, fixed>>
  BY DEF Receive
<1>3. \A d \in Clients : toClient[d] \in Seq(Frames) /\ HonestAfter(d, toClient[d])
  <2>1. RunsGrow
    BY <1>2 DEF RunsGrow
  <2> QED BY <2>1, HonestGrows DEF Inv, TypeInv, WireInv
<1>4. /\ Tail(toClient[c]) \in Seq(Frames) /\ HonestAfter(c, Tail(toClient[c]))
      /\ msg \in Frames /\ (msg.type = "response" /\ msg.ok => runs'[<<c, msg.call>>] = 1)
  BY <1>2, <1>3, TailAfter
<1>5. /\ toClient' \in [Clients -> Seq(Frames)]
      /\ \A d \in Clients : HonestAfter(d, toClient'[d])
  <2>1. \A d \in Clients : toClient'[d] = IF d = c THEN Tail(toClient[c]) ELSE toClient[d]
    BY <1>1, <1>2 DEF TypeInv
  <2>2. \A d \in Clients : toClient'[d] \in Seq(Frames) /\ HonestAfter(d, toClient'[d])
    BY <1>3, <1>4, <2>1
  <2> QED BY <1>1, <1>2, <2>2 DEF TypeInv
<1>6. FixedInv'
  BY <1>1, <1>2, FixedKept DEF TypeInv
<1>7. CASE /\ msg.type = "event" /\ UNCHANGED <<pending, answers>>
           /\ (UNCHANGED at \/ at' = [at EXCEPT ![c] = "done"])
  <2>1. TypeInv'
    BY <1>1, <1>2, <1>5, <1>6, <1>7 DEF TypeInv
  <2>2. \A d \in Clients : at'[d] \in {at[d], "done"}
    BY <1>1, <1>7 DEF TypeInv
  <2> QED BY <1>2, <1>5, <1>7, <2>1, <2>2, QuietStep
<1>8. CASE /\ msg.type = "response" /\ UNCHANGED at
           /\ pending' = [pending EXCEPT ![c] = pending[c] \ {msg.call}]
           /\ answers' = IF msg.call \in pending[c]
                         THEN [answers EXCEPT ![c] = answers[c] \cup {[call |-> msg.call, ok |-> msg.ok]}]
                         ELSE answers
  <2>1. msg.call \in Numbers /\ msg.ok \in BOOLEAN
    BY <1>4, <1>8 DEF Frames
  <2> DEFINE b == [call |-> msg.call, ok |-> msg.ok]
  <2>2. b \in Answers /\ b.call = msg.call /\ (b.ok => runs[<<c, msg.call>>] = 1)
    BY <1>2, <1>4, <1>8, <2>1 DEF Answers
  <2>3. /\ pending'[c] = pending[c] \ {msg.call}
        /\ answers'[c] = IF msg.call \in pending[c] THEN answers[c] \cup {b} ELSE answers[c]
        /\ \A d \in Clients \ {c} : pending'[d] = pending[d] /\ answers'[d] = answers[d]
    BY <1>1, <1>8 DEF TypeInv
  <2>4. TypeInv'
    <3>1. pending' \in [Clients -> SUBSET Numbers]
      BY <1>1, <1>8 DEF TypeInv
    <3>2. answers' \in [Clients -> SUBSET Answers]
      BY <1>1, <1>8, <2>2 DEF TypeInv
    <3> QED BY <1>1, <1>2, <1>5, <1>6, <1>8, <3>1, <3>2 DEF TypeInv
  <2>5. CallsOf(c)' = CallsOf(c)
    BY <1>2, FixedKept
  <2> HIDE DEF msg, b
  <2>6. ClientInv(c)'
    <3>1. ASSUME NEW a \in answers'[c]
          PROVE  a.call <= step[c] /\ a.call \notin pending'[c] /\ (a.ok => runs'[<<c, a.call>>] = 1)
                 /\ (at[c] \notin {"waiting", "done"} => a.call < step[c])
      <4>1. CASE a \in answers[c]
        BY <1>1, <1>2, <2>3, <4>1 DEF ClientInv
      <4>2. CASE msg.call \in pending[c] /\ a = b
        <5>1. msg.call = step[c] /\ at[c] \in {"waiting", "done"} /\ step[c] \in Nat
          BY <1>1, <4>2 DEF ClientInv, TypeInv
        <5> QED BY <1>2, <2>2, <2>3, <4>2, <5>1
      <4> QED BY <2>3, <4>1, <4>2
    <3> QED BY <1>1, <1>2, <1>8, <2>3, <2>5, <3>1 DEF ClientInv
  <2>7. \A n \in Numbers : Sent(c, n) => Sent(c, n)'
    BY <1>2, <2>2, <2>3 DEF Sent
  <2> QED BY <1>2, <1>5, <1>8, <2>3, <2>4, <2>6, <2>7, CallStep
<1> QED BY <1>7, <1>8 DEF Receive

-----------------------------------------------------------------------------
\* The steps of a request at the server.

\* Call n of c runs, or nothing does; what is still unread was unread, and is not n.
LEMMA RunOne ==
    ASSUME Inv, TypeInv', NEW c \in Clients, NEW n \in 1 .. Len(CallsOf(c)), Sent(c, n),
           runs' = runs \/ runs' = [runs EXCEPT ![<<c, n>>] = 1],
           UNCHANGED <<fixed, at, step, pending, answers, outcome>>,
           \A d \in Clients \ {c} : toServer'[d] = toServer[d],
           InOrder(c)',
           \A i \in 1 .. Len(toServer'[c]) :
              toServer'[c][i] # n /\ \E j \in 1 .. Len(toServer[c]) : toServer'[c][i] = toServer[c][j],
           \A d \in Clients : HonestAfter(d, toClient'[d])
    PROVE  \A d \in Clients : ClientInv(d)' /\ WireInv(d)'
<1>1. TypeInv /\ Len(CallsOf(c)) \in Nat /\ Len(CallsOf(c)) <= 3
  BY CallsShape DEF Inv, TypeInv
<1>2. n \in Numbers /\ <<c, n>> \in Calls
  BY <1>1 DEF Numbers, MaxStep, Calls
<1>3. /\ \A k \in Calls : k # <<c, n>> => runs'[k] = runs[k]
      /\ RunsGrow
  BY <1>1, <1>2 DEF TypeInv, RunsGrow
<1>4. \A d \in Clients : ClientInv(d)'
  BY <1>3, ClientKept
<1>5. \A d \in Clients : \A k : Sent(d, k)' <=> Sent(d, k)
  BY SentKept
<1>6. ASSUME NEW d \in Clients PROVE Unread(d)' /\ InOrder(d)'
  <2>1. Unread(d) /\ InOrder(d) /\ toServer[d] \in Seq(Numbers) /\ CallsOf(d)' = CallsOf(d)
    BY <1>1, FixedKept DEF Inv, WireInv, TypeInv
  <2>2. InOrder(d)'
    BY <2>1 DEF InOrder
  <2>3. ASSUME NEW i \in 1 .. Len(toServer'[d])
        PROVE  \E j \in 1 .. Len(toServer[d]) : toServer'[d][i] = toServer[d][j] /\ <<d, toServer[d][j]>> # <<c, n>>
    <3>1. CASE d = c
      BY <3>1, <2>3
    <3>2. CASE d # c
      BY <3>2, <2>3
    <3> QED BY <3>1, <3>2
  <2>4. ASSUME NEW i \in 1 .. Len(toServer'[d])
        PROVE  toServer'[d][i] \in 1 .. Len(CallsOf(d)) /\ Sent(d, toServer[d][i])' /\ runs'[<<d, toServer'[d][i]>>] = 0
    <3>1. PICK j \in 1 .. Len(toServer[d]) : toServer'[d][i] = toServer[d][j] /\ <<d, toServer[d][j]>> # <<c, n>>
      BY <2>3
    <3>2. toServer[d][j] \in Numbers /\ toServer[d][j] \in 1 .. Len(CallsOf(d)) /\ Sent(d, toServer[d][j])
          /\ runs[<<d, toServer[d][j]>>] = 0
      BY <2>1 DEF Unread
    <3>3. <<d, toServer[d][j]>> \in Calls
      BY <3>2 DEF Calls, Numbers
    <3>4. Sent(d, toServer[d][i])'
      BY <3>1, <3>2 DEF Sent
    <3> QED BY <1>3, <3>1, <3>2, <3>3, <3>4
  <2>5. Unread(d)'
    BY <2>1, <2>4 DEF Unread
  <2> QED BY <2>2, <2>5
<1>7. ASSUME NEW d \in Clients PROVE Ran(d)'
  <2>1. Ran(d)
    BY DEF Inv, WireInv
  <2> SUFFICES ASSUME NEW k \in Numbers, runs'[<<d, k>>] = 1 PROVE Sent(d, k)'
    BY DEF Ran
  <2>2. CASE <<d, k>> = <<c, n>>
    BY <1>5, <2>2
  <2>3. CASE <<d, k>> # <<c, n>>
    <3>1. <<d, k>> \in Calls
      BY DEF Calls, Numbers
    <3> QED BY <1>3, <1>5, <2>1, <2>3, <3>1 DEF Ran
  <2> QED BY <2>2, <2>3
<1>8. \A d \in Clients : \A i \in 1 .. Len(toClient'[d]) : Honest(d, toClient[d][i])'
  BY DEF Honest, HonestAfter
<1> QED BY <1>4, <1>6, <1>7, <1>8 DEF WireInv

\* The reading goroutine of c takes n from the connection.
Reads(c, n) ==
    /\ toServer[c] # << >>
    /\ n = Head(toServer[c])
    /\ toServer' = [toServer EXCEPT ![c] = Tail(toServer[c])]

\* n was sent and has not run; what is left is in order, and is not n.
HeadRead(c, n) ==
    /\ n \in 1 .. Len(CallsOf(c)) /\ n \in Numbers /\ Sent(c, n) /\ runs[<<c, n>>] = 0
    /\ toServer' \in [Clients -> Seq(Numbers)]
    /\ \A d \in Clients \ {c} : toServer'[d] = toServer[d]
    /\ InOrder(c)'
    /\ \A i \in 1 .. Len(toServer'[c]) :
          toServer'[c][i] # n /\ \E j \in 1 .. Len(toServer[c]) : toServer'[c][i] = toServer[c][j]
    /\ \E j \in 1 .. Len(toServer[c]) : n = toServer[c][j]

LEMMA HeadOfUnread == ASSUME Inv, NEW c \in Clients, NEW n, Reads(c, n) PROVE HeadRead(c, n)
<1> DEFINE s == toServer[c]
<1> USE DEF Reads
<1>1. s \in Seq(Numbers) /\ toServer \in [Clients -> Seq(Numbers)] /\ Unread(c) /\ InOrder(c)
  BY DEF Inv, TypeInv, WireInv
<1>2. /\ Tail(s) \in Seq(Numbers) /\ Len(Tail(s)) = Len(s) - 1 /\ Len(s) \in Nat /\ Len(s) > 0
      /\ \A i \in 1 .. Len(Tail(s)) : Tail(s)[i] = s[i + 1]
      /\ n = s[1] /\ s[1] \in Numbers
  BY <1>1, HeadTailProperties
<1>3. toServer'[c] = Tail(s) /\ toServer' \in [Clients -> Seq(Numbers)]
  BY <1>1, <1>2
<1>4. \A d \in Clients \ {c} : toServer'[d] = toServer[d]
  BY <1>1
<1>5. 1 \in 1 .. Len(s)
  BY <1>2
<1>6. n \in 1 .. Len(CallsOf(c)) /\ Sent(c, n) /\ runs[<<c, n>>] = 0
  BY <1>1, <1>2, <1>5 DEF Unread
<1>7. \A i \in 1 .. Len(Tail(s)) : i + 1 \in 1 .. Len(s) /\ Tail(s)[i] = s[i + 1] /\ n < s[i + 1]
  BY <1>1, <1>2, <1>5 DEF InOrder
<1>8. InOrder(c)'
  <2> SUFFICES ASSUME NEW i \in 1 .. Len(Tail(s)), NEW j \in 1 .. Len(Tail(s)), i < j PROVE Tail(s)[i] < Tail(s)[j]
    BY <1>3 DEF InOrder
  <2>1. i + 1 < j + 1
    BY <1>2
  <2> QED BY <1>1, <1>7, <2>1 DEF InOrder
<1>9. \A i \in 1 .. Len(Tail(s)) : Tail(s)[i] # n /\ \E j \in 1 .. Len(s) : Tail(s)[i] = s[j]
  <2> SUFFICES ASSUME NEW i \in 1 .. Len(Tail(s)) PROVE Tail(s)[i] # n
    BY <1>7
  <2>1. n < Tail(s)[i] /\ n \in Int
    BY <1>2, <1>7 DEF Numbers, MaxStep
  <2> QED BY <2>1
<1> QED BY <1>2, <1>3, <1>4, <1>5, <1>6, <1>8, <1>9 DEF HeadRead

\* A frame that is read is answered at once, and has run if the answer is good.
LEMMA AnsweredByReader ==
    ASSUME Inv, NEW c \in Clients, NEW n, NEW ok \in BOOLEAN, Reads(c, n), Reply(c, n, ok),
           runs' = IF ok THEN [runs EXCEPT ![<<c, n>>] = @ + 1] ELSE runs,
           UNCHANGED <<fixed, client, running>>,
           authorized' \in [Clients -> BOOLEAN], tenant' \in [Clients -> BOOLEAN],
           \A d \in Clients \ {c} : authorized'[d] = authorized[d] /\ tenant'[d] = tenant[d],
           tenant[c] => tenant'[c],
           authorized'[c] = authorized[c] \/ (authorized'[c] /\ token[c] = "current"),
           tenant'[c] = tenant[c] \/ (tenant'[c] /\ authorized[c] /\ authorized'[c] /\ ok /\ Method(c, n) = "workspace.init"),
           authorized[c] => authorized'[c],
           ok => Method(c, n) \in Handshake
    PROVE  Inv'
<1> USE DEF client
<1>1. /\ n \in 1 .. Len(CallsOf(c)) /\ n \in Numbers /\ Sent(c, n) /\ runs[<<c, n>>] = 0
      /\ toServer' \in [Clients -> Seq(Numbers)]
      /\ \A d \in Clients \ {c} : toServer'[d] = toServer[d]
      /\ InOrder(c)'
      /\ \A i \in 1 .. Len(toServer'[c]) :
            toServer'[c][i] # n /\ \E j \in 1 .. Len(toServer[c]) : toServer'[c][i] = toServer[c][j]
      /\ \E j \in 1 .. Len(toServer[c]) : n = toServer[c][j]
  <2>1. HeadRead(c, n)
    BY HeadOfUnread
  <2> QED BY <2>1 DEF HeadRead
<1>2. TypeInv /\ n \in Numbers /\ <<c, n>> \in Calls /\ runs[<<c, n>>] = 0
  BY <1>1 DEF Inv, Calls, Numbers
<1>3. /\ runs' = runs \/ runs' = [runs EXCEPT ![<<c, n>>] = 1]
      /\ runs' \in [Calls -> {0, 1}]
      /\ ok => runs'[<<c, n>>] = 1
      /\ \A k \in Calls : k # <<c, n>> => runs'[k] = runs[k]
      /\ RunsGrow
  <2>1. CASE ok
    <3>1. runs' = [runs EXCEPT ![<<c, n>>] = 1]
      BY <1>2, <2>1
    <3> QED BY <1>2, <2>1, <3>1 DEF TypeInv, RunsGrow
  <2>2. CASE ~ ok
    BY <1>2, <2>2 DEF TypeInv, RunsGrow
  <2> QED BY <2>1, <2>2
<1>4. /\ toClient' \in [Clients -> Seq(Frames)]
      /\ \A d \in Clients : HonestAfter(d, toClient'[d])
  BY <1>2, <1>3, ReplyIsHonest
<1>5. TypeInv'
  <2>1. FixedInv'
    BY <1>2, FixedKept DEF TypeInv
  <2> QED BY <1>1, <1>2, <1>3, <1>4, <2>1 DEF TypeInv
<1>6. \A d \in Clients : ClientInv(d)' /\ WireInv(d)'
  BY <1>1, <1>3, <1>4, <1>5, RunOne
<1>7. \A r \in running' : RequestInv(r)'
  <2> SUFFICES ASSUME NEW r \in running PROVE RequestInv(r)'
    OBVIOUS
  <2>1. RequestInv(r) /\ r.client \in Clients /\ r.call \in Numbers
    BY <1>2 DEF Inv, TypeInv
  <2>2. CallsOf(r.client)' = CallsOf(r.client) /\ Sent(r.client, r.call)'
    BY <2>1, FixedKept, SentKept DEF RequestInv
  <2>3. <<r.client, r.call>> # <<c, n>> /\ <<r.client, r.call>> \in Calls
    BY <1>1, <2>1 DEF RequestInv, Calls, Numbers
  <2>4. runs'[<<r.client, r.call>>] = runs[<<r.client, r.call>>]
    BY <1>3, <2>3
  <2>5. \A i \in 1 .. Len(toServer'[r.client]) : toServer'[r.client][i] # r.call
    <3>. DEFINE d == r.client
    <3>a. d \in Clients /\ \A i \in 1 .. Len(toServer[d]) : toServer[d][i] # r.call
      BY <2>1 DEF RequestInv
    <3>. SUFFICES \A i \in 1 .. Len(toServer'[d]) : toServer'[d][i] # r.call
      OBVIOUS
    <3>. HIDE DEF d
    <3>1. CASE d = c
      BY <1>1, <3>a, <3>1
    <3>2. CASE d # c
      BY <1>1, <3>a, <3>2
    <3> QED BY <3>1, <3>2
  <2> QED BY <2>1, <2>2, <2>4, <2>5 DEF RequestInv
<1>8. ASSUME NEW d \in Clients PROVE ServedInv(d)'
  <2>1. ServedInv(d) /\ CallsOf(d)' = CallsOf(d) /\ token' = token /\ \A k : Method(d, k)' = Method(d, k)
    BY FixedKept DEF Inv, fixed
  <2>2. Len(CallsOf(d)) \in Nat /\ Len(CallsOf(d)) <= 3
    BY <1>2, CallsShape DEF TypeInv
  <2>3. \A k \in 1 .. Len(CallsOf(d)) : k \in Numbers
    BY <2>2 DEF Numbers, MaxStep
  <2>4. \A k \in Numbers : runs[<<d, k>>] = 1 => runs'[<<d, k>>] = 1
    BY <1>3 DEF RunsGrow, Calls, Numbers
  <2>5. (tenant[d] => tenant'[d]) /\ (authorized[d] => authorized'[d])
    BY <1>2
  <2>6. authorized'[d] => token[d] = "current"
    BY <1>2, <2>1 DEF ServedInv
  <2>7. tenant'[d] => authorized'[d] /\ \E i \in 1 .. Len(CallsOf(d)) : Method(d, i) = "workspace.init" /\ runs'[<<d, i>>] = 1
    <3>1. CASE tenant[d]
      BY <2>1, <2>3, <2>4, <2>5, <3>1 DEF ServedInv
    <3>2. CASE ~ tenant[d] /\ tenant'[d]
      <4>1. d = c /\ ok /\ Method(c, n) = "workspace.init" /\ authorized'[c]
        BY <3>2
      <4>2. n \in 1 .. Len(CallsOf(d))
        BY <1>1, <4>1
      <4>3. runs'[<<d, n>>] = 1
        BY <1>3, <4>1
      <4> QED BY <4>1, <4>2, <4>3
    <3> QED BY <3>1, <3>2
  <2>8. \A r \in running : r.client = d => tenant'[d] /\ Method(d, r.call) \notin Handshake
    BY <2>1, <2>5 DEF ServedInv
  <2>9. ASSUME NEW k \in Numbers, runs'[<<d, k>>] = 1
        PROVE  k \in 1 .. Len(CallsOf(d)) /\ (Method(d, k) \in Handshake \/ tenant'[d])
    <3>1. CASE <<d, k>> = <<c, n>>
      <4>1. ok
        BY <1>1, <2>9, <3>1
      <4> QED BY <1>1, <3>1, <4>1
    <3>2. CASE <<d, k>> # <<c, n>>
      <4>1. runs[<<d, k>>] = 1
        BY <1>3, <2>9, <3>2 DEF Calls, Numbers
      <4> QED BY <2>1, <2>5, <4>1 DEF ServedInv
    <3> QED BY <3>1, <3>2
  <2> QED BY <2>1, <2>6, <2>7, <2>8, <2>9 DEF ServedInv
<1> QED BY <1>5, <1>6, <1>7, <1>8 DEF Inv

\* A frame that is read gets a goroutine of its own.
LEMMA DispatchedByReader ==
    ASSUME Inv, NEW c \in Clients, NEW n, Reads(c, n), tenant[c], Method(c, n) \notin Handshake,
           running' = running \cup {[client |-> c, call |-> n, place |-> "handler", ok |-> FALSE]},
           UNCHANGED <<fixed, client, toClient, runs, authorized, tenant>>
    PROVE  Inv'
<1> USE DEF client
<1> DEFINE q == [client |-> c, call |-> n, place |-> "handler", ok |-> FALSE]
<1>1. HeadRead(c, n)
  BY HeadOfUnread
<1>2. TypeInv /\ n \in Numbers /\ runs[<<c, n>>] = 0 /\ n \in 1 .. Len(CallsOf(c)) /\ Sent(c, n)
  BY <1>1 DEF Inv, HeadRead
<1>3. q \in [client : Clients, call : Numbers, place : {"handler", "reply"}, ok : BOOLEAN]
  BY <1>2
<1>4. TypeInv'
  <2>1. FixedInv'
    BY <1>2, FixedKept DEF TypeInv
  <2>2. toServer' \in [Clients -> Seq(Numbers)]
    BY <1>1 DEF HeadRead
  <2> QED BY <1>2, <1>3, <2>1, <2>2 DEF TypeInv
<1>5. \A d \in Clients : HonestAfter(d, toClient'[d])
  BY FramesKept
<1>6. \A d \in Clients : ClientInv(d)' /\ WireInv(d)'
  BY <1>1, <1>2, <1>4, <1>5, RunOne DEF HeadRead
<1>7. ASSUME NEW r \in running PROVE RequestInv(r) /\ r.client \in Clients /\ r.call \in Numbers /\ ~ (r.client = c /\ r.call = n)
  <2>1. RequestInv(r) /\ r.client \in Clients /\ r.call \in Numbers
    BY <1>2 DEF Inv, TypeInv
  <2>2. PICK j \in 1 .. Len(toServer[c]) : n = toServer[c][j]
    BY <1>1 DEF HeadRead
  <2>3. r.client = c => toServer[c][j] # r.call
    BY <2>1 DEF RequestInv
  <2> QED BY <2>1, <2>2, <2>3
<1>8. \A r \in running' : RequestInv(r)'
  <2> SUFFICES ASSUME NEW r \in running' PROVE RequestInv(r)'
    OBVIOUS
  <2>1. r.client \in Clients /\ CallsOf(r.client)' = CallsOf(r.client)
    BY <1>7, FixedKept
  <2>2. /\ r.call \in 1 .. Len(CallsOf(r.client))
        /\ Sent(r.client, r.call)
        /\ r.place = "handler" => runs[<<r.client, r.call>>] = 0
        /\ r.ok => r.place = "reply" /\ runs[<<r.client, r.call>>] = 1
    BY <1>2, <1>7 DEF RequestInv
  <2>3. Sent(r.client, r.call)'
    BY <2>1, <2>2, SentKept
  <2>4. \A i \in 1 .. Len(toServer'[r.client]) : toServer'[r.client][i] # r.call
    <3>1. CASE r = q
      BY <1>1, <3>1 DEF HeadRead
    <3>2. CASE r \in running /\ r.client = c
      <4>1. \A j \in 1 .. Len(toServer[c]) : toServer[c][j] # r.call
        BY <1>7, <3>2 DEF RequestInv
      <4> QED BY <1>1, <3>2, <4>1 DEF HeadRead
    <3>3. CASE r \in running /\ r.client # c
      <4>1. \A j \in 1 .. Len(toServer[r.client]) : toServer[r.client][j] # r.call
        BY <1>7, <3>3 DEF RequestInv
      <4>2. toServer'[r.client] = toServer[r.client]
        BY <1>1, <2>1, <3>3 DEF HeadRead
      <4> QED BY <4>1, <4>2
    <3> QED BY <3>1, <3>2, <3>3
  <2>5. ASSUME NEW p \in running', p.client = r.client, p.call = r.call PROVE p = r
    <3>1. CASE p \in running /\ r \in running
      BY <1>7, <2>5, <3>1 DEF RequestInv
    <3>2. CASE p = q \/ r = q
      <4>1. q.client = c /\ q.call = n
        OBVIOUS
      <4>2. p \in running \cup {q} /\ r \in running \cup {q}
        OBVIOUS
      <4> HIDE DEF q
      <4>3. p \notin running /\ r \notin running
        BY <1>7, <2>5, <3>2, <4>1
      <4> QED BY <4>2, <4>3
    <3>3. (p \in running /\ r \in running) \/ p = q \/ r = q
      OBVIOUS
    <3> QED BY <3>1, <3>2, <3>3
  <2> QED BY <2>1, <2>2, <2>3, <2>4, <2>5 DEF RequestInv
<1>9. ASSUME NEW d \in Clients PROVE ServedInv(d)'
  <2>1. ServedInv(d) /\ CallsOf(d)' = CallsOf(d) /\ token' = token /\ \A k : Method(d, k)' = Method(d, k)
    BY FixedKept DEF Inv, fixed
  <2>2. \A r \in running' : r.client = d => tenant[d] /\ Method(d, r.call) \notin Handshake
    BY <2>1 DEF ServedInv
  <2> QED BY <2>1, <2>2 DEF ServedInv
<1> QED BY <1>4, <1>6, <1>8, <1>9 DEF Inv

LEMMA FrameRead == ASSUME Inv, NEW c \in Clients, ReadFrame(c) PROVE Inv'
<1> USE DEF client, daemon
<1>1. PICK n : n = Head(toServer[c])
  OBVIOUS
<1>2. TypeInv
  BY DEF Inv
<1>3. Reads(c, n) /\ UNCHANGED <<fixed, client>>
  BY <1>1 DEF ReadFrame, Reads
<1>4. CASE Method(c, n) = "ipc.auth" /\ Authenticate(c, n)
  <2>1. CASE token[c] = "current"
    <3>1. /\ Reply(c, n, TRUE) /\ runs' = [runs EXCEPT ![<<c, n>>] = @ + 1]
          /\ authorized' = [authorized EXCEPT ![c] = TRUE] /\ UNCHANGED <<tenant, running>>
      BY <1>4, <2>1 DEF Authenticate, Ok
    <3>2. authorized' \in [Clients -> BOOLEAN] /\ authorized'[c] = TRUE /\ \A d \in Clients \ {c} : authorized'[d] = authorized[d]
      BY <1>2, <3>1 DEF TypeInv
    <3> QED BY <1>2, <1>3, <1>4, <2>1, <3>1, <3>2, AnsweredByReader DEF TypeInv, Handshake
  <2>2. CASE token[c] # "current"
    <3>1. Reply(c, n, FALSE) /\ UNCHANGED <<runs, authorized, tenant, running>>
      BY <1>4, <2>2 DEF Authenticate, RefuseAndClose
    <3> QED BY <1>2, <1>3, <3>1, AnsweredByReader DEF TypeInv
  <2> QED BY <2>1, <2>2
<1>5. CASE Unauthorized(c, n)
  <2>1. Reply(c, n, FALSE) /\ UNCHANGED <<runs, authorized, tenant, running>>
    BY <1>5 DEF Unauthorized, RefuseAndClose
  <2> QED BY <1>2, <1>3, <2>1, AnsweredByReader DEF TypeInv
<1>6. CASE Method(c, n) = "workspace.init" /\ authorized[c] /\ InitWorkspace(c, n)
  <2>1. CASE Ok(c, n) /\ tenant' = [tenant EXCEPT ![c] = TRUE]
    <3>1. /\ Reply(c, n, TRUE) /\ runs' = [runs EXCEPT ![<<c, n>>] = @ + 1] /\ UNCHANGED <<authorized, running>>
      BY <1>6, <2>1 DEF InitWorkspace, Ok
    <3>2. tenant' \in [Clients -> BOOLEAN] /\ tenant'[c] = TRUE /\ \A d \in Clients \ {c} : tenant'[d] = tenant[d]
      BY <1>2, <2>1 DEF TypeInv
    <3> QED BY <1>2, <1>3, <1>6, <3>1, <3>2, AnsweredByReader DEF TypeInv, Handshake
  <2>2. CASE Refuse(c, n) /\ UNCHANGED tenant
    <3>1. Reply(c, n, FALSE) /\ UNCHANGED <<runs, authorized, tenant, running>>
      BY <1>6, <2>2 DEF InitWorkspace, Refuse
    <3> QED BY <1>2, <1>3, <3>1, AnsweredByReader DEF TypeInv
  <2> QED BY <1>6, <2>1, <2>2 DEF InitWorkspace
<1>7. CASE Method(c, n) \notin Handshake /\ Dispatch(c, n)
  <2>1. CASE tenant[c]
    <3>1. /\ running' = running \cup {[client |-> c, call |-> n, place |-> "handler", ok |-> FALSE]}
          /\ UNCHANGED <<toClient, runs, authorized, tenant>>
      BY <1>7, <2>1 DEF Dispatch
    <3> QED BY <1>3, <1>7, <2>1, <3>1, DispatchedByReader
  <2>2. CASE ~ tenant[c]
    <3>1. Reply(c, n, FALSE) /\ UNCHANGED <<runs, authorized, tenant, running>>
      BY <1>7, <2>2 DEF Dispatch, Refuse
    <3> QED BY <1>2, <1>3, <3>1, AnsweredByReader DEF TypeInv
  <2> QED BY <2>1, <2>2
<1> QED BY <1>1, <1>4, <1>5, <1>6, <1>7 DEF ReadFrame, Handshake

LEMMA RequestHandled == ASSUME Inv, NEW r \in running, Handle(r) PROVE Inv'
<1> USE DEF client, wire, daemon
<1> DEFINE c == r.client
           n == r.call
<1>1. TypeInv /\ RequestInv(r) /\ c \in Clients /\ n \in Numbers /\ <<c, n>> \in Calls
  BY DEF Inv, TypeInv, Calls, Numbers
<1>2. PICK ok \in BOOLEAN :
         /\ running' = (running \ {r}) \cup {[r EXCEPT !.place = "reply", !.ok = ok]}
         /\ runs' = IF ok THEN [runs EXCEPT ![<<c, n>>] = @ + 1] ELSE runs
  BY DEF Handle, Query, Completion, ListModels, StartEmbed, Fails, Succeeds, Advance
<1>3. UNCHANGED <<at, step, pending, answers, outcome, toServer, toClient, authorized, tenant, fixed>>
  BY DEF Handle
<1>4. /\ n \in 1 .. Len(CallsOf(c)) /\ Sent(c, n) /\ runs[<<c, n>>] = 0
      /\ \A i \in 1 .. Len(toServer[c]) : toServer[c][i] # n
      /\ \A q \in running : q.client = c /\ q.call = n => q = r
  BY <1>1 DEF RequestInv, Handle
<1>5. /\ runs' = runs \/ runs' = [runs EXCEPT ![<<c, n>>] = 1]
      /\ runs' \in [Calls -> {0, 1}]
      /\ ok => runs'[<<c, n>>] = 1
      /\ \A k \in Calls : k # <<c, n>> => runs'[k] = runs[k]
      /\ RunsGrow
  <2>1. CASE ok
    <3>1. runs' = [runs EXCEPT ![<<c, n>>] = 1]
      BY <1>2, <1>4, <2>1
    <3> QED BY <1>1, <2>1, <3>1 DEF TypeInv, RunsGrow
  <2>2. CASE ~ ok
    BY <1>1, <1>2, <2>2 DEF TypeInv, RunsGrow
  <2> QED BY <2>1, <2>2
<1> DEFINE s == [r EXCEPT !.place = "reply", !.ok = ok]
<1>6. /\ s \in [client : Clients, call : Numbers, place : {"handler", "reply"}, ok : BOOLEAN]
      /\ s.client = c /\ s.call = n /\ s.place = "reply" /\ s.ok = ok
  BY <1>1 DEF TypeInv
<1>7. running' = (running \ {r}) \cup {s}
  BY <1>2
<1> HIDE DEF s
<1>8. TypeInv'
  <2>1. FixedInv'
    BY <1>1, <1>3, FixedKept DEF TypeInv
  <2> QED BY <1>1, <1>3, <1>5, <1>6, <1>7, <2>1 DEF TypeInv
<1>9. \A d \in Clients : HonestAfter(d, toClient'[d])
  BY <1>3, <1>5, HonestGrows DEF Inv, TypeInv, WireInv
<1> HIDE DEF c, n
<1>10. \A d \in Clients : ClientInv(d)' /\ WireInv(d)'
  <2>1. InOrder(c)
    BY <1>1 DEF Inv, WireInv
  <2>2. InOrder(c)'
    BY <1>3, <2>1 DEF InOrder, c
  <2> QED BY <1>1, <1>3, <1>4, <1>5, <1>8, <1>9, <2>2, RunOne
<1>11. ASSUME NEW q \in running \ {r}
       PROVE  RequestInv(q) /\ q.client \in Clients /\ q.call \in Numbers /\ <<q.client, q.call>> # <<c, n>>
              /\ <<q.client, q.call>> \in Calls
  BY <1>1, <1>4 DEF Inv, TypeInv, Calls, Numbers
<1>12. \A q \in running' : RequestInv(q)'
  <2> SUFFICES ASSUME NEW q \in running' PROVE RequestInv(q)'
    OBVIOUS
  <2>1. q.client \in Clients /\ CallsOf(q.client)' = CallsOf(q.client) /\ q.call \in Numbers
    BY <1>1, <1>3, <1>6, <1>7, <1>11, FixedKept
  <2>2. /\ q.call \in 1 .. Len(CallsOf(q.client)) /\ Sent(q.client, q.call)
        /\ \A i \in 1 .. Len(toServer[q.client]) : toServer[q.client][i] # q.call
        /\ q.place = "handler" => runs'[<<q.client, q.call>>] = 0
        /\ q.ok => q.place = "reply" /\ runs'[<<q.client, q.call>>] = 1
    <3>1. CASE q \in running \ {r}
      <4>1. runs'[<<q.client, q.call>>] = runs[<<q.client, q.call>>] /\ RequestInv(q)
        BY <1>5, <1>11, <3>1
      <4> QED BY <4>1 DEF RequestInv
    <3>2. CASE q = s
      BY <1>4, <1>5, <1>6, <3>2
    <3> QED BY <1>7, <3>1, <3>2
  <2>3. Sent(q.client, q.call)'
    BY <1>3, <2>1, <2>2, SentKept
  <2>4. ASSUME NEW p \in running', p.client = q.client, p.call = q.call PROVE p = q
    <3>1. CASE p \in running \ {r} /\ q \in running \ {r}
      BY <1>11, <2>4, <3>1 DEF RequestInv
    <3>2. CASE p = s /\ q = s
      BY <3>2
    <3>3. CASE p = s /\ q \in running \ {r}
      BY <1>6, <1>11, <2>4, <3>3
    <3>4. CASE q = s /\ p \in running \ {r}
      BY <1>6, <1>11, <2>4, <3>4
    <3> QED BY <1>7, <3>1, <3>2, <3>3, <3>4
  <2> QED BY <1>3, <2>1, <2>2, <2>3, <2>4 DEF RequestInv
<1>13. ASSUME NEW d \in Clients PROVE ServedInv(d)'
  <2>1. ServedInv(d) /\ CallsOf(d)' = CallsOf(d) /\ token' = token /\ \A k : Method(d, k)' = Method(d, k)
    BY <1>3, FixedKept DEF Inv, fixed
  <2>2. Len(CallsOf(d)) \in Nat /\ Len(CallsOf(d)) <= 3
    BY <1>1, CallsShape DEF TypeInv
  <2>3. \A k \in 1 .. Len(CallsOf(d)) : k \in Numbers
    BY <2>2 DEF Numbers, MaxStep
  <2>4. \A k \in Numbers : runs[<<d, k>>] = 1 => runs'[<<d, k>>] = 1
    BY <1>5 DEF RunsGrow, Calls, Numbers
  <2>5. tenant[d] => authorized[d] /\ \E i \in 1 .. Len(CallsOf(d)) : Method(d, i) = "workspace.init" /\ runs'[<<d, i>>] = 1
    BY <2>1, <2>3, <2>4 DEF ServedInv
  <2>6. \A q \in running' : q.client = d => tenant[d] /\ Method(d, q.call) \notin Handshake
    <3>1. \A q \in running : q.client = d => tenant[d] /\ Method(d, q.call) \notin Handshake
      BY <2>1 DEF ServedInv
    <3>2. s.client = r.client /\ s.call = r.call
      BY <1>6 DEF c, n
    <3> QED BY <1>7, <3>1, <3>2
  <2>7. ASSUME NEW k \in Numbers, runs'[<<d, k>>] = 1
        PROVE  k \in 1 .. Len(CallsOf(d)) /\ (Method(d, k) \in Handshake \/ tenant[d])
    <3>1. CASE <<d, k>> = <<c, n>>
      <4>1. d = r.client /\ d = c /\ k = n
        BY <3>1 DEF c
      <4>2. tenant[d]
        BY <2>1, <4>1 DEF ServedInv
      <4> QED BY <1>4, <4>1, <4>2
    <3>2. CASE <<d, k>> # <<c, n>>
      <4>1. runs[<<d, k>>] = 1
        BY <1>5, <2>7, <3>2 DEF Calls, Numbers
      <4> QED BY <2>1, <4>1 DEF ServedInv
    <3> QED BY <3>1, <3>2
  <2>8. authorized[d] => token[d] = "current"
    BY <2>1 DEF ServedInv
  <2> QED BY <1>3, <2>1, <2>5, <2>6, <2>7, <2>8 DEF ServedInv
<1> QED BY <1>8, <1>10, <1>12, <1>13 DEF Inv

LEMMA InvStep == Inv /\ [Next]_vars => Inv'
<1> SUFFICES ASSUME Inv, [Next]_vars PROVE Inv'
  OBVIOUS
<1>1. ASSUME NEW c \in Clients, ClientStep(c) \/ GiveUp(c) PROVE Inv'
  <2>1. CASE Connect(c) \/ Finish(c)
    BY <2>1, ClientQuiet DEF QuietClient
  <2>2. CASE Send(c)
    BY <2>2, CallSent, Unsendable
  <2> QED BY <1>1, <2>1, <2>2, AnswerTaken, FrameReceived, CallGivenUp DEF ClientStep
<1>2. ASSUME NEW c \in Clients, ServerStep(c) PROVE Inv'
  <2>1. CASE Accept(c) \/ Register(c) \/ EndOfInput(c)
    <3>1. UNCHANGED <<client, toServer, toClient, authorized, tenant, running, runs, fixed>>
      BY <2>1 DEF Accept, Register, EndOfInput, server
    <3> QED BY <3>1, ServerQuiet
  <2> QED BY <1>2, <2>1, FrameRead DEF ServerStep
<1>3. ASSUME RequestStep PROVE Inv'
  BY <1>3, RequestHandled, ReplyQuiet DEF RequestStep
<1>4. ASSUME JobStep \/ \E j \in jobs : Spin(j) PROVE Inv'
  BY <1>4, JobQuiet DEF JobStep
<1>5. ASSUME Shutdown \/ Die PROVE Inv'
  <2>1. UNCHANGED <<client, toServer, toClient, authorized, tenant, runs, fixed>> /\ running' \subseteq running
    BY <1>5 DEF Shutdown, Die, server
  <2> QED BY <2>1, ServerQuiet
<1>6. ASSUME Stopped \/ UNCHANGED vars PROVE Inv'
  <2>1. UNCHANGED <<client, toServer, toClient, authorized, tenant, runs, fixed>> /\ running' \subseteq running
    BY <1>6 DEF Stopped, vars, server, wire
  <2> QED BY <2>1, ServerQuiet
<1> QED BY <1>1, <1>2, <1>3, <1>4, <1>5, <1>6 DEF Next

-----------------------------------------------------------------------------
\* A request is served only on a connection that has shown the token and opened its
\* workspace, whatever clients run and whenever calls are answered, given up or lost
\* (handleConnection in server.go).
THEOREM ServedIsInitialised == Spec => []ServedAfterInit
<1>1. Inv => ServedAfterInit
  <2> SUFFICES ASSUME Inv, NEW c \in Clients, NEW n \in 1 .. MaxStep, runs[<<c, n>>] > 0,
                      Method(c, n) \notin {"ipc.auth", "workspace.init"}
               PROVE  /\ token[c] = "current" /\ command[c] # "chat"
                      /\ \E i \in 1 .. n - 1 : Method(c, i) = "workspace.init" /\ runs[<<c, i>>] > 0
    BY DEF ServedAfterInit
  <2>1. TypeInv /\ ServedInv(c) /\ n \in Numbers
    BY DEF Inv, Numbers
  <2>2. runs[<<c, n>>] = 1
    BY <2>1 DEF TypeInv, Calls, Numbers
  <2>3. tenant[c] /\ authorized[c] /\ token[c] = "current" /\ n \in 1 .. Len(CallsOf(c))
    BY <2>1, <2>2 DEF ServedInv, Handshake
  <2>4. PICK i \in 1 .. Len(CallsOf(c)) : Method(c, i) = "workspace.init" /\ runs[<<c, i>>] = 1
    BY <2>1, <2>3 DEF ServedInv
  <2>5. i < n /\ command[c] # "chat"
    BY <2>1, <2>3, <2>4, CallsShape DEF TypeInv
  <2>6. Len(CallsOf(c)) \in Nat
    BY <2>1, CallsShape DEF TypeInv
  <2>7. i \in 1 .. n - 1
    BY <2>3, <2>5, <2>6
  <2> QED BY <2>3, <2>4, <2>5, <2>7
<1> QED BY <1>1, InvInit, InvStep, PTL DEF Spec

-----------------------------------------------------------------------------
\* The refinement.

Status == [k \in Calls |-> StatusOf(k)]

LEMMA StatusIs ==
    ASSUME NEW c \in Clients, NEW n \in Numbers
    PROVE  Status[<<c, n>>] = IF n <= Len(outcome[c]) THEN (IF outcome[c][n] THEN "ok" ELSE "failed")
                              ELSE IF Sent(c, n) THEN "made" ELSE "new"
<1>1. <<c, n>> \in Calls /\ <<c, n>>[1] = c /\ <<c, n>>[2] = n
  BY DEF Calls, Numbers
<1> QED BY <1>1 DEF Status, StatusOf, Sent

LEMMA StatusAfter ==
    ASSUME NEW c \in Clients, NEW n \in Numbers
    PROVE  Status'[<<c, n>>] = IF n <= Len(outcome'[c]) THEN (IF outcome'[c][n] THEN "ok" ELSE "failed")
                               ELSE IF Sent(c, n)' THEN "made" ELSE "new"
<1>1. <<c, n>> \in Calls /\ <<c, n>>[1] = c /\ <<c, n>>[2] = n
  BY DEF Calls, Numbers
<1> QED BY <1>1 DEF Status, StatusOf, Sent

LEMMA StatusSame ==
    ASSUME UNCHANGED outcome, \A c \in Clients, n \in Numbers : Sent(c, n)' <=> Sent(c, n)
    PROVE  Status' = Status
<1>1. ASSUME NEW k \in Calls PROVE Status'[k] = Status[k]
  <2>1. PICK c \in Clients, n \in Numbers : k = <<c, n>>
    BY DEF Calls, Numbers
  <2> QED BY <2>1, StatusIs, StatusAfter
<1> QED BY <1>1 DEF Status

LEMMA StatusChanges ==
    ASSUME NEW c \in Clients, NEW n \in Numbers, NEW v, Status'[<<c, n>>] = v,
           \A d \in Clients, k \in Numbers : <<d, k>> # <<c, n>> =>
              Status'[<<d, k>>] = Status[<<d, k>>]
    PROVE  Status' = [Status EXCEPT ![<<c, n>>] = v]
<1>1. ASSUME NEW k \in Calls PROVE Status'[k] = [Status EXCEPT ![<<c, n>>] = v][k]
  <2>1. PICK d \in Clients, m \in Numbers : k = <<d, m>>
    BY DEF Calls, Numbers
  <2> QED BY <2>1 DEF Status
<1> QED BY <1>1 DEF Status

\* The end of a call ends it in the abstract specification, and no other one.
LEMMA EndOfCallIs ==
    ASSUME Inv, NEW c \in Clients, NEW ok \in BOOLEAN, Ends(c, ok), UNCHANGED <<fixed, runs>>,
           at[c] \in {"ready", "waiting"}, step[c] <= Len(CallsOf(c)), ok => runs[<<c, step[c]>>] = 1,
           pending' = [pending EXCEPT ![c] = {}], answers' \in {answers, [answers EXCEPT ![c] = {}]},
           ok => Sent(c, step[c])
    PROVE  [Abstract!Next]_<<Status, runs>>
<1>1. PICK n : n = step[c]
  OBVIOUS
<1>2. TypeInv /\ ClientInv(c) /\ Len(CallsOf(c)) \in Nat /\ Len(CallsOf(c)) <= 3
  BY CallsShape DEF Inv, TypeInv
<1>3. n \in Numbers /\ Len(outcome[c]) = n - 1 /\ n \in Nat /\ Len(outcome[c]) \in Nat
  BY <1>1, <1>2 DEF ClientInv, TypeInv, Numbers, MaxStep
<1>4. outcome' = [outcome EXCEPT ![c] = Append(outcome[c], ok)]
  BY DEF Ends
<1>5. /\ outcome'[c] = Append(outcome[c], ok)
      /\ Len(Append(outcome[c], ok)) = n
      /\ \A k \in 1 .. Len(outcome[c]) : Append(outcome[c], ok)[k] = outcome[c][k]
      /\ Append(outcome[c], ok)[n] = ok
  <2>1. outcome[c] \in Seq(BOOLEAN)
    BY <1>2 DEF TypeInv
  <2>2. /\ Len(Append(outcome[c], ok)) = Len(outcome[c]) + 1
        /\ \A k \in 1 .. Len(outcome[c]) : Append(outcome[c], ok)[k] = outcome[c][k]
        /\ Append(outcome[c], ok)[Len(outcome[c]) + 1] = ok
    BY <2>1, AppendProperties
  <2>3. Len(outcome[c]) + 1 = n
    BY <1>3
  <2>4. outcome'[c] = Append(outcome[c], ok)
    BY <1>2, <1>4 DEF TypeInv
  <2> QED BY <2>2, <2>3, <2>4
<1>6. ASSUME NEW d \in Clients, NEW k \in Numbers, <<d, k>> # <<c, n>>
      PROVE  Status'[<<d, k>>] = Status[<<d, k>>]
  <2>1. CASE d # c
    <3>1. UNCHANGED <<pending[d], answers[d], outcome[d]>>
      BY <1>2, <1>4, <2>1 DEF TypeInv
    <3>2. Sent(d, k)' <=> Sent(d, k)
      BY <3>1 DEF Sent
    <3> QED BY <3>1, <3>2, StatusIs, StatusAfter
  <2>2. CASE d = c /\ k < n
    <3>1. k \in 1 .. Len(outcome[c]) /\ k <= n
      BY <1>3, <2>2 DEF Numbers, MaxStep
    <3>2. k <= Len(outcome[c]) /\ k <= Len(outcome'[c]) /\ outcome'[c][k] = outcome[c][k]
      BY <1>5, <3>1
    <3> QED BY <2>2, <3>2, StatusIs, StatusAfter
  <2>3. CASE d = c /\ k > n
    <3>1. ~ (k <= Len(outcome[c])) /\ ~ (k <= Len(outcome'[c]))
      BY <1>3, <1>5, <2>3 DEF Numbers, MaxStep
    <3>2. \A a \in answers[c] : a.call # k
      <4> SUFFICES ASSUME NEW a \in answers[c] PROVE a.call # k
        OBVIOUS
      <4>1. a.call \in Numbers /\ a.call <= n
        <5>1. a \in Answers
          BY <1>2 DEF TypeInv
        <5>2. a.call <= step[c]
          BY <1>2 DEF ClientInv
        <5> QED BY <1>1, <5>1, <5>2 DEF Answers
      <4>2. a.call \in Nat /\ k \in Nat
        BY <4>1 DEF Numbers, MaxStep
      <4> QED BY <1>3, <2>3, <4>1, <4>2
    <3>3. k \notin pending[c] /\ pending'[c] = {} /\ answers'[c] \subseteq answers[c]
      BY <1>1, <1>2, <1>3, <2>3 DEF ClientInv, TypeInv, Numbers, MaxStep
    <3>4. ~ Sent(c, k) /\ ~ Sent(c, k)'
      BY <3>1, <3>2, <3>3 DEF Sent
    <3> QED BY <2>3, <3>1, <3>4, StatusIs, StatusAfter
  <2>4. k < n \/ k > n \/ k = n
    BY <1>3 DEF Numbers, MaxStep
  <2> QED BY <1>6, <2>1, <2>2, <2>3, <2>4
<1>7. Status'[<<c, n>>] = IF ok THEN "ok" ELSE "failed"
  <2>1. n <= Len(outcome'[c]) /\ outcome'[c][n] = ok
    BY <1>3, <1>5
  <2> QED BY <1>3, <2>1, StatusAfter
<1>8. Status[<<c, n>>] \in {"new", "made"} /\ (ok => Status[<<c, n>>] = "made")
  <2>1. ~ (n <= Len(outcome[c]))
    BY <1>3
  <2> QED BY <1>1, <1>3, <2>1, StatusIs
<1>9. Status' = [Status EXCEPT ![<<c, n>>] = IF ok THEN "ok" ELSE "failed"]
  BY <1>3, <1>6, <1>7, StatusChanges
<1>10. <<c, n>> \in Calls /\ (ok => runs[<<c, n>>] = 1)
  BY <1>1, <1>3 DEF Calls, Numbers
<1>11. CASE ok
  <2>1. Abstract!Succeed(<<c, n>>)
    BY <1>8, <1>9, <1>10, <1>11 DEF Abstract!Succeed, Status
  <2> QED BY <1>10, <2>1 DEF Abstract!Next
<1>12. CASE ~ ok
  <2>1. Abstract!Fail(<<c, n>>)
    BY <1>8, <1>9, <1>10, <1>12 DEF Abstract!Fail, Status
  <2> QED BY <1>10, <2>1 DEF Abstract!Next
<1> QED BY <1>11, <1>12

\* A step that ends no call and makes none, and runs one that was sent, or none.
LEMMA RunIs ==
    ASSUME Inv, NEW c \in Clients, NEW n \in Numbers, Sent(c, n), runs[<<c, n>>] = 0,
           runs' = runs \/ runs' = [runs EXCEPT ![<<c, n>>] = 1], UNCHANGED <<pending, answers, outcome>>
    PROVE  [Abstract!Next]_<<Status, runs>>
<1>1. Status' = Status
  BY SentKept, StatusSame
<1>2. Status[<<c, n>>] \in {"made", "failed"}
  <2>1. CASE n <= Len(outcome[c])
    <3>1. outcome[c] \in Seq(BOOLEAN) /\ n \in 1 .. Len(outcome[c])
      BY <2>1 DEF Inv, TypeInv, Numbers, MaxStep
    <3>2. ~ outcome[c][n]
      BY <3>1 DEF Inv, ClientInv
    <3> QED BY <2>1, <3>2, StatusIs
  <2>2. CASE ~ (n <= Len(outcome[c]))
    BY <2>2, StatusIs
  <2> QED BY <2>1, <2>2
<1>3. <<c, n>> \in Calls
  BY DEF Calls, Numbers
<1>4. CASE runs' = [runs EXCEPT ![<<c, n>>] = 1]
  <2>1. Abstract!Execute(<<c, n>>)
    BY <1>1, <1>2, <1>4 DEF Abstract!Execute, Status
  <2> QED BY <1>3, <2>1 DEF Abstract!Next
<1>5. CASE runs' = runs
  BY <1>1, <1>5
<1> QED BY <1>4, <1>5

LEMMA NothingIs ==
    ASSUME UNCHANGED <<pending, answers, outcome, runs>>
    PROVE  [Abstract!Next]_<<Status, runs>>
<1>1. Status' = Status
  BY SentKept, StatusSame
<1> QED BY <1>1

LEMMA SendIs == ASSUME Inv, NEW c \in Clients, Send(c) PROVE [Abstract!Next]_<<Status, runs>>
<1> USE DEF server, daemon
<1>1. TypeInv /\ ClientInv(c) /\ Len(CallsOf(c)) \in Nat /\ Len(CallsOf(c)) <= 3
  BY CallsShape DEF Inv, TypeInv
<1>2. at[c] = "ready" /\ step[c] <= Len(CallsOf(c)) /\ answers' = answers /\ UNCHANGED <<fixed, runs>>
  BY DEF Send
<1>3. CASE conn[c] = "gone"
  <2>1. Ends(c, FALSE) /\ pending' = pending
    BY <1>3 DEF Send
  <2>2. pending' = [pending EXCEPT ![c] = {}]
    BY <1>1, <1>2, <2>1 DEF ClientInv, TypeInv
  <2> QED BY <1>2, <2>1, <2>2, EndOfCallIs
<1>4. CASE conn[c] # "gone"
  <2>1. PICK n : n = step[c]
    OBVIOUS
  <2>2. pending' = [pending EXCEPT ![c] = pending[c] \cup {n}] /\ outcome' = outcome
    BY <1>4, <2>1 DEF Send
  <2>3. /\ n \in Numbers /\ Len(outcome[c]) = n - 1 /\ n \in Nat /\ Len(outcome[c]) \in Nat
    BY <1>1, <1>2, <2>1 DEF ClientInv, TypeInv, Numbers, MaxStep
  <2>4. ~ Sent(c, n)
    <3>1. pending[c] = {} /\ \A a \in answers[c] : a.call < n
      BY <1>1, <1>2, <2>1 DEF ClientInv
    <3> QED BY <2>3, <3>1 DEF Sent
  <2>5. Sent(c, n)'
    <3>1. n \in pending'[c]
      BY <1>1, <2>2 DEF TypeInv
    <3> QED BY <3>1 DEF Sent
  <2>6. ASSUME NEW d \in Clients, NEW k \in Numbers, <<d, k>> # <<c, n>>
        PROVE  Status'[<<d, k>>] = Status[<<d, k>>]
    <3>1. k \in pending'[d] <=> k \in pending[d]
      BY <1>1, <2>2, <2>6 DEF TypeInv
    <3>2. Sent(d, k)' <=> Sent(d, k)
      BY <1>2, <2>2, <3>1 DEF Sent
    <3> QED BY <2>2, <3>2, StatusIs, StatusAfter
  <2>7. Status[<<c, n>>] = "new" /\ Status'[<<c, n>>] = "made"
    <3>1. ~ (n <= Len(outcome[c]))
      BY <2>3
    <3> QED BY <2>2, <2>3, <2>4, <2>5, <3>1, StatusIs, StatusAfter
  <2>8. Status' = [Status EXCEPT ![<<c, n>>] = "made"]
    BY <2>3, <2>6, <2>7, StatusChanges
  <2>9. Abstract!Make(<<c, n>>)
    BY <1>2, <2>7, <2>8 DEF Abstract!Make, Status
  <2>10. <<c, n>> \in Calls
    BY <2>3 DEF Calls, Numbers
  <2> QED BY <2>9, <2>10 DEF Abstract!Next
<1> QED BY <1>3, <1>4

LEMMA AnswerIs == ASSUME Inv, NEW c \in Clients, TakeAnswer(c) PROVE [Abstract!Next]_<<Status, runs>>
<1> USE DEF server, daemon
<1>0. PICK a \in answers[c] : a.call = step[c] /\ \E ok \in {a.ok, FALSE} : Ends(c, ok)
  BY DEF TakeAnswer
<1>1. PICK ok \in {a.ok, FALSE} : a.call = step[c] /\ Ends(c, ok)
  BY <1>0
<1>2. TypeInv /\ ClientInv(c)
  BY DEF Inv
<1>3. ok \in BOOLEAN
  <2>1. a.ok \in BOOLEAN
    BY <1>2 DEF TypeInv, Answers
  <2>2. ok = a.ok \/ ok = FALSE
    BY Zenon
  <2> QED BY <2>1, <2>2, Zenon
<1>4. /\ at[c] = "waiting" /\ answers' = [answers EXCEPT ![c] = {}]
      /\ UNCHANGED <<pending, fixed, runs>>
  BY DEF TakeAnswer
<1>5. pending[c] = {} /\ step[c] <= Len(CallsOf(c)) /\ (ok => runs[<<c, step[c]>>] = 1)
  BY <1>1, <1>2, <1>4 DEF ClientInv
<1>6. pending' = [pending EXCEPT ![c] = {}]
  BY <1>2, <1>4, <1>5 DEF TypeInv
<1>7. Sent(c, step[c])
  BY <1>1 DEF Sent
<1> QED BY <1>1, <1>3, <1>4, <1>5, <1>6, <1>7, EndOfCallIs

LEMMA GiveUpIs == ASSUME Inv, NEW c \in Clients, GiveUp(c) PROVE [Abstract!Next]_<<Status, runs>>
<1> USE DEF server, daemon
<1>1. TypeInv /\ ClientInv(c)
  BY DEF Inv
<1>2. /\ at[c] = "waiting" /\ answers' = answers /\ Ends(c, FALSE)
      /\ pending' = [pending EXCEPT ![c] = pending[c] \ {step[c]}]
      /\ UNCHANGED <<fixed, runs>>
  BY DEF GiveUp
<1>3. pending[c] \ {step[c]} = {} /\ step[c] <= Len(CallsOf(c))
  BY <1>1, <1>2 DEF ClientInv
<1> QED BY <1>2, <1>3, EndOfCallIs

LEMMA ReceiveIs == ASSUME Inv, NEW c \in Clients, Receive(c) PROVE [Abstract!Next]_<<Status, runs>>
<1> USE DEF server, daemon
<1> DEFINE msg == Head(toClient[c])
<1>1. outcome' = outcome /\ runs' = runs
  BY DEF Receive
<1>2. CASE UNCHANGED <<pending, answers>>
  BY <1>1, <1>2, NothingIs
<1>3. CASE /\ pending' = [pending EXCEPT ![c] = pending[c] \ {msg.call}]
           /\ answers' = IF msg.call \in pending[c]
                         THEN [answers EXCEPT ![c] = answers[c] \cup {[call |-> msg.call, ok |-> msg.ok]}]
                         ELSE answers
  <2> DEFINE b == [call |-> msg.call, ok |-> msg.ok]
  <2>1. b.call = msg.call
    OBVIOUS
  <2>2. /\ pending'[c] = pending[c] \ {msg.call}
        /\ answers'[c] = IF msg.call \in pending[c] THEN answers[c] \cup {b} ELSE answers[c]
        /\ \A d \in Clients \ {c} : pending'[d] = pending[d] /\ answers'[d] = answers[d]
    BY <1>3 DEF Inv, TypeInv
  <2> HIDE DEF msg, b
  <2>3. ASSUME NEW d \in Clients, NEW n \in Numbers PROVE Sent(d, n)' <=> Sent(d, n)
    <3>1. CASE d = c
      <4>1. n \in pending'[c] \/ (\E a \in answers'[c] : a.call = n)
            <=> n \in pending[c] \/ (\E a \in answers[c] : a.call = n)
        BY <2>1, <2>2
      <4> QED BY <1>1, <3>1, <4>1 DEF Sent
    <3>2. CASE d # c
      BY <1>1, <2>2, <3>2 DEF Sent
    <3> QED BY <3>1, <3>2
  <2> QED BY <1>1, <2>3, StatusSame
<1> QED BY <1>2, <1>3 DEF Receive

LEMMA ReadIs == ASSUME Inv, NEW c \in Clients, ReadFrame(c) PROVE [Abstract!Next]_<<Status, runs>>
<1> USE DEF client, daemon
<1>1. PICK n : n = Head(toServer[c])
  OBVIOUS
<1>2. Reads(c, n) /\ UNCHANGED <<pending, answers, outcome>>
  BY <1>1 DEF ReadFrame, Reads
<1>3. n \in Numbers /\ Sent(c, n) /\ runs[<<c, n>>] = 0
  BY <1>2, HeadOfUnread DEF HeadRead
<1>4. runs' = runs \/ runs' = [runs EXCEPT ![<<c, n>>] = @ + 1]
  BY <1>1 DEF ReadFrame, Authenticate, Unauthorized, InitWorkspace, Dispatch, Ok, Refuse, RefuseAndClose
<1>5. runs' = runs \/ runs' = [runs EXCEPT ![<<c, n>>] = 1]
  BY <1>3, <1>4
<1> QED BY <1>2, <1>3, <1>5, RunIs

LEMMA HandleIs == ASSUME Inv, NEW r \in running, Handle(r) PROVE [Abstract!Next]_<<Status, runs>>
<1>1. /\ r.client \in Clients /\ r.call \in Numbers /\ Sent(r.client, r.call)
      /\ runs[<<r.client, r.call>>] = 0 /\ UNCHANGED <<pending, answers, outcome>>
  BY DEF Inv, TypeInv, RequestInv, Handle, client
<1>2. runs' = runs \/ runs' = [runs EXCEPT ![<<r.client, r.call>>] = @ + 1]
  BY DEF Handle, Query, Completion, ListModels, StartEmbed, Fails, Succeeds
<1>3. runs' = runs \/ runs' = [runs EXCEPT ![<<r.client, r.call>>] = 1]
  BY <1>1, <1>2
<1> QED BY <1>1, <1>3, RunIs

LEMMA StepIs == Inv /\ [Next]_vars => [Abstract!Next]_<<Status, runs>>
<1> SUFFICES ASSUME Inv, [Next]_vars PROVE [Abstract!Next]_<<Status, runs>>
  OBVIOUS
<1> USE DEF client, server
<1>1. ASSUME NEW c \in Clients, ClientStep(c) \/ GiveUp(c) PROVE [Abstract!Next]_<<Status, runs>>
  <2>1. CASE Connect(c) \/ Finish(c)
    <3>1. UNCHANGED <<pending, answers, outcome, runs>>
      BY <2>1 DEF Connect, Finish
    <3> QED BY <3>1, NothingIs
  <2> QED BY <1>1, <2>1, SendIs, AnswerIs, ReceiveIs, GiveUpIs DEF ClientStep
<1>2. ASSUME NEW c \in Clients, ServerStep(c) PROVE [Abstract!Next]_<<Status, runs>>
  <2>1. CASE Accept(c) \/ Register(c) \/ EndOfInput(c)
    <3>1. UNCHANGED <<pending, answers, outcome, runs>>
      BY <2>1 DEF Accept, Register, EndOfInput
    <3> QED BY <3>1, NothingIs
  <2> QED BY <1>2, <2>1, ReadIs DEF ServerStep
<1>3. ASSUME NEW r \in running, Handle(r) \/ WriteReply(r) PROVE [Abstract!Next]_<<Status, runs>>
  <2>1. CASE WriteReply(r)
    <3>1. UNCHANGED <<pending, answers, outcome, runs>>
      BY <2>1 DEF WriteReply
    <3> QED BY <3>1, NothingIs
  <2> QED BY <1>3, <2>1, HandleIs
<1>4. ASSUME JobStep \/ (\E j \in jobs : Spin(j)) \/ Shutdown \/ Die \/ Stopped \/ UNCHANGED vars PROVE [Abstract!Next]_<<Status, runs>>
  <2>1. UNCHANGED <<pending, answers, outcome, runs>>
    BY <1>4 DEF JobStep, Claim, Complete, Unclaim, Spin, Shutdown, Die, Stopped, vars
  <2> QED BY <2>1, NothingIs
<1> QED BY <1>1, <1>2, <1>3, <1>4 DEF Next, RequestStep

\* A call over the channel is a remote call: it is made, it runs at most once, and it ends
\* once, well only if it has run, whatever is late, lost, given up, refused or cut off
\* (SendRaw and listenForResponses in client.go, handleConnection in server.go).
THEOREM ChannelRefines == Spec => ImplementsRemoteCalls
<1>1. Init => Abstract!Init
  <2> SUFFICES ASSUME Init PROVE Abstract!Init
    OBVIOUS
  <2>1. ASSUME NEW k \in Calls PROVE StatusOf(k) = "new" /\ runs[k] = 0
    <3>1. k[1] \in Clients /\ k[2] \in Numbers /\ k = <<k[1], k[2]>>
      BY DEF Calls, Numbers
    <3>2. outcome[k[1]] = << >> /\ pending[k[1]] = {} /\ answers[k[1]] = {} /\ runs[k] = 0
      BY <3>1 DEF Init, Calls
    <3>3. ~ (k[2] <= Len(<< >>))
      BY <3>1 DEF Numbers, MaxStep
    <3> QED BY <3>2, <3>3 DEF StatusOf
  <2>2. runs = [k \in Calls |-> 0]
    BY DEF Init, Calls
  <2> QED BY <2>1, <2>2 DEF Abstract!Init
<1>2. Inv /\ [Next]_vars => [Abstract!Next]_<<[k \in Calls |-> StatusOf(k)], runs>>
  BY StepIs DEF Status
<1> QED BY <1>1, <1>2, InvInit, InvStep, PTL DEF Spec, ImplementsRemoteCalls, Abstract!Spec

=============================================================================
