-------------------------- MODULE ProtocolServers ---------------------------
(***************************************************************************)
(* The servers that read a line, handle it and write a line: the MCP       *)
(* server over stdio (api/mcp/stdio.go), the JSON-RPC server over stdio    *)
(* and over the connections of its TCP port (api/jsonrpc/server.go,        *)
(* api/handlers).  Each session is one goroutine, a worker of Documents:   *)
(* its tools write files.  The server over stdio and the one over TCP have *)
(* no caller in the repository, the MCP server is `vectora mcp`.           *)
(***************************************************************************)
EXTENDS Documents, Sequences

CONSTANTS
    Servers,    \* the sessions: a function from some workers to "mcp", "stdio", "tcp"
    MaxLines,   \* how many lines a client sends
    Limit       \* how many lines fit into the input of the server over stdio

VARIABLES
    sent,       \* the lines of each session
    seen,       \* how many of them the server has read
    at,         \* where the server is
    answers     \* the lines it has written

pvars == <<sent, seen, at, answers>>

ASSUME ServersAssumption ==
    /\ DOMAIN Servers \subseteq Workers
    /\ \A s \in DOMAIN Servers : Servers[s] \in {"mcp", "stdio", "tcp"}

Null == 0       \* the ID of what is answered without one

ServersInit ==
    /\ sent = [s \in DOMAIN Servers |-> <<>>]
    /\ seen = [s \in DOMAIN Servers |-> 0]
    /\ at = [s \in DOMAIN Servers |-> "reading"]
    /\ answers = [s \in DOMAIN Servers |-> <<>>]

\* The client sends a line; the last one may lack its newline.
SendLine(s, line) ==
    /\ Len(sent[s]) < MaxLines
    /\ \A i \in DOMAIN sent[s] : sent[s][i].form # "unterminated"
    /\ sent' = [sent EXCEPT ![s] = Append(@, line)]
    /\ UNCHANGED <<seen, at, answers>>

-----------------------------------------------------------------------------
\* What the server sees in the line it reads next.

Number(s) == seen[s] + 1
Line(s)   == sent[s][Number(s)]

\* The limit is one of the session, not of the line: what is over it is cut off.
OverLimit(s) == Servers[s] = "stdio" /\ Number(s) > Limit

\* A pointer to an integer takes no other ID.
Unparsable(s) ==
    \/ Line(s).form = "broken"
    \/ Servers[s] # "mcp" /\ Line(s).form = "stringId"
    \/ OverLimit(s)

IdOf(s) == IF Line(s).form = "notification" THEN Null ELSE Number(s)

\* ReadString reports the end of the input with a line that has no newline, and the
\* line is left; a scanner ends at a line that is longer than its buffer.
EndsAt(s) ==
    \/ Servers[s] = "mcp" /\ Line(s).form = "unterminated"
    \/ Servers[s] # "mcp" /\ Line(s).form = "huge"

\* WriteResponse, WriteError and writeResponse; n is the change a tool has made.
WriteLine(s, id, ok, n) == answers' = [answers EXCEPT ![s] = Append(@, [id |-> id, ok |-> ok, n |-> n])]

\* The MCP server answers notifications too, the others do not.
Answered(s, id, ok, n) ==
    IF id = Null /\ Servers[s] # "mcp" THEN UNCHANGED answers ELSE WriteLine(s, id, ok, n)

Consume(s) == seen' = [seen EXCEPT ![s] = @ + 1]

\* Mutant: what is not valid is passed over.
BugParseError(s) ==
    /\ Unparsable(s)
    /\ at' = [at EXCEPT ![s] = IF OverLimit(s) THEN "ended" ELSE @]
    /\ UNCHANGED <<dvars, answers>>

ParseError(s) ==
    /\ Unparsable(s)
    /\ WriteLine(s, Null, FALSE, 0)
    /\ at' = [at EXCEPT ![s] = IF OverLimit(s) THEN "ended" ELSE @]
    /\ UNCHANGED dvars

\* What is registered; the server over TCP is for tools only.
Methods ==
    [mcp   |-> {"initialize", "tools/list", "tools/call"},
     stdio |-> {"initialize", "tools/list", "tools/call", "session/new", "session/prompt"},
     tcp   |-> {"initialize", "tools/call"}]

\* The wrong version, no method or one that is not known.
InvalidRequest(s) ==
    /\ Line(s).form \in {"version", "noMethod"} \/ Line(s).call.method \notin Methods[Servers[s]]
    /\ Answered(s, IdOf(s), FALSE, 0)
    /\ UNCHANGED <<at, dvars>>

AnswerAtOnce(s, method, ok) ==
    /\ Line(s).call.method = method
    /\ Answered(s, IdOf(s), ok, 0)
    /\ UNCHANGED <<at, dvars>>

Initialize(s) == AnswerAtOnce(s, "initialize", TRUE)
ListTools(s)  == AnswerAtOnce(s, "tools/list", TRUE)

\* The ID of a session is made of the state of the engine: all sessions have the same.
NewSession(s) == AnswerAtOnce(s, "session/new", TRUE)

\* The query of an engine, or what has no text.
PromptSession(s) == \E ok \in BOOLEAN : AnswerAtOnce(s, "session/prompt", ok)

\* tools/call: any registered tool, whatever tools/list shows.
CallTool(s) ==
    LET call == Line(s).call
    IN  /\ call.method = "tools/call"
        /\ IF Applies(call.op, call.value, docs[call.doc])
           THEN /\ Load(s, call.op, call.doc, call.value)
                /\ at' = [at EXCEPT ![s] = "inTool"]
                /\ UNCHANGED answers
           ELSE /\ Answered(s, IdOf(s), FALSE, 0)
                /\ UNCHANGED <<at, dvars>>

HandleRequest(s) ==
    \/ InvalidRequest(s)
    \/ /\ Line(s).form \notin {"version", "noMethod"} /\ Line(s).call.method \in Methods[Servers[s]]
       /\ Initialize(s) \/ ListTools(s) \/ NewSession(s) \/ PromptSession(s) \/ CallTool(s)

\* A line is read and handled; nothing is read meanwhile.
ReadLine(s) ==
    /\ at[s] = "reading"
    /\ seen[s] < Len(sent[s])
    /\ \/ /\ EndsAt(s) \/ OverLimit(s)      \* nothing of a line over the limit is left
          /\ at' = [at EXCEPT ![s] = "ended"]
          /\ UNCHANGED <<seen, answers, dvars>>
       \/ /\ ~EndsAt(s)
          /\ Consume(s)
          /\ ParseError(s) \/ (~Unparsable(s) /\ HandleRequest(s))
    /\ UNCHANGED sent

StepTool(s) ==
    /\ at[s] = "inTool"
    /\ StepOfTool(s)
    /\ IF work'[s] # Free THEN UNCHANGED <<at, answers>>
       ELSE /\ at' = [at EXCEPT ![s] = "reading"]
            /\ Answered(s, IF sent[s][seen[s]].form = "notification" THEN Null ELSE seen[s],
                        work[s].n \in done', work[s].n)
    /\ UNCHANGED <<sent, seen>>

\* The tool answers that its write has failed.  Or the process has ended.
CutOffTool(s) ==
    /\ at[s] = "inTool"
    /\ CutOffChange(s)
    /\ \/ /\ work[s].at = "emptied"
          /\ at' = [at EXCEPT ![s] = "reading"]
          /\ Answered(s, IF sent[s][seen[s]].form = "notification" THEN Null ELSE seen[s], FALSE, work[s].n)
       \/ at' = [at EXCEPT ![s] = "ended"] /\ UNCHANGED answers
    /\ UNCHANGED <<sent, seen>>

\* The client closes its end.
EndOfInput(s) ==
    /\ at[s] = "reading"
    /\ seen[s] = Len(sent[s])
    /\ at' = [at EXCEPT ![s] = "ended"]
    /\ UNCHANGED <<sent, seen, answers, dvars>>

ServerStep(s) == ReadLine(s) \/ StepTool(s) \/ CutOffTool(s) \/ EndOfInput(s)
=============================================================================
