--------------------------- MODULE FrontEndsProps ---------------------------
(***************************************************************************)
(* What may be relied on although nothing is locked.                       *)
(***************************************************************************)
EXTENDS FrontEnds

\* A change that was acknowledged is not lost while no other worker is at the document
\* between its read and its write, and none was cut off: the document is what the
\* acknowledged changes make of it.  A log, whose entries are appended and never written
\* back, keeps them whoever else appends, unless it is cleared meanwhile.
AcknowledgedIsKept ==
    \A d \in DOMAIN Docs :
        (d \notin disturbed /\ WorkersAt(d) = {}) => docs[d] = acked[d]

\* write_file and edit: the backup of a base name is what the last write that had a
\* snapshot replaced, of whichever file of that name, or a part of it when the copy
\* failed, unless two of them were backed up at once.  A write whose backup failed goes
\* on without one, and leaves the older one alone.
BackupIsWhatWasReplaced ==
    \A b \in Bases \ mixed :
        replaced[b] # NoBackup =>
            \/ backup[b] = replaced[b].content
            \/ b \in partial /\ backup[b].items \subseteq replaced[b].content.items

\* What the server owes to line i: an ID to answer with, or none.
AnswerTo(s, i) ==
    LET form == sent[s][i].form
    IN  IF form = "broken" \/ (Servers[s] # "mcp" /\ form = "stringId") \/ (Servers[s] = "stdio" /\ i > Limit)
        THEN {Null}
        ELSE IF form # "notification" THEN {i} ELSE IF Servers[s] = "mcp" THEN {Null} ELSE {}

\* Of the first n lines those that are owed an answer.
OwedTo(s, n) == {i \in 1 .. n : AnswerTo(s, i) # {}}

\* The first n lines are answered, each once and in their order.
AnsweredUpTo(s, n) ==
    /\ Len(answers[s]) = Cardinality(OwedTo(s, n))
    /\ \A i \in OwedTo(s, n) : answers[s][Cardinality(OwedTo(s, i))].id \in AnswerTo(s, i)

\* Each line that a server has handled is answered once, in the order of the lines, with
\* its own ID; what cannot be parsed, with null.  What the answer says happened has
\* happened: it is a result only if the change of the tool is in the file.
AnsweredOnce ==
    \A s \in DOMAIN Servers :
        /\ at[s] = "reading" => AnsweredUpTo(s, seen[s])
        /\ \A i \in DOMAIN answers[s] :
              answers[s][i].n # 0 => (answers[s][i].ok <=> answers[s][i].n \in done)

\* What the HTTP handlers answer is what has been done: an error has started no
\* embedding job, and a job that was started is told to the client, unless that has left
\* or the process ends in between.  A query of the engine is only wasted by a plan that
\* finds its ID too short, and by a search that the store fails.  Behind the server, only
\* the old chat route gets through to a handler that works.
StartedIsAccepted ==
    \A r \in Requests :
        /\ status[r] # None => (r \in started <=> status[r] = 202)
        /\ r \in started \ left /\ place[r] = "over" => status[r] = 202

MayWaste(r) == (ask[r].route = "plan" /\ ShortId(r)) \/ ask[r].route = "search"

QueriesAreUsed ==
    \A r \in queried \ left : place[r] = "over" /\ status[r] \notin {200, 201} => MayWaste(r)

OldChatWorks ==
    \A r \in queried \cup started : ask[r].mount = "server" => ask[r].route = "legacy chat"

ErrorsStartNothing == StartedIsAccepted /\ QueriesAreUsed /\ OldChatWorks
=============================================================================
