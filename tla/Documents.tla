----------------------------- MODULE Documents ------------------------------
(***************************************************************************)
(* What users keep and several of the program's goroutines and processes   *)
(* change: conversations in the key-value store (llm/service.go), the      *)
(* messages of a session of the ACP agent, the log of a conversation       *)
(* (storage/conversations), the trust list (cmd/core/trust.go) and the     *)
(* files that the tools write (tools/write_file.go, edit.go), with their   *)
(* backups.  Nothing is locked over reading, changing and writing back.    *)
(***************************************************************************)
EXTENDS Naturals, FiniteSets

CONSTANTS
    Docs,       \* the documents: a function to what each is
    Base,       \* the base name of each file
    Workers,    \* goroutines and processes that may change documents
    MaxChanges  \* how many changes there are

VARIABLES
    docs,       \* what each document holds
    backup,     \* what ~/.Vectora/backups holds under each base name
    work,       \* the change each worker is at
    made,       \* the number of changes so far
    acked,      \* history: the documents as the acknowledged changes leave them
    done,       \* history: changes that were acknowledged
    disturbed,  \* history: documents changed by two at once, or cut off
    replaced,   \* history: for each base name, what the write after its last backup replaced
    partial,    \* history: base names whose last copy has failed
    mixed       \* history: base names backed up by two at once

backups == <<backup, replaced, partial>>
dvars == <<docs, backups, work, made, acked, done, disturbed, mixed>>

ASSUME DocsAssumption ==
    /\ \A d \in DOMAIN Docs : Docs[d] \in {"conversation", "session", "log", "trust", "file"}
    /\ \A d \in DOMAIN Docs : Docs[d] = "file" => d \in DOMAIN Base

Free    == [at |-> "free"]
Absent  == [there |-> FALSE, title |-> 0, items |-> {}]
Content(title, items) == [there |-> TRUE, title |-> title, items |-> items]
Bases   == {Base[d] : d \in DOMAIN Base}
NoBackup == [at |-> "none"]

\* Logs and trust lists are there when they are wanted.
Initial(d) == IF Docs[d] = "trust" THEN Content(0, {}) ELSE Absent

DocumentsInit ==
    /\ docs = [d \in DOMAIN Docs |-> Initial(d)]
    /\ backup = [b \in Bases |-> Absent]
    /\ work = [w \in Workers |-> Free]
    /\ made = 0
    /\ acked = docs
    /\ done = {}
    /\ disturbed = {}
    /\ replaced = [b \in Bases |-> NoBackup]
    /\ partial = {}
    /\ mixed = {}

-----------------------------------------------------------------------------
\* What change n makes of a document; v is what a trust list or an edit is about.  The
\* title of a log tells one file of its name from the next, after it has been removed.

CreateConversation(n, v, c) == Content(n, {})
RenameConversation(n, v, c) == Content(n, c.items)
AddMessage(n, v, c)         == Content(c.title, c.items \cup {n})
DeleteConversation(n, v, c) == Absent
OpenSession(n, v, c)        == Content(0, {})
Prompt(n, v, c)             == AddMessage(n, v, c)
AppendEntry(n, v, c)        == Content(c.title, c.items \cup {n})
Clear(n, v, c)              == [there |-> FALSE, title |-> n, items |-> {}]
TrustAdd(n, v, c)           == Content(0, c.items \cup {v})
TrustRm(n, v, c)            == Content(0, c.items \ {v})
WriteFile(n, v, c)          == Content(0, {n})
Edit(n, v, c)               == Content(0, (c.items \ {v}) \cup {n})

Change(op, n, v, c) ==
    CASE op = "create" -> CreateConversation(n, v, c)
      [] op = "rename" -> RenameConversation(n, v, c)
      [] op = "add"    -> AddMessage(n, v, c)
      [] op = "delete" -> DeleteConversation(n, v, c)
      [] op = "new"    -> OpenSession(n, v, c)
      [] op = "prompt" -> Prompt(n, v, c)
      [] op = "append" -> AppendEntry(n, v, c)
      [] op = "clear"  -> Clear(n, v, c)
      [] op = "trust"  -> TrustAdd(n, v, c)
      [] op = "untrust" -> TrustRm(n, v, c)
      [] op = "write_file" -> WriteFile(n, v, c)
      [] op = "edit"   -> Edit(n, v, c)

\* What may be done with a document, with and without reading it first; entries of a
\* log are appended (OpenLog).
AtOnce ==
    [conversation |-> {"create", "delete"}, session |-> {"new"}, log |-> {"clear"},
     trust |-> {}, file |-> {}]
AfterReading ==
    [conversation |-> {"rename", "add"}, session |-> {"prompt"}, log |-> {},
     trust |-> {"trust", "untrust"}, file |-> {"write_file", "edit"}]

\* Early returns: no such conversation, session or file; a path that is trusted
\* already, or is not on the list.
Applies(op, v, c) ==
    /\ op \in {"rename", "add", "prompt", "edit"} => c.there
    /\ op = "trust" => v \notin c.items
    /\ op = "untrust" => v \in c.items

WorkersAt(d) == {w \in Workers : work[w] # Free /\ work[w].doc = d}
WorkersOn(b) == {w \in Workers : work[w] # Free /\ Docs[work[w].doc] = "file" /\ Base[work[w].doc] = b}

-----------------------------------------------------------------------------
\* One step of the store or one system call: Set, Delete, Remove.
ChangeAtOnce(w, op, d) ==
    /\ work[w] = Free
    /\ made < MaxChanges
    /\ op \in AtOnce[Docs[d]]
    /\ op = "new" => docs[d] = Absent
    /\ made' = made + 1
    /\ docs' = [docs EXCEPT ![d] = Change(op, made', 0, @)]
    /\ acked' = [acked EXCEPT ![d] = Change(op, made', 0, @)]
    /\ done' = done \cup {made'}
    /\ disturbed' = IF WorkersAt(d) # {} THEN disturbed \cup {d} ELSE disturbed
    /\ UNCHANGED <<backups, work, mixed>>

BeginsChange(w, where, op, d, v) ==
    /\ work[w] = Free
    /\ made < MaxChanges
    /\ made' = made + 1
    /\ work' = [work EXCEPT ![w] = [at |-> where, op |-> op, doc |-> d, value |-> v, n |-> made', copy |-> docs[d]]]

\* Append opens the log, or makes an empty one, which reads like none; others may
\* append meanwhile.
OpenLog(w, d) ==
    /\ Docs[d] = "log"
    /\ BeginsChange(w, "opened", "append", d, 0)
    /\ UNCHANGED <<docs, backups, acked, done, disturbed, mixed>>

\* The document is read; WriteFileTool only looks whether the file is there.
Load(w, op, d, v) ==
    /\ op \in AfterReading[Docs[d]]
    /\ Applies(op, v, docs[d])
    /\ BeginsChange(w, "loaded", op, d, v)
    /\ disturbed' = IF WorkersAt(d) # {} THEN disturbed \cup {d} ELSE disturbed
    /\ mixed' = IF Docs[d] = "file" /\ WorkersOn(Base[d]) # {} THEN mixed \cup {Base[d]} ELSE mixed
    /\ UNCHANGED <<docs, backups, acked, done>>

Acknowledge(w) ==
    LET k == work[w]
    IN  /\ acked' = [acked EXCEPT ![k.doc] = Change(k.op, k.n, k.value, @)]
        /\ done' = done \cup {k.n}

\* The line is written at the end of what has been opened, which nobody finds any more
\* if it was removed.
AppendLine(w) ==
    /\ work[w].at = "opened"
    /\ docs' = IF docs[work[w].doc].title = work[w].copy.title
               THEN [docs EXCEPT ![work[w].doc] = Change("append", work[w].n, 0, @)] ELSE docs
    /\ work' = [work EXCEPT ![w] = Free]
    /\ Acknowledge(w)
    /\ UNCHANGED <<backups, made, disturbed, mixed>>

Written(w) == Change(work[w].op, work[w].n, work[w].value, work[w].copy)

\* Mutant: the copy is written back as it was read, but for its title.
BugSave(w) ==
    /\ work[w].at = "loaded"
    /\ Docs[work[w].doc] \in {"conversation", "session"}
    /\ docs' = [docs EXCEPT ![work[w].doc] = [Written(w) EXCEPT !.items = work[w].copy.items]]
    /\ work' = [work EXCEPT ![w] = Free]
    /\ Acknowledge(w)
    /\ UNCHANGED <<backups, made, disturbed, mixed>>

\* SaveConversation; the agent's session.Messages is assigned.
Save(w) ==
    /\ work[w].at = "loaded"
    /\ Docs[work[w].doc] \in {"conversation", "session"}
    /\ docs' = [docs EXCEPT ![work[w].doc] = Written(w)]
    /\ work' = [work EXCEPT ![w] = Free]
    /\ Acknowledge(w)
    /\ UNCHANGED <<backups, made, disturbed, mixed>>

\* backupFileLocally gives up: no home directory, the file cannot be opened, or the
\* backup cannot be created.  There is no snapshot then, and the tools go on.
BackupFails(w) ==
    /\ work[w].at = "loaded"
    /\ Docs[work[w].doc] = "file" /\ work[w].copy.there
    /\ work' = [work EXCEPT ![w].at = "noBackup"]
    /\ UNCHANGED <<docs, backups, made, acked, done, disturbed, mixed>>

\* Otherwise os.Create empties the file of the base name,
CreateBackup(w) ==
    /\ work[w].at = "loaded"
    /\ Docs[work[w].doc] = "file" /\ work[w].copy.there
    /\ LET b == Base[work[w].doc]
       IN  /\ backup' = [backup EXCEPT ![b] = Content(0, {})]
           /\ replaced' = [replaced EXCEPT ![b] = NoBackup]
    /\ work' = [work EXCEPT ![w].at = "backingUp"]
    /\ UNCHANGED <<docs, partial, made, acked, done, disturbed, mixed>>

\* then what the file holds is copied.  Nobody looks whether that failed half-way: it
\* is a snapshot all the same.
CopyToBackup(w) ==
    /\ work[w].at = "backingUp"
    /\ LET d == work[w].doc
           b == Base[d]
       IN  \/ /\ backup' = [backup EXCEPT ![b] = docs[d]]
              /\ partial' = partial \ {b}
           \/ /\ \E part \in SUBSET docs[d].items : backup' = [backup EXCEPT ![b] = Content(0, part)]
              /\ partial' = partial \cup {b}
    /\ work' = [work EXCEPT ![w].at = "backedUp"]
    /\ UNCHANGED <<docs, replaced, made, acked, done, disturbed, mixed>>

AfterBackup(w) == work[w].at \in {"backedUp", "noBackup"}

\* EditTool looks for its target in what it read, after the backup.
TargetMissing(w) ==
    /\ AfterBackup(w)
    /\ work[w].op = "edit" /\ work[w].value \notin work[w].copy.items
    /\ work' = [work EXCEPT ![w] = Free]
    /\ UNCHANGED <<docs, backups, made, acked, done, disturbed, mixed>>

\* What there is to do before the write is done.
ReadyToWrite(w) ==
    LET k == work[w]
    IN  \/ k.at = "loaded" /\ Docs[k.doc] = "trust"
        \/ k.at = "loaded" /\ Docs[k.doc] = "file" /\ ~k.copy.there
        \/ AfterBackup(w) /\ (k.op = "edit" => k.value \in k.copy.items)

\* The store fails, or os.WriteFile cannot open the file: nothing has been changed.
WriteFails(w) ==
    /\ ReadyToWrite(w) \/ (work[w].at = "loaded" /\ Docs[work[w].doc] = "conversation")
    /\ work' = [work EXCEPT ![w] = Free]
    /\ UNCHANGED <<docs, backups, made, acked, done, disturbed, mixed>>

\* Mutant: the file is written before it is backed up.
BugTruncate(w) ==
    /\ work[w].at = "loaded"
    /\ docs' = [docs EXCEPT ![work[w].doc] = Content(0, {})]
    /\ work' = [work EXCEPT ![w].at = "emptied"]
    /\ replaced' = IF Docs[work[w].doc] = "file" /\ work[w].copy.there
                   THEN [replaced EXCEPT ![Base[work[w].doc]] = [at |-> "replaced", content |-> docs[work[w].doc]]]
                   ELSE replaced
    /\ UNCHANGED <<backup, partial, made, acked, done, disturbed, mixed>>

\* os.WriteFile empties the file, whether there is a snapshot or not,
Truncate(w) ==
    LET k == work[w]
    IN  /\ ReadyToWrite(w)
        /\ docs' = [docs EXCEPT ![k.doc] = Content(0, {})]
        /\ replaced' = IF k.at = "backedUp"
                       THEN [replaced EXCEPT ![Base[k.doc]] = [at |-> "replaced", content |-> docs[k.doc]]]
                       ELSE replaced
        /\ work' = [work EXCEPT ![w].at = "emptied"]
        /\ UNCHANGED <<backup, partial, made, acked, done, disturbed, mixed>>

\* then writes it.
Write(w) ==
    /\ work[w].at = "emptied"
    /\ docs' = [docs EXCEPT ![work[w].doc] = Written(w)]
    /\ work' = [work EXCEPT ![w] = Free]
    /\ Acknowledge(w)
    /\ UNCHANGED <<backups, made, disturbed, mixed>>

\* The process ends in between, or the write fails half-way.
CutOffChange(w) ==
    /\ work[w].at \in {"emptied", "opened", "backingUp"}
    /\ disturbed' = IF work[w].at = "backingUp" THEN disturbed ELSE disturbed \cup {work[w].doc}
    /\ work' = [work EXCEPT ![w] = Free]
    /\ UNCHANGED <<docs, backups, made, acked, done, mixed>>

\* WriteFileTool and EditTool.
StepOfTool(w) ==
    BackupFails(w) \/ CreateBackup(w) \/ CopyToBackup(w) \/ TargetMissing(w)
    \/ WriteFails(w) \/ Truncate(w) \/ Write(w)
=============================================================================
