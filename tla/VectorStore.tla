---------------------------- MODULE VectorStore -----------------------------
(***************************************************************************)
(* UsearchStore (internal/storage/db/vector.go): one BoltDB file with the  *)
(* buckets of every collection, and one USearch index for all collections, *)
(* in memory, with a copy of it in a file.  A collection numbers its chunks *)
(* from its own sequence, and the number is the key in the index.          *)
(*                                                                         *)
(* A mutex lets one writer in at a time, so that queries see the state     *)
(* between two calls; a crash sees the state between two steps of a call.  *)
(* BoltDB commits or rolls back.  What the index does with a key it has is *)
(* left open: Add fails or replaces the vector.  Every chunk has a vector. *)
(***************************************************************************)
EXTENDS Integers, Sequences, FiniteSets

CONSTANTS
    Collections,
    Chunks,         \* chunk IDs
    Contents,       \* what a chunk and its vector may be
    Batches,        \* sequences of [chunk, content] given to UpsertChunks
    Singles,        \* records [chunk, content] given to UpsertChunk
    None,
    MaxSeq,         \* bound: numbers of a collection
    MaxCrashes      \* bound: crashes

ASSUME StoreAssumption ==
    /\ None \notin Chunks
    /\ None \notin Contents
    /\ None \notin [coll : Collections, chunk : Chunks, content : Contents]
    /\ Singles \subseteq [chunk : Chunks, content : Contents]
    /\ Batches \subseteq Seq([chunk : Chunks, content : Contents])
    /\ MaxSeq \in Nat
    /\ MaxCrashes \in Nat

Ids == 1 .. MaxSeq

VARIABLES
    db,         \* the buckets of each collection, as committed
    index,      \* the vector the index has for each number
    saved,      \* the index in its file
    open,       \* the store is open
    call,       \* the call that holds the mutex
    acked,      \* history: chunks of each collection whose upsert returned no error
    single,     \* history: chunks of each collection numbered by UpsertChunk
    torn,       \* history: a save has left an index file that does not load
    crashes

history == <<acked, single, torn>>
vars == <<db, index, saved, open, call, history, crashes>>

\* The buckets mapping, reverse and meta of a collection and the sequence of the
\* first; reverse exists once UpsertChunks has run on the collection.
NoBuckets == [mapping |-> [ch \in Chunks |-> 0],
              reverse |-> [id \in Ids |-> None],
              hasReverse |-> FALSE,
              meta |-> [ch \in Chunks |-> None],
              seq |-> 0]

NoVectors == [id \in Ids |-> None]

NoCall == [at |-> "idle"]

Init ==
    /\ db = [c \in Collections |-> NoBuckets]
    /\ index = NoVectors
    /\ saved = NoVectors
    /\ open = TRUE
    /\ call = NoCall
    /\ acked = [c \in Collections |-> {}]
    /\ single = [c \in Collections |-> {}]
    /\ torn = FALSE
    /\ crashes = 0

-----------------------------------------------------------------------------
\* The number of a chunk: the one it has or the next of the sequence.
IdOf(b, ch) == IF b.mapping[ch] # 0 THEN b.mapping[ch] ELSE b.seq + 1

\* What every upsert writes into the buckets.
PutChunk(b, u) ==
    [b EXCEPT !.mapping[u.chunk] = IdOf(b, u.chunk),
              !.seq = IF b.mapping[u.chunk] # 0 THEN @ ELSE IdOf(b, u.chunk),
              !.meta[u.chunk] = u.content]

\* Mutant: the batch writes reverse entries only for chunks it has seen before.
BugPutInBatch(b, u) ==
    IF b.mapping[u.chunk] # 0
    THEN [PutChunk(b, u) EXCEPT !.reverse[IdOf(b, u.chunk)] = u.chunk]
    ELSE PutChunk(b, u)

\* UpsertChunks records the way back from a number, of a new chunk only.
PutInBatch(b, u) ==
    IF b.mapping[u.chunk] # 0
    THEN PutChunk(b, u)
    ELSE [PutChunk(b, u) EXCEPT !.reverse[IdOf(b, u.chunk)] = u.chunk]

Fits(b, u) == IdOf(b, u.chunk) <= MaxSeq

Vector(c, u) == [coll |-> c, chunk |-> u.chunk, content |-> u.content]

Idle == open /\ call.at = "idle"

Fail == call' = NoCall

\* Index.Save did not come to its end: the file is as before, or does not load.
SaveFails ==
    \/ UNCHANGED <<saved, torn>>
    \/ saved' = NoVectors /\ torn' = TRUE

-----------------------------------------------------------------------------
\* UpsertChunk: the buckets are committed before the vector is added.
PutMetadata(c, u) ==
    /\ Idle
    /\ Fits(db[c], u)
    /\ db' = [db EXCEPT ![c] = PutChunk(@, u)]
    /\ call' = [at |-> "add", coll |-> c, chunk |-> u.chunk, content |-> u.content]
    /\ single' = IF db[c].mapping[u.chunk] # 0 THEN single
                 ELSE [single EXCEPT ![c] = @ \cup {u.chunk}]
    /\ UNCHANGED <<index, saved, open, acked, torn, crashes>>

AddVector ==
    /\ open /\ call.at = "add"
    /\ \/ /\ index' = [index EXCEPT ![db[call.coll].mapping[call.chunk]] = Vector(call.coll, call)]
          /\ call' = [call EXCEPT !.at = "save"]
       \/ /\ UNCHANGED index
          /\ Fail
    /\ UNCHANGED <<db, saved, open, history, crashes>>

SaveIndex ==
    /\ open /\ call.at = "save"
    /\ \/ /\ saved' = index
          /\ acked' = [acked EXCEPT ![call.coll] = @ \cup {call.chunk}]
          /\ UNCHANGED torn
       \/ SaveFails /\ UNCHANGED acked
    /\ call' = NoCall
    /\ UNCHANGED <<db, index, open, single, crashes>>

-----------------------------------------------------------------------------
\* UpsertChunks: one transaction for the batch, with the vectors added and the
\* index saved inside it.
BeginBatch(c, batch) ==
    /\ Idle
    /\ batch # <<>>
    /\ call' = [at |-> "batch", coll |-> c, all |-> batch, todo |-> batch,
                tx |-> [db[c] EXCEPT !.hasReverse = TRUE]]
    /\ UNCHANGED <<db, index, saved, open, history, crashes>>

AddInBatch ==
    /\ open /\ call.at = "batch"
    /\ call.todo # <<>>
    /\ LET u == Head(call.todo)
       IN  \/ /\ Fits(call.tx, u)
              /\ index' = [index EXCEPT ![IdOf(call.tx, u.chunk)] = Vector(call.coll, u)]
              /\ call' = [call EXCEPT !.todo = Tail(@), !.tx = PutInBatch(@, u)]
           \/ /\ UNCHANGED index
              /\ Fail
    /\ UNCHANGED <<db, saved, open, history, crashes>>

SaveInBatch ==
    /\ open /\ call.at = "batch"
    /\ call.todo = <<>>
    /\ \/ saved' = index /\ call' = [call EXCEPT !.at = "commit"] /\ UNCHANGED torn
       \/ SaveFails /\ Fail
    /\ UNCHANGED <<db, index, open, acked, single, crashes>>

Members(batch) == {batch[i].chunk : i \in DOMAIN batch}

Commit ==
    /\ open /\ call.at = "commit"
    /\ \/ /\ db' = [db EXCEPT ![call.coll] = call.tx]
          /\ acked' = [acked EXCEPT ![call.coll] = @ \cup Members(call.all)]
       \/ UNCHANGED <<db, acked>>
    /\ call' = NoCall
    /\ UNCHANGED <<index, saved, open, single, torn, crashes>>

-----------------------------------------------------------------------------
\* Mutant: only mapping and its sequence are deleted.
BugDeleteCollection(c) ==
    /\ Idle
    /\ db[c].hasReverse
    /\ db' = [db EXCEPT ![c].mapping = NoBuckets.mapping, ![c].seq = 0]
    /\ acked' = [acked EXCEPT ![c] = {}]
    /\ single' = [single EXCEPT ![c] = {}]
    /\ UNCHANGED <<index, saved, open, call, torn, crashes>>

\* The buckets go, the vectors stay.  Without a reverse bucket its deletion fails
\* and the transaction is rolled back.
DeleteCollection(c) ==
    /\ Idle
    /\ db[c].hasReverse
    /\ db' = [db EXCEPT ![c] = NoBuckets]
    /\ acked' = [acked EXCEPT ![c] = {}]
    /\ single' = [single EXCEPT ![c] = {}]
    /\ UNCHANGED <<index, saved, open, call, torn, crashes>>

\* The index is saved, or not: the error is ignored.
Close ==
    /\ Idle
    /\ open' = FALSE
    /\ \/ saved' = index /\ UNCHANGED torn
       \/ SaveFails
    /\ index' = NoVectors
    /\ UNCHANGED <<db, call, acked, single, crashes>>

Saving == \/ call.at = "save"
          \/ call.at = "batch" /\ call.todo = <<>>

\* The process ends; what it was saving is there or not, or does not load.
Crash ==
    /\ open
    /\ crashes < MaxCrashes
    /\ crashes' = crashes + 1
    /\ open' = FALSE
    /\ index' = NoVectors
    /\ call' = NoCall
    /\ IF Saving THEN SaveFails ELSE UNCHANGED <<saved, torn>>
    /\ UNCHANGED <<db, acked, single>>

\* NewVectorStoreAtPath: the file is loaded, or the index stays empty.
Open ==
    /\ ~open
    /\ open' = TRUE
    /\ index' = saved
    /\ UNCHANGED <<db, saved, call, history, crashes>>

Next ==
    \/ \E c \in Collections, u \in Singles : PutMetadata(c, u)
    \/ AddVector \/ SaveIndex
    \/ \E c \in Collections, batch \in Batches : BeginBatch(c, batch)
    \/ AddInBatch \/ SaveInBatch \/ Commit
    \/ \E c \in Collections : DeleteCollection(c)
    \/ Close \/ Crash \/ Open

Spec == Init /\ [][Next]_vars
=============================================================================
