------------------------- MODULE VectorStoreProofs -------------------------
(***************************************************************************)
(* Proofs about UsearchStore (internal/storage/db/vector.go), for any      *)
(* collections, chunks, contents, batches, numbers and crashes.            *)
(***************************************************************************)
EXTENDS VectorStoreProps, SequenceTheorems, TLAPS

-----------------------------------------------------------------------------
Put    == [chunk : Chunks, content : Contents]
Vectors == [coll : Collections, chunk : Chunks, content : Contents]
Index  == [Ids -> Vectors \cup {None}]
Bucket == [mapping : [Chunks -> 0 .. MaxSeq], reverse : [Ids -> Chunks \cup {None}],
           hasReverse : BOOLEAN, meta : [Chunks -> Contents \cup {None}], seq : 0 .. MaxSeq]
SingleCall == [at : {"add", "save"}, coll : Collections, chunk : Chunks, content : Contents]
BatchCall  == [at : {"batch", "commit"}, coll : Collections, all : Seq(Put), todo : Seq(Put),
               tx : Bucket]

VectorTypeOK ==
    /\ db \in [Collections -> Bucket]
    /\ index \in Index
    /\ saved \in Index
    /\ open \in BOOLEAN
    /\ call = NoCall \/ call \in SingleCall \/ call \in BatchCall
    /\ acked \in [Collections -> SUBSET Chunks]
    /\ single \in [Collections -> SUBSET Chunks]
    /\ torn \in BOOLEAN

\* Numbers are given once, in order, and those given in a batch lead back to their
\* chunk; s are the chunks that UpsertChunk numbered.
Numbered(b, s) ==
    /\ \A ch \in Chunks : b.mapping[ch] <= b.seq
    /\ \A x, y \in Chunks : b.mapping[x] = b.mapping[y] /\ b.mapping[x] # 0 => x = y
    /\ \A id \in Ids : b.reverse[id] # None => b.mapping[b.reverse[id]] = id
    /\ \A ch \in Chunks : b.mapping[ch] # 0 /\ ch \notin s => b.reverse[b.mapping[ch]] = ch
    /\ \A ch \in s : b.mapping[ch] # 0 /\ b.reverse[b.mapping[ch]] = None

\* A number that leads back to a chunk of collection c has that chunk's vector, or
\* another collection's.
OwnVectors(b, c, v) ==
    \A id \in Ids : b.reverse[id] # None /\ v[id] # None /\ v[id].coll = c
                      => v[id].chunk = b.reverse[id]

CollectionInv(c) ==
    /\ Numbered(db[c], single[c])
    /\ OwnVectors(db[c], c, index)
    /\ OwnVectors(db[c], c, saved)
    /\ \A ch \in acked[c] : db[c].mapping[ch] # 0
                              /\ (torn \/ saved[db[c].mapping[ch]] # None)

SingleInv ==
    /\ db[call.coll].mapping[call.chunk] # 0
    /\ call.at = "save" => index[db[call.coll].mapping[call.chunk]] # None

\* A transaction adds to what is committed; what it has put has a vector, in the index
\* and, before the commit, in the file.
BatchInv ==
    /\ Numbered(call.tx, single[call.coll])
    /\ OwnVectors(call.tx, call.coll, index)
    /\ \A ch \in Chunks : db[call.coll].mapping[ch] # 0 =>
           call.tx.mapping[ch] = db[call.coll].mapping[ch]
    /\ \A ch \in Members(call.all) :
           ch \in Members(call.todo)
             \/ (call.tx.mapping[ch] # 0 /\ index[call.tx.mapping[ch]] # None)
    /\ call.at = "commit" =>
           call.todo = <<>> /\ saved = index

StoreInv ==
    /\ VectorTypeOK
    /\ \A c \in Collections : CollectionInv(c)
    /\ open => \A id \in Ids : saved[id] # None => index[id] # None
    /\ ~open => call = NoCall
    /\ call \in SingleCall => SingleInv
    /\ call \in BatchCall => BatchInv

-----------------------------------------------------------------------------
\* What an upsert writes, and what it leaves.
LEMMA PutChunkFields ==
    ASSUME NEW b \in Bucket, NEW u \in Put, Fits(b, u)
    PROVE  /\ PutChunk(b, u) \in Bucket
           /\ PutChunk(b, u).mapping = [b.mapping EXCEPT ![u.chunk] = IdOf(b, u.chunk)]
           /\ PutChunk(b, u).seq = IF b.mapping[u.chunk] # 0 THEN b.seq ELSE b.seq + 1
           /\ PutChunk(b, u).reverse = b.reverse
           /\ IdOf(b, u.chunk) \in Ids
  <1>1. /\ b.mapping \in [Chunks -> 0 .. MaxSeq] /\ b.seq \in 0 .. MaxSeq /\ MaxSeq \in Nat
        /\ u.chunk \in Chunks /\ u.content \in Contents
        /\ b.meta \in [Chunks -> Contents \cup {None}]
    BY StoreAssumption DEF Bucket, Put
  <1>2. IdOf(b, u.chunk) \in 1 .. MaxSeq
    BY <1>1 DEF IdOf, Fits
  <1>3. PICK m : m = [b.mapping EXCEPT ![u.chunk] = IdOf(b, u.chunk)]
    OBVIOUS
  <1>4. PICK n : n = IF b.mapping[u.chunk] # 0 THEN b.seq ELSE IdOf(b, u.chunk)
    OBVIOUS
  <1>5. PICK t : t = [b.meta EXCEPT ![u.chunk] = u.content]
    OBVIOUS
  <1>6. PutChunk(b, u) = [b EXCEPT !.mapping = m, !.seq = n, !.meta = t]
    BY <1>3, <1>4, <1>5 DEF PutChunk, Bucket
  <1>7. m \in [Chunks -> 0 .. MaxSeq] /\ n \in 0 .. MaxSeq
        /\ t \in [Chunks -> Contents \cup {None}]
        /\ n = IF b.mapping[u.chunk] # 0 THEN b.seq ELSE b.seq + 1
    BY <1>1, <1>2, <1>3, <1>4, <1>5 DEF IdOf
  <1>8. /\ PutChunk(b, u) \in Bucket /\ PutChunk(b, u).mapping = m
        /\ PutChunk(b, u).seq = n /\ PutChunk(b, u).reverse = b.reverse
    BY <1>6, <1>7 DEF Bucket
  <1> QED
    BY <1>2, <1>3, <1>7, <1>8 DEF Ids

LEMMA PutInBatchFields ==
    ASSUME NEW b \in Bucket, NEW u \in Put, Fits(b, u)
    PROVE  /\ PutInBatch(b, u) \in Bucket
           /\ PutInBatch(b, u).mapping = [b.mapping EXCEPT ![u.chunk] = IdOf(b, u.chunk)]
           /\ PutInBatch(b, u).seq = IF b.mapping[u.chunk] # 0 THEN b.seq ELSE b.seq + 1
           /\ b.mapping[u.chunk] # 0 => PutInBatch(b, u).reverse = b.reverse
           /\ b.mapping[u.chunk] = 0 =>
                 PutInBatch(b, u).reverse = [b.reverse EXCEPT ![IdOf(b, u.chunk)] = u.chunk]
  <1>1. CASE b.mapping[u.chunk] # 0
    BY <1>1, PutChunkFields DEF PutInBatch
  <1>2. CASE b.mapping[u.chunk] = 0
    <2> PICK q : q = PutChunk(b, u)
      OBVIOUS
    <2>1. /\ q \in Bucket /\ q.mapping = [b.mapping EXCEPT ![u.chunk] = IdOf(b, u.chunk)]
          /\ q.seq = b.seq + 1 /\ q.reverse = b.reverse /\ IdOf(b, u.chunk) \in Ids
      BY <1>2, PutChunkFields
    <2>2. PICK v : v = [q.reverse EXCEPT ![IdOf(b, u.chunk)] = u.chunk]
      OBVIOUS
    <2>3. PutInBatch(b, u) = [q EXCEPT !.reverse = v]
      BY <1>2, <2>1, <2>2 DEF PutInBatch, Bucket
    <2>4. v \in [Ids -> Chunks \cup {None}]
      BY <2>1, <2>2 DEF Bucket, Put
    <2>5. /\ PutInBatch(b, u) \in Bucket /\ PutInBatch(b, u).mapping = q.mapping
          /\ PutInBatch(b, u).seq = q.seq /\ PutInBatch(b, u).reverse = v
      BY <2>1, <2>3, <2>4 DEF Bucket
    <2> QED
      BY <1>2, <2>1, <2>2, <2>5
  <1> QED
    BY <1>1, <1>2

\* A chunk keeps its number; a new one gets a number that was free and led nowhere.
LEMMA SingleNumbers ==
    ASSUME NEW b \in Bucket, NEW s \in SUBSET Chunks, Numbered(b, s), NEW u \in Put, Fits(b, u)
    PROVE  Numbered(PutChunk(b, u),
                    IF b.mapping[u.chunk] # 0 THEN s ELSE s \cup {u.chunk})
  <1> PICK q : q = PutChunk(b, u)
    OBVIOUS
  <1>1. /\ q.mapping = [b.mapping EXCEPT ![u.chunk] = IdOf(b, u.chunk)]
        /\ q.seq = IF b.mapping[u.chunk] # 0 THEN b.seq ELSE b.seq + 1
        /\ q.reverse = b.reverse /\ IdOf(b, u.chunk) \in Ids
    BY PutChunkFields
  <1>2. /\ b.mapping \in [Chunks -> 0 .. MaxSeq] /\ b.seq \in 0 .. MaxSeq /\ MaxSeq \in Nat
        /\ u.chunk \in Chunks /\ b.reverse \in [Ids -> Chunks \cup {None}]
    BY StoreAssumption DEF Bucket, Put
  <1>3. CASE b.mapping[u.chunk] # 0
    <2>1. q.mapping = b.mapping /\ q.seq = b.seq
      BY <1>1, <1>2, <1>3 DEF IdOf
    <2> QED
      BY <1>1, <1>3, <2>1 DEF Numbered
  <1>4. CASE b.mapping[u.chunk] = 0
    <2>1. /\ q.mapping[u.chunk] = b.seq + 1 /\ q.seq = b.seq + 1 /\ b.seq + 1 \in Ids
          /\ \A ch \in Chunks : ch # u.chunk => q.mapping[ch] = b.mapping[ch]
      BY <1>1, <1>2, <1>4 DEF IdOf
    <2>2. \A ch \in Chunks : b.mapping[ch] # b.seq + 1 /\ b.mapping[ch] \in 0 .. b.seq
      BY <1>2 DEF Numbered
    <2>3. b.reverse[b.seq + 1] = None
      BY <1>2, <2>1, <2>2 DEF Numbered
    <2>4. \A id \in Ids : b.reverse[id] # None =>
              b.reverse[id] # u.chunk /\ b.reverse[id] \in Chunks
      BY <1>2, <1>4 DEF Numbered, Ids
    <2>5. \A ch \in Chunks : q.mapping[ch] <= q.seq
      BY <1>2, <2>1, <2>2
    <2>6. \A x, y \in Chunks : q.mapping[x] = q.mapping[y] /\ q.mapping[x] # 0 => x = y
      BY <2>1, <2>2 DEF Numbered
    <2>7. \A id \in Ids : q.reverse[id] # None => q.mapping[q.reverse[id]] = id
      BY <1>1, <2>1, <2>4 DEF Numbered
    <2>8. \A ch \in Chunks : q.mapping[ch] # 0 /\ ch \notin s \cup {u.chunk} =>
              q.reverse[q.mapping[ch]] = ch
      BY <1>1, <2>1 DEF Numbered
    <2>9. \A ch \in s \cup {u.chunk} : q.mapping[ch] # 0 /\ q.reverse[q.mapping[ch]] = None
      BY <1>1, <1>2, <2>1, <2>3 DEF Numbered
    <2> QED
      BY <1>4, <2>5, <2>6, <2>7, <2>8, <2>9 DEF Numbered
  <1> QED
    BY <1>3, <1>4

LEMMA BatchNumbers ==
    ASSUME NEW b \in Bucket, NEW s \in SUBSET Chunks, Numbered(b, s), NEW u \in Put, Fits(b, u)
    PROVE  Numbered(PutInBatch(b, u), s)
  <1> PICK q : q = PutInBatch(b, u)
    OBVIOUS
  <1>1. /\ q.mapping = [b.mapping EXCEPT ![u.chunk] = IdOf(b, u.chunk)]
        /\ q.seq = IF b.mapping[u.chunk] # 0 THEN b.seq ELSE b.seq + 1
        /\ b.mapping[u.chunk] # 0 => q.reverse = b.reverse
        /\ b.mapping[u.chunk] = 0 => q.reverse = [b.reverse EXCEPT ![IdOf(b, u.chunk)] = u.chunk]
    BY PutInBatchFields
  <1>2. /\ b.mapping \in [Chunks -> 0 .. MaxSeq] /\ b.seq \in 0 .. MaxSeq /\ MaxSeq \in Nat
        /\ u.chunk \in Chunks /\ b.reverse \in [Ids -> Chunks \cup {None}]
        /\ IdOf(b, u.chunk) \in Ids
    BY StoreAssumption, PutChunkFields DEF Bucket, Put
  <1>3. CASE b.mapping[u.chunk] # 0
    <2>1. q.mapping = b.mapping /\ q.seq = b.seq
      BY <1>1, <1>2, <1>3 DEF IdOf
    <2> QED
      BY <1>1, <1>3, <2>1 DEF Numbered
  <1>4. CASE b.mapping[u.chunk] = 0
    <2>1. /\ q.mapping[u.chunk] = b.seq + 1 /\ q.seq = b.seq + 1 /\ b.seq + 1 \in Ids
          /\ \A ch \in Chunks : ch # u.chunk => q.mapping[ch] = b.mapping[ch]
      BY <1>1, <1>2, <1>4 DEF IdOf
    <2>2. \A ch \in Chunks : b.mapping[ch] # b.seq + 1 /\ b.mapping[ch] \in 0 .. b.seq
      BY <1>2 DEF Numbered
    <2>3. /\ q.reverse[b.seq + 1] = u.chunk
          /\ \A id \in Ids : id # b.seq + 1 => q.reverse[id] = b.reverse[id]
      BY <1>1, <1>2, <1>4 DEF IdOf
    <2>4. \A id \in Ids : b.reverse[id] # None =>
              b.reverse[id] # u.chunk /\ b.reverse[id] \in Chunks
      BY <1>2, <1>4 DEF Numbered, Ids
    <2>5. \A ch \in Chunks : q.mapping[ch] <= q.seq
      BY <1>2, <2>1, <2>2
    <2>6. \A x, y \in Chunks : q.mapping[x] = q.mapping[y] /\ q.mapping[x] # 0 => x = y
      BY <2>1, <2>2 DEF Numbered
    <2>7. \A id \in Ids : q.reverse[id] # None => q.mapping[q.reverse[id]] = id
      BY <2>1, <2>3, <2>4 DEF Numbered
    <2>8. ASSUME NEW ch \in Chunks, ch # u.chunk, b.mapping[ch] # 0
          PROVE  q.mapping[ch] = b.mapping[ch] /\ q.reverse[q.mapping[ch]] = b.reverse[b.mapping[ch]]
      BY <1>2, <2>1, <2>2, <2>3, <2>8 DEF Ids
    <2>9. \A ch \in Chunks : q.mapping[ch] # 0 /\ ch \notin s =>
              q.reverse[q.mapping[ch]] = ch
      <3> SUFFICES ASSUME NEW ch \in Chunks, q.mapping[ch] # 0, ch \notin s
                   PROVE  q.reverse[q.mapping[ch]] = ch
        OBVIOUS
      <3>1. CASE ch = u.chunk
        BY <2>1, <2>3, <3>1
      <3>2. CASE ch # u.chunk
        BY <2>1, <2>8, <3>2 DEF Numbered
      <3> QED
        BY <3>1, <3>2
    <2>10. \A ch \in s : q.mapping[ch] # 0 /\ q.reverse[q.mapping[ch]] = None
      <3> SUFFICES ASSUME NEW ch \in s
                   PROVE  q.mapping[ch] # 0 /\ q.reverse[q.mapping[ch]] = None
        OBVIOUS
      <3>1. b.mapping[ch] # 0 /\ b.reverse[b.mapping[ch]] = None /\ ch # u.chunk
        BY <1>4 DEF Numbered
      <3> QED
        BY <2>8, <3>1
    <2> QED
      BY <2>5, <2>6, <2>7, <2>9, <2>10 DEF Numbered
  <1> QED
    BY <1>3, <1>4

\* Putting collection c's vector of a chunk at that chunk's number harms no collection.
LEMMA VectorOwned ==
    ASSUME NEW b \in Bucket, NEW c, NEW d, NEW v \in Index, OwnVectors(b, d, v),
           NEW u \in Put, NEW id \in Ids,
           d = c => b.reverse[id] \in {None, u.chunk}
    PROVE  OwnVectors(b, d, [v EXCEPT ![id] = Vector(c, u)])
  <1>1. Vector(c, u).coll = c /\ Vector(c, u).chunk = u.chunk
    BY DEF Vector
  <1> PICK t : t = Vector(c, u)
    OBVIOUS
  <1>2. /\ [v EXCEPT ![id] = t][id] = t
        /\ \A i \in Ids : i # id => [v EXCEPT ![id] = t][i] = v[i]
    BY DEF Index
  <1> QED
    BY <1>1, <1>2 DEF OwnVectors

LEMMA VectorInBatch ==
    ASSUME NEW b \in Bucket, NEW s, NEW c, NEW v \in Index, Numbered(b, s), OwnVectors(b, c, v),
           NEW u \in Put, Fits(b, u)
    PROVE  OwnVectors(PutInBatch(b, u), c, [v EXCEPT ![IdOf(b, u.chunk)] = Vector(c, u)])
  <1> DEFINE id == IdOf(b, u.chunk)
  <1>1. /\ b.mapping[u.chunk] # 0 => PutInBatch(b, u).reverse = b.reverse
        /\ b.mapping[u.chunk] = 0 => PutInBatch(b, u).reverse = [b.reverse EXCEPT ![id] = u.chunk]
    BY PutInBatchFields
  <1>2. /\ id \in Ids /\ u.chunk \in Chunks
        /\ b.mapping \in [Chunks -> 0 .. MaxSeq] /\ b.reverse \in [Ids -> Chunks \cup {None}]
    BY PutChunkFields DEF Bucket, Put
  <1>3. b.mapping[u.chunk] # 0 => id = b.mapping[u.chunk]
    BY DEF IdOf
  <1> HIDE DEF id
  <1>4. PutInBatch(b, u).reverse[id] \in {None, u.chunk}
    <2>1. CASE b.mapping[u.chunk] = 0
      BY <1>1, <1>2, <2>1
    <2>2. CASE b.mapping[u.chunk] # 0
      BY <1>1, <1>2, <1>3, <2>2 DEF Numbered
    <2> QED
      BY <2>1, <2>2
  <1>5. \A i \in Ids : i # id => PutInBatch(b, u).reverse[i] = b.reverse[i]
    BY <1>1, <1>2
  <1>6. Vector(c, u).coll = c /\ Vector(c, u).chunk = u.chunk
    BY DEF Vector
  <1> PICK t : t = Vector(c, u)
    OBVIOUS
  <1>7. /\ [v EXCEPT ![id] = t][id] = t
        /\ \A i \in Ids : i # id => [v EXCEPT ![id] = t][i] = v[i]
    BY <1>2 DEF Index
  <1>8. OwnVectors(PutInBatch(b, u), c, [v EXCEPT ![id] = t])
    BY <1>4, <1>5, <1>6, <1>7 DEF OwnVectors
  <1> QED
    BY <1>8 DEF id

-----------------------------------------------------------------------------
\* A call is one of three things.
LEMMA CallKinds ==
    ASSUME VectorTypeOK
    PROVE  /\ call.at = "idle" => call = NoCall
           /\ call.at \in {"add", "save"} => call \in SingleCall
           /\ call.at \in {"batch", "commit"} => call \in BatchCall
           /\ call \in SingleCall => call.at \in {"add", "save"}
           /\ call \in BatchCall => call.at \in {"batch", "commit"}
           /\ NoCall.at = "idle" /\ NoCall \notin SingleCall /\ NoCall \notin BatchCall
           /\ SingleCall \cap BatchCall = {}
  <1>1. NoCall.at = "idle"
    BY DEF NoCall
  <1>2. \A r \in SingleCall : r.at \in {"add", "save"}
    BY DEF SingleCall
  <1>3. \A r \in BatchCall : r.at \in {"batch", "commit"}
    BY DEF BatchCall
  <1>4. SingleCall \cap BatchCall = {}
    BY <1>2, <1>3
  <1> QED
    BY <1>1, <1>2, <1>3, <1>4 DEF VectorTypeOK

\* The number of a chunk leads to it, or nowhere.
LEMMA OwnNumber ==
    ASSUME NEW b \in Bucket, NEW s, Numbered(b, s), NEW ch \in Chunks, b.mapping[ch] # 0
    PROVE  b.mapping[ch] \in Ids /\ b.reverse[b.mapping[ch]] \in {None, ch}
  <1>1. b.mapping[ch] \in Ids
    BY StoreAssumption DEF Bucket, Ids
  <1>2. b.reverse[b.mapping[ch]] \in Chunks \cup {None}
    BY <1>1 DEF Bucket
  <1> QED
    BY <1>1, <1>2 DEF Numbered

\* The file is what it was, is the index, or has been lost.
LEMMA SaveFailsKeeps ==
    ASSUME StoreInv, SaveFails
    PROVE  /\ saved' \in Index /\ torn' \in BOOLEAN
           /\ \A id \in Ids : saved'[id] # None => saved[id] # None
           /\ \A c \in Collections : OwnVectors(db[c], c, saved')
           /\ \A id \in Ids : torn' \/ (~torn /\ saved'[id] = saved[id])
           /\ torn => torn'
  <1>1. NoVectors \in Index /\ \A id \in Ids : NoVectors[id] = None
    BY DEF NoVectors, Index
  <1>2. saved \in Index /\ \A c \in Collections : OwnVectors(db[c], c, saved)
    BY DEF StoreInv, VectorTypeOK, CollectionInv
  <1>3. torn \in BOOLEAN
    BY DEF StoreInv, VectorTypeOK
  <1>4. CASE UNCHANGED <<saved, torn>>
    BY <1>2, <1>3, <1>4
  <1>5. CASE saved' = NoVectors /\ torn' = TRUE
    BY <1>1, <1>2, <1>5 DEF OwnVectors
  <1> QED
    BY <1>4, <1>5 DEF SaveFails

LEMMA StoreInitially == Init => StoreInv
  <1> SUFFICES ASSUME Init
               PROVE  StoreInv
    OBVIOUS
  <1>1. /\ NoBuckets \in Bucket
        /\ \A ch \in Chunks : NoBuckets.mapping[ch] = 0
        /\ \A id \in Ids : NoBuckets.reverse[id] = None
        /\ NoBuckets.seq = 0
    BY StoreAssumption DEF NoBuckets, Bucket
  <1>2. NoVectors \in Index /\ \A id \in Ids : NoVectors[id] = None
    BY DEF NoVectors, Index
  <1>3. VectorTypeOK
    BY <1>1, <1>2 DEF Init, VectorTypeOK
  <1>4. Numbered(NoBuckets, {})
    BY <1>1 DEF Numbered
  <1>5. \A c \in Collections : CollectionInv(c)
    BY <1>1, <1>2, <1>4 DEF Init, CollectionInv, OwnVectors
  <1> QED
    BY <1>2, <1>3, <1>5, CallKinds DEF Init, StoreInv

LEMMA PutMetadataKeeps ==
    ASSUME StoreInv, NEW c \in Collections, NEW u \in Singles, PutMetadata(c, u)
    PROVE  StoreInv'
  <1>1. /\ u \in Put /\ db[c] \in Bucket /\ Fits(db[c], u) /\ single[c] \in SUBSET Chunks
        /\ Numbered(db[c], single[c]) /\ db \in [Collections -> Bucket]
        /\ single \in [Collections -> SUBSET Chunks] /\ acked \in [Collections -> SUBSET Chunks]
    BY StoreAssumption DEF PutMetadata, StoreInv, VectorTypeOK, CollectionInv, Put
  <1>2. u.chunk \in Chunks /\ u.content \in Contents
    BY <1>1 DEF Put
  <1>3. PICK q \in Bucket : q = PutChunk(db[c], u)
    BY <1>1, PutChunkFields
  <1>4. /\ q.mapping = [db[c].mapping EXCEPT ![u.chunk] = IdOf(db[c], u.chunk)]
        /\ q.reverse = db[c].reverse /\ IdOf(db[c], u.chunk) \in Ids
    BY <1>1, <1>3, PutChunkFields
  <1>5. PICK n \in SUBSET Chunks : n = IF db[c].mapping[u.chunk] # 0 THEN single[c]
                                       ELSE single[c] \cup {u.chunk}
    BY <1>1, <1>2
  <1>6. db' = [db EXCEPT ![c] = q] /\ single' = [single EXCEPT ![c] = n]
    BY <1>1, <1>3, <1>5 DEF PutMetadata
  <1>7. Numbered(q, n)
    BY <1>1, <1>3, <1>5, SingleNumbers
  <1>8. /\ db[c].mapping \in [Chunks -> 0 .. MaxSeq] /\ q.mapping[u.chunk] # 0
        /\ \A ch \in Chunks : db[c].mapping[ch] # 0 => q.mapping[ch] = db[c].mapping[ch]
    BY <1>1, <1>2, <1>4 DEF Bucket, IdOf, Ids
  <1>9. UNCHANGED <<index, saved, open, acked, torn>>
        /\ call' = [at |-> "add", coll |-> c, chunk |-> u.chunk, content |-> u.content]
        /\ open
    BY DEF PutMetadata, Idle
  <1>10. /\ call' \in SingleCall /\ call'.at = "add" /\ call'.coll = c /\ call'.chunk = u.chunk
    BY <1>2, <1>9 DEF SingleCall
  <1>11. VectorTypeOK'
    BY <1>1, <1>6, <1>9, <1>10 DEF StoreInv, VectorTypeOK
  <1>12. \A d \in Collections : CollectionInv(d)'
    <2> SUFFICES ASSUME NEW d \in Collections
                 PROVE  CollectionInv(d)'
      OBVIOUS
    <2>1. CASE d # c
      BY <1>1, <1>6, <1>9, <2>1 DEF StoreInv, CollectionInv, OwnVectors
    <2>2. CASE d = c
      <3>1. db'[c] = q /\ single'[c] = n
        BY <1>1, <1>6
      <3>2. CollectionInv(c)
        BY DEF StoreInv
      <3>3. OwnVectors(q, c, index) /\ OwnVectors(q, c, saved)
        BY <1>4, <3>2 DEF CollectionInv, OwnVectors
      <3>4. \A ch \in acked[c] : q.mapping[ch] # 0 /\ (torn \/ saved[q.mapping[ch]] # None)
        BY <1>1, <1>8, <3>2 DEF CollectionInv
      <3> QED
        BY <1>7, <1>9, <2>2, <3>1, <3>3, <3>4 DEF CollectionInv
    <2> QED
      BY <2>1, <2>2
  <1>13. SingleInv'
    BY <1>1, <1>6, <1>8, <1>10 DEF SingleInv
  <1>14. call' \notin BatchCall
    BY <1>10, CallKinds DEF StoreInv
  <1> QED
    BY <1>9, <1>11, <1>12, <1>13, <1>14 DEF StoreInv

LEMMA AddVectorKeeps ==
    ASSUME StoreInv, AddVector
    PROVE  StoreInv'
  <1>1. call.at = "add" /\ call \in SingleCall /\ open
    BY CallKinds DEF AddVector, StoreInv
  <1>2. PICK c, ch, x : c = call.coll /\ ch = call.chunk /\ x = call.content
    OBVIOUS
  <1>3. c \in Collections /\ ch \in Chunks /\ x \in Contents
    BY <1>1, <1>2 DEF SingleCall
  <1>4. /\ \A d \in Collections : CollectionInv(d)
        /\ VectorTypeOK /\ index \in Index /\ db \in [Collections -> Bucket] /\ SingleInv
    BY <1>1 DEF StoreInv, VectorTypeOK
  <1>5. PICK id : id = db[c].mapping[ch]
    OBVIOUS
  <1>6. id \in Ids /\ db[c].reverse[id] \in {None, ch}
    BY <1>1, <1>2, <1>3, <1>4, <1>5, OwnNumber DEF CollectionInv, SingleInv
  <1>7. UNCHANGED <<db, saved, open, acked, single, torn>>
    BY DEF AddVector, history
  <1>8. CASE call' = NoCall /\ UNCHANGED index
    <2>1. VectorTypeOK'
      BY <1>4, <1>7, <1>8 DEF VectorTypeOK
    <2>2. \A d \in Collections : CollectionInv(d)'
      BY <1>4, <1>7, <1>8 DEF CollectionInv
    <2> QED
      BY <1>4, <1>7, <1>8, <2>1, <2>2, CallKinds DEF StoreInv
  <1>9. CASE /\ index' = [index EXCEPT ![id] = Vector(c, call)]
             /\ call' = [call EXCEPT !.at = "save"]
    <2>1. /\ call' \in SingleCall /\ call'.at = "save" /\ call'.coll = c /\ call'.chunk = ch
      BY <1>1, <1>2, <1>9 DEF SingleCall
    <2> PICK u : u = [chunk |-> ch, content |-> x]
      OBVIOUS
    <2>2. u \in Put /\ u.chunk = ch /\ u.content = x
      BY <1>3 DEF Put
    <2>3. Vector(c, call) = Vector(c, u)
      BY <1>2, <2>2 DEF Vector
    <2>4. Vector(c, u) \in Vectors
      BY <1>3, <2>2 DEF Vector, Vectors
    <2>5. PICK t \in Vectors : t = Vector(c, u)
      BY <2>4
    <2>6. /\ index' = [index EXCEPT ![id] = t] /\ t # None
      BY <1>9, <2>3, <2>5, StoreAssumption DEF Vectors
    <2>7. /\ index' \in Index /\ index'[id] = t
          /\ \A i \in Ids : i # id => index'[i] = index[i]
      BY <1>4, <1>6, <2>6 DEF Index
    <2>8. VectorTypeOK'
      BY <1>4, <1>7, <2>1, <2>7 DEF VectorTypeOK
    <2>9. ASSUME NEW d \in Collections
          PROVE  CollectionInv(d)'
      <3>1. d = c => db[d].reverse[id] \in {None, u.chunk}
        BY <1>6, <2>2
      <3>2. db[d] \in Bucket /\ OwnVectors(db[d], d, index)
        BY <1>4, <2>9 DEF CollectionInv
      <3>3. OwnVectors(db[d], d, index')
        BY <1>4, <1>6, <1>9, <2>2, <2>3, <3>1, <3>2, VectorOwned
      <3> QED
        BY <1>4, <1>7, <2>9, <3>3 DEF CollectionInv
    <2>10. SingleInv'
      BY <1>1, <1>2, <1>4, <1>5, <1>7, <2>1, <2>6, <2>7 DEF SingleInv
    <2>11. \A i \in Ids : saved[i] # None => index'[i] # None
      BY <1>1, <2>6, <2>7 DEF StoreInv
    <2>12. call' \notin BatchCall
      BY <1>4, <2>1, CallKinds
    <2> QED
      BY <1>1, <1>7, <2>8, <2>9, <2>10, <2>11, <2>12 DEF StoreInv
  <1> QED
    BY <1>2, <1>5, <1>8, <1>9 DEF AddVector, Fail

\* When a call ends, what it promised of its collection has to hold.
LEMMA SaveIndexKeeps ==
    ASSUME StoreInv, SaveIndex
    PROVE  StoreInv'
  <1>1. call.at = "save" /\ call \in SingleCall /\ open
    BY CallKinds DEF SaveIndex, StoreInv
  <1>2. PICK c, ch : c = call.coll /\ ch = call.chunk
    OBVIOUS
  <1>3. c \in Collections /\ ch \in Chunks
    BY <1>1, <1>2 DEF SingleCall
  <1>4. /\ \A d \in Collections : CollectionInv(d)
        /\ VectorTypeOK /\ SingleInv /\ acked \in [Collections -> SUBSET Chunks]
        /\ \A id \in Ids : saved[id] # None => index[id] # None
        /\ db \in [Collections -> Bucket]
    BY <1>1 DEF StoreInv, VectorTypeOK
  <1>5. UNCHANGED <<db, index, open, single>> /\ call' = NoCall
    BY DEF SaveIndex
  <1>6. \A d \in Collections, x \in Chunks : db[d].mapping[x] # 0 => db[d].mapping[x] \in Ids
    BY <1>4, OwnNumber DEF CollectionInv
  <1>7. CASE saved' = index /\ acked' = [acked EXCEPT ![c] = @ \cup {ch}] /\ UNCHANGED torn
    <2>1. VectorTypeOK'
      BY <1>3, <1>4, <1>5, <1>7 DEF VectorTypeOK
    <2>2. ASSUME NEW d \in Collections
          PROVE  CollectionInv(d)'
      <3>1. \A x \in acked'[d] : x \in acked[d] \/ (d = c /\ x = ch)
        BY <1>3, <1>4, <1>7
      <3>2. \A x \in acked[d] : x \in Chunks
        BY <1>4
      <3>3. \A x \in acked'[d] : db[d].mapping[x] # 0 /\ (torn \/ index[db[d].mapping[x]] # None)
        BY <1>1, <1>2, <1>4, <1>6, <3>1, <3>2 DEF CollectionInv, SingleInv
      <3> QED
        BY <1>4, <1>5, <1>7, <3>3 DEF CollectionInv
    <2> QED
      BY <1>4, <1>5, <1>7, <2>1, <2>2, CallKinds DEF StoreInv
  <1>8. CASE SaveFails /\ UNCHANGED acked
    <2>1. /\ saved' \in Index /\ torn' \in BOOLEAN
          /\ \A id \in Ids : saved'[id] # None => saved[id] # None
          /\ \A d \in Collections : OwnVectors(db[d], d, saved')
          /\ \A id \in Ids : torn' \/ (~torn /\ saved'[id] = saved[id])
      BY <1>8, SaveFailsKeeps
    <2>2. VectorTypeOK'
      BY <1>4, <1>5, <1>8, <2>1 DEF VectorTypeOK
    <2>3. ASSUME NEW d \in Collections
          PROVE  CollectionInv(d)'
      <3>1. \A x \in acked[d] : db[d].mapping[x] # 0 /\ (torn' \/ saved'[db[d].mapping[x]] # None)
        BY <1>4, <1>6, <2>1 DEF CollectionInv
      <3> QED
        BY <1>4, <1>5, <1>8, <2>1, <3>1 DEF CollectionInv
    <2> QED
      BY <1>4, <1>5, <2>1, <2>2, <2>3, CallKinds DEF StoreInv
  <1> QED
    BY <1>2, <1>7, <1>8 DEF SaveIndex

\* What is left of a batch without its first upsert.
LEMMA MembersLeft ==
    ASSUME NEW q \in Seq(Put), q # <<>>
    PROVE  /\ Head(q) \in Put /\ Tail(q) \in Seq(Put)
           /\ Members(q) \subseteq {Head(q).chunk} \cup Members(Tail(q))
  <1>1. /\ Head(q) = q[1] /\ Tail(q) \in Seq(Put) /\ Len(Tail(q)) = Len(q) - 1
        /\ \A i \in 1 .. Len(q) - 1 : Tail(q)[i] = q[i + 1]
    BY HeadTailProperties
  <1>2. Len(q) \in Nat \ {0} /\ q[1] \in Put /\ DOMAIN q = 1 .. Len(q)
        /\ DOMAIN Tail(q) = 1 .. Len(q) - 1
    BY <1>1, EmptySeq, LenProperties, ElementOfSeq
  <1>3. ASSUME NEW i \in 1 .. Len(q), i # 1
        PROVE  q[i].chunk \in Members(Tail(q))
    <2>1. i - 1 \in 1 .. Len(q) - 1 /\ (i - 1) + 1 = i
      BY <1>2, <1>3
    <2>2. q[i] = Tail(q)[i - 1]
      BY <1>1, <2>1
    <2> QED
      BY <1>2, <2>1, <2>2 DEF Members
  <1>4. Members(q) \subseteq {Head(q).chunk} \cup Members(Tail(q))
    BY <1>1, <1>2, <1>3 DEF Members
  <1> QED
    BY <1>1, <1>2, <1>4

LEMMA MembersAreChunks ==
    ASSUME NEW q \in Seq(Put)
    PROVE  Members(q) \subseteq Chunks /\ (q = <<>> => Members(q) = {})
  <1>1. DOMAIN q = 1 .. Len(q) /\ \A i \in 1 .. Len(q) : q[i] \in Put
    BY ElementOfSeq, LenProperties
  <1>2. DOMAIN <<>> = {}
    BY EmptySeq, LenProperties
  <1> QED
    BY <1>1, <1>2 DEF Members, Put

LEMMA BeginBatchKeeps ==
    ASSUME StoreInv, NEW c \in Collections, NEW batch \in Batches, BeginBatch(c, batch)
    PROVE  StoreInv'
  <1>1. /\ VectorTypeOK /\ CollectionInv(c) /\ db[c] \in Bucket
        /\ batch \in Seq(Put) /\ open
    BY StoreAssumption DEF StoreInv, VectorTypeOK, BeginBatch, Idle, Put
  <1>0. PICK b : b = [db[c] EXCEPT !.hasReverse = TRUE]
    OBVIOUS
  <1>2. /\ b \in Bucket /\ b.mapping = db[c].mapping /\ b.reverse = db[c].reverse
        /\ b.seq = db[c].seq
    BY <1>0, <1>1 DEF Bucket
  <1>3. UNCHANGED <<db, index, saved, open, acked, single, torn>>
        /\ call' = [at |-> "batch", coll |-> c, all |-> batch, todo |-> batch, tx |-> b]
    BY <1>0 DEF BeginBatch, history
  <1>4. /\ call' \in BatchCall /\ call'.at = "batch" /\ call'.coll = c
        /\ call'.all = batch /\ call'.todo = batch /\ call'.tx = b
    BY <1>1, <1>2, <1>3 DEF BatchCall
  <1>5. VectorTypeOK'
    BY <1>1, <1>3, <1>4 DEF VectorTypeOK
  <1>6. \A d \in Collections : CollectionInv(d)'
    BY <1>3 DEF StoreInv, CollectionInv
  <1>7. Numbered(b, single[c]) /\ OwnVectors(b, c, index)
    BY <1>1, <1>2 DEF CollectionInv, Numbered, OwnVectors
  <1>8. BatchInv'
    BY <1>2, <1>3, <1>4, <1>7 DEF BatchInv
  <1>9. call' \notin SingleCall
    BY <1>1, <1>4, CallKinds
  <1> QED
    BY <1>1, <1>3, <1>5, <1>6, <1>8, <1>9 DEF StoreInv

LEMMA EndOfCallKeeps ==
    ASSUME StoreInv, UNCHANGED <<db, index, saved, open, acked, single, torn>>, call' = NoCall
    PROVE  StoreInv'
  <1>1. VectorTypeOK /\ VectorTypeOK'
    BY DEF StoreInv, VectorTypeOK
  <1>2. \A d \in Collections : CollectionInv(d)'
    BY DEF StoreInv, CollectionInv
  <1> QED
    BY <1>1, <1>2, CallKinds DEF StoreInv

LEMMA AddInBatchKeeps ==
    ASSUME StoreInv, AddInBatch
    PROVE  StoreInv'
  <1>1. call.at = "batch" /\ call \in BatchCall /\ open /\ call.todo # <<>>
    BY CallKinds DEF AddInBatch, StoreInv
  <1>2. PICK c, b, q, all : c = call.coll /\ b = call.tx /\ q = call.todo /\ all = call.all
    OBVIOUS
  <1>3. c \in Collections /\ b \in Bucket /\ q \in Seq(Put) /\ all \in Seq(Put) /\ q # <<>>
    BY <1>1, <1>2 DEF BatchCall
  <1>4. PICK u \in Put : u = Head(q)
    BY <1>3, MembersLeft
  <1>5. /\ \A d \in Collections : CollectionInv(d)
        /\ VectorTypeOK /\ index \in Index /\ db \in [Collections -> Bucket] /\ BatchInv
    BY <1>1 DEF StoreInv, VectorTypeOK
  <1>6. UNCHANGED <<db, saved, open, acked, single, torn>>
    BY DEF AddInBatch, history
  <1>7. CASE call' = NoCall /\ UNCHANGED index
    BY <1>6, <1>7, EndOfCallKeeps
  <1>8. CASE /\ Fits(b, u)
             /\ index' = [index EXCEPT ![IdOf(b, u.chunk)] = Vector(c, u)]
             /\ call' = [call EXCEPT !.todo = Tail(q), !.tx = PutInBatch(b, u)]
    <2>1. PICK b1 \in Bucket : b1 = PutInBatch(b, u)
      BY <1>3, <1>8, PutInBatchFields
    <2>2. PICK id \in Ids : id = IdOf(b, u.chunk)
      BY <1>3, <1>8, PutChunkFields
    <2>3. b1.mapping = [b.mapping EXCEPT ![u.chunk] = id]
      BY <1>3, <1>8, <2>1, <2>2, PutInBatchFields
    <2>4. Tail(q) \in Seq(Put) /\ Members(q) \subseteq {u.chunk} \cup Members(Tail(q))
      BY <1>3, <1>4, MembersLeft
    <2>5. /\ call' \in BatchCall /\ call'.at = "batch" /\ call'.coll = c /\ call'.all = all
          /\ call'.todo = Tail(q) /\ call'.tx = b1
      BY <1>1, <1>2, <1>8, <2>1, <2>4 DEF BatchCall
    <2>6. PICK t \in Vectors : t = Vector(c, u)
      BY <1>3 DEF Vector, Vectors, Put
    <2>7. /\ index' = [index EXCEPT ![id] = t] /\ t # None
      BY <1>8, <2>2, <2>6, StoreAssumption DEF Vectors
    <2>8. /\ index' \in Index /\ index'[id] = t
          /\ \A i \in Ids : i # id => index'[i] = index[i]
      BY <1>5, <2>7 DEF Index
    <2>9. VectorTypeOK'
      BY <1>5, <1>6, <2>5, <2>8 DEF VectorTypeOK
    <2>10. /\ Numbered(b, single[c]) /\ OwnVectors(b, c, index)
           /\ \A ch \in Chunks : db[c].mapping[ch] # 0 => b.mapping[ch] = db[c].mapping[ch]
           /\ \A ch \in Members(all) :
                 ch \in Members(q) \/ (b.mapping[ch] # 0 /\ index[b.mapping[ch]] # None)
      BY <1>2, <1>5 DEF BatchInv
    <2>11. single[c] \in SUBSET Chunks
      BY <1>3, <1>5 DEF VectorTypeOK
    <2>12. Numbered(b1, single[c])
      BY <1>3, <1>8, <2>1, <2>10, <2>11, BatchNumbers
    <2>13. OwnVectors(b1, c, index')
      BY <1>3, <1>5, <1>8, <2>1, <2>10, VectorInBatch
    <2>14. /\ u.chunk \in Chunks /\ b.mapping \in [Chunks -> 0 .. MaxSeq] /\ MaxSeq \in Nat
           /\ b.mapping[u.chunk] # 0 => id = b.mapping[u.chunk]
           /\ b.mapping[u.chunk] = 0 => id = b.seq + 1
      BY <1>3, <2>2, StoreAssumption DEF Bucket, Put, IdOf
    <2>15. \A ch \in Chunks : db[c].mapping[ch] # 0 => b1.mapping[ch] = db[c].mapping[ch]
      BY <2>3, <2>10, <2>14
    <2>16. ASSUME NEW ch \in Members(all), ch \notin Members(Tail(q))
           PROVE  b1.mapping[ch] # 0 /\ index'[b1.mapping[ch]] # None
      <3>1. ch \in Chunks
        BY <1>3, <2>16, MembersAreChunks
      <3>2. CASE ch = u.chunk
        <4>1. b1.mapping[ch] = id /\ id # 0
          BY <2>3, <2>14, <3>2 DEF Ids
        <4> QED
          BY <2>7, <2>8, <4>1
      <3>3. CASE ch # u.chunk
        <4>1. b.mapping[ch] # 0 /\ index[b.mapping[ch]] # None /\ b1.mapping[ch] = b.mapping[ch]
          BY <2>3, <2>4, <2>10, <2>14, <2>16, <3>1, <3>3
        <4>2. b.mapping[ch] \in Ids
          BY <1>3, <2>10, <3>1, <4>1, OwnNumber
        <4> QED
          BY <2>7, <2>8, <4>1, <4>2
      <3> QED
        BY <3>2, <3>3
    <2>17. BatchInv'
      BY <1>6, <2>5, <2>12, <2>13, <2>15, <2>16 DEF BatchInv
    <2>18. ASSUME NEW d \in Collections
           PROVE  OwnVectors(db[d], d, index')
      <3>1. db[d] \in Bucket /\ OwnVectors(db[d], d, index) /\ Numbered(db[d], single[d])
        BY <1>5, <2>18 DEF CollectionInv
      <3>2. ASSUME d = c
            PROVE  db[d].reverse[id] \in {None, u.chunk}
        <4> SUFFICES ASSUME db[d].reverse[id] # None
                     PROVE  db[d].reverse[id] = u.chunk
          OBVIOUS
        <4>1. PICK ch \in Chunks : ch = db[d].reverse[id]
          BY <3>1 DEF Bucket
        <4>2. db[d].mapping[ch] = id /\ id # 0
          BY <3>1, <4>1 DEF Numbered, Ids
        <4>3. b.mapping[ch] = id
          BY <2>10, <3>2, <4>2
        <4>4. b.mapping[u.chunk] = 0 => id \notin 0 .. b.seq
          BY <1>3, <2>14 DEF Bucket
        <4>5. b.mapping[ch] \in 0 .. b.seq
          BY <1>3, <2>10, <2>14 DEF Numbered, Bucket
        <4>6. b.mapping[u.chunk] = id
          BY <2>14, <4>3, <4>4, <4>5
        <4> QED
          BY <2>10, <2>14, <4>1, <4>2, <4>3, <4>6 DEF Numbered
      <3> QED
        BY <1>5, <1>8, <2>2, <3>1, <3>2, VectorOwned
    <2>19. \A d \in Collections : CollectionInv(d)'
      BY <1>5, <1>6, <2>18 DEF CollectionInv
    <2>20. \A i \in Ids : saved[i] # None => index'[i] # None
      BY <1>1, <2>7, <2>8 DEF StoreInv
    <2>21. call' \notin SingleCall
      BY <1>5, <2>5, CallKinds
    <2> QED
      BY <1>1, <1>6, <2>9, <2>17, <2>19, <2>20, <2>21 DEF StoreInv
  <1>9. \/ call' = NoCall /\ UNCHANGED index
        \/ /\ Fits(b, u)
           /\ index' = [index EXCEPT ![IdOf(b, u.chunk)] = Vector(c, u)]
           /\ call' = [call EXCEPT !.todo = Tail(q), !.tx = PutInBatch(b, u)]
    BY <1>1, <1>2, <1>4 DEF AddInBatch, Fail, BatchCall
  <1> QED
    BY <1>7, <1>8, <1>9

LEMMA SaveInBatchKeeps ==
    ASSUME StoreInv, SaveInBatch
    PROVE  StoreInv'
  <1>1. call.at = "batch" /\ call \in BatchCall /\ open /\ call.todo = <<>>
    BY CallKinds DEF SaveInBatch, StoreInv
  <1>2. /\ \A d \in Collections : CollectionInv(d)
        /\ VectorTypeOK /\ BatchInv /\ acked \in [Collections -> SUBSET Chunks]
        /\ \A id \in Ids : saved[id] # None => index[id] # None
        /\ db \in [Collections -> Bucket]
    BY <1>1 DEF StoreInv, VectorTypeOK
  <1>3. UNCHANGED <<db, index, open, acked, single>>
    BY DEF SaveInBatch
  <1>4. \A d \in Collections, x \in Chunks : db[d].mapping[x] # 0 => db[d].mapping[x] \in Ids
    BY <1>2, OwnNumber DEF CollectionInv
  <1>5. CASE saved' = index /\ call' = [call EXCEPT !.at = "commit"] /\ UNCHANGED torn
    <2>1. /\ call' \in BatchCall /\ call'.at = "commit" /\ call'.coll = call.coll
          /\ call'.all = call.all /\ call'.todo = call.todo /\ call'.tx = call.tx
      BY <1>1, <1>5 DEF BatchCall
    <2>2. VectorTypeOK'
      BY <1>2, <1>3, <1>5, <2>1 DEF VectorTypeOK
    <2>3. ASSUME NEW d \in Collections
          PROVE  CollectionInv(d)'
      <3>1. \A x \in acked[d] : db[d].mapping[x] # 0 /\ (torn \/ index[db[d].mapping[x]] # None)
        BY <1>2, <1>4 DEF CollectionInv
      <3> QED
        BY <1>2, <1>3, <1>5, <3>1 DEF CollectionInv
    <2>4. BatchInv'
      BY <1>1, <1>2, <1>3, <1>5, <2>1 DEF BatchInv
    <2>5. call' \notin SingleCall
      BY <1>2, <2>1, CallKinds
    <2> QED
      BY <1>1, <1>3, <1>5, <2>2, <2>3, <2>4, <2>5 DEF StoreInv
  <1>6. CASE SaveFails /\ call' = NoCall
    <2>1. /\ saved' \in Index /\ torn' \in BOOLEAN
          /\ \A id \in Ids : saved'[id] # None => saved[id] # None
          /\ \A d \in Collections : OwnVectors(db[d], d, saved')
          /\ \A id \in Ids : torn' \/ (~torn /\ saved'[id] = saved[id])
      BY <1>6, SaveFailsKeeps
    <2>2. VectorTypeOK'
      BY <1>2, <1>3, <1>6, <2>1 DEF VectorTypeOK
    <2>3. ASSUME NEW d \in Collections
          PROVE  CollectionInv(d)'
      <3>1. \A x \in acked[d] : db[d].mapping[x] # 0 /\ (torn' \/ saved'[db[d].mapping[x]] # None)
        BY <1>2, <1>4, <2>1 DEF CollectionInv
      <3> QED
        BY <1>2, <1>3, <2>1, <3>1 DEF CollectionInv
    <2> QED
      BY <1>2, <1>3, <1>6, <2>1, <2>2, <2>3, CallKinds DEF StoreInv
  <1> QED
    BY <1>5, <1>6 DEF SaveInBatch, Fail

LEMMA CommitKeeps ==
    ASSUME StoreInv, Commit
    PROVE  StoreInv'
  <1>1. call.at = "commit" /\ call \in BatchCall /\ open
    BY CallKinds DEF Commit, StoreInv
  <1>2. PICK c, b, all : c = call.coll /\ b = call.tx /\ all = call.all
    OBVIOUS
  <1>3. c \in Collections /\ b \in Bucket /\ all \in Seq(Put)
    BY <1>1, <1>2 DEF BatchCall
  <1>4. /\ \A d \in Collections : CollectionInv(d)
        /\ VectorTypeOK /\ BatchInv /\ acked \in [Collections -> SUBSET Chunks]
        /\ \A id \in Ids : saved[id] # None => index[id] # None
        /\ db \in [Collections -> Bucket]
    BY <1>1 DEF StoreInv, VectorTypeOK
  <1>5. UNCHANGED <<index, saved, open, single, torn>> /\ call' = NoCall
    BY DEF Commit
  <1>6. CASE UNCHANGED <<db, acked>>
    BY <1>5, <1>6, EndOfCallKeeps
  <1>7. CASE db' = [db EXCEPT ![c] = b] /\ acked' = [acked EXCEPT ![c] = @ \cup Members(all)]
    <2>1. Members(all) \subseteq Chunks /\ Members(<<>>) = {} /\ call.todo = <<>>
          /\ saved = index
      <3>1. <<>> \in Seq(Put)
        BY EmptySeq
      <3> QED
        BY <1>1, <1>3, <1>4, <3>1, MembersAreChunks DEF BatchInv
    <2>2. /\ Numbered(b, single[c]) /\ OwnVectors(b, c, index) /\ OwnVectors(b, c, saved)
          /\ \A ch \in Chunks : db[c].mapping[ch] # 0 => b.mapping[ch] = db[c].mapping[ch]
          /\ \A ch \in Members(all) : b.mapping[ch] # 0 /\ saved[b.mapping[ch]] # None
      BY <1>2, <1>4, <2>1 DEF BatchInv
    <2>3. VectorTypeOK'
      BY <1>3, <1>4, <1>5, <1>7, <2>1 DEF VectorTypeOK
    <2>4. ASSUME NEW d \in Collections
          PROVE  CollectionInv(d)'
      <3>1. CASE d # c
        BY <1>4, <1>5, <1>7, <2>4, <3>1 DEF CollectionInv
      <3>2. CASE d = c
        <4>1. db'[c] = b /\ acked'[c] = acked[c] \cup Members(all)
          BY <1>3, <1>4, <1>7
        <4>2. \A ch \in acked[c] : b.mapping[ch] # 0 /\ (torn \/ saved[b.mapping[ch]] # None)
          BY <1>3, <1>4, <2>2 DEF CollectionInv
        <4> QED
          BY <1>5, <2>2, <3>2, <4>1, <4>2 DEF CollectionInv
      <3> QED
        BY <3>1, <3>2
    <2> QED
      BY <1>4, <1>5, <2>3, <2>4, CallKinds DEF StoreInv
  <1> QED
    BY <1>2, <1>6, <1>7 DEF Commit

LEMMA DeleteCollectionKeeps ==
    ASSUME StoreInv, NEW c \in Collections, DeleteCollection(c)
    PROVE  StoreInv'
  <1>1. /\ \A d \in Collections : CollectionInv(d)
        /\ VectorTypeOK /\ call = NoCall
        /\ db \in [Collections -> Bucket] /\ acked \in [Collections -> SUBSET Chunks]
        /\ single \in [Collections -> SUBSET Chunks]
    BY CallKinds DEF StoreInv, VectorTypeOK, DeleteCollection, Idle
  <1>2. /\ db' = [db EXCEPT ![c] = NoBuckets]
        /\ acked' = [acked EXCEPT ![c] = {}] /\ single' = [single EXCEPT ![c] = {}]
        /\ UNCHANGED <<index, saved, open, call, torn>>
    BY DEF DeleteCollection
  <1>3. /\ NoBuckets \in Bucket
        /\ \A ch \in Chunks : NoBuckets.mapping[ch] = 0
        /\ \A id \in Ids : NoBuckets.reverse[id] = None
        /\ NoBuckets.seq = 0
    BY StoreAssumption DEF NoBuckets, Bucket
  <1>4. Numbered(NoBuckets, {})
    BY <1>3 DEF Numbered
  <1>5. VectorTypeOK'
    BY <1>1, <1>2, <1>3 DEF VectorTypeOK
  <1>6. ASSUME NEW d \in Collections
        PROVE  CollectionInv(d)'
    <2>1. CASE d # c
      BY <1>1, <1>2, <1>6, <2>1 DEF CollectionInv
    <2>2. CASE d = c
      <3>1. db'[c] = NoBuckets /\ acked'[c] = {} /\ single'[c] = {}
        BY <1>1, <1>2
      <3> QED
        BY <1>2, <1>3, <1>4, <2>2, <3>1 DEF CollectionInv, OwnVectors
    <2> QED
      BY <2>1, <2>2
  <1> QED
    BY <1>1, <1>2, <1>5, <1>6, CallKinds DEF StoreInv

\* The store ends: the index in memory is gone, its file is the index or what was.
LEMMA EndKeeps ==
    ASSUME StoreInv, UNCHANGED <<db, acked, single>>, call' = NoCall, open' = FALSE,
           open, index' = NoVectors,
           (saved' = index /\ UNCHANGED torn) \/ SaveFails
    PROVE  StoreInv'
  <1>1. NoVectors \in Index /\ \A id \in Ids : NoVectors[id] = None
    BY DEF NoVectors, Index
  <1>2. /\ \A d \in Collections : CollectionInv(d)
        /\ VectorTypeOK /\ index \in Index /\ torn \in BOOLEAN
        /\ \A id \in Ids : saved[id] # None => index[id] # None
        /\ db \in [Collections -> Bucket] /\ acked \in [Collections -> SUBSET Chunks]
    BY DEF StoreInv, VectorTypeOK
  <1>3. \A d \in Collections, x \in Chunks : db[d].mapping[x] # 0 => db[d].mapping[x] \in Ids
    BY <1>2, OwnNumber DEF CollectionInv
  <1>4. /\ saved' \in Index /\ torn' \in BOOLEAN
        /\ \A d \in Collections : OwnVectors(db[d], d, saved')
        /\ \A id \in Ids : torn' \/ (~torn /\ (saved[id] # None => saved'[id] # None))
    <2>1. CASE saved' = index /\ UNCHANGED torn
      BY <1>2, <2>1 DEF CollectionInv
    <2>2. CASE SaveFails
      <3>1. /\ saved' \in Index /\ torn' \in BOOLEAN
            /\ \A d \in Collections : OwnVectors(db[d], d, saved')
            /\ \A id \in Ids : torn' \/ (~torn /\ saved'[id] = saved[id])
        BY <2>2, SaveFailsKeeps
      <3> QED
        BY <3>1
    <2> QED
      BY <2>1, <2>2
  <1>5. VectorTypeOK'
    BY <1>1, <1>2, <1>4 DEF VectorTypeOK
  <1>6. ASSUME NEW d \in Collections
        PROVE  CollectionInv(d)'
    <2>1. \A x \in acked[d] : db[d].mapping[x] # 0 /\ (torn' \/ saved'[db[d].mapping[x]] # None)
      BY <1>2, <1>3, <1>4 DEF CollectionInv
    <2>2. OwnVectors(db[d], d, index')
      BY <1>1 DEF OwnVectors
    <2> QED
      BY <1>2, <1>4, <2>1, <2>2 DEF CollectionInv
  <1> QED
    BY <1>5, <1>6, CallKinds DEF StoreInv

LEMMA StoreInductive == StoreInv /\ [Next]_vars => StoreInv'
  <1> SUFFICES ASSUME StoreInv, [Next]_vars
               PROVE  StoreInv'
    OBVIOUS
  <1>1. CASE Close
    <2>1. call = NoCall /\ open
      BY <1>1, CallKinds DEF Close, Idle, StoreInv
    <2> QED
      BY <1>1, <2>1, EndKeeps DEF Close
  <1>2. CASE Crash
    <2>1. SaveFails
      BY <1>2 DEF Crash, SaveFails
    <2> QED
      BY <1>2, <2>1, EndKeeps DEF Crash
  <1>3. CASE Open
    <2>1. /\ index' = saved /\ open' = TRUE /\ ~open
          /\ UNCHANGED <<db, saved, call, acked, single, torn>>
      BY <1>3 DEF Open, history
    <2>2. call = NoCall /\ VectorTypeOK /\ \A d \in Collections : CollectionInv(d)
      BY <2>1 DEF StoreInv
    <2>3. VectorTypeOK'
      BY <2>1, <2>2 DEF VectorTypeOK
    <2>4. \A d \in Collections : CollectionInv(d)'
      BY <2>1, <2>2 DEF CollectionInv
    <2> QED
      BY <2>1, <2>2, <2>3, <2>4, CallKinds DEF StoreInv
  <1>4. CASE UNCHANGED vars
    <2>1. UNCHANGED <<db, index, saved, open, call, acked, single, torn>>
      BY <1>4 DEF vars, history
    <2> QED
      BY <2>1 DEF StoreInv, VectorTypeOK, CollectionInv, SingleInv, BatchInv
  <1> QED
    BY <1>1, <1>2, <1>3, <1>4, PutMetadataKeeps, AddVectorKeeps, SaveIndexKeeps,
       BeginBatchKeeps, AddInBatchKeeps, SaveInBatchKeeps, CommitKeeps,
       DeleteCollectionKeeps DEF Next

\* What the store satisfies between and inside its calls.
THEOREM StoreInvariant == Spec => []StoreInv
  BY StoreInitially, StoreInductive, PTL DEF Spec

\* A chunk is found by a query if its upsert succeeded and a batch numbered it, and
\* never if UpsertChunk did.
THEOREM BatchedAreFound == Spec => []FoundIffBatched
  <1>1. StoreInv => FoundIffBatched
    <2> SUFFICES ASSUME StoreInv, Idle, ~torn, NEW c \in Collections, NEW ch \in acked[c]
                 PROVE  Finds(c, ch) <=> ch \notin single[c]
      BY DEF FoundIffBatched
    <2>1. /\ CollectionInv(c) /\ db[c] \in Bucket /\ open /\ ch \in Chunks
          /\ \A id \in Ids : saved[id] # None => index[id] # None
      BY DEF StoreInv, VectorTypeOK, Idle
    <2>2. /\ Numbered(db[c], single[c]) /\ db[c].mapping[ch] # 0
          /\ saved[db[c].mapping[ch]] # None
      BY <2>1 DEF CollectionInv
    <2>3. db[c].mapping[ch] \in Ids
      BY <2>1, <2>2, OwnNumber
    <2>4. Finds(c, ch) <=> \E id \in Ids : index[id] # None /\ db[c].reverse[id] # None
                                             /\ db[c].reverse[id] = ch
      <3>1. ASSUME NEW h \in Hits(c), h.chunk = ch
            PROVE  \E id \in Ids : /\ index[id] # None /\ db[c].reverse[id] # None
                                   /\ db[c].reverse[id] = ch
        <4>1. PICK id \in Ids : /\ index[id] # None /\ db[c].reverse[id] # None
                                /\ h = [chunk |-> db[c].reverse[id], by |-> index[id]]
          BY <3>1 DEF Hits
        <4> QED
          BY <3>1, <4>1
      <3>2. ASSUME NEW id \in Ids, index[id] # None, db[c].reverse[id] # None,
                   db[c].reverse[id] = ch
            PROVE  Finds(c, ch)
        <4>1. PICK h : h = [chunk |-> db[c].reverse[id], by |-> index[id]]
          OBVIOUS
        <4>2. h \in Hits(c)
          BY <3>2, <4>1 DEF Hits
        <4>3. h.chunk = ch
          BY <3>2, <4>1
        <4> QED
          BY <4>2, <4>3 DEF Finds
      <3> QED
        BY <3>1, <3>2 DEF Finds
    <2>5. ch # None
      BY <2>1, StoreAssumption
    <2>6. ASSUME ch \notin single[c]
          PROVE  Finds(c, ch)
      BY <2>1, <2>2, <2>3, <2>4, <2>5, <2>6 DEF Numbered
    <2>7. ASSUME ch \in single[c], NEW id \in Ids, db[c].reverse[id] = ch
          PROVE  FALSE
      BY <2>2, <2>5, <2>7 DEF Numbered
    <2> QED
      BY <2>4, <2>6, <2>7
  <1> QED
    BY <1>1, StoreInvariant, PTL

\* No chunk is found by the vector of another one of its collection.
THEOREM OwnVectorsFind == Spec => []FoundByOwnVector
  <1>1. StoreInv => FoundByOwnVector
    <2> SUFFICES ASSUME StoreInv, NEW c \in Collections, NEW d \in Collections
                 PROVE  /\ \A h \in Hits(c) : h.by.coll = c => h.by.chunk = h.chunk
                        /\ (c # d /\ \E h \in Hits(c), g \in Hits(d) :
                                db[c].mapping[h.chunk] = db[d].mapping[g.chunk])
                             => \E e \in {c, d} : \E h \in Hits(e) : h.by.coll # e
      BY DEF FoundByOwnVector
    <2>1. ASSUME NEW e \in Collections, NEW h \in Hits(e)
          PROVE  \E id \in Ids : /\ h.by = index[id] /\ db[e].mapping[h.chunk] = id
                                 /\ h.by.coll = e => h.by.chunk = h.chunk
      <3>1. PICK id \in Ids : /\ index[id] # None /\ db[e].reverse[id] # None
                              /\ h = [chunk |-> db[e].reverse[id], by |-> index[id]]
        BY <2>1 DEF Hits
      <3>2. h.chunk = db[e].reverse[id] /\ h.by = index[id]
        BY <3>1
      <3>3. Numbered(db[e], single[e]) /\ OwnVectors(db[e], e, index)
        BY <2>1 DEF StoreInv, CollectionInv
      <3> QED
        BY <3>1, <3>2, <3>3 DEF Numbered, OwnVectors
    <2>2. ASSUME c # d, NEW h \in Hits(c), NEW g \in Hits(d),
                 db[c].mapping[h.chunk] = db[d].mapping[g.chunk]
          PROVE  h.by.coll # c \/ g.by.coll # d
      <3>1. h.by = g.by
        BY <2>1, <2>2
      <3> QED
        BY <2>2, <3>1
    <2> QED
      BY <2>1, <2>2
  <1> QED
    BY <1>1, StoreInvariant, PTL
=============================================================================
