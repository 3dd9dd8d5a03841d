-------------------------- MODULE VectorStoreProps --------------------------
(* What UsearchStore promises about the chunks it was given.               *)
EXTENDS VectorStore

\* What Query makes of the index: the chunks of collection c, each with the
\* vector it was found by.
Hits(c) == {[chunk |-> db[c].reverse[id], by |-> index[id]] :
               id \in {i \in Ids : index[i] # None /\ db[c].reverse[i] # None}}

Finds(c, ch) == \E h \in Hits(c) : h.chunk = ch

\* A chunk whose upsert reported success is found by queries if, and only if, it
\* got its number in a batch, also after failed batches, closes, crashes and
\* reopenings, unless a save tore the index file: what UpsertChunk numbers is
\* never found, and no later batch mends it.
FoundIffBatched ==
    Idle /\ ~torn => \A c \in Collections : \A ch \in acked[c] :
        Finds(c, ch) <=> ch \notin single[c]

\* No query finds a chunk by the vector of another one of its collection, although
\* numbers that were given up by a rollback, a deletion or a crash are used again,
\* with the vectors they had still in the index.  The vector of another collection's
\* chunk it may be found by, and once two collections have a chunk of one number,
\* one of them is (vector.go:33, "multi-tenant vector store").
FoundByOwnVector ==
    Idle => \A c, d \in Collections :
        /\ \A h \in Hits(c) : h.by.coll = c => h.by.chunk = h.chunk
        /\ (c # d /\ \E h \in Hits(c), g \in Hits(d) : db[c].mapping[h.chunk] = db[d].mapping[g.chunk])
              => \E e \in {c, d} : \E h \in Hits(e) : h.by.coll # e
=============================================================================
