--------------------------- MODULE MCVectorStore ----------------------------
(* Small stores: two collections of two chunks.                            *)
EXTENDS VectorStoreProps, TLC

CONSTANTS ca, cb, x, y, only

Upserts == [chunk : Chunks, content : Contents]

\* Batches of one chunk or of two different ones.
Pairs == {b \in {<<u, v>> : u, v \in Upserts} : b[1].chunk # b[2].chunk} \cup {<<u>> : u \in Upserts}

Alike == Permutations(Collections) \cup Permutations(Chunks)
=============================================================================
