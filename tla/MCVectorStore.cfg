SPECIFICATION Spec
CONSTANTS
    ca = ca
    cb = cb
    x = x
    y = y
    only = only
    Collections = {ca, cb}
    Chunks = {x, y}
    Contents = {only}
    Batches <- Pairs
    Singles <- Upserts
    None = None
    MaxSeq = 2
    MaxCrashes = 2
SYMMETRY Alike
INVARIANTS FoundIffBatched FoundByOwnVector
