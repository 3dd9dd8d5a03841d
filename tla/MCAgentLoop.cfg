SPECIFICATION FairSpec
CONSTANTS
    a = a
    b = b
    c = c
    Ids = {a, b, c}
    MaxWorkers = 2
    Responses <- SomeCalls
    MaxTurns = 3
    Batches <- SmallBatches
INVARIANTS ToolsContained ListOrderIsEnough OneFinalChunk EveryCallAnswered OutputOfSameId
PROPERTIES QueryEnds
