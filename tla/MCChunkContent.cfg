SPECIFICATION ContentSpec
CONSTANTS
    MaxTokens = 2
    OverlapTokens = 1
    MaxRunes = 14
INVARIANTS ChunksAreBounded LongContentNeverReturns
PROPERTIES ChunksAreContiguous
