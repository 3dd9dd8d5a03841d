SPECIFICATION FairSpec
CONSTANTS
    j1 = j1
    j2 = j2
    j3 = j3
    f1 = f1
    f2 = f2
    f3 = f3
    f4 = f4
    w1 = w1
    w2 = w2
    empty = empty
    old = old
    new = new
    long = long
    ipc = ipc
    http = http
    Missing = Missing
    Jobs = {j1}
    Files = {f1, f2, f3}
    Collections = {ipc}
    Workers = {w1}
    QueueCap = 1
    Versions = {empty, old, long}
    EmptyVersions = {empty}
    LongVersions = {long}
    MaxEdits = 0

PROPERTIES EveryJobEnds
