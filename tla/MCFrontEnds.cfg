CONSTANTS
    i1 = i1
    i2 = i2
    a1 = a1
    a2 = a2
    k1 = k1
    k2 = k2
    m = m
    o = o
    t1 = t1
    r1 = r1
    r2 = r2
    talk = talk
    session = session
    log = log
    trusted = trusted
    file = file
    other = other
    Docs <- MCDocs
    Base <- MCBase
    Workers <- MCWorkers
    Locals <- MCLocals
    Servers <- MCServers
    Scenes <- MCScenes
    Requests = {r1, r2}
    Asks <- MCAsks
    MaxChanges = 3
    MaxLines = 2
    Limit = 1
SPECIFICATION Spec
INVARIANTS
    AcknowledgedIsKept
    BackupIsWhatWasReplaced
    AnsweredOnce
    ErrorsStartNothing
CHECK_DEADLOCK FALSE
