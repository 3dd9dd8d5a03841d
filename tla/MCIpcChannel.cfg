CONSTANTS
    c1 = c1
    c2 = c2
    w1 = w1
    w2 = w2
    Clients = {c1, c2}
    Settings <- AnySettings
SPECIFICATION FairSpec
INVARIANT ServedAfterInit
PROPERTIES
    ImplementsRemoteCalls
    CommandsEnd
