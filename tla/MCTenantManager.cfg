SPECIFICATION FairTenantSpec
CONSTANTS
    Workspaces = {wa, wb}
    Conns = {ca}
    Requests = {r1}
    MaxTenants = 1
    IdleTimeout = 1
    MaxOpens = 3
    MaxClock = 3
INVARIANTS OpenAreMapped MappedAreOpen
PROPERTIES IdleAreEvicted
