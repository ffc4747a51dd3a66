CONSTANTS
    t1 = t1
    s1 = s1
    m1 = m1
    m2 = m2
    Builds <- MCBuilds
    Turns <- MCTurns
    Subagents <- MCSubagents
    Servers <- MCServers
    MaxEdits = 1

SPECIFICATION Spec

SYMMETRY AlikeServers

INVARIANTS
    TypeOK
    StaleIsKnown
    DeferredHasHolder

PROPERTY CallsKeepServers
