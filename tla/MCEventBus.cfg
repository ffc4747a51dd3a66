CONSTANTS
    Client = {c1, c2}
    Session <- MCSession
    Capacity = 2
    MaxSeq = 3
    MaxEpoch = 2

SPECIFICATION FairSpec

INVARIANTS
    TypeOK
    StreamComplete

PROPERTIES
    QueueIsRead
    ImplementsLog
