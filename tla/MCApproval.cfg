CONSTANTS
    k1 = k1
    k2 = k2
    k3 = k3
    Call = {k1, k2, k3}
    Session <- MCSession
    SessionOf <- MCSessionOf
    MaxPending = 2

SPECIFICATION FairSpec

INVARIANTS
    TypeOK
    OnlyConsentedCallsRun
    DeliveredIsHeard

PROPERTY EveryWaitEnds

CHECK_DEADLOCK FALSE
