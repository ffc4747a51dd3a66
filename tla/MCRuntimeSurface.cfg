CONSTANTS
    MaxVersion = 2
    MaxRequests = 1
    Invalid <- MCInvalid
    Servers <- MCServers
    ServersOf <- MCServersOf

SPECIFICATION SystemSpec

INVARIANTS
    SurfaceTypeOK
    NewestDecides
    TurnIsCurrent
    NoRemovedServerServes
    ReconnectIsDue

PROPERTIES
    NeverBackwards
    RequestsAreServed
