CONSTANTS
    MaxVersion = 2
    MaxRequests = 1
    Invalid = {}
    Servers = {}
    ServersOf <- MCServersOf

SPECIFICATION FairSpec

PROPERTY SettlesOnDisk

CHECK_DEADLOCK FALSE
