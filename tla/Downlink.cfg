SPECIFICATION FairSpec
CONSTANTS
    Replicas = {r1}
    MaxSize = 1
    MaxWrites = 1
    MaxFaults = 1
    WireDepth = 1
    LateHello = FALSE
INVARIANTS
    TypeOK
    SettledInSync
PROPERTIES
    LiveStreamStays
    AgentConverges
CHECK_DEADLOCK FALSE
