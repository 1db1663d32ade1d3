SPECIFICATION DeadlineSpec
CONSTANTS
    None = None
    Replicas = {r1, r2, r3}
    Hosts = {h1}
    Regions = {east}
    HostRegion <- Spread
    Capacity = 3
    Headroom = 0
    MaxVersion = 2
    MaxCount = 1
    OperatorOps = {"deploy", "rollback"}
    MaxOps = 3
    Faults = {"crash", "loop", "lostpass"}
    MaxFaults = 1
    Stalls = TRUE
PROPERTIES
    RolloutSettles
    OldSideIsReaped
CHECK_DEADLOCK FALSE
