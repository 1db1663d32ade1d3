SPECIFICATION SteadyStatefulFairSpec
CONSTANTS
    None = None
    Replicas = {r1, r2}
    Hosts = {h1}
    VolumeHost = h1
    Regions = {east}
    HostRegion <- OneRegion
    Capacity = 2
    Headroom = 0
    MaxVersion = 2
    MaxCount = 1
    OperatorOps = {"deploy", "scale", "rollback", "drain", "uncordon", "restart", "delete"}
    MaxOps = 2
    Faults = {"loop", "silence", "lostpass"}
    MaxFaults = 1
    Stalls = FALSE
INVARIANTS
    SingleWriter
PROPERTIES
    LetsOneAtATime
    VolumeIsServed
CHECK_DEADLOCK FALSE
