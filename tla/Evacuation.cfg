SPECIFICATION SteadyFairSpec
CONSTANTS
    None = None
    Replicas = {r1, r2, r3}
    Hosts = {h1, h2, h3}
    Regions = {east}
    HostRegion <- Spread
    Capacity = 1
    Headroom = 0
    MaxVersion = 1
    MaxCount = 1
    OperatorOps = {"cordon", "uncordon", "drain"}
    MaxOps = 2
    Faults = {"crash", "loop", "regress", "silence", "lostpass"}
    MaxFaults = 0
    Stalls = FALSE
INVARIANTS
    EvacuationKeepsCapacity
PROPERTIES
    DrainCompletes
CHECK_DEADLOCK FALSE
