SPECIFICATION Spec
CONSTANTS
    None = None
    Replicas = {r1, r2, r3}
    Hosts = {h1, h2}
    Regions = {east}
    HostRegion <- Spread
    Capacity = 2
    Headroom = 0
    MaxVersion = 2
    MaxCount = 1
    OperatorOps = {"deploy", "rollback"}
    MaxOps = 2
    Faults = {"crash", "loop", "regress", "silence", "lostpass"}
    MaxFaults = 1
    Stalls = TRUE
SYMMETRY Symmetry
PROPERTIES
    HealthyBeforeSwitch
CHECK_DEADLOCK FALSE
