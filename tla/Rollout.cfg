SPECIFICATION Spec
CONSTANTS
    None = None
    Replicas = {r1, r2, r3, r4}
    Hosts = {h1, h2}
    Regions = {east}
    HostRegion <- Spread
    Capacity = 2
    Headroom = 0
    MaxVersion = 2
    MaxCount = 2
    OperatorOps = {"deploy", "rollback"}
    MaxOps = 3
    Faults = {"crash", "loop", "regress", "silence", "lostpass"}
    MaxFaults = 1
    Stalls = TRUE
SYMMETRY Symmetry
INVARIANTS
    TypeOK
    ActiveIsServed
PROPERTIES
    CanaryFirst
    FailedIsTerminal
CHECK_DEADLOCK FALSE
