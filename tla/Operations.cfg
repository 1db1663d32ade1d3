SPECIFICATION Spec
CONSTANTS
    None = None
    Replicas = {r1, r2, r3}
    Hosts = {h1, h2}
    Regions = {east}
    HostRegion <- Spread
    Capacity = 2
    Headroom = 1
    MaxVersion = 2
    MaxCount = 1
    OperatorOps = {"deploy", "rollback", "scale", "down", "cordon", "uncordon", "drain", "delete", "restart"}
    MaxOps = 4
    Faults = {"crash", "loop", "regress", "silence", "lostpass"}
    MaxFaults = 1
    Stalls = TRUE
SYMMETRY Symmetry
INVARIANTS
    NoOvercommit
    RowConsistent
    IntentsSound
PROPERTIES
    DrainIsFinal
    DestroySpares
    SwitchRetiresOldSide
CHECK_DEADLOCK FALSE
