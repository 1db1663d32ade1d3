SPECIFICATION FairSpec
CONSTANTS
    None = None
    VolumeIds = {v1, v2}
    Hosts = {h1, h2}
    Budget = 4
    Reserve = 1
    Operators = {o1}
    MaxSize = 3
    MaxOps = 4
    MaxFaults = 1
    ResizeEarly = FALSE
INVARIANTS
    TypeOK
    BudgetRespected
    DisksFit
    ParkedCanRevert
PROPERTIES
    VolumesStay
    GrowSettles
    RoomIsUsed
CHECK_DEADLOCK FALSE
