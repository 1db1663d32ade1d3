SPECIFICATION FairSpec
CONSTANTS
    Operators = {o1, o2}
    Regions = {1, 2}
    Requests <- WholeRequests
    MaxVersion = 4
    MaxOps = 3
    MaxVerdicts = 1
    Kinds = {"deploy", "rollback", "scale", "resize", "down"}
INVARIANTS
    TypeOK
    CurrentIsLive
    CountsNeverTorn
PROPERTIES
    CommitsAreHistory
    
CHECK_DEADLOCK FALSE
