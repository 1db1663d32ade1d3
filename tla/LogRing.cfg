SPECIFICATION FairSpec
CONSTANTS
    Readers = {c1, c2}
    Capacity = 3
    Buffer = 1
    Replay = 2
    MaxLines = 5
    MaxBreaks = 1
    MaxRestarts = 1
INVARIANTS
    RingIsTail
    StreamIsWhole
PROPERTIES
    ResumeIsExact
    ReadersCatchUp
CHECK_DEADLOCK FALSE
