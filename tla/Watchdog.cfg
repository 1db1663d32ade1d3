SPECIFICATION FairSpec
CONSTANTS
    Hosts = {h1}
    Instances = {a1, a2}
    HostUnhealthyAfter = 1
    HostDeadAfter = 4
    LivenessWindow = 1
    RegisterWithin = 1
    AgentWithin = 1
    MaxAway = 1
    MaxConsecutiveFailures = 2
    MaxRestarts = 1
    StableAfter = 1
    MaxFaults = 2
INVARIANTS
    GivesUpChronic
PROPERTIES
    NoWrongfulDeath
    DeadHostIsFreed
CHECK_DEADLOCK FALSE
