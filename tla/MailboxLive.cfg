SPECIFICATION FairSpec
CONSTANTS
    MaxUid = 2
    MaxEpoch = 2
    BatchSize = 2
    Poison = {}
    MaxCrashes = 0
    MaxDrops = 1
    MaxFaults = 0
PROPERTIES
    Replicated RequestsAnswered
CHECK_DEADLOCK FALSE
