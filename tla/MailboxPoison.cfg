SPECIFICATION FairSpec
CONSTANTS
    MaxUid = 2
    MaxEpoch = 1
    BatchSize = 2
    Poison = {1}
    MaxCrashes = 0
    MaxDrops = 0
    MaxFaults = 0
PROPERTIES
    SoundMailExposed
CHECK_DEADLOCK FALSE
