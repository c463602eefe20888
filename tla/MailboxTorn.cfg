SPECIFICATION FairSpec
CONSTANTS
    MaxUid = 2
    MaxEpoch = 1
    BatchSize = 2
    Poison = {}
    MaxCrashes = 1
    MaxDrops = 0
    MaxFaults = 0
PROPERTIES
    AttachmentsServed
CHECK_DEADLOCK FALSE
