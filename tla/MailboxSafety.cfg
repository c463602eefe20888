SPECIFICATION Spec
CONSTANTS
    MaxUid = 2
    MaxEpoch = 2
    BatchSize = 1
    Poison = {2}
    MaxCrashes = 1
    MaxDrops = 1
    MaxFaults = 1
INVARIANTS
    TypeOK NoSkip NoLostWakeup StoredWhole NoLeftovers
PROPERTIES
    SyncMeansStored ImplementsReplica
CHECK_DEADLOCK FALSE
