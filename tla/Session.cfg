SPECIFICATION FairSpec
CONSTANTS
    Tabs = {t1, t2}
    NoTab = NoTab
    MaxSessions = 2
    Limit = 2
    MaxClicks = 3
    MaxLost = 1
INVARIANTS
    TypeOK Awaited
PROPERTIES
    SignedInStays SignOutSeen ImplementsDoor
CHECK_DEADLOCK FALSE
