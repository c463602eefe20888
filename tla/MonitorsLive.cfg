SPECIFICATION FairSpec
CONSTANTS
    Accounts = {a1}
    Clients = {c1, c2}
    NoClient = NoClient
    MaxBoots = 1
PROPERTIES
    ShutdownEnds DeleteReturns

CHECK_DEADLOCK FALSE
VIEW NoHistory
