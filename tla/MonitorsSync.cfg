SPECIFICATION AttentiveSpec
CONSTANTS
    Accounts = {a1}
    Clients = {c1, c2}
    NoClient = NoClient
    MaxBoots = 1
PROPERTIES
    SyncAnswered

CHECK_DEADLOCK FALSE
