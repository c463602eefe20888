SPECIFICATION Spec
CONSTANTS
    Accounts = {a1}
    Clients = {c1, c2}
    NoClient = NoClient
    MaxBoots = 2
INVARIANTS
    TypeOK StoppedBeforeDeleted NothingLeft StoreOutlivesWorkers
PROPERTIES
    ImplementsBook
SYMMETRY Symmetry
CHECK_DEADLOCK FALSE
