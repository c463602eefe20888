SPECIFICATION Spec
CONSTANTS
    Accounts = {a1, a2}
    None = None
    Polls = {q1}
    PageSize = 1
    MaxEmails = 2
    MaxClicks = 3
INVARIANTS
    TypeOK ListShown DeletedGone ReaderMatches
PROPERTIES
    ImplementsOneRequest
SYMMETRY Symmetry
CHECK_DEADLOCK FALSE
