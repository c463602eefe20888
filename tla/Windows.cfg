SPECIFICATION Spec
CONSTANTS
    MaxClicks = 6
    MaxTokens = 2
    MaxLost = 1
    Values = {v1, v2}
    Blank = Blank
    MaxAccounts = 2
INVARIANTS
    TypeOK Awaited ListTrue FormHonest ScrollFree
PROPERTIES
    IssuedKept
CHECK_DEADLOCK FALSE
