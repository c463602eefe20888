SPECIFICATION Spec
CONSTANTS
    Handlers = {h1, h2}
    Credentials = {u1, u2}
    Secrets = {s1, s2, s3}
    Nobody = Nobody
    NoSecret = NoSecret
    Life = 2
    MaxTime = 3
INVARIANTS
    TypeOK ClosedForGood
PROPERTIES
    OneAdministrator RefusedForCause ImplementsAdmission
SYMMETRY Symmetry
CHECK_DEADLOCK FALSE
