CONSTANTS
    Users = {alice, bob}
    None = None
    Requests = {r1, r2}
SPECIFICATION FairSpec
INVARIANTS
    SessionSurvives
    InOnesOwnName
PROPERTIES
    NothingHangs
CHECK_DEADLOCK FALSE
