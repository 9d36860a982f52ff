CONSTANTS
    alice = alice
    bob = bob
    request = request
    other = other
    Users = {alice, bob}
    None = None
    Notes = {request, other}
    Recipient <- Recipients
    Scope <- ScopeOf
    MaxFaults = 1
SPECIFICATION FairSpec
INVARIANTS
    TypeOK
PROPERTIES
    NewsIsTold
    BadgeCatchesUp
CHECK_DEADLOCK FALSE
