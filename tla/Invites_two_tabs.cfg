CONSTANTS
    Users = {alice, bob}
    NoUser = NoUser
    Threads = {t1, t2}
    TabsPerUser = 2
    Ops = {"create_invite", "accept", "cancel", "create_rating", "publish", "delete_rating"}
    Faults = TRUE
SPECIFICATION Spec
INVARIANTS
    PendingIsQuiet
    NoDanglingNotification
PROPERTIES
    PublishedStays
    PendingIsDurable
SYMMETRY Symmetry
CHECK_DEADLOCK FALSE
