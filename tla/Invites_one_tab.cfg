CONSTANTS
    Users = {alice, bob}
    NoUser = NoUser
    Threads = {t1, t2}
    TabsPerUser = 1
    Ops = {"create_invite", "accept", "decline", "cancel", "create_rating", "publish", "delete_rating"}
    Faults = FALSE
SPECIFICATION FairSpec
INVARIANTS
    CompletionNotLost
PROPERTIES
    ImplementsSharedListen
    CompletionHappens
CHECK_DEADLOCK FALSE
