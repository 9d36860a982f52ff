CONSTANTS
    Users = {alice, bob}
    NoUser = NoUser
    Threads = {t1}
    TabsPerUser = 1
    Ops = {"create_invite", "accept", "decline", "cancel", "create_rating", "publish", "delete_rating", "remove", "unfriend", "befriend", "mark_seen"}
    Faults = FALSE
SPECIFICATION Spec
INVARIANTS
    SharedListenIsShared
    BadgeIsHonest
    NoStrayInvite
SYMMETRY Symmetry
CHECK_DEADLOCK FALSE
