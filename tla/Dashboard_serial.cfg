CONSTANTS
    Users = {1, 2, 3}
    NoUser = NoUser
    Albums = {x}
    Scores = {s1, s2}
    Threads = {t1}
    Ops = {"create", "publish", "patch", "republish", "delete", "befriend", "unfriend"}
    Faults = TRUE
SPECIFICATION Spec
INVARIANTS
    ViewIsCurrent
SYMMETRY Symmetry
CHECK_DEADLOCK FALSE
