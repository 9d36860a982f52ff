CONSTANTS
    Users = {1, 2}
    NoUser = NoUser
    Albums = {x}
    Scores = {s1}
    Threads = {t1, t2}
    Ops = {"create", "publish", "delete", "befriend", "unfriend"}
    Faults = FALSE
SPECIFICATION Spec
INVARIANTS
    EntriesOnlyForFriends
    MutualAlbumShows
    OneOfThemTells
SYMMETRY Symmetry
