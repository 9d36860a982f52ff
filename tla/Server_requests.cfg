CONSTANTS
    Threads = {t1, t2, t3}
    Interval = 1
    MaxWait = 1
    TripAfter = 2
    TripAbove = 3
    RetryAfters = {1, 4}
    MaxTime = 4
    MaxRestarts = 1
    AvatarCalls = {2, 3, 4}
    First = 1
    NoKey = 0
    MaxLost = 2
    Editions = {"e1", "e2", "e3"}
    Barcode <- EditionCodes
    NoCode = "none"
    Opens = {1, 2, 3}
    MaxFailures = 1
    Fans = {author, u1, u2}
    Author = author
    Puts = {1, 2}
    MaxPuts = 4
    MaxSeen = 2
SPECIFICATION ServerSpec
INVARIANTS
    SlotsAreSpaced
    LateCallsEnd
    RestartHonoursCooldown
    AvatarIsThere
    OrphansAreFew
    EditionsShareARow
    AlbumsComeWhole
    LikesAreToldOnce
CHECK_DEADLOCK FALSE
