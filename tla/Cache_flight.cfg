CONSTANTS
    Threads = {t1, t2, t3}
    Keys = {artist, search}
    NoKey = NoKey
    Locks = {1, 2, 3, 4}
    NoLock = NoLock
    MaxEntries = 1
    Calls = 1
SPECIFICATION FairSpec
PROPERTIES
    ImplementsLookups
    CallsReturn
CHECK_DEADLOCK FALSE
