SPECIFICATION Spec
CONSTANTS
    Others = {o1, o2}
    FriendsOnly = {o1}
    MaxId = 2
    MaxFetches = 2
    MaxTrouble = 1
    Quiet = {"friends", "pair"}
    Events <- FeedEvents
    Time <- FeedTime
    Category <- FeedCategory
    Private = {}
    Limit = 2
    MaxToggles = 2
    MaxChanges = 1
    Ids = {1, 2, 3}
    Mine = {2, 3}
    Texts = {"a", "b"}
    MaxActs = 3
    MaxMishaps = 1
INVARIANTS
    OffersAreAccepted
    FeedHasNoHoles
    ThreadIsTheServers
    QuitKeepsDrafts
CHECK_DEADLOCK FALSE
