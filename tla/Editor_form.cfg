CONSTANTS
    Tracks = {t1, t2}
    TopSize = 2
    Noted = {t1}
    Scores = {s1}
    Texts = {n1}
    Blank = Blank
    None = None
    Found <- WholeRows
    Calls = {c1, c2}
    MaxEdits = 2
    MaxFaults = 1
SPECIFICATION FairSpec
INVARIANTS
    PublishedIsWhole
    SnapshotIsSaved
PROPERTIES
    SavesWholeForm
    ButtonsComeBack
CHECK_DEADLOCK FALSE
