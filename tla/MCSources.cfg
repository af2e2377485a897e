CONSTANTS
    Items = {i1, i2}
    Wordings = {"none", "listed"}
    Statements = {s1}
    Tools = {t1, t2}
    Meetings = {3}
    MEETING_PROXIMITY_WINDOW = 1
    MaxVersions = 2
    MaxClock = 4

SPECIFICATION Spec
SYMMETRY MCSymmetry
CHECK_DEADLOCK FALSE

INVARIANTS
    LatenessHasItsReason
    UnmarkedIsNewer
    FlagsFillTheGaps
