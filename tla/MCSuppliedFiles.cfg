CONSTANTS
    Contents = {"agenda"}
    KnownBad = {}
    Refs = {"d1"}
    Asked = {"reviewing", "web_safe", "rejected"}
    Tools = {t1, t2}
    MaxFiles = 2
    MaxEdits = 3
    MaxCrashes = 1

SPECIFICATION Spec
SYMMETRY MCSymmetry
CHECK_DEADLOCK FALSE

INVARIANTS
    RedFlagsReachDependents
    LeftoversAreExplained
    FreshGapIsTrue
PROPERTIES
    NeverStraightToWebSafe
