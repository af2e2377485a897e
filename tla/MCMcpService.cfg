CONSTANTS
    Runs = {r1, r2}
    LensCount = 2
    Preference <- MCPreference
    Local = {"ollama"}
    Remote = {"remote"}
    Estimate = 1
    MaxUnits = 2
    Caps = {0, 2}
    MaxCalls = 2
    Threshold = 1
    OwnerCommands = 2

SPECIFICATION Spec
SYMMETRY MCSymmetry
CHECK_DEADLOCK FALSE

INVARIANTS
    OverspendIsInFlight
    CallLimitExceededByRacersOnly
    AlarmFollowsResume
    FindingsAreRejected
