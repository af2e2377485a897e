CONSTANTS
    Runs = {r1}
    LensCount = 2
    Preference <- MCPreference
    Local = {"ollama"}
    Remote = {"remote"}
    Estimate = 1
    MaxUnits = 2
    Caps = {2}
    MaxCalls = 0
    Threshold = 3
    OwnerCommands = 0

SPECIFICATION Spec
CHECK_DEADLOCK FALSE

INVARIANT NeverOverCap
