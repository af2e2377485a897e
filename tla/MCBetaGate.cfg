CONSTANTS
    Requests = {r1, r2, r3}
    InFlight = 2
    RateLimit = 1
    MaxCodeAttempts = 1
    OwnerCommands = 2

SPECIFICATION Spec
SYMMETRY MCSymmetry
CHECK_DEADLOCK FALSE

INVARIANTS
    OneSessionPerToken
    LimitsExceededByRacersOnly
    SurvivorsWereInFlight
    DoorReopensOnlyIfOvertaken
    NoticesFollowDecisions
