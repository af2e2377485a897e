SPECIFICATION MCFairSpec
CONSTANTS
  NumJobs = 2
  w1 = w1
  w2 = w2
  agenda = agenda
  minutes = minutes
  Owners <- TwoWorkers
  Scopes <- MCScopes
  ScopeOf <- HandledFirst
  HandledScopes <- MCHandled
  MaxAttempts = 2
  LeaseSeconds = 1
  BackoffBase = 1
  BackoffCap = 2
  DayLength = 2
  NoOwner = NoOwner
  MaxTime = 0
  MaxCrashes = 1
CHECK_DEADLOCK FALSE

INVARIANTS
    DeadLetterAnnounced
    AuditTail
PROPERTIES
    EveryJobFinishes
