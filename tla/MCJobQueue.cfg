SPECIFICATION Spec
CONSTANTS
  NumJobs = 2
  o1 = o1
  o2 = o2
  agenda = agenda
  minutes = minutes
  Owners <- MCOwners
  Scopes <- MCScopes
  ScopeOf <- MCScopeOf
  HandledScopes <- MCHandled
  MaxAttempts = 2
  LeaseSeconds = 1
  BackoffBase = 1
  BackoffCap = 2
  DayLength = 2
  NoOwner = NoOwner
  MaxTime = 1
CHECK_DEADLOCK FALSE

INVARIANTS
    AttemptBudget
    AuditReplays
PROPERTIES
    TerminalIsFinal
