SPECIFICATION WorkerSpec
CONSTANTS
  NumJobs = 1
  w1 = w1
  w2 = w2
  agenda = agenda
  minutes = minutes
  Owners <- TwoWorkers
  Scopes <- MCScopes
  ScopeOf <- SameScope
  HandledScopes <- MCHandled
  MaxAttempts = 2
  LeaseSeconds = 1
  BackoffBase = 1
  BackoffCap = 2
  DayLength = 2
  NoOwner = NoOwner
  MaxTime = 0
  MaxCrashes = 0
PROPERTY TerminalIsFinal
CHECK_DEADLOCK FALSE
