SPECIFICATION FairSpec
CONSTANTS
  w1 = w1
  r1 = r1
  agenda = agenda
  minutes = minutes
  toa = toa
  b1 = b1
  b2 = b2
  NumJobs = 2
  Owners <- MCOwners
  Scopes <- MCScopes
  ScopeOf <- MCScopeOf
  HandledScopes <- MCHandled
  MaxAttempts = 1
  LeaseSeconds = 1
  BackoffBase = 1
  BackoffCap = 2
  DayLength = 2
  NoOwner = NoOwner
  MaxTime = 0
  MaxCrashes = 1
  Relays <- MCRelays
  NoRelay = NoRelay
  MaxFailures = 1
  MaxDay = 4
  Sources <- MCSources
  Registered <- MCSources
  Bodies <- MCBodies
  Malformed = {}
  FreshnessS = 0
  MaxClock = 0
  MaxHits = 0
  MaxOutages = 1
  NoRequest = NoRequest
CHECK_DEADLOCK FALSE

INVARIANTS
    AcceptedNotLost
PROPERTIES
    EventResolved
    ImplementsJobQueue
