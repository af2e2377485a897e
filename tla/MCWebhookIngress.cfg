SPECIFICATION IngressFairSpec
CONSTANTS
  toa = toa
  stranger = stranger
  b1 = b1
  b2 = b2
  junk = junk
  Sources <- MCSources
  Registered <- MCRegistered
  Bodies <- MCBodies
  Malformed <- MCMalformed
  FreshnessS = 1
  MaxClock = 2
  MaxHits = 2
  MaxOutages = 2
  NoRequest = NoRequest
CHECK_DEADLOCK FALSE

INVARIANTS
    ExactlyOneJob
PROPERTIES
    EventHeard
