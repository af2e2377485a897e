SPECIFICATION Spec
CONSTANTS
  k1 = k1
  k2 = k2
  k3 = k3
  monday = monday
  tuesday = tuesday
  r1 = r1
  r2 = r2
  Keys <- MCKeys
  Umbrellas <- MCUmbrellas
  UmbrellaOf <- MCUmbrellaOf
  Relays <- OneRelay
  NoRelay = NoRelay
  MaxFailures = 1
INVARIANT PostedOnce
CHECK_DEADLOCK FALSE
