SPECIFICATION CohortSpec
CONSTANTS
  u1 = u1
  u2 = u2
  u3 = u3
  u4 = u4
  Users <- FourUsers
  Steps = 3
  DefaultCaps <- ShippedCaps
  Caps = {}
  NoCohort = NoCohort
  MaxTransitions = 5
INVARIANTS NoOverrun
