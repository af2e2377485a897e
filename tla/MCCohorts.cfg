SPECIFICATION CohortSpec
CONSTANTS
  u1 = u1
  u2 = u2
  u3 = u3
  u4 = u4
  Users <- ThreeUsers
  Steps = 3
  DefaultCaps <- SmallCaps
  Caps = {1, 2}
  NoCohort = NoCohort
  MaxTransitions = 5
SYMMETRY UserSymmetry

INVARIANTS
    CacheIsMembership
    EveryMoveAnnounced
PROPERTIES
    OverrunComesFromBelow
