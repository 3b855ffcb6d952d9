SPECIFICATION ProberSpec
CONSTANTS
  b1 = b1  b2 = b2
  u1 = u1  u2 = u2
  Backend = {b1, b2}
  URL = {u1, u2}
  UrlOf <- MCUrlOf
  Baseline <- OneBaseline
  HealthyThreshold = 2
  UnhealthyThreshold = 3
  MaxConcurrent = 1
INVARIANTS
  ProberTypeOK
  FlagFollowsProbes
  StreakBounded
PROPERTIES
  NoFlapping
  SeededBeforeServing
  SteadyBackendSettles
  AnswererStaysIn
  ProberStops
