SPECIFICATION LifeSafety
CONSTANTS
  b1 = b1  u1 = u1
  registry = registry  balancer = balancer
  Backend = {b1}
  URL = {u1}
  UrlOf <- MCUrlOf
  Baseline <- OneBaseline
  HealthyThreshold = 1
  UnhealthyThreshold = 2
  MaxConcurrent = 0
  StartOrder <- MCStartOrder
  Registrar = registry
  Balancer = balancer
  MaxInFlight = 1
CHECK_DEADLOCK FALSE
INVARIANT UpgradesDrainedToo
