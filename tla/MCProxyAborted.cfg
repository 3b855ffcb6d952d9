SPECIFICATION ProxySafety
CONSTANTS
  b1 = b1  b2 = b2  u1 = u1  u2 = u2
  get = get  post = post
  Backend = {b1, b2}
  URL = {u1, u2}
  UrlOf <- MCUrlOf
  Baseline <- OneBaseline
  Request = {get}
  Once = {}
  MaxRetries = 1
  Strategy = "round-robin"
  Weight <- MCWeight
  KeyHash <- MCKeyHash
  NoTarget = NoTarget
  MaxBursts = 0
INVARIANT EveryRequestReported
