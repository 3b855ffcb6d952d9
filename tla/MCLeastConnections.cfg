SPECIFICATION LCSpec
CONSTANTS
  b1 = b1  b2 = b2  b3 = b3  c1 = c1  c2 = c2  c3 = c3
  Backend = {b1, b2, b3}
  URL = {b1, b2, b3}
  UrlOf <- MCUrlOf
  Baseline <- MCBaseline
  Weight <- MCWeight
  Caller = {c1, c2, c3}
  Watched = c1
  NoPick = NoPick
  MaxJoins = 2
SYMMETRY Others
INVARIANTS
  PickNearLeast
  QuietPickIsLeast
