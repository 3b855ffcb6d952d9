SPECIFICATION ReadsSpec
CONSTANTS
  b1 = b1  b2 = b2  b3 = b3
  u1 = u1  u2 = u2  u3 = u3
  Backend = {b1, b2, b3}
  URL = {u1, u2, u3}
  UrlOf <- MCUrlOf
  Baseline <- MCBaseline
  Writer = {w1}
  NoWriter = NoWriter
  NoBackend = NoBackend
  Reader = {r1}
  MaxPublished = 3
INVARIANTS
  ReadWithinWindow
  EmptyJustified
