SPECIFICATION RRSpec
CONSTANTS
  b1 = b1  b2 = b2  u1 = u1  u2 = u2
  Backend = {b1, b2}
  URL = {u1, u2}
  UrlOf <- MCUrlOf
  Baseline <- OneBaseline
  Caller = {c1, c2}
  NoPick = NoPick
  CounterMod = 3
INVARIANTS
  TicketsExact
  TurnKept
  MissMeansAllDown
