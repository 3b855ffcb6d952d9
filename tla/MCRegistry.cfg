SPECIFICATION Spec
CONSTANTS
  b1 = b1  b2 = b2  b3 = b3
  u1 = u1  u2 = u2
  Backend = {b1, b2, b3}
  URL = {u1, u2}
  UrlOf <- MCUrlOf
  Baseline <- MCBaseline
  Writer = {w1, w2}
  NoWriter = NoWriter
  NoBackend = NoBackend
INVARIANTS
  TypeOK
  UniqueRegistration
  AnswerStands
PROPERTIES
  PublishedImmutable
  DeregisteredOnce
  ImplementsPool
  CallsReturn
