SPECIFICATION Spec
CONSTANTS
  Backend = {b1, b2, b3}
  MaxWeight = 3
  MaxConns = 2
  HashMod = 16
  Client = {c1, c2}
  Trusted = {t1, t2}
  Self = t2
  Garbled = Garbled
  NoProto = NoProto
  MaxHops = 4
  Unset = Unset
  Unparsable = Unparsable
  Credential = {right, wrong}
  NoToken = NoToken
INVARIANTS
  LeastLoadedIsLeast
  SharesMatchWeights
  ClientIsLastUntrusted
  SameOriginDownstream
  AcceptedConfigRuns
  SameBackendsEitherWay
  AnswersReported
