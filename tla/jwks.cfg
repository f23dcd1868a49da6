CONSTANTS
  c1 = c1  c2 = c2
  a = a  b = b  k1 = k1  k2 = k2  k3 = k3  k4 = k4
  None = None
  Call = {c1, c2}
  Token <- Tokens
  Documents <- Published
  jwksCacheTTL = 2
  Timeout = 1
  Leeway = 1
  MaxTime = 4
SYMMETRY Alike
SPECIFICATION Spec
INVARIANTS
  WithdrawnKeyRunsOut
PROPERTIES
  AcceptedIsValid
  UnknownKeyIsNew
CHECK_DEADLOCK FALSE
