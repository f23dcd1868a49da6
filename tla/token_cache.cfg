CONSTANTS
  g1 = g1  g2 = g2  g3 = g3
  u1 = u1  u2 = u2
  t1 = t1  t2 = t2  t3 = t3
  None = None
  Get = {g1, g2, g3}
  User = {u1, u2}
  Token = {t1, t2, t3}
  GetUser <- GetUserDef
  Lifetime = {1, 4}
  Buffer = 2
  FetchTimeout = 1
  MaxNow = 4
SPECIFICATION Spec
SYMMETRY Symmetry
INVARIANTS
  FlushedStaysOut
  TokenOfOwnUser
PROPERTIES
  ServedBeforeBuffer
  FreshTokenNotReplaced
CHECK_DEADLOCK FALSE
