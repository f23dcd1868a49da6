SPECIFICATION Spec
CONSTANTS
  c1 = c1
  c2 = c2
  c3 = c3
  board = board
  diagram = diagram
  r1 = r1
  u1 = u1
  None = None
  Call = {c1, c2, c3}
  Socket = {s1, s2}
  Namespace = {board, diagram}
  Resource = {r1}
  User = {u1}
  CallKey <- TwoAndOne
SYMMETRY PoolSymmetry
VIEW WithoutPackets
INVARIANTS
  TypeOK
  NoSocketLeak
  OneLiveSocketPerKey
  WritesOnOwnSocket
  SpentTokenNotCached
CHECK_DEADLOCK FALSE
