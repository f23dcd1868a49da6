SPECIFICATION FairSpec
CONSTANTS
  c1 = c1
  c2 = c2
  c3 = c3
  board = board
  diagram = diagram
  r1 = r1
  u1 = u1
  None = None
  Call = {c1, c2}
  Socket = {s1, s2}
  Namespace = {board}
  Resource = {r1}
  User = {u1}
  CallKey <- Two
PROPERTIES
  DeliveryPromise
  EveryCallReturns
CHECK_DEADLOCK FALSE
