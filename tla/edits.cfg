CONSTANTS
  c1 = c1  c2 = c2
  w1 = w1  w2 = w2  v1 = v1
  t1 = t1  t2 = t2  t3 = t3  a1 = a1  k1 = k1  r1 = r1
  e1 = e1  e2 = e2  l1 = l1  s1 = s1  s2 = s2  p1 = p1
  None = None
  Call = {c1, c2}
  Id = {t1, t2, t3, a1, k1, r1, e1, e2, l1, s1, s2}
  Spare = {s1, s2}
  Whiteboard = {w1, w2}
  CanvasBoard = {v1}
  MaxMembers = 2
  MaxPositions = 2
  MaxWrites = 2
  MaxMeddling = 1
  Scenario <- Scenarios
SPECIFICATION Spec
INVARIANTS
  TypeOK
  ConnectorsWellFormed
  AnswerTellsStored
PROPERTIES
  ChangesOnlyWhatIsNamed
  SoundAreasStaySound
  AreaEnclosesMembers
  MovesRigidly
CHECK_DEADLOCK FALSE
