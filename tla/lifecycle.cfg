CONSTANTS
  c1 = c1  c2 = c2
  p1 = p1  f1 = f1  w1 = w1  w2 = w2  v1 = v1  t1 = t1  x1 = x1  s1 = s1  s2 = s2
  n1 = n1  n2 = n2
  None = None
  Empty = Empty
  Call = {c1, c2}
  Id = {p1, f1, w1, w2, v1, t1, x1, s1, s2}
  Spare = {s1, s2}
  Name = {n1, n2}
  MaxMeddling = 1
  Scenario <- Scenarios
SPECIFICATION FairSpec
INVARIANTS
  TypeOK
  AnswerTellsEffect
  MismatchOnlyToEditors
  RefusalIsTrue
PROPERTIES
  DeletedAsConfirmed
  EveryCallAnswers
CHECK_DEADLOCK FALSE
