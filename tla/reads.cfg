CONSTANTS
  f1 = f1  f2 = f2  f3 = f3  f4 = f4  w1 = w1  v1 = v1
  t1 = t1  t2 = t2  k1 = k1  k2 = k2  r1 = r1  r2 = r2
  a1 = a1  e1 = e1  e2 = e2  e3 = e3  s1 = s1  s2 = s2
  None = None
  Elsewhere = Elsewhere
  Id = {f1, f2, f3, f4, w1, v1, t1, t2, k1, k2, r1, r2, a1, e1, e2, e3, s1, s2}
  Spare = {s1, s2}
  canvasMaxElementsDefault = 3
  NewRow <- NewRows
  MaxMeddling = 2
  Scenario <- Scenarios
SPECIFICATION Spec
INVARIANTS
  TypeOK
  EveryFolderShown
  ReadsWhatIsThere
CHECK_DEADLOCK FALSE
