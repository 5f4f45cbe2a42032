SPECIFICATION Spec
CONSTANTS
  t1 = t1
  t2 = t2
  i1 = i1
  i2 = i2
  Title = {t1, t2}
  Id = {i1, i2}
  Registration <- Race
  Upload = {}
  NoId = NoId
  Faults = {}
  MayEvict = TRUE
INVARIANT TitleRegisteredOnce
CHECK_DEADLOCK FALSE
