SPECIFICATION FairSpec
CONSTANTS
  Worker = {w1, w2}
  Caller = {c1, c2}
  Task = {k1, k2, k3}
  NoTask = NoTask
INVARIANTS TypeOK TaskInOnePlace NoLostWakeup DestructorDrains
PROPERTIES AcceptedTaskRuns DestructorReturns
CHECK_DEADLOCK FALSE
