\* Two workers; a call has no job, one job, or more jobs than there are workers.
SPECIFICATION FairSpec
CONSTANTS
  Worker = {w1, w2}
  FanOutNum = {0, 1, 3}
  MaxJobs = 3
  NumCalls = 2
  NoTask = NoTask
  TheCaller = TheCaller
INVARIANTS JobsOutliveTasks VerdictIsFinal
PROPERTY CallReturns
