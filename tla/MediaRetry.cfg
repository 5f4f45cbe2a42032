\* A title that is registered at some time, and a request that is sent twice.
SPECIFICATION Spec
CONSTANTS
  i1 = i1
  Id = {i1}
  NoId = NoId
  NoCall = NoCall
  TheRequest = r1
  TheTitle = t1
  NumAttempts = 2
  Registration <- OneRegistration
  Faults = {"mongodb", "alloc"}
  ComposeFaults = {"storage"}
  PoolSize = 2
  MaxLost = 0
INVARIANTS SuccessMeansStored FailureMeansNothingStored
CHECK_DEADLOCK FALSE
