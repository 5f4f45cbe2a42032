\* A title that is registered at some time, a request that is sent once, and anything may fail.
SPECIFICATION FairSpec
CONSTANTS
  i1 = i1
  Id = {i1}
  NoId = NoId
  NoCall = NoCall
  TheRequest = r1
  TheTitle = t1
  NumAttempts = 1
  Registration <- OneRegistration
  Faults = {"memcached", "mongodb", "alloc"}
  ComposeFaults = {"memcached", "storage", "alloc"}
  PoolSize = 2
  MaxLost = 1
INVARIANTS SuccessMeansStored FailureMeansNothingStored SentOnceStoredOnce StoredMovieIsRegistered
PROPERTY AttemptAnswered
CHECK_DEADLOCK FALSE
