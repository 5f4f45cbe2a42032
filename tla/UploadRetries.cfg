SPECIFICATION FairSpec
CONSTANTS
  r1 = r1
  Request = {r1}
  Call <- TextTwice
  NoCall = NoCall
  MaxPoolSize = 4
  Faults = {"memcached", "storage", "alloc"}
INVARIANTS TypeOK OneReviewPerRequest NoClientLeak AckMeansStored CounterNeverAhead ReviewsComplete
PROPERTIES ImplementsReviewBoard UploadsLeadToReview
CHECK_DEADLOCK FALSE
