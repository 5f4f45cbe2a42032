\* One client process with three threads.
SPECIFICATION Spec
CONSTANTS
  Thread <- OneProcess
  NumWrites = 1
  Nobody = Nobody
INVARIANT RecordsKept
CHECK_DEADLOCK FALSE
