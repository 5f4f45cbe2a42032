\* Two client processes with three threads between them; each thread writes once.
SPECIFICATION FairSpec
CONSTANTS
  Thread <- TwoProcesses
  NumWrites = 1
  Nobody = Nobody
INVARIANTS QueuesPaired OneQueueBehind
PROPERTY ProcessEnds
CHECK_DEADLOCK FALSE
