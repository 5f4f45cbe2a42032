SPECIFICATION Spec
CONSTANTS
  r1 = r1
  Request = {r1}
  Call <- TextTwice
  NoCall = NoCall
  MaxPoolSize = 5
  Faults = {}
INVARIANT ComposerUploaded
CHECK_DEADLOCK FALSE
