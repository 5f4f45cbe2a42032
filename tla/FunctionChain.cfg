\* Two front workers, chains of up to 3 functions, one worker more than the
\* chains can hold without being able to go on; lengths 0 and 4 are refused.
SPECIFICATION FairSpec
CONSTANTS
  Front = {f1, f2}
  Back = {b1, b2, b3, b4, b5}
  Length = {0, 1, 2, 3, 4}
  MaxChainLength = 3
  Longest = 3
INVARIANTS DepthMatchesLength NoStuckChains
PROPERTY RequestAnswered
CHECK_DEADLOCK FALSE
