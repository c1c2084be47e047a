SPECIFICATION FairSpec
CONSTANTS
  Monitors = {m1, m2}
  Checkers = {c1, c2}
  MayFail = FALSE
PROPERTY ChecksStored
CHECK_DEADLOCK FALSE
