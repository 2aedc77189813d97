SPECIFICATION FairSpec
CONSTANTS
  Engines = {e1, e2, e3, e4}
  MaxWait = 9
  RequestTimeout = 3
  InitialPause = 1
  MaxPause = 3
  Overrun = 1
INVARIANTS
  CleanIsMajority
  WaitBounded
  PollsSpaced
PROPERTIES
  ScanEnds
CHECK_DEADLOCK FALSE
