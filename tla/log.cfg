SPECIFICATION Spec
CONSTANTS
  LogLimit = 4
  LogTail = 3
  MaxEvents = 8
INVARIANTS LatestIsShown LogBounded
