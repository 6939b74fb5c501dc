SPECIFICATION FairSpec
CONSTANTS
  Proc = {p1, p2}
  Block = {b1, b2, b3}
  Val = {0, 1}
  Blank = 0
  NotCached = NotCached
  MAXOPBLOCKS = 2
  LOGSIZE = 4
  NLOG = 4
  OpMax = 1
  CanCrash = TRUE
INVARIANTS
  LogSound
PROPERTIES
  ImplementsAtomicDisk
  SpaceReturns
