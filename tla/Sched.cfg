SPECIFICATION FairSpec
CONSTANTS
  Proc = {p1, p2}
  CPU = {c0, c1}
  BootCpu = c0
  Free = Free
INVARIANTS
  SchedSound
  NoSpinDeadlock
PROPERTIES
  SleeperReturns
