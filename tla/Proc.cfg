SPECIFICATION FairSpec
CONSTANTS
  NPROC = 3
  NCPU = 1
  Chan = {c1}
  Status = {0, 1}
  KillArg = {2, 3}
  MaxPid = 3
INVARIANTS
  NoLostExit
  NoOrphan
  EmbryoOwned
  UniquePids
PROPERTIES
  ExitStatusKept
  InitReaps
  KilledWaiterExits
