CONSTANTS
  Proc = {p1, p2}
  Name = {a}
  ninodes = 4
  PathLen = 2
  LongCalls = {"creat"}
  MaxLink = 2
  NFILE = 1
  StaleDotDot = FALSE
SPECIFICATION Spec
INVARIANTS
  InodeSound
  WaitsEnd
SYMMETRY Perms
