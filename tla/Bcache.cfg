SPECIFICATION FairSpec
CONSTANTS
  Proc = {p1, p2}
  Sector = {s1, s2, s3}
  BadSector = {s3}
  Val = {0, 1}
  NBUF = 2
  NoSector = NoSector
  Blank = 0
  MaxPinned = 1
INVARIANTS
  BufferSound
PROPERTIES
  Transparent
  SleepersReturn
