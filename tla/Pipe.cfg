SPECIFICATION FairSpec
CONSTANTS
  Proc = {p1, p2}
  Killable = {p1}
  PIPESIZE = 2
  Word = 4
  Data = {a, b}
  MaxN = 3
  NoLock = NoLock
INVARIANTS
  PipeSound
PROPERTIES
  ImplementsFifo
  CallsEndRightly
CHECK_DEADLOCK FALSE
