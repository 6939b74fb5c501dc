SPECIFICATION Spec
CONSTANTS
    Proc = {p1}
    Inum = {i1}
    NFILE = 1
    NOFILE = 1
    BSIZE = 2
    NDIRECT = 12
    NINDIRECT = 2
    usedblocks = 2
    nblocks = 16
    nlog = 30
    LOGSIZE = 30
    MAXOPBLOCKS = 10
    MkfsSizes = {0}
    Amounts = {14, 28}
INVARIANTS OpWithinReservation
CHECK_DEADLOCK FALSE
