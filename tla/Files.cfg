SPECIFICATION Spec
CONSTANTS
    Proc = {p1, p2}
    Inum = {i1, i2}
    NFILE = 2
    NOFILE = 2
    BSIZE = 2
    NDIRECT = 1
    NINDIRECT = 1
    usedblocks = 2
    nblocks = 3
    nlog = 5
    LOGSIZE = 6
    MAXOPBLOCKS = 2
    MkfsSizes = {1, 3}
    Amounts = {3}
INVARIANTS BlocksAccounted RefsMatch
PROPERTIES ImplementsFileBytes
SYMMETRY Alike
VIEW InUse
CHECK_DEADLOCK FALSE
