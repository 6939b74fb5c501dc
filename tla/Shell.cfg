SPECIFICATION Spec
CONSTANTS
    MAXARGS = 10
    Commands = {1, 2, 3, 4, 5, 6, 7}
    MaxJobs = 4
    NOFILE = 10
    NPROC = 10
    Byte = 24
INVARIANTS OneForeground
PROPERTIES LostBetweenEnded ShellReturns
CHECK_DEADLOCK FALSE
