SPECIFICATION Spec
CONSTANTS
    NPROC = 2
    NPAGES = 15
    PGSIZE = 2
    NPTENTRIES = 2
    KERNBASE = 8
    KTABLES = 1
    PHNUM = 2
    MAXARG = 1
    SbrkSizes = {3}
INVARIANTS PagesOwnedOnce LoadedDirLive CallsLeaveOrder
PROPERTIES LeaksOnlyWhenOut
VIEW UpToRenaming
CHECK_DEADLOCK FALSE
