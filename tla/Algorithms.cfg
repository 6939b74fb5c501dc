SPECIFICATION Spec
CONSTANTS
    DIRSIZ = 2
    Width = 8
    MAXARGS = 3
    MaxTokens = 6
    MaxPath = 6
    MaxRe = 5
    MaxFmt = 5
    MaxKeys = 6
    NALLOC = 4
    HEAPEND = 14
    HeaderSize = 2
    MallocBytes = {1, 3, 9}
INVARIANTS LibraryExact HeapSound UnsignedChecks NoStuckModifier MatchesRegex ParserIsGrammar
CHECK_DEADLOCK FALSE
