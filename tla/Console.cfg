SPECIFICATION Spec
CONSTANTS
    Reader = {p1, p2}
    INPUT_BUF = 3
    Word = 6
    MaxN = 2
INVARIANTS NoSleepWithInput
PROPERTIES ImplementsLineQueue ReadsOneLine
