SPECIFICATION ReaderSpec
CONSTANTS
    Count = 1
    BLOCKSIZE = 2
    AskSizes = {2}
    MaxInit = 3
    MaxMedia = 1
INVARIANTS
    PeeksFromItsOffset
CHECK_DEADLOCK FALSE
