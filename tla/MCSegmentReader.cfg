SPECIFICATION FairReaderSpec
CONSTANTS
    Count = 2
    BLOCKSIZE = 2
    AskSizes = {2, 3}
    MaxInit = 2
    MaxMedia = 5
CHECK_DEADLOCK FALSE
INVARIANTS
    InitThenMedia
    EndIsTheEnd
PROPERTIES
    DecodersEnd
