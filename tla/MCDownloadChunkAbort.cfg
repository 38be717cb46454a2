SPECIFICATION FairSpec
CONSTANTS
    Starter = starter
    Downloader = downloader
    Reader = reader
    Aborters = {a1}
    MaxBlocks = 1
PROPERTIES
    AbortReturns
CHECK_DEADLOCK FALSE
