SPECIFICATION FairSpec
CONSTANTS
    Starter = starter
    Downloader = downloader
    Reader = reader
    Aborters = {a1, a2}
    MaxBlocks = 3
CHECK_DEADLOCK FALSE
INVARIANTS
    AbortQuiesces
    CompletedIsComplete
    EndIsFinal
    CopyFollows
PROPERTIES
    FinalIsFinal
    DownloadEnds
