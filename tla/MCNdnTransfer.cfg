SPECIFICATION FairSpec
CHECK_DEADLOCK FALSE
CONSTANTS
    Users = {u1, u2}
    Files = {f1, f2}
    PacketSize = 2
    BlockSize = 2
    WordModulus = 4
    NoName = NoName
    FaceThrows = TRUE
    FileSizes <- Sizes
    MaxDownloads = 1
INVARIANTS
    DeliveredInOrder
    WholeUnlessMissed
PROPERTIES
    DownloadReturns
