SPECIFICATION Spec
CHECK_DEADLOCK FALSE
CONSTANTS
    MPDs <- Instance
    BufferSize = 2
    FrameBuffer = 1
    Second = 2
    FrameSleep = 1
    MaxTime = 14
    MaxFrames = 4
    MaxTaken = 6
    WordModulus = 1000
INVARIANTS
    AsksForAll
    StartsInWindow
    NeverAhead
