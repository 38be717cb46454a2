SPECIFICATION FairSpec
CONSTANTS
    Gui = gui
    Buffering = buffering
    NoDecoder = NoDecoder
    SegmentCount = 4
    Capacity = 2
CHECK_DEADLOCK FALSE
INVARIANTS
    DecodedInOrder
    BoundedAhead
    StopLeavesLittle
PROPERTIES
    StopReturns
    SessionDrains
    PlaysEverySegment
