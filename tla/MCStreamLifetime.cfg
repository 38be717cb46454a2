SPECIFICATION FairSpec
CONSTANTS
    SegmentCount = 3
    SegmentCapacity = 1
    FrameCapacity = 2
    FrameCount = 1
    Gui = gui
    Renderer = renderer
    MaxSessions = 2
INVARIANTS
    NothingLeftBehind
PROPERTIES
    StreamStops
    ShowsEveryFrame
CHECK_DEADLOCK FALSE
