SPECIFICATION FairSpec
CONSTANTS
    Gui = gui
    Buffering = buffering
    Decoder = decoder
    None = none
    Representations <- MCRepresentations
    AdaptationSets <- MCAdaptationSets
    Periods <- MCPeriods
    SetOf <- MCSetOf
    PeriodOf <- MCPeriodOf
    FirstRepresentation = "a1"
    SegmentCount = 2
    Capacity = 1
    MaxChanges = 2
CHECK_DEADLOCK FALSE
INVARIANTS
    ManagerAndReceiverAgree
    InitSegmentsKept
    LogicSwitchesCleanly
    SafeWithinSet
PROPERTIES
    StartReturns
    StopCompletes
