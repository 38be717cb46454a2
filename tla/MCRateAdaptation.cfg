SPECIFICATION FairRateSpec
CONSTANTS
    Bandwidth <- Bandwidths
    SegmentBytes <- Sizes
    Speeds = {3, 9, 12, 45, 100}
    Fills = {15, 16}
    TraceCapacity = 2
    MillisPerSecond = 10
    WordModulus = 256
INVARIANTS
    NearestToPrediction
PROPERTIES
    NeverStays
    SettlesIfMeasuredRight
