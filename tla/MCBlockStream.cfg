SPECIFICATION Spec
CONSTANTS
    MaxBytes = 6
    MaxBlock = 4
INVARIANTS
    LengthCounts
PROPERTIES
    ImplementsByteStream
