SPECIFICATION FairSpec
CONSTANTS
    Producers = {p1}
    Consumers = {c1, c2}
    Controllers = {k1}
    NoThread = NoThread
    MaxCapacity = 2
    MaxPushes = 3
INVARIANTS
    NoLostWakeup
    Conserved
    FillReported
PROPERTIES
    AbortedBeforeEOS
    ImplementsFairQueue
