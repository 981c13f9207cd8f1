CONSTANTS
    LaneCount <- MCLaneCount
    Backends = 2
    BufferOf <- MCBufferOf
    Services = 2
    Related <- MCRelated
    Sampled = TRUE
    BatchSlots = 2
    MaxFaults = 5
SPECIFICATION FairSpec
INVARIANTS
    TypeOK
    MemoryOutlivesUsers
    StoppedIsClean
    BuffersFirst
    StepIsBacked
    RestartIsClean
PROPERTIES
    QuietTeardown
    CleanupResolves
