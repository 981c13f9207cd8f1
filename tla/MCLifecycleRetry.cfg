SPECIFICATION FairSpec
CONSTANTS
    LaneCount <- MCLaneCount
    Backends = 2
    BufferOf <- MCBufferOf
    Services = 2
    Related <- MCRelated
    Sampled = TRUE
    BatchSlots = 2
    MaxFaults = 0
PROPERTIES
    RetriedStopStops
