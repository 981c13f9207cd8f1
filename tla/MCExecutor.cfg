CONSTANTS
    frame = frame
    w1 = w1
    w2 = w2
    d1 = d1
    Frame <- frame
    Workers <- MCWorkers
    Lanes <- MCLanes
    PhaseCount = 4
    Successors <- MCSuccessors
    Assignment <- MCAssignment
    DevicePhases = {1}
    Stealing = TRUE
    FailFrame = TRUE
    QueueCapacity = 2
    ScratchSlots = 3
    Selected = {1}
SPECIFICATION FairSpec
INVARIANTS
    TypeOK
    TokenCount
    Quiescent
    DependencyOrder
    OkMeansAll
    LowestFailure
PROPERTIES
    RunReturns
