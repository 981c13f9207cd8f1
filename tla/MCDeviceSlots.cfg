CONSTANTS
    w1 = w1
    w2 = w2
    s1 = s1
    s2 = s2
    p1 = p1
    p2 = p2
    i1 = i1
    i2 = i2
    i3 = i3
    None = None
    Workers <- MCWorkers
    Slots <- MCSlots
    BackendCount = 2
    Phases <- MCOnePhase
    Ids <- MCTwoIds
SPECIFICATION Spec
SYMMETRY Symmetry
INVARIANTS
    TypeOK
    CountExact
    AppliedOnce
    SuccessIsReported
CHECK_DEADLOCK FALSE
