CONSTANTS
    Workers = {w1}
    Lane = lane
    Service = service
    Host = host
    SlotCount = 2
    Families = {{"ordinary"}}
    Verdicts = {"ok"}
    MaxBatches = 2
    MaxFaults = 0
    MaxStops = 1
    StopInStep = TRUE
SPECIFICATION Spec
INVARIANTS
    TypeOK
    CountExact
    TimelineHonest
    VendorStable
CHECK_DEADLOCK FALSE
