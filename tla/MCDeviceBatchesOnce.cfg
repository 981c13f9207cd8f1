CONSTANTS
    Workers = {w1}
    Lane = lane
    Service = service
    Host = host
    SlotCount = 1
    Families = {{"ordinary"}}
    Verdicts = {"ok"}
    MaxBatches = 2
    MaxFaults = 1
    MaxStops = 1
    StopInStep = TRUE
SPECIFICATION Spec
INVARIANTS
    AppliedOnce
CHECK_DEADLOCK FALSE
