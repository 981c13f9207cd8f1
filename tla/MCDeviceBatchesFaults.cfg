CONSTANTS
    Workers = {w1}
    Lane = lane
    Service = service
    Host = host
    SlotCount = 1
    Families = {{"ordinary"}, {"rate", "simulated"}}
    Verdicts = {"ok", "error"}
    MaxBatches = 2
    MaxFaults = 1
    MaxStops = 2
    StopInStep = FALSE
SPECIFICATION Spec
INVARIANTS
    TicketExact
    SuccessIsReported
    TimelineHonest
PROPERTIES
    QuarantineHolds
CHECK_DEADLOCK FALSE
