CONSTANTS
    Timeout = 2
    ClockMax = 5
    MaxArms = 3
SPECIFICATION FairSpec
INVARIANTS
    NeverEarly
    Disarmed
    OneShot
PROPERTIES
    ExpiryNoticed
    StopReturns
