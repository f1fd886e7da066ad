SPECIFICATION PacingSpec
CONSTANTS
    MinRto = 1000
    MaxRto = 6000
    TargetDelay = 100
    InitialWindow = 4
    MaxCongestionWindow = 16
    Delays = {0, 40, 100, 180, 2000, 7000}
    MaxSamples = 4
    MaxPerAck = 2
    Unit = 512
    Fraction = 16
INVARIANTS
    TimeoutCoversEstimate

    
CHECK_DEADLOCK FALSE
