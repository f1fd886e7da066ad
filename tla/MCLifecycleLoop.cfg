SPECIFICATION LifecycleSpec
CONSTANTS
    ResendTimesLimit = 1
    MaxUnacked = 2
INVARIANT
    ReceiveLoopLives
CHECK_DEADLOCK FALSE
