SPECIFICATION FairLifecycleSpec
CONSTANTS
    ResendTimesLimit = 1
    MaxUnacked = 2
INVARIANTS
    TableMatchesState
    OneFin
PROPERTIES
    EndedStaysEnded
    CloseWaitEnds
    CloseReturns
CHECK_DEADLOCK FALSE
