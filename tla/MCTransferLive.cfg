SPECIFICATION FairTransferSpec
CONSTANTS
    SeqMod = 8
    FirstSeq = 2
    MinWindow = 1
    MaxWindow = 2
    ResendTimesLimit = 1
    RemoteWindows = {9}
    MaxCongestionWindow = 2
    Roles = {"initiator", "responder"}
    QueueCapacity = 8
    NumData = 2
    BitsPerByte = 2
    MinBytes = 2
    LengthMod = 8
    MaxLoss = 1
    MaxDup = 0
    AccurateTimers = FALSE
    MayClose = "early"
INVARIANTS
    AckedIsHeld
PROPERTIES
    ImplementsByteStream
    AllDelivered
CHECK_DEADLOCK FALSE
