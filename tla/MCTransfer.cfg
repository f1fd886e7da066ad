SPECIFICATION TransferSpec
CONSTANTS
    SeqMod = 16
    FirstSeq = 15
    MinWindow = 2
    MaxWindow = 2
    ResendTimesLimit = 1
    RemoteWindows = {9}
    MaxCongestionWindow = 2
    Roles = {"initiator", "responder"}
    QueueCapacity = 8
    NumData = 3
    BitsPerByte = 2
    MinBytes = 2
    LengthMod = 8
    MaxLoss = 1
    MaxDup = 1
    AccurateTimers = TRUE
    MayClose = "idle"
INVARIANTS
    AckedIsHeld
PROPERTIES
    ImplementsByteStream
CHECK_DEADLOCK FALSE
