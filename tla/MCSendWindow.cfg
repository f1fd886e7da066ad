SPECIFICATION FairSpec
CONSTANTS
    SeqMod = 16
    FirstSeq = 13
    MinWindow = 1
    MaxWindow = 3
    ResendTimesLimit = 1
    RemoteWindows <- MCRemoteWindows
    MaxCongestionWindow = 4
    MaxPackets = 5
INVARIANTS
    TypeOK
    BlockedOnlyWhenFull
    EveryPacketInOnePlace
    AckedCountedOnce
    NoAckedPacketLingers
    AdmissionInOrder
    InFlightBounded
PROPERTIES
    BlockedWriterAdmitted
