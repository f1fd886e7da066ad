SPECIFICATION RecvSpec
CONSTANTS
    SeqMod = 16
    Roles = {"initiator"}
    FirstSeq = 2
    QueueCapacity = 8
    NumData = 4
    PeerWindow = 5
    BitsPerByte = 2
    MinBytes = 2
    LengthMod = 8
    MaxAge = 5
INVARIANT
    EofMeansAllData
