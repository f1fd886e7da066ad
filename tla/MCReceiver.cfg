SPECIFICATION RecvSpec
CONSTANTS
    SeqMod = 16
    Roles = {"initiator", "responder"}
    FirstSeq = 11
    QueueCapacity = 6
    NumData = 8
    PeerWindow = 6
    MaxAge = 7
    BitsPerByte = 2
    MinBytes = 2
    LengthMod = 8
INVARIANTS
    ConsumedInOrder
    AckNrIsLastConsumed
    OldestKeyIsSmallest
    NothingDeliverableWaits
    SackIsSound
    SackIsCompleteWithoutDuplicates
    SackReadersAgree
PROPERTIES
    QueuedUntilConsumed
