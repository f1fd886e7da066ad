SPECIFICATION FairSocketSpec
CONSTANTS
    Sockets = {A, B}
    IdMod = 3
    PromptSends = FALSE
    MaxConnects = 1
    MaxConns = 3
    MaxCloses = 2
INVARIANTS
    OneAcceptPerConnect
    TableIsCurrent
    ClosedListenerClosesAll
PROPERTIES
    ConnectSettles
    SocketCloses
CHECK_DEADLOCK FALSE
