SPECIFICATION SocketSpec
CONSTANTS
    Sockets = {A, B}
    IdMod = 3
    PromptSends = TRUE
    MaxConnects = 2
    MaxConns = 4
    MaxCloses = 1
SYMMETRY Symmetry
INVARIANTS
    ReachesItsPeer
    HandedOutOnce
CHECK_DEADLOCK FALSE
