SPECIFICATION SocketSpec
CONSTANTS
    Sockets = {A, B}
    IdMod = 3
    PromptSends = TRUE
    MaxConnects = 1
    MaxConns = 2
    MaxCloses = 0
INVARIANT
    EstablishedIsOffered
CHECK_DEADLOCK FALSE
