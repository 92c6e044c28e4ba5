SPECIFICATION Spec
CONSTANTS
    p = p
    Address <- Peers
    BunchSize = 2
    NewsSize = 1
    ConnectionTimeout = 1
    MaxTime = 3
    MaxEvents = 2
    MaxCommands = 3
INVARIANT SilentForgotten
