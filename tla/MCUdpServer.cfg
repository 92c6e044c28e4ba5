SPECIFICATION Spec
CONSTANTS
    p = p
    Address <- Peers
    BunchSize = 2
    NewsSize = 1
    ConnectionTimeout = 1
    MaxTime = 1
    MaxEvents = 2
    MaxCommands = 2
INVARIANTS TypeOK InstanceFollows
PROPERTIES NeverOlder Shutdown
