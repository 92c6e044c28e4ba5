SPECIFICATION ReconnectSpec
CONSTANTS
    Packet = Packet
    Value = {Packet}
    None = None
    MaxSlots = 4
    MaxGeneration = 1
    Registrations = 2
    MaxConnects = 2
INVARIANT UnknownKeysReported
