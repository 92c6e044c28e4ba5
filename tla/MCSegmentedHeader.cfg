SPECIFICATION Spec
CONSTANTS
    Base = 4
    WordCount = 32
    ShortCount = 8
    Message <- Messages
    Reliable = TRUE
    Ordered = FALSE
    ChannelId = 8
    MaxPlainLen = 4
    ChunkLen = 3
    JoinerCapacity = 0
    MaxArrivals = 2
INVARIANT WholeMessages
