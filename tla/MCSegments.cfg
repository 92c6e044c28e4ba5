SPECIFICATION Spec
CONSTANTS
    Base = 4
    WordCount = 32
    ShortCount = 8
    Message <- Messages
    Reliable = FALSE
    Ordered = FALSE
    ChannelId = 8
    MaxPlainLen = 4
    ChunkLen = 3
    JoinerCapacity = 0
    MaxArrivals = 2
CHECK_DEADLOCK FALSE
INVARIANTS TypeOK MetadataReadBack ReceiverSurvives WholeMessages AllSegmentsSuffice CopiesPaidFor
