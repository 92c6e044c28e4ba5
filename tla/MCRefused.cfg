SPECIFICATION SettledSpec
CONSTANTS
    a = a
    b = b
    Endpoint <- Sides
    Registry <- Chat
    Reliable <- AllReliable
    Ordered <- ChatOrdered
    WindowSize <- NarrowWindow
    Capacity = 6
    AckLimit = 8
    WireOrders = 8
    OrderCount = 8
    NullChannelId = 8
    MaxKeys <- ChatKeys
    MaxInbox = 2
    MaxMessages <- OneWay
INVARIANT OrderersKept
