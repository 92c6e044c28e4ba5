SPECIFICATION FairSettledSpec
CONSTANTS
    a = a
    b = b
    Endpoint <- Sides
    Registry <- Three
    Reliable <- AllReliable
    Ordered <- ChatOrdered
    WindowSize <- ChatWindow
    Capacity = 6
    AckLimit = 2
    WireOrders = 8
    OrderCount = 8
    NullChannelId = 8
    MaxKeys <- ThreeKeys
    MaxInbox = 2
    MaxMessages <- OneWay
INVARIANTS Alive InOrder NoMessageLost HandledOnce RightChannel
PROPERTY Delivered
