SPECIFICATION Spec
CONSTANTS
    a = a
    b = b
    Endpoint <- Sides
    Registry <- BuiltIn
    Reliable <- AllReliable
    Ordered <- JustMgmt
    WindowSize <- MgmtWindow
    Capacity = 6
    AckLimit = 8
    WireOrders = 8
    OrderCount = 8
    NullChannelId = 8
    MaxKeys <- HandshakeKeys
    MaxInbox = 2
    MaxMessages <- NoMessages
INVARIANT TransferIsSafe
