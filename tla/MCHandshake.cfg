SPECIFICATION FairSpec
CONSTANTS
    a = a
    b = b
    Endpoint <- Sides
    Registry <- Chat
    Reliable <- AllReliable
    Ordered <- ChatOrdered
    WindowSize <- ChatWindow
    Capacity = 5
    AckLimit = 3
    WireOrders = 8
    OrderCount = 8
    NullChannelId = 8
    MaxKeys <- HandshakeKeys
    MaxInbox = 2
    MaxMessages <- NoMessages
INVARIANTS TypeOK ChannelsAgree FirstTransferAcked Alive
PROPERTY PeerFollows
