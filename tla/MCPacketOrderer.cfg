SPECIFICATION Spec
CONSTANTS
    Packet = {p1, p2}
    None = None
    Capacity = 4
    OrderCount = 8
    WireOrders = 8
INVARIANT TypeOK
PROPERTY ImplementsReorderWindow
