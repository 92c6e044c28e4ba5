SPECIFICATION Spec
CONSTANTS
    p1 = p1
    p2 = p2
    Producer <- Producers
    Value = {1, 2}
    BunchSize = 2
    MaxPushed = 5
INVARIANTS TypeOK NoLostWakeup
PROPERTIES Handled ImplementsFifo
