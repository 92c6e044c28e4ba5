SPECIFICATION ResenderSpec
CONSTANTS
    once = once
    thrice = thrice
    Value <- Packets
    None = None
    MaxSlots = 4
    MaxGeneration = 2
    ResendCapacity = 3
    ResendInterval <- Intervals
    ResendAttempts <- Attempts
    Delta <- Passing
INVARIANTS TypeOK FreeSlotsExact LengthCountsValues IssuedExact CapacityKept GivenUpAfterAttempts
PROPERTIES ImplementsKeyStore PlaceReturned
