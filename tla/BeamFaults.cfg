\* Every datagram may be lost, doubled, and overtaken by any other.
SPECIFICATION BeamSpec
CONSTANTS
    NumSubpackets <- Frames32
    MinCopies = 0
    Overtake = 6
    MaxCopies = 2
INVARIANTS
    BeamTypeOK
    PayloadIntact
    CompleteOnceAllArrived
    UndefinedOnlyFirstOrRepeated
CHECK_DEADLOCK FALSE
