\* Nothing repeated: what is pushed should be complete.
SPECIFICATION BeamSpec
CONSTANTS
    NumSubpackets <- Frames312
    MinCopies = 0
    Overtake = 6
    MaxCopies = 1
INVARIANTS
    OnlyCompleteFramesQueued
CHECK_DEADLOCK FALSE
