\* The queue of a plain sensor and of the two inertial ones.
SPECIFICATION FairSpec
CONSTANTS
    Sensors = {"pts", "bno", "bnr"}
    QueueLength = 2
    MaxRecords = 4
INVARIANTS
    TypeOK
    AtMostOneLateSteal
PROPERTIES
    EndsUnlessStarved
CHECK_DEADLOCK FALSE
