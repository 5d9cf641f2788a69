\* Each of the four buffer threads, with a queue that may overflow.
SPECIFICATION FairSpec
CONSTANTS
    Kinds = {"aco", "fft", "cbf", "detections"}
    History = 2
    QueueLength = 3
    MaxPackets = 7
    MaxReplies = 3
INVARIANTS
    HandedInOrder
    NothingSkipped
PROPERTIES
    RequestAnswered
    ImplementsFifo
CHECK_DEADLOCK FALSE
