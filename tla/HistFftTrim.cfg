\* FFT rasters trimmed: what a reply may hold.
SPECIFICATION FairSpec
CONSTANTS
    Kinds = {"fft"}
    History = 1
    QueueLength = 3
    MaxPackets = 4
    MaxReplies = 2
INVARIANTS
    OnlyPushedColumns
CHECK_DEADLOCK FALSE
