\* Windows of four samples that share one; packets below and above a window.
SPECIFICATION FairSpec
CONSTANTS
    NFFT = 4
    noverlap = 1
    PopLimit = 2
    QueueLength = 3
    PacketCols = {2, 5}
    SampleRates = {1, 2}
    IntMax = 2
    MaxSamples = 16
INVARIANTS
    TypeOK
    StampedWithFirstSample
    FramesTileTheStream
PROPERTIES
    EveryWindowFramed
CHECK_DEADLOCK FALSE
