\* Up to three changes of bands, rate or FFT size around four frames.
SPECIFICATION Spec
CONSTANTS
    Sizes = {2, 4}
    Rates = {8}
    Bands <- SomeBands
    Widths <- SomeWidths
    QueueLength = 2
    MaxFrames = 4
    MaxChanges = 3
INVARIANTS
    TypeOK
    OneDetectionPerFrame
    SoundUnlessOverlapped
    StaleOnlyIfFlagLost
CHECK_DEADLOCK FALSE
