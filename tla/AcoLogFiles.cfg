\* CSV and WAV loggers, files that open and files that may not, one stop, a
\* queue that overflows, and a name that comes round again (0 and 1 spell 6, 7).
SPECIFICATION Spec
CONSTANTS
    Minute = 2
    Hour = 3
    Daylight = {0, 1}
    DaylightShift = 6
    Formats = {"csv", "wav"}
    RolloverMin = 2
    QueueLength = 2
    MaxPackets = 4
    MaxTime = 7
    MaxStops = 1
INVARIANTS
    TypeOK
    WrittenInOrder
    FilesHaveNoGaps
    NothingLostUnlessStopped
CHECK_DEADLOCK FALSE
