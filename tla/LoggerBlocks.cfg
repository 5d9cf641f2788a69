\* The four loggers; item 3 makes no row; one stop, rollovers, files
\* that open or not, queues that overflow, and a name that comes round again.
SPECIFICATION FairSpec
CONSTANTS
    Minute = 1
    Hour = 3
    Daylight = {0}
    DaylightShift = 2
    Kinds = {"aco", "sensor", "gps", "host"}
    RolloverMin = 1
    Unusable = {3}
    QueueLength = 2
    MaxItems = 4
    MaxTime = 2
    MaxStops = 1
    MaxRows = 4
INVARIANTS
    TypeOK
    InOrderWithoutGaps
    OneBatchPerStop
    TruncatedOnlyByRestart
PROPERTIES
    EndsUnlessWaiting
CHECK_DEADLOCK FALSE
