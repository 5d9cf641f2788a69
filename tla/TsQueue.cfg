\* One consumer that calls any method, and batches of up to two items; or three
\* that remove items, fed by push or push_all with one item.
SPECIFICATION MCSpec
CONSTANTS
    Consumers = {c1, c2, c3}
    Calls <- AllCalls
    Lengths = {0, 1, 2}
    MaxBatch = 2
    MaxPush = 4
INVARIANTS
    TypeOK
    NoLostWakeup
    QueueIsNewestItems
PROPERTIES
    LimitKept
    ImplementsFifo
    BlockedCallServed
