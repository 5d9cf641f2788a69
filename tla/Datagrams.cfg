\* The socket loop with a client that registers all its queues and two queues
\* registered alone, at any time.
SPECIFICATION SocketSpec
CONSTANTS
    Received <- MCReceived
    Clients = {"client"}
    Solitary = {"out", "pts"}
    MaxDatagrams = 2
INVARIANTS
    OnceInOrderSinceJoined
    SamplesAgreeWithHeader
    BeamsEncodeBack
CHECK_DEADLOCK FALSE
