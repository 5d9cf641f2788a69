\* Threads fed by the helper thread, and threads fed by the socket.
SPECIFICATION FairSpec
CONSTANTS
    Configurations = {
        {"bno_state", "sensor_logger"},
        {"aco_helper", "fft_buffer", "bno_state", "aco_logger"},
        {"aco_helper", "cbf_buffer", "bno_state", "sensor_logger"},
        {"aco_helper", "detections", "bno_state", "sensor_logger"}}
INVARIANTS
    TypeOK
    EndedOnceStopped
PROPERTIES
    StopReturns
CHECK_DEADLOCK FALSE
