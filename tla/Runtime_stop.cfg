SPECIFICATION FairSpec
CONSTANTS
    AuthKeys = {FALSE}
    OFFLINE_RECONNECT_THRESHOLD = 1
    Stops = {TRUE}
    Peers = {p1}
    MaxKeys = 1
    MaxQueue = 1
PROPERTY StopTerminates
CHECK_DEADLOCK FALSE
