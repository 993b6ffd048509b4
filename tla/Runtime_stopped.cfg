SPECIFICATION Spec
CONSTANTS
    AuthKeys = {FALSE}
    OFFLINE_RECONNECT_THRESHOLD = 1
    Stops = {FALSE}
    Peers = {p1}
    MaxKeys = 2
    MaxQueue = 1
INVARIANT StoppedIsQuiet
CHECK_DEADLOCK FALSE
