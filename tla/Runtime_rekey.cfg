SPECIFICATION Spec
CONSTANTS
    AuthKeys = {TRUE}
    OFFLINE_RECONNECT_THRESHOLD = 1
    Stops = {FALSE}
    Peers = {p1}
    MaxKeys = 2
    MaxQueue = 1
INVARIANT SessionKeyIsEngineKey
CHECK_DEADLOCK FALSE
