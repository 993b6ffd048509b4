SPECIFICATION FairSpec
CONSTANTS
    AuthKeys = {FALSE}
    OFFLINE_RECONNECT_THRESHOLD = 1
    Stops = {FALSE}
    Peers = {p1}
    MaxKeys = 1
    MaxQueue = 1
PROPERTY LossIsNoticed
CHECK_DEADLOCK FALSE
