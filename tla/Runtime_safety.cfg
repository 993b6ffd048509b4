SPECIFICATION Spec
CONSTANTS
    AuthKeys = {TRUE, FALSE}
    OFFLINE_RECONNECT_THRESHOLD = 1
    Stops = {FALSE}
    Peers = {p1}
    MaxKeys = 2
    MaxQueue = 1
INVARIANTS
    TypeOK ParkedIsQuiet LoggedOutStaysOut SessionPopulatesEngine
    LoggedOutScreenIsClean QrOnlyWhileLoggingIn QrSessionKeyIsEngineKey
CHECK_DEADLOCK FALSE
