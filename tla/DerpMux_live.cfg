SPECIFICATION FairSpec
CONSTANTS
    Control = control
    Callers = {control, pump}
    Regions = {r1, r2}
    NoRegion = NoRegion
    NoThread = NoThread
    cap = 1
    MaxConns = 2
    MaxHomes = 0
PROPERTIES CallsReturn ShutdownEndsIo
CHECK_DEADLOCK FALSE
