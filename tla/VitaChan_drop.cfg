SPECIFICATION FairSpec
CONSTANTS
    Senders = {s1}
    Receivers = {r1}
    Capacity = 1
    Unbounded = Unbounded
    NoThread = NoThread
    MaxSends = 1
    MaxRecvs = 1
PROPERTIES
    DropWakesPendingRecv
CHECK_DEADLOCK FALSE
