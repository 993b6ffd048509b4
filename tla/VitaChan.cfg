SPECIFICATION FairSpec
CONSTANTS
    Senders = {s1, s2}
    Receivers = {r1, r2}
    Capacity = 2
    Unbounded = Unbounded
    NoThread = NoThread
    MaxSends = 2
    MaxRecvs = 1
INVARIANTS
    TypeOK FifoDelivery WithinCapacity ItemsHaveWakers SlotsHaveWakers DisconnectIsFinal
PROPERTY TimedCallsReturn
CHECK_DEADLOCK FALSE
