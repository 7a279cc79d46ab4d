SPECIFICATION Spec
CONSTANTS
    u1 = u1
    u2 = u2
    u3 = u3
    w1 = w1
    w2 = w2
    Nobody = Nobody
    Users = {u1, u2}
    Workers = {w1, w2}
    MaxRows = 2
    MaxClock = 2
    Capacities <- OneSeat
    Groups <- NoGroup
    PatchTo <- SeatOrCancel
    Kinds <- DoubleApproval
PROPERTY CancelledOnce
CHECK_DEADLOCK FALSE
