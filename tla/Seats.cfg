SPECIFICATION Spec
CONSTANTS
    u1 = u1
    u2 = u2
    u3 = u3
    w1 = w1
    w2 = w2
    Nobody = Nobody
    Users = {u1, u2}
    Workers = {w1, w2}
    MaxRows = 2
    MaxClock = 2
    Capacities <- OneOrTwoSeats
    Groups <- NoGroup
    PatchTo <- SeatOrWaiting
    Kinds <- Handlers
SYMMETRY Symmetry
INVARIANTS
    TypeOK
    SeatDecisionHolds
    PromotionKeepsSeat
PROPERTIES
    NoIdleSeat
    OnlyStaleWritesBreakCount
CHECK_DEADLOCK FALSE
