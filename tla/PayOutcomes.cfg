SPECIFICATION Spec
CONSTANTS
    p1 = p1
    p2 = p2
    o1 = o1
    o2 = o2
    s1 = s1
    s2 = s2
    w1 = w1
    w2 = w2
    cron = cron
    None = None
    Payments = {p1, p2}
    Legacy <- OneLegacy
    Orders = {o1, o2}
    Seats = {s1, s2}
    Workers = {w1, w2, cron}
    CronWorkers = {cron}
    MaxPerTick = 1
    MaxFaults = 1
    Mixes <- Outcomes
SYMMETRY Symmetry
INVARIANTS
    PaidMeansCaptured
PROPERTIES
    OnlyStaleWritesUnsettle
    OnlyStaleWritesLoseMoney
CHECK_DEADLOCK FALSE
