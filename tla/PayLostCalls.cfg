SPECIFICATION FairSpec
CONSTANTS
    p1 = p1
    p2 = p2
    o1 = o1
    o2 = o2
    s1 = s1
    s2 = s2
    w1 = w1
    w2 = w2
    cron = cron
    None = None
    Payments = {p1, p2}
    Legacy <- NoLegacy
    Orders = {o1, o2}
    Seats = {s1, s2}
    Workers = {w1, cron}
    CronWorkers = {cron}
    MaxPerTick = 2
    MaxFaults = 1
    Mixes <- LostCalls
PROPERTY EveryCaptureSettles
CHECK_DEADLOCK FALSE
