SPECIFICATION Spec
CONSTANTS
    w1 = w1
    w2 = w2
    s1 = s1
    s2 = s2
    q1 = q1
    q2 = q2
    q3 = q3
    None = None
    Workers = {w1, w2}
    Mixes <- SomeMixes
    Students = {s1, s2}
    ReadingRooms = {"main", "silent"}
    Capacities = {1, 2}
    MaxMonth = 2
    MaxDeposits = 2
    Bookings = {1, 2, 3}
    Hours = {0, 1, 2}
    Slots <- Intervals
    People = {s1, s2}
    Bearers = {1}
    Mapped <- CommitteeMember
    Templates = {1, 2}
    Questions = {q1, q2, q3}
    QuestionSets <- AtMostOne
    Instances = {1, 2}
INVARIANT OneEmployerEach
PROPERTIES
    OnlyStaleWritesMisassign
    OnlyStaleWritesUndoDeposits
    OnlyResizingOverfills
    OnlyStaleWritesRevive
    KeepsCalendar
    OnlyStaleWritesUnlock
SYMMETRY Symmetry
CHECK_DEADLOCK FALSE
