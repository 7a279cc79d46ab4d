SPECIFICATION Spec
CONSTANTS
    w1 = w1
    w2 = w2
    s1 = s1
    s2 = s2
    u1 = u1
    job = job
    articleship = articleship
    None = None
    Workers = {w1, w2}
    Mixes <- SomeMixes
    Students = {s1, s2}
    Takers = {s1}
    Questions = {"first", "second"}
    Papers <- SomePapers
    Tries <- SomeTries
    Capacity = 1
    MaxAttempts = 2
    MaxEdits = 1
    Postings = {1, 2}
    Bills = {1, 2}
    Users = {u1}
    Kinds = {job, articleship}
    KindOf <- Advertised
    MaxTime = 9
    MaxLost = 1
INVARIANT EveryPostingDigested
PROPERTIES
    OnlyStaleWritesOverbook
    OnlyStaleWritesReattempt
    OnlyStaleWritesMisgrade
    OnlyStaleWritesLoseMarks
    OnlyStaleWritesUndo
    OnlyOverlappingReviewsMisinform
    OnlyStaleSweepsRepeat
SYMMETRY Symmetry
CHECK_DEADLOCK FALSE
