SPECIFICATION Spec
CONSTANTS
    Workers = {w1, w2}
    Mixes <- SomeMixes
    None = None
    Matches = {1}
    Firms = {f1, f2}
    Mentorings = {1}
    Mentors = {m1, m2}
    Students = {s1, s2}
    Scholarships = {1}
    Suggestions = {1, 2}
    Topics = {t1}
    WeeklyCap = 1
    Papers = {p1, p2}
    Years = {2025, 2026}
    Bills = {1, 2}
    BudgetRows = {1, 2}
    Refunds = {1, 2}
    Transfers = {1}
    Assistance = {1}
    Categories = {"k1"}
    Lines <- SomeLines
    Amounts = {1}
    PaymentAmount = 2
    Tickets = {1, 2}
    Subjects = {"other", "fees"}
    Stages = {1}
    Members = {u1, u2}
    Endpoints = {e1, e2}
    Notices = {1}
    Channels <- Services
    MaxRows = 2
INVARIANT RollupsShowOnce
PROPERTY OnlyStaleConfirmsReplace
PROPERTY OnlyFailedWritesDethrone
PROPERTY OnlyStaleEditsRestate
PROPERTY OnlyOverlappingSweepsRepeat
PROPERTY OnlyStaleCountsMute
SYMMETRY Symmetry
CHECK_DEADLOCK FALSE
