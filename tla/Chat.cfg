SPECIFICATION Spec
CONSTANTS
    Workers = {w1, w2}
    Mixes <- SomeMixes
    None = None
    ann = ann
    ben = ben
    Members = {ann, ben}
    Moderators = {ann}
    Channels = {1, 2}
    DefaultKinds = {"qa"}
    Messages = {1, 2}
    Author <- Authors
    MaxBody = 2
    CatchupLimit = 1
    Quota = 2
    MaxStored = 4
    Keys = {k1, k2}
    MaxCalls = 2
    Window = 2
    MaxBuckets = 1
    LastInstant = 6
    home = home
    faq = faq
    Pages = {home, faq}
    Texts = {x, y}
    SourceIds = {1, 2}
    Audiences = {{"public"}, {"public", "member"}}
INVARIANT RateKept
PROPERTY OnlyDoubleOpensDuplicate
PROPERTY OnlyOvertakenFramesMislead
PROPERTY OnlyOvertakenMessagesAreMissed
PROPERTY SweepsRepair
SYMMETRY Symmetry
CHECK_DEADLOCK FALSE
