SPECIFICATION Spec
CONSTANTS
    w1 = w1
    w2 = w2
    s1 = s1
    s2 = s2
    g1 = g1
    g2 = g2
    Nothing = Nothing
    Sections = {s1, s2}
    Stages = {g1, g2}
    Workers = {w1, w2}
    Mixes <- SomeMixes
SYMMETRY Symmetry
PROPERTIES
    OnlyStaleWritesMisdecide
    OnlyStaleWritesEdit
    EventKeepsItsEnd
CHECK_DEADLOCK FALSE
