------------------------ MODULE MCChecklistApproval ------------------------
\* Small instances of ChecklistApproval for TLC.
EXTENDS ChecklistApproval, TLC

CONSTANTS w1, w2, s1, s2, g1, g2

Symmetry == Permutations(Workers)

OneSection == {s1}

Sectioned(H, handlers) == [handlers |-> handlers, heads |-> H, codes |-> {}]
Staged(handlers) == [handlers |-> handlers, heads |-> OneSection, codes |-> Stages]

SomeMixes ==
    {Sectioned(Sections, {"responses", "submit", "approve", "reject"}),
     Sectioned(Sections, {"responses", "submit", "approve", "assign"}),
     Sectioned(Sections, {"responses", "submit", "approve", "reopen"}),
     Staged({"responses", "submit", "approve", "stage", "final", "reopen", "publish", "cancel"}),
     Staged({"responses", "submit", "approve", "stage", "release", "questions", "publish", "delete", "crash"})}

FillAndDecide == {Staged({"responses", "submit", "stage"})}
=============================================================================
