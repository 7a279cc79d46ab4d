------------------------------ MODULE MCBranch -------------------------------
(* The reading room, the bookable rooms, the access to the portal and the   *)
(* checklist templates for TLC.  They share the table of requests and       *)
(* nothing else; each mix uses the handlers of one of them.                 *)
EXTENDS ReadingRoom, RoomBookings, Access, ChecklistTemplates

CONSTANTS w1, w2, s1, s2, q1, q2, q3

Intervals == {{0, 1}, {1, 2}, {2}}

AtMostOne == {{}} \cup {{q} : q \in Questions}

CommitteeMember == {"mcm"}

SomeMixes ==
    {{"deposit", "verify", "refund"},
     {"refund", "book"}, {"refund", "calendar"}, {"book", "calendar"},
     {"book", "catalogue"}, {"book", "switch"},
     {"book", "resize"},
     {"book", "unbook"},
     {"room", "venue"}, {"room", "clock"},
     {"onboard"},
     {"grant", "end"},
     {"bearer", "end"},
     {"draft", "publish"}, {"draft", "clone"}, {"draft", "drop"},
     {"clone", "publish", "use", "drop"}}

Symmetry == Permutations(Workers) \cup Permutations(Questions) \cup Permutations(People)

Init == RequestsInit /\ ReadingInit /\ RoomsInit /\ AccessInit /\ TemplatesInit

Next ==
    \/ ReadingNext /\ UNCHANGED <<rooms, access, templates>>
    \/ RoomsNext /\ UNCHANGED <<reading, access, templates>>
    \/ AccessNext /\ UNCHANGED <<reading, rooms, templates>>
    \/ TemplatesNext /\ UNCHANGED <<reading, rooms, access>>

Spec == Init /\ [][Next]_<<requests, reading, rooms, access, templates>>
=============================================================================
