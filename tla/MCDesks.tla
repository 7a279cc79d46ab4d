------------------------------- MODULE MCDesks -------------------------------
(* The smaller desks for TLC: each mix uses the handlers of one of them.    *)
EXTENDS StudentDesks, Treasury, Grievances, Notifications

SomeMixes ==
    {{"match", "place", "confirm"}, {"mentor"}, {"apply"}, {"suggest", "moderate"}, {"suggest", "topic", "week"},
     {"paper", "crash"},
     {"bill", "settle"}, {"bill", "edit"}, {"bill", "category", "edit"}, {"bill", "plan", "rollup"}, {"plan", "category"}, {"refund"}, {"transfer"},
     {"submit", "time", "desk", "sweep"}, {"submit", "time", "sweep", "crash"}, {"submit", "time", "routes", "sweep"},
     {"time", "desk", "office", "stages", "crash"}, {"time", "desk", "office", "stages"},
     {"subscribe", "notify"}, {"subscribe", "unsubscribe"}, {"opted", "notify", "inbox", "settings", "crash"}}

\* A committee's line, the branch's, and a bill of no category.
SomeLines ==
    {[committee |-> "cpe", category |-> "k1"], [committee |-> None, category |-> "k1"], [committee |-> None, category |-> None]}

Services == <<"inapp", "email", "webpush", "sms">>

Symmetry == Permutations(Workers)

Init == RequestsInit /\ StudentsInit /\ TreasuryInit /\ GrievancesInit /\ NoticesInit

Next ==
    \/ StudentStep /\ UNCHANGED <<treasury, grievances, notices>>
    \/ TreasuryStep /\ UNCHANGED <<students, grievances, notices>>
    \/ GrievanceStep /\ UNCHANGED <<students, treasury, notices>>
    \/ NoticeStep /\ UNCHANGED <<students, treasury, grievances>>

Spec == Init /\ [][Next]_<<requests, students, treasury, grievances, notices>>
=============================================================================
