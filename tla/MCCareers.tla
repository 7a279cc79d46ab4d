------------------------------ MODULE MCCareers ------------------------------
(* Mock tests, job postings and job alerts for TLC: each mix uses the       *)
(* handlers of one of them that meet in a row.                              *)
EXTENDS MockTests, JobAlerts

CONSTANTS w1, w2, s1, s2, u1, job, articleship

Question(kind, key, tolerance) ==
    [kind |-> kind, marks |-> 2, negative |-> 1, key |-> key, tolerance |-> tolerance]
Essay == Question("long", <<>>, 0)

Options == Question("mcq", <<"A", "B">>, 0)
Number == Question("numerical", <<5>>, 1)

SomePapers == {[first |-> Options, second |-> x] : x \in {Number, Essay}}

\* What is written in an essay makes no difference.
SomeTries == [mcq |-> {<<"B", "A">>, <<"A", "B", "C">>},
               numerical |-> {<<4>>, <<7>>},
              short |-> {}, long |-> {}]

Advertised == 1 :> job @@ 2 :> articleship

\* The seats; devices of one student; examiners; a paper that changes.
SomeMixes ==
    {{"register", "cancel", "tests", "marks"},
     {"start", "save", "submit", "expiry"},
     {"start", "submit", "mark"},
     {"start", "save", "submit", "edit"},
     {"pay", "close", "delete"},
     {"pay", "desk"},
     {"post", "desk", "close"},
     {"apply", "review"},
     {"apply", "close", "delete"},
     {"post", "subscribe", "unsubscribe"},
     {"post", "digest", "clock"},
     {"post", "digest", "clock", "unsubscribe"},
     {"post", "digest", "clock", "crash"}}

Symmetry == Permutations(Workers)

Init == RequestsInit /\ ExamsInit /\ JobsInit /\ AlertsInit

Next ==
    \/ ExamsNext /\ UNCHANGED <<jobs, alerts>>
    \/ JobStep /\ UNCHANGED exams

Spec == Init /\ [][Next]_<<jobVars, exams>>
=============================================================================
