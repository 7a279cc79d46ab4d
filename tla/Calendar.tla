------------------------------ MODULE Calendar ------------------------------
(***************************************************************************)
(* What a bookable room promises: every hour has at most one holder; a     *)
(* booking takes all of its hours at once, when they are free, and gives   *)
(* all of them back at once.                                               *)
(***************************************************************************)
CONSTANTS Hours, Holders, Nobody

VARIABLE holder

Held(b) == {h \in Hours : holder[h] = b}

Init == holder = [h \in Hours |-> Nobody]

Take(b, S) ==
    /\ Held(b) = {}
    /\ \A h \in S : holder[h] = Nobody
    /\ holder' = [h \in Hours |-> IF h \in S THEN b ELSE holder[h]]

Release(b) ==
    /\ Held(b) # {}
    /\ holder' = [h \in Hours |-> IF holder[h] = b THEN Nobody ELSE holder[h]]

Next ==
    /\ holder' # holder
    /\ \E b \in Holders : Release(b) \/ \E S \in SUBSET Hours : Take(b, S)

Spec == Init /\ [][Next]_holder
=============================================================================
