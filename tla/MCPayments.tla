------------------------------ MODULE MCPayments ------------------------------
(* Instances of Payments for TLC.                                          *)
EXTENDS Payments, TLC

CONSTANTS p1, p2, o1, o2, s1, s2, w1, w2, cron

NoLegacy == {}
OneLegacy == {p1}

Online(kinds) == [handlers |-> kinds, upi |-> {}]
Manual(kinds) == [handlers |-> kinds, upi |-> {p1}]

\* The outcome of an order that is opened, tried, declined, captured and opened
\* again arrives over any two paths, or over one of them while the event fills
\* or the seat is given up; and the administrators' queue beside both.
Outcomes ==
    {Online({"register", "verify", "cancelled"}),
     Online({"register", "webhook", "decline", "fill"}),
     Online({"register", "webhook", "initiate", "cancelled"}),
     Online({"register", "verify", "cancelseat", "fill"}),
     Online({"register", "cron", "webhook", "decline"}),
     Online({"test", "reverify", "cancelled", "decline"}),
     Manual({"approve", "reject", "cancelseat", "fill"}),
     Manual({"approve", "register", "verify", "cancelseat"})}

LostCalls == {Online({"register", "verify", "webhook", "cron", "fill"})}
SecondAttempt == {Online({"register", "cron", "decline"})}

Symmetry == Permutations(Orders) \cup Permutations(Seats) \cup Permutations(Workers \ CronWorkers)
=============================================================================
