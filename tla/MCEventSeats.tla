--------------------------- MODULE MCEventSeats ---------------------------
(* Instances of EventSeats for TLC.                                        *)
EXTENDS EventSeats, TLC

CONSTANTS u1, u2, u3, w1, w2

OneSeat == {1}
OneOrTwoSeats == {1, 2}
PairOrSingle == {{u1, u2}, {u1}}
NoGroup == {}

Handlers == {"register", "request", "approve", "waitlist", "patch", "edit"}
DoubleApproval == {"register", "request", "approve"}
Paid == {"fulfil", "enroll", "bulk", "request", "approve", "reject"}

SeatOrCancel == {"registered", "cancelled"}
SeatOrWaiting == {"registered", "waitlisted"}

Symmetry == Permutations(Users) \cup Permutations(Workers)
=============================================================================
