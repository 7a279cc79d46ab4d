---------------------------- MODULE Payments_proofs ----------------------------
(***************************************************************************)
(* Proofs about Payments, for any number of payments, orders, seats,       *)
(* requests and faults.                                                    *)
(*                                                                         *)
(* The argument: a request knows its payment only from an earlier read, so *)
(* everything it relies on must be stable.  A row once inserted stays and  *)
(* keeps its seat, an order once opened belongs to one payment for ever,   *)
(* and a capture is final (Kept).  IInv says what the rows, the            *)
(* registrations and the requests know in these stable terms; a step of    *)
(* one request keeps what the others know (OthersKnow).                    *)
(***************************************************************************)
EXTENDS Payments, TLAPS

\* The order was opened for the payment.
Owns(o, p) == order[o].pay = p /\ order[o].last # "unused"

\* An order of the payment is captured.
Backed(p) == p \in Legacy \/ \E o \in Orders : order[o].pay = p /\ Captured(o)

Inserted(p) == pay[p].status # "none"

\* Requests that will write the row they have read.
Writing == {"init_write", "conf_rows", "conf_commit", "fail_write", "rej_write"}

\* What a request knows.
Knows(t) ==
    /\ t.pc \notin {"idle", "cron_next"} => t.p \in Payments /\ Inserted(t.p)
    /\ t.pc = "poll" => t.o \in Orders /\ Owns(t.o, t.p)
    /\ \A b \in t.batch : Inserted(b[1]) /\ Owns(b[2], b[1])
    /\ t.pc \in {"conf_read", "conf_rows", "conf_commit"} => Backed(t.p)
    /\ t.pc \in Writing => t.seen.seat = pay[t.p].seat
    /\ t.pc = "init_write" => t.seen.status \in {"created", "pending"}
    /\ t.pc \in Writing \ {"init_write"} => t.seen.status # "success"

\* What the rows say of each other.
PaymentsOK ==
    \A p \in Payments :
        /\ ~Inserted(p) => pay[p] = NoPay
        /\ pay[p].order # None => Owns(pay[p].order, p)
        /\ pay[p].status = "success" => Backed(p)
        /\ pay[p].status = "pending_verification" => p \in Legacy

RowsOK ==
    \A s \in Seats :
        /\ row[s].status # "none" => row[s].by # None
        /\ row[s].by # None =>
              Inserted(row[s].by) /\ pay[row[s].by].seat = s /\ Backed(row[s].by)

IInv == TypeOK /\ PaymentsOK /\ RowsOK /\ \A w \in Workers : Knows(txn[w])

-----------------------------------------------------------------------------
(* What no step undoes.                                                    *)

Kept ==
    /\ \A p \in Payments : Inserted(p) => Inserted(p)' /\ pay'[p].seat = pay[p].seat
    /\ \A o \in Orders : order[o].last # "unused" =>
          order'[o].pay = order[o].pay /\ order'[o].last # "unused"
    /\ \A o \in Orders : Captured(o) => Captured(o)'

\* Orders and payments are things, and None is neither.
LEMMA Distinct == None \notin Payments /\ None \notin Orders /\ None \notin Seats /\ Legacy \subseteq Payments
BY PaymentsAssumption

LEMMA OwnsKept ==
    ASSUME Kept, NEW o \in Orders, NEW p, Owns(o, p)
    PROVE  Owns(o, p)'
BY DEF Kept, Owns

LEMMA BackedKept ==
    ASSUME TypeOK, Kept, NEW p, Backed(p)
    PROVE  Backed(p)'
BY DEF Kept, Backed, Captured, TypeOK, OrderRec

\* A request that does not move still knows what it knew.
LEMMA OthersKnow ==
    ASSUME TypeOK, Kept, NEW t \in Txn, Knows(t)
    PROVE  Knows(t)'
<1>1. \A b \in t.batch : b[1] \in Payments /\ b[2] \in Orders
  BY DEF Txn
<1>2. t.p \in Payments \cup {None}
  BY DEF Txn
<1>3. t.pc \notin {"idle", "cron_next"} => t.p \in Payments /\ Inserted(t.p)'
  BY DEF Knows, Kept
<1>4. t.pc = "poll" => t.o \in Orders /\ Owns(t.o, t.p)'
  BY OwnsKept DEF Knows
<1>5. \A b \in t.batch : Inserted(b[1])' /\ Owns(b[2], b[1])'
  BY <1>1, OwnsKept DEF Knows, Kept
<1>6. t.pc \in {"conf_read", "conf_rows", "conf_commit"} => Backed(t.p)'
  BY BackedKept DEF Knows
<1>7. t.pc \in Writing => t.seen.seat = pay'[t.p].seat
  BY DEF Knows, Kept, Writing
<1>8. QED
  BY <1>3, <1>4, <1>5, <1>6, <1>7 DEF Knows

-----------------------------------------------------------------------------
(* What a request writes to itself.                                        *)

LEMMA IdleTyped == NoPay \in PayRow /\ Idle \in Txn
BY Distinct DEF NoPay, PayRow, Idle, Txn, PCs, Statuses, Flags

\* A request that goes on as t.
LEMMA HoldMoves ==
    ASSUME TypeOK, NEW w \in Workers, NEW t \in Txn, txn' = [txn EXCEPT ![w] = t]
    PROVE  /\ txn' \in [Workers -> Txn] /\ txn'[w] = t
           /\ \A v \in Workers \ {w} : txn'[v] = txn[v]
BY DEF TypeOK

\* The end of a request, or of one row of a tick.
LEMMA ReturnMoves ==
    ASSUME TypeOK, NEW w \in Workers, Return(w)
    PROVE  /\ txn' \in [Workers -> Txn]
           /\ \A v \in Workers \ {w} : txn'[v] = txn[v]
           /\ txn'[w].pc \in {"idle", "cron_next"}
           /\ txn'[w].batch = txn[w].batch
<1> DEFINE rest == txn[w].batch
           t == IF rest = {} THEN Idle ELSE [Idle EXCEPT !.pc = "cron_next", !.batch = rest]
<1>1. txn[w] \in Txn
  BY DEF TypeOK
<1>2. t \in Txn /\ t.pc \in {"idle", "cron_next"} /\ t.batch = rest
  BY <1>1, IdleTyped DEF Txn, Idle, PCs
<1>3. txn' = [txn EXCEPT ![w] = t]
  BY DEF Return
<1> HIDE DEF t
<1>4. QED
  BY <1>2, <1>3, HoldMoves

LEMMA ReturnKnows ==
    ASSUME TypeOK, Kept, NEW w \in Workers, Knows(txn[w]), Return(w)
    PROVE  Knows(txn[w])'
<1>1. Knows(txn[w])' <=> \A b \in txn[w].batch : Inserted(b[1])' /\ Owns(b[2], b[1])'
  BY ReturnMoves DEF Knows, Writing
<1>2. txn[w] \in Txn
  BY DEF TypeOK
<1>3. QED
  BY <1>1, <1>2, OthersKnow DEF Knows

-----------------------------------------------------------------------------
(* Steps that only read.                                                   *)

\* IInv after a step of w that keeps what was known.
LEMMA Assemble ==
    ASSUME IInv, Kept, TypeOK', PaymentsOK', RowsOK', NEW w \in Workers,
           \A v \in Workers \ {w} : txn'[v] = txn[v], Knows(txn[w])'
    PROVE  IInv'
<1>1. ASSUME NEW v \in Workers \ {w} PROVE Knows(txn[v])'
  <2>1. PICK t \in Txn : t = txn[v] /\ Knows(t) /\ txn'[v] = t
    BY DEF IInv, TypeOK
  <2>2. Knows(t)'
    BY <2>1, OthersKnow DEF IInv
  <2>3. QED
    BY <2>1, <2>2 DEF Knows, Inserted, Owns, Backed, Captured
<1>2. QED
  BY <1>1 DEF IInv

LEMMA SameRows ==
    ASSUME IInv, UNCHANGED <<pay, row, env>>
    PROVE  Kept /\ PaymentsOK' /\ RowsOK'
BY DEF IInv, Kept, PaymentsOK, RowsOK, Inserted, Owns, Backed, Captured, env

\* A request that begins or goes on as t.
LEMMA ReadStep ==
    ASSUME IInv, UNCHANGED <<pay, row, env>>, NEW w \in Workers, NEW t \in Txn,
           txn' = [txn EXCEPT ![w] = t], Knows(t)
    PROVE  IInv'
<1>1. TypeOK' /\ txn'[w] = t /\ \A v \in Workers \ {w} : txn'[v] = txn[v]
  BY HoldMoves DEF IInv, TypeOK, env
<1>2. Knows(t)'
  BY SameRows, OthersKnow DEF IInv
<1>3. Knows(txn[w])'
  BY <1>1, <1>2 DEF Knows, Inserted, Owns, Backed, Captured
<1>4. QED
  BY <1>1, <1>3, SameRows, Assemble

LEMMA ReturnStep ==
    ASSUME IInv, UNCHANGED <<pay, row, env>>, NEW w \in Workers, Return(w)
    PROVE  IInv'
<1>1. TypeOK'
  BY ReturnMoves DEF IInv, TypeOK, env
<1>2. QED
  BY <1>1, ReturnMoves, ReturnKnows, SameRows, Assemble DEF IInv

\* The requests that begin with a read of a row.
LEMMA ArriveReads ==
    ASSUME IInv, NEW w \in Workers, NEW p \in Payments,
           \/ InitiateRead(w, p) \/ CancelledModal(w, p) \/ Reverify(w, p)
           \/ ApproveRead(w, p) \/ RejectRead(w, p)
    PROVE  IInv'
<1>1. pay[p] \in PayRow /\ UNCHANGED <<pay, row, env>>
  BY DEF IInv, TypeOK, InitiateRead, CancelledModal, Reverify, ApproveRead, RejectRead
<1>2. CASE InitiateRead(w, p)
  <2> DEFINE t == [Idle EXCEPT !.pc = "init_write", !.p = p, !.seen = pay[p]]
  <2>1. t \in Txn /\ Knows(t) /\ txn' = [txn EXCEPT ![w] = t]
    BY <1>1, <1>2, IdleTyped DEF InitiateRead, Begin, Idle, Txn, PCs, Knows, Writing, Inserted
  <2>2. QED
    BY <2>1, <1>1, ReadStep
<1>3. CASE CancelledModal(w, p)
  <2> DEFINE t == [Idle EXCEPT !.pc = "fail_read", !.p = p]
  <2>1. t \in Txn /\ Knows(t) /\ txn' = [txn EXCEPT ![w] = t]
    BY <1>1, <1>3, IdleTyped DEF CancelledModal, Begin, Idle, Txn, PCs, Knows, Writing, Inserted
  <2>2. QED
    BY <2>1, <1>1, ReadStep
<1>4. CASE Reverify(w, p)
  <2> DEFINE t == [Idle EXCEPT !.pc = "poll", !.p = p, !.o = pay[p].order]
  <2>1. Inserted(p) /\ pay[p].order \in Orders /\ Owns(pay[p].order, p)
    BY <1>1, <1>4 DEF Reverify, IInv, PaymentsOK, PayRow, NoPay
  <2>2. t \in Txn /\ Knows(t) /\ txn' = [txn EXCEPT ![w] = t]
    BY <1>4, <2>1, IdleTyped DEF Reverify, Begin, Idle, Txn, PCs, Knows, Writing
  <2>3. QED
    BY <2>2, <1>1, ReadStep
<1>5. CASE ApproveRead(w, p)
  <2> DEFINE t == [Idle EXCEPT !.pc = "conf_rows", !.p = p, !.seen = pay[p]]
  <2>1. Backed(p)
    BY <1>5 DEF ApproveRead, IInv, PaymentsOK, Backed
  <2>2. t \in Txn /\ Knows(t) /\ txn' = [txn EXCEPT ![w] = t]
    BY <1>1, <1>5, <2>1, IdleTyped DEF ApproveRead, Begin, Idle, Txn, PCs, Knows, Writing, Inserted
  <2>3. QED
    BY <2>2, <1>1, ReadStep
<1>6. CASE RejectRead(w, p)
  <2> DEFINE t == [Idle EXCEPT !.pc = "rej_write", !.p = p, !.seen = pay[p]]
  <2>1. t \in Txn /\ Knows(t) /\ txn' = [txn EXCEPT ![w] = t]
    BY <1>1, <1>6, IdleTyped DEF RejectRead, Begin, Idle, Txn, PCs, Knows, Writing, Inserted
  <2>2. QED
    BY <2>1, <1>1, ReadStep
<1>7. QED
  BY <1>2, <1>3, <1>4, <1>5, <1>6

\* The calls that name an order: a capture the gateway reports is one of the
\* payment that has the order.
LEMMA ArriveOutcomes ==
    ASSUME IInv, NEW w \in Workers, NEW o \in Orders, Verify(w, o) \/ Webhook(w, o)
    PROVE  IInv'
<1> DEFINE t(p, label) == [Idle EXCEPT !.pc = label, !.p = p]
<1>1. PICK p \in Payments, label \in {"conf_read", "fail_read"} :
         /\ pay[p].order = o
         /\ label = "conf_read" => order[o].last = "captured"
         /\ txn' = [txn EXCEPT ![w] = t(p, label)]
  BY DEF Verify, Webhook, Begin
<1>2. Inserted(p) /\ Owns(o, p)
  BY <1>1, Distinct DEF IInv, PaymentsOK, NoPay
<1>3. label = "conf_read" => Backed(p)
  BY <1>1, <1>2 DEF Backed, Owns, Captured
<1>4. t(p, label) \in Txn /\ Knows(t(p, label))
  BY <1>2, <1>3, IdleTyped DEF Idle, Txn, PCs, Knows, Writing
<1> HIDE DEF t
<1>5. QED
  BY <1>1, <1>4, ReadStep DEF Verify, Webhook

LEMMA CronReads ==
    ASSUME IInv, NEW w \in Workers, CronRead(w)
    PROVE  IInv'
<1> DEFINE t(S) == [Idle EXCEPT !.pc = "cron_next", !.batch = {<<p, pay[p].order>> : p \in S}]
<1>1. PICK S \in SUBSET Stuck : txn' = [txn EXCEPT ![w] = t(S)]
  BY DEF CronRead, Begin
<1>2. \A p \in S : p \in Payments /\ Inserted(p) /\ pay[p].order \in Orders /\ Owns(pay[p].order, p)
  BY DEF Stuck, IInv, TypeOK, PayRow, PaymentsOK, Inserted
<1>3. t(S) \in Txn
  <2>1. {<<p, pay[p].order>> : p \in S} \in SUBSET (Payments \X Orders)
    BY <1>2
  <2>2. QED
    BY <2>1, IdleTyped DEF Idle, Txn, PCs
<1>4. Knows(t(S))
  BY <1>2 DEF Idle, Knows, Writing
<1>5. UNCHANGED <<pay, row, env>>
  BY DEF CronRead
<1>6. PICK u \in Txn : u = t(S) /\ Knows(u)
  BY <1>3, <1>4
<1>7. txn' = [txn EXCEPT ![w] = u]
  BY <1>1, <1>6
<1> HIDE DEF t
<1>8. QED
  BY <1>5, <1>6, <1>7, ReadStep

\* The reads between.
LEMMA StatementReads ==
    ASSUME IInv, NEW w \in Workers,
           \/ CronNext(w) \/ Poll(w) \/ ConfirmRead(w) \/ ConfirmRows(w)
           \/ FailRead(w) \/ FlagRead(w)
    PROVE  IInv'
<1>1. /\ UNCHANGED <<pay, row, env>> /\ txn[w] \in Txn /\ Knows(txn[w])
      /\ pay \in [Payments -> PayRow]
  BY DEF IInv, TypeOK, CronNext, Poll, ConfirmRead, ConfirmRows, FailRead, FlagRead
<1>2. ASSUME Return(w) PROVE IInv'
  BY <1>1, <1>2, ReturnStep
<1>3. ASSUME NEW t \in Txn, txn' = [txn EXCEPT ![w] = t], Knows(t) PROVE IInv'
  BY <1>1, <1>3, ReadStep
<1>4. CASE CronNext(w)
  <2> DEFINE t(b) == [Idle EXCEPT !.pc = "poll", !.p = b[1], !.o = b[2], !.batch = txn[w].batch \ {b}]
  <2>1. PICK b \in txn[w].batch : txn' = [txn EXCEPT ![w] = t(b)]
    BY <1>4 DEF CronNext
  <2>2. b[1] \in Payments /\ b[2] \in Orders /\ Inserted(b[1]) /\ Owns(b[2], b[1])
    BY <1>1 DEF Txn, Knows
  <2>3. t(b) \in Txn
    BY <1>1, <2>2, IdleTyped DEF Txn, Idle, PCs
  <2>4. Knows(t(b))
    BY <1>1, <2>2 DEF Knows, Idle, Writing
  <2> HIDE DEF t
  <2>5. QED
    BY <2>1, <2>3, <2>4, <1>3
<1>5. CASE Poll(w)
  <2> DEFINE t(label) == [txn[w] EXCEPT !.pc = label]
  <2>1. txn[w].p \in Payments /\ Inserted(txn[w].p) /\ txn[w].o \in Orders /\ Owns(txn[w].o, txn[w].p)
    BY <1>1, <1>5 DEF Poll, Knows
  <2>2. CASE Outcome(txn[w].o) = "success"
    <3>1. Backed(txn[w].p)
      BY <2>1, <2>2 DEF Outcome, Backed, Owns, Captured
    <3>2. t("conf_read") \in Txn /\ Knows(t("conf_read"))
      BY <1>1, <2>1, <3>1 DEF Txn, PCs, Knows, Writing
    <3>3. txn' = [txn EXCEPT ![w] = t("conf_read")]
      BY <1>5, <2>2 DEF Poll, Goto
    <3> HIDE DEF t
    <3>4. QED
      BY <3>2, <3>3, <1>3
  <2>3. CASE Outcome(txn[w].o) = "failed"
    <3>1. t("fail_read") \in Txn /\ Knows(t("fail_read"))
      BY <1>1, <2>1 DEF Txn, PCs, Knows, Writing
    <3>2. txn' = [txn EXCEPT ![w] = t("fail_read")]
      BY <1>5, <2>3 DEF Poll, Goto
    <3> HIDE DEF t
    <3>3. QED
      BY <3>1, <3>2, <1>3
  <2>4. CASE Outcome(txn[w].o) \notin {"success", "failed"}
    BY <1>2, <1>5, <2>4 DEF Poll
  <2>5. QED
    BY <2>2, <2>3, <2>4
<1>6. CASE ConfirmRead(w)
  <2> DEFINE p == txn[w].p
             label == IF pay[p].seat = None THEN "conf_commit" ELSE "conf_rows"
             t == [txn[w] EXCEPT !.pc = label, !.seen = pay[p]]
  <2>1. CASE pay[p].status = "success"
    BY <1>2, <1>6, <2>1 DEF ConfirmRead
  <2>2. CASE pay[p].status # "success"
    <3>1. p \in Payments /\ Inserted(p) /\ Backed(p) /\ pay[p] \in PayRow
      BY <1>1, <1>6 DEF ConfirmRead, Knows
    <3>2. t \in Txn
      BY <1>1, <3>1 DEF Txn, PCs
    <3>3. Knows(t)
      BY <1>1, <2>2, <3>1 DEF Knows, Writing, Txn
    <3>4. txn' = [txn EXCEPT ![w] = t]
      BY <1>6, <2>2 DEF ConfirmRead
    <3> HIDE DEF t
    <3>5. QED
      BY <3>2, <3>3, <3>4, <1>3
  <2>3. QED
    BY <2>1, <2>2
<1>7. CASE ConfirmRows(w)
  <2> DEFINE has == row[txn[w].seen.seat].status # "none"
             t == [txn[w] EXCEPT !.pc = "conf_commit", !.has = has, !.full = ~has /\ full]
  <2>1. t \in Txn /\ Knows(t)
    BY <1>1, <1>7 DEF ConfirmRows, Txn, PCs, Knows, Writing, Inserted
  <2>2. txn' = [txn EXCEPT ![w] = t]
    BY <1>7 DEF ConfirmRows
  <2> HIDE DEF t
  <2>3. QED
    BY <2>1, <2>2, <1>3
<1>8. CASE FailRead(w)
  <2> DEFINE p == txn[w].p
             t == [txn[w] EXCEPT !.pc = "fail_write", !.seen = pay[p]]
  <2>1. CASE pay[p].status = "success"
    BY <1>2, <1>8, <2>1 DEF FailRead
  <2>2. CASE pay[p].status # "success"
    <3>1. p \in Payments /\ Inserted(p) /\ pay[p] \in PayRow
      BY <1>1, <1>8 DEF FailRead, Knows
    <3>2. t \in Txn
      BY <1>1, <3>1 DEF Txn, PCs
    <3>3. Knows(t)
      BY <1>1, <2>2, <3>1 DEF Knows, Writing, Txn
    <3>4. txn' = [txn EXCEPT ![w] = t]
      BY <1>8, <2>2 DEF FailRead
    <3> HIDE DEF t
    <3>5. QED
      BY <3>2, <3>3, <3>4, <1>3
  <2>3. QED
    BY <2>1, <2>2
<1>9. CASE FlagRead(w)
  <2> DEFINE t == [txn[w] EXCEPT !.pc = "flag_write"]
  <2>1. t \in Txn /\ Knows(t)
    BY <1>1, <1>9 DEF FlagRead, Txn, PCs, Knows, Writing, Inserted
  <2>2. Return(w) \/ txn' = [txn EXCEPT ![w] = t]
    BY <1>9 DEF FlagRead, Goto
  <2> HIDE DEF t
  <2>3. QED
    BY <2>1, <2>2, <1>2, <1>3
<1>10. QED
  BY <1>4, <1>5, <1>6, <1>7, <1>8, <1>9

-----------------------------------------------------------------------------
(* Steps that write.                                                       *)

LEMMA WriteReturns ==
    ASSUME IInv, Kept, TypeOK', PaymentsOK', RowsOK', NEW w \in Workers, Return(w)
    PROVE  IInv'
BY ReturnMoves, ReturnKnows, Assemble DEF IInv

\* The gateway, the other members and the clock.
LEMMA SurroundingsStep ==
    ASSUME IInv, UNCHANGED <<pay, row, txn>>, Kept, TypeOK'
    PROVE  IInv'
<1>1. PaymentsOK' /\ RowsOK'
  <2>1. \A p \in Payments : Backed(p) => Backed(p)'
    BY BackedKept DEF IInv
  <2>2. \A p \in Payments : pay[p].order # None => pay[p].order \in Orders
    BY DEF IInv, TypeOK, PayRow
  <2>3. PaymentsOK'
    BY <2>1, <2>2, OwnsKept DEF IInv, PaymentsOK, Inserted
  <2>4. RowsOK'
    BY <2>1 DEF IInv, TypeOK, RowsOK, Inserted
  <2>5. QED
    BY <2>3, <2>4
<1>2. ASSUME NEW v \in Workers PROVE Knows(txn[v])'
  <2>1. PICK t \in Txn : t = txn[v] /\ Knows(t) /\ txn'[v] = t
    BY DEF IInv, TypeOK
  <2>2. Knows(t)'
    BY <2>1, OthersKnow DEF IInv
  <2>3. QED
    BY <2>1, <2>2 DEF Knows, Inserted, Owns, Backed, Captured
<1>3. QED
  BY <1>1, <1>2 DEF IInv

LEMMA GatewayStep ==
    ASSUME IInv, NEW o \in Orders, Attempt(o) \/ Capture(o) \/ Decline(o)
    PROVE  IInv'
<1>1. order \in [Orders -> OrderRec] /\ order[o].last \in {"open", "failed", "trying"}
  BY DEF IInv, TypeOK, Attempt, Capture, Decline
<1>2. PICK l \in {"trying", "captured", "failed"} : order' = [order EXCEPT ![o].last = l]
  BY DEF Attempt, Capture, Decline
<1>3. order' \in [Orders -> OrderRec] /\ Kept
  BY <1>1, <1>2, <1>1 DEF Kept, Inserted, Captured, OrderRec, Attempt, Capture, Decline
<1>4. TypeOK'
  BY <1>3 DEF IInv, TypeOK, Attempt, Capture, Decline
<1>5. UNCHANGED <<pay, row, txn>>
  BY DEF Attempt, Capture, Decline
<1>6. QED
  BY <1>3, <1>4, <1>5, SurroundingsStep

LEMMA TimeStep ==
    ASSUME IInv, Fill \/ \E p \in Payments : Age(p)
    PROVE  IInv'
<1>1. UNCHANGED <<pay, row, txn, order>> /\ TypeOK' /\ Kept
  BY DEF IInv, TypeOK, Fill, Age, Kept, Inserted, Captured, gateway
<1>2. QED
  BY <1>1, SurroundingsStep

\* A row is inserted for a member's seat or for a test.
LEMMA InsertStep ==
    ASSUME IInv, NEW w \in Workers, NEW p \in Payments, NEW s \in Seats \cup {None},
           NEW kind, Insert(w, kind, p, s)
    PROVE  IInv'
<1> DEFINE t == [Idle EXCEPT !.pc = "reg_order", !.p = p]
           r == [NoPay EXCEPT !.status = "pending", !.seat = s]
<1>1. pay[p] = NoPay /\ pay' = [pay EXCEPT ![p] = r] /\ r \in PayRow /\ UNCHANGED <<row, env>>
  BY IdleTyped DEF Insert, IInv, PaymentsOK, Inserted, PayRow, NoPay, Statuses
<1>2. t \in Txn /\ txn' = [txn EXCEPT ![w] = t]
  BY IdleTyped DEF Insert, Begin, Txn, Idle, PCs
<1>3. TypeOK' /\ Kept
  BY <1>1, <1>2, HoldMoves DEF IInv, TypeOK, Kept, Inserted, NoPay, env, Captured
<1>4. PaymentsOK'
  BY <1>1 DEF IInv, TypeOK, PaymentsOK, Inserted, Owns, Backed, Captured, NoPay, env
<1>5. RowsOK'
  BY <1>1 DEF IInv, TypeOK, RowsOK, Inserted, Backed, Captured, NoPay, env
<1>6. Knows(txn[w])'
  BY <1>1, <1>2, HoldMoves DEF IInv, TypeOK, Knows, Idle, Inserted, Writing, NoPay
<1>7. QED
  BY <1>2, <1>3, <1>4, <1>5, <1>6, HoldMoves, Assemble DEF IInv

\* An order is opened and its id stored.
LEMMA OpenStep ==
    ASSUME IInv, NEW w \in Workers, RegisterOrder(w) \/ InitiateWrite(w)
    PROVE  IInv'
<1>1. PICK p \in Payments : p = txn[w].p /\ Inserted(p)
  BY DEF IInv, Knows, RegisterOrder, InitiateWrite
<1>2. pay \in [Payments -> PayRow] /\ order \in [Orders -> OrderRec]
  BY DEF IInv, TypeOK
<1>3. PICK o \in Orders, r \in PayRow :
         /\ order[o].last = "unused"
         /\ order' = [order EXCEPT ![o] = [pay |-> p, last |-> "open"]]
         /\ pay' = [pay EXCEPT ![p] = r]
         /\ r.order = o /\ r.seat = pay[p].seat /\ r.status \in {pay[p].status, "pending"}
  <2>1. CASE RegisterOrder(w)
    <3>1. PICK o \in Orders : /\ order[o].last = "unused" /\ Opened(o, p)
                              /\ pay' = [pay EXCEPT ![p].order = o]
      BY <2>1, <1>1 DEF RegisterOrder
    <3> DEFINE r == [pay[p] EXCEPT !.order = o]
    <3>2. r \in PayRow /\ r.order = o /\ r.seat = pay[p].seat /\ r.status = pay[p].status
      BY <1>2 DEF PayRow
    <3>3. pay' = [pay EXCEPT ![p] = r]
      BY <3>1
    <3> HIDE DEF r
    <3>4. QED
      BY <3>1, <3>2, <3>3 DEF Opened
  <2>2. CASE InitiateWrite(w)
    <3>1. PICK o \in Orders : /\ order[o].last = "unused" /\ Opened(o, p)
                              /\ pay' = [pay EXCEPT ![p].order = o, ![p].status = "pending"]
      BY <2>2, <1>1 DEF InitiateWrite
    <3> DEFINE r == [pay[p] EXCEPT !.order = o, !.status = "pending"]
    <3>2. r \in PayRow /\ r.order = o /\ r.seat = pay[p].seat /\ r.status = "pending"
      BY <1>2 DEF PayRow, Statuses
    <3>3. pay' = [pay EXCEPT ![p] = r]
      BY <3>1, <1>2 DEF PayRow
    <3> HIDE DEF r
    <3>4. QED
      BY <3>1, <3>2, <3>3 DEF Opened
  <2>3. QED
    BY <2>1, <2>2
<1>4. Return(w) /\ UNCHANGED <<mix, row, full, declined, old, faults>>
  BY DEF RegisterOrder, InitiateWrite
<1>5. /\ pay' \in [Payments -> PayRow] /\ pay'[p] = r
      /\ \A q \in Payments \ {p} : pay'[q] = pay[q]
  BY <1>2, <1>3
<1>6. /\ order' \in [Orders -> OrderRec] /\ order'[o].pay = p /\ order'[o].last = "open"
      /\ \A x \in Orders \ {o} : order'[x] = order[x]
  BY <1>2, <1>3 DEF OrderRec
<1>7. TypeOK'
  BY <1>4, <1>5, <1>6, ReturnMoves DEF IInv, TypeOK
<1>8. Kept
  BY <1>1, <1>3, <1>5, <1>6 DEF Kept, Inserted, Captured
<1>9. \A q \in Payments : Backed(q) => Backed(q)'
  BY <1>8, BackedKept DEF IInv
<1>10. PaymentsOK'
  <2>1. ASSUME NEW q \in Payments \ {p}, pay'[q].order # None PROVE Owns(pay[q].order, q)'
    <3>1. PICK x \in Orders : x = pay[q].order /\ Owns(x, q)
      BY <1>2, <1>5, <2>1 DEF IInv, PaymentsOK, PayRow
    <3>2. Owns(x, q)'
      BY <1>8, <3>1, OwnsKept
    <3>3. QED
      BY <1>5, <3>1, <3>2
  <2>2. Owns(pay[p].order, p)'
    BY <1>3, <1>5, <1>6 DEF Owns
  <2>3. \A q \in Payments \ {p} : /\ ~Inserted(q)' => pay'[q] = NoPay
                                  /\ pay'[q].status = "success" => Backed(q)'
                                  /\ pay'[q].status = "pending_verification" => q \in Legacy
    BY <1>5, <1>9 DEF IInv, PaymentsOK, Inserted
  <2>4. /\ Inserted(p)' /\ (pay'[p].status = "success" => Backed(p)')
        /\ pay'[p].status = "pending_verification" => p \in Legacy
    BY <1>1, <1>3, <1>5, <1>9 DEF IInv, PaymentsOK, Inserted
  <2>5. QED
    BY <2>1, <2>2, <2>3, <2>4 DEF PaymentsOK
<1>11. RowsOK'
  BY <1>4, <1>8, <1>9 DEF IInv, TypeOK, RowsOK, Kept
<1>12. QED
  BY <1>4, <1>7, <1>8, <1>10, <1>11, WriteReturns

\* A row that was inserted gets a status or a flag: nothing else is lost.
LEMMA SettleStep ==
    ASSUME IInv, NEW p \in Payments, Inserted(p), UNCHANGED env, NEW r \in PayRow,
           r.order = pay[p].order, r.seat = pay[p].seat,
           r.status \in {"success", "failed", pay[p].status},
           r.status = "success" => Backed(p),
           pay' = [pay EXCEPT ![p] = r]
    PROVE  /\ pay' \in [Payments -> PayRow] /\ Kept /\ PaymentsOK'
           /\ \A q \in Payments : Backed(q) => Backed(q)'
<1>1. pay \in [Payments -> PayRow] /\ order \in [Orders -> OrderRec]
  BY DEF IInv, TypeOK
<1>2. /\ pay' \in [Payments -> PayRow] /\ pay'[p] = r
      /\ \A q \in Payments \ {p} : pay'[q] = pay[q]
  BY <1>1
<1>3. Kept
  BY <1>2 DEF Kept, Inserted, Captured, env
<1>4. \A q \in Payments : Backed(q) => Backed(q)'
  BY <1>3, BackedKept DEF IInv
<1>5. PaymentsOK'
  <2>1. ASSUME NEW q \in Payments, pay'[q].order # None PROVE Owns(pay[q].order, q)'
    BY <1>2, <2>1 DEF IInv, PaymentsOK, PayRow, Owns, env
  <2>2. QED
    BY <1>2, <1>4, <2>1 DEF IInv, PaymentsOK, Inserted
<1>6. QED
  BY <1>2, <1>3, <1>4, <1>5

LEMMA FailStep ==
    ASSUME IInv, NEW w \in Workers, FailWrite(w) \/ RejectWrite(w) \/ FlagWrite(w)
    PROVE  IInv'
<1>1. PICK p \in Payments : p = txn[w].p /\ Inserted(p)
  BY DEF IInv, Knows, FailWrite, RejectWrite, SetFailed, FlagWrite
<1>2. pay[p] \in PayRow /\ Return(w) /\ UNCHANGED <<row, env>>
  BY DEF IInv, TypeOK, FailWrite, RejectWrite, SetFailed, FlagWrite
<1>3. PICK r \in PayRow :
         /\ r.order = pay[p].order /\ r.seat = pay[p].seat
         /\ r.status \in {"failed", pay[p].status} /\ pay' = [pay EXCEPT ![p] = r]
  <2>1. CASE FailWrite(w) \/ RejectWrite(w)
    <3> DEFINE r == [pay[p] EXCEPT !.status = "failed"]
    <3>1. r \in PayRow /\ r.order = pay[p].order /\ r.seat = pay[p].seat /\ r.status = "failed"
      BY <1>2 DEF PayRow, Statuses
    <3>2. pay' = [pay EXCEPT ![p] = r]
      BY <1>1, <2>1 DEF FailWrite, RejectWrite, SetFailed
    <3> HIDE DEF r
    <3>3. QED
      BY <3>1, <3>2
  <2>2. CASE FlagWrite(w)
    <3> DEFINE r == [pay[p] EXCEPT !.flag = "cancellation"]
    <3>1. r \in PayRow /\ r.order = pay[p].order /\ r.seat = pay[p].seat /\ r.status = pay[p].status
      BY <1>2 DEF PayRow, Flags
    <3>2. pay' = [pay EXCEPT ![p] = r]
      BY <1>1, <2>2 DEF FlagWrite
    <3> HIDE DEF r
    <3>3. QED
      BY <3>1, <3>2
  <2>3. QED
    BY <2>1, <2>2
<1>4. pay[p].status = "success" => Backed(p)
  BY DEF IInv, PaymentsOK
<1>5. /\ pay' \in [Payments -> PayRow] /\ Kept /\ PaymentsOK'
      /\ \A q \in Payments : Backed(q) => Backed(q)'
  BY <1>1, <1>2, <1>3, <1>4, SettleStep
<1>6. TypeOK'
  BY <1>2, <1>5, ReturnMoves DEF IInv, TypeOK, env
<1>7. RowsOK'
  BY <1>2, <1>5 DEF IInv, TypeOK, RowsOK, Kept
<1>8. QED
  BY <1>2, <1>5, <1>6, <1>7, WriteReturns

\* The confirmation: the row of the seat, if the member has none, and the
\* payment.
LEMMA ConfirmStep ==
    ASSUME IInv, NEW w \in Workers, ConfirmCommit(w)
    PROVE  IInv'
<1>1. PICK t \in Txn, p \in Payments, s \in Seats \cup {None} :
         /\ t = txn[w] /\ p = t.p /\ s = t.seen.seat
         /\ Inserted(p) /\ Backed(p) /\ s = pay[p].seat
  BY DEF IInv, TypeOK, Knows, Writing, ConfirmCommit, Txn, PayRow
<1> DEFINE fresh == s # None /\ ~t.has
           mine == [status |-> IF t.full THEN "waitlisted" ELSE "registered", by |-> p]
<1>2. CASE fresh /\ (row[s].status # "none" \/ (full /\ ~t.full))
  <2>1. Return(w) /\ UNCHANGED <<pay, row, env>>
    BY <1>1, <1>2 DEF ConfirmCommit, Throw
  <2>2. QED
    BY <2>1, ReturnStep
<1>3. CASE ~(fresh /\ (row[s].status # "none" \/ (full /\ ~t.full)))
  <2>1. /\ Return(w) /\ UNCHANGED env /\ pay' = [pay EXCEPT ![p] = Confirmed(t)]
        /\ row' = IF fresh THEN [row EXCEPT ![s] = mine] ELSE row
    BY <1>1, <1>3 DEF ConfirmCommit
  <2>2. PICK r \in PayRow : /\ r = Confirmed(t) /\ r.status = "success"
                            /\ r.order = pay[p].order /\ r.seat = pay[p].seat
    <3>1. PICK fl \in Flags : fl = IF t.full THEN "event_full" ELSE t.seen.flag
      BY DEF Txn, PayRow, Flags
    <3> DEFINE r == [pay[p] EXCEPT !.status = "success", !.flag = fl]
    <3>2. r = Confirmed(t)
      BY <1>1, <3>1 DEF Confirmed
    <3>3. /\ r \in PayRow /\ r.status = "success"
          /\ r.order = pay[p].order /\ r.seat = pay[p].seat
      <4>1. pay[p] \in PayRow /\ fl \in Flags
        BY <3>1 DEF IInv, TypeOK
      <4>2. QED
        BY <4>1 DEF PayRow, Statuses
    <3> HIDE DEF r
    <3>4. QED
      BY <3>2, <3>3
  <2>3. /\ pay' \in [Payments -> PayRow] /\ Kept /\ PaymentsOK'
        /\ \A q \in Payments : Backed(q) => Backed(q)'
    BY <1>1, <2>1, <2>2, SettleStep
  <2>4. row' \in [Seats -> [status : {"none", "registered", "waitlisted"}, by : Payments \cup {None}]]
    BY <1>1, <2>1 DEF IInv, TypeOK
  <2>5. TypeOK'
    BY <2>1, <2>3, <2>4, ReturnMoves DEF IInv, TypeOK, env
  <2>6. RowsOK'
    <3>1. ASSUME NEW x \in Seats, row'[x] = row[x]
          PROVE  /\ row'[x].status # "none" => row'[x].by # None
                 /\ row'[x].by # None => /\ Inserted(row[x].by)' /\ pay'[row'[x].by].seat = x
                                         /\ Backed(row[x].by)'
      <4>1. row[x].by = None \/ row[x].by \in Payments
        BY DEF IInv, TypeOK
      <4>2. QED
        BY <2>3, <3>1, <4>1 DEF IInv, RowsOK, Kept
    <3>2. ASSUME NEW x \in Seats, row'[x] # row[x]
          PROVE  x = s /\ row'[x].by = p
      BY <2>1, <3>2 DEF IInv, TypeOK
    <3>3. Inserted(p)' /\ pay'[p].seat = s /\ Backed(p)'
      BY <1>1, <2>3 DEF Kept
    <3>4. ASSUME NEW x \in Seats, row'[x] # row[x]
          PROVE  row'[x].by # None /\ Inserted(row[x].by)' /\ pay'[row'[x].by].seat = x /\ Backed(row[x].by)'
      BY <3>2, <3>3, <3>4, Distinct
    <3>5. QED
      BY <3>1, <3>4 DEF RowsOK
  <2>7. QED
    BY <2>1, <2>3, <2>5, <2>6, WriteReturns
<1>4. QED
  BY <1>2, <1>3

\* A paid seat is given up.
LEMMA CancelStep ==
    ASSUME IInv, NEW w \in Workers, NEW s \in Seats, CancelSeat(w, s)
    PROVE  IInv'
<1> DEFINE t == [Idle EXCEPT !.pc = "flag_read", !.p = row[s].by]
<1>1. row[s].by \in Payments /\ Inserted(row[s].by)
  BY DEF IInv, TypeOK, RowsOK, CancelSeat
<1>2. t \in Txn /\ Knows(t) /\ txn' = [txn EXCEPT ![w] = t]
  BY <1>1, IdleTyped DEF CancelSeat, Begin, Idle, Txn, PCs, Knows, Writing
<1>3. UNCHANGED <<pay, env>> /\ row' = [row EXCEPT ![s] = NoRow]
  BY DEF CancelSeat
<1>4. Kept
  BY <1>3 DEF Kept, Inserted, Captured, env
<1>5. TypeOK' /\ PaymentsOK' /\ RowsOK'
  BY <1>2, <1>3, HoldMoves DEF IInv, TypeOK, PaymentsOK, RowsOK, NoRow, Inserted, Owns, Backed, Captured, env
<1>6. PICK u \in Txn : u = t /\ Knows(u)
  BY <1>2
<1>7. Knows(u)'
  BY <1>4, <1>6, OthersKnow DEF IInv
<1>8. txn'[w] = u /\ \A v \in Workers \ {w} : txn'[v] = txn[v]
  BY <1>2, <1>6, HoldMoves DEF IInv
<1>9. Knows(txn[w])'
  BY <1>7, <1>8 DEF Knows, Inserted, Owns, Backed, Captured
<1>10. QED
  BY <1>4, <1>5, <1>8, <1>9, Assemble

\* A connection or a process is lost.
LEMMA FaultStep ==
    ASSUME IInv, NEW w \in Workers, Fault(w)
    PROVE  IInv'
<1>1. UNCHANGED <<mix, pay, row, full, order, declined, old>> /\ faults' = faults + 1 /\ faults < MaxFaults
  BY DEF Fault, gateway
<1>2. Kept /\ PaymentsOK' /\ RowsOK'
  BY <1>1 DEF IInv, Kept, PaymentsOK, RowsOK, Inserted, Owns, Backed, Captured
<1>3. faults' \in 0 .. MaxFaults
  BY <1>1, PaymentsAssumption DEF IInv, TypeOK
<1>4. CASE Return(w)
  <2>1. TypeOK'
    BY <1>1, <1>3, <1>4, ReturnMoves DEF IInv, TypeOK
  <2>2. QED
    BY <1>2, <1>4, <2>1, WriteReturns
<1>5. CASE txn' = [txn EXCEPT ![w] = Idle]
  <2>1. TypeOK' /\ txn'[w] = Idle /\ \A v \in Workers \ {w} : txn'[v] = txn[v]
    BY <1>1, <1>3, <1>5, HoldMoves, IdleTyped DEF IInv, TypeOK
  <2>2. Knows(txn[w])'
    BY <2>1 DEF Knows, Idle, Writing
  <2>3. QED
    BY <1>2, <2>1, <2>2, Assemble
<1>6. QED
  BY <1>4, <1>5 DEF Fault
-----------------------------------------------------------------------------
(* The invariant.                                                          *)

LEMMA InitIInv == ASSUME Init PROVE IInv
<1> DEFINE upi == mix.upi
<1>0. mix \in Mixes /\ upi \subseteq Legacy
  BY PaymentsAssumption DEF Init
<1>1. PICK f \in [upi -> Seats] :
         pay = [p \in Payments |->
                  IF p \in upi
                  THEN [NoPay EXCEPT !.status = "pending_verification", !.seat = f[p]]
                  ELSE NoPay]
  BY DEF Init
<1> HIDE DEF upi
<1>2. \A p \in Payments : /\ p \in upi => /\ pay[p] \in PayRow /\ pay[p].order = None
                                          /\ pay[p].status = "pending_verification"
                          /\ p \notin upi => pay[p] = NoPay
  BY <1>1, IdleTyped DEF PayRow, NoPay, Statuses
<1>3. TypeOK
  <2>1. pay \in [Payments -> PayRow]
    BY <1>1, <1>2, IdleTyped
  <2>2. row \in [Seats -> [status : {"none", "registered", "waitlisted"}, by : Payments \cup {None}]]
    BY DEF Init, NoRow
  <2>3. order \in [Orders -> OrderRec]
    BY DEF Init, OrderRec
  <2>4. txn \in [Workers -> Txn]
    BY IdleTyped DEF Init
  <2>5. full \in BOOLEAN /\ declined \subseteq Orders /\ old \subseteq Payments /\ faults \in 0 .. MaxFaults
    <3>1. MaxFaults \in Nat
      BY PaymentsAssumption
    <3>2. full = FALSE /\ declined = {} /\ old = {} /\ faults = 0
      BY DEF Init
    <3>3. faults \in 0 .. MaxFaults
      BY <3>1, <3>2
    <3>4. QED
      BY <3>2, <3>3
  <2>6. QED
    BY <1>0, <2>1, <2>2, <2>3, <2>4, <2>5 DEF TypeOK
<1>4. PaymentsOK
  BY <1>0, <1>2 DEF PaymentsOK, Inserted, NoPay
<1>5. RowsOK
  BY DEF Init, RowsOK, NoRow
<1>6. \A w \in Workers : Knows(txn[w])
  BY DEF Init, Knows, Idle, Writing
<1>7. QED
  BY <1>3, <1>4, <1>5, <1>6 DEF IInv

LEMMA NextIInv == ASSUME IInv, [Next]_vars PROVE IInv'
<1>1. ASSUME NEW w \in Workers, Arrive(w) PROVE IInv'
  <2>1. CASE \E p \in Payments, s \in Seats : Register(w, p, s)
    BY <2>1, InsertStep DEF Register
  <2>2. CASE \E p \in Payments : TestPayment(w, p)
    BY <2>2, InsertStep DEF TestPayment
  <2>3. CASE \E p \in Payments : \/ InitiateRead(w, p) \/ CancelledModal(w, p) \/ Reverify(w, p)
                                 \/ ApproveRead(w, p) \/ RejectRead(w, p)
    BY <2>3, ArriveReads
  <2>4. CASE \E o \in Orders : Verify(w, o) \/ Webhook(w, o)
    BY <2>4, ArriveOutcomes
  <2>5. CASE \E s \in Seats : CancelSeat(w, s)
    BY <2>5, CancelStep
  <2>6. QED
    BY <1>1, <2>1, <2>2, <2>3, <2>4, <2>5 DEF Arrive
<1>2. ASSUME NEW w \in Workers, Statement(w) PROVE IInv'
  BY <1>2, OpenStep, StatementReads, FailStep, ConfirmStep DEF Statement
<1>3. CASE UNCHANGED vars
  <2>1. UNCHANGED <<pay, row, txn, order>> /\ TypeOK' /\ Kept
    BY <1>3 DEF vars, IInv, TypeOK, Kept, Inserted, Captured
  <2>2. QED
    BY <2>1, SurroundingsStep
<1>4. QED
  BY <1>1, <1>2, <1>3, CronReads, FaultStep, GatewayStep, TimeStep DEF Next

THEOREM Invariant == Spec => []IInv
BY InitIInv, NextIInv, PTL DEF Spec

\* Every variable keeps its type: no path writes a status, a flag, a seat or an
\* order that the tables do not have.
THEOREM TypeCorrect == Spec => []TypeOK
<1>1. IInv => TypeOK
  BY DEF IInv
<1>2. QED
  BY <1>1, Invariant, PTL

\* Whatever calls are lost, repeated and reordered, and however the five paths
\* interleave, a payment is a success and a seat is held on it only after the
\* gateway captured an order of that payment.
THEOREM SettledIsCaptured == Spec => []PaidMeansCaptured
<1>1. ASSUME IInv PROVE PaidMeansCaptured
  <2>1. ASSUME NEW p \in Payments \ Legacy,
               pay[p].status = "success" \/ \E s \in Seats : row[s].by = p
        PROVE  Backed(p)
    BY <1>1, <2>1, Distinct DEF IInv, PaymentsOK, RowsOK
  <2>2. QED
    BY <2>1 DEF PaidMeansCaptured, Backed
<1>2. QED
  BY <1>1, Invariant, PTL

-----------------------------------------------------------------------------
(* What only a stale write undoes.                                         *)

\* A request that writes moves on, so NoStaleWrite speaks of it.
LEMMA WriterFresh ==
    ASSUME IInv, NoStaleWrite, NEW w \in Workers, Return(w), txn[w].pc \notin {"idle", "cron_next"}
    PROVE  ~Stale(w)
BY ReturnMoves DEF IInv, NoStaleWrite

\* What happens to one payment's row: its status and its refund flag.
StaysSettled(p) ==
    /\ pay[p].status = "success" => pay'[p].status = "success"
    /\ pay[p].flag # "none" => pay'[p].flag # "none"

LEMMA SettledSame == ASSUME UNCHANGED pay, NEW p PROVE StaysSettled(p)
BY DEF StaysSettled

LEMMA SettledStep ==
    ASSUME IInv, Next, NoStaleWrite, NEW p \in Payments
    PROVE  StaysSettled(p)
<1>1. pay \in [Payments -> PayRow]
  BY DEF IInv, TypeOK
<1>2. ASSUME NEW w \in Workers, NEW kind, NEW q \in Payments, NEW s, Insert(w, kind, q, s)
      PROVE  StaysSettled(p)
  BY <1>1, <1>2 DEF Insert, IInv, PaymentsOK, Inserted, NoPay, StaysSettled
<1>3. ASSUME NEW w \in Workers, RegisterOrder(w) PROVE StaysSettled(p)
  BY <1>1, <1>3 DEF RegisterOrder, StaysSettled, PayRow
<1>4. ASSUME NEW w \in Workers, InitiateWrite(w) PROVE StaysSettled(p)
  <2>1. ~Stale(w) /\ txn[w].seen.status \in {"created", "pending"}
    BY <1>4, WriterFresh DEF InitiateWrite, IInv, Knows
  <2>2. pay[txn[w].p].status # "success"
    BY <1>4, <2>1 DEF InitiateWrite, Stale
  <2>3. QED
    BY <1>1, <1>4, <2>2 DEF InitiateWrite, StaysSettled, PayRow
<1>5. ASSUME NEW w \in Workers, ConfirmCommit(w) PROVE StaysSettled(p)
  <2>1. CASE UNCHANGED pay
    BY <2>1, SettledSame
  <2>2. CASE Return(w) /\ pay' = [pay EXCEPT ![txn[w].p] = Confirmed(txn[w])]
    <3>1. ~Stale(w)
      BY <1>5, <2>2, WriterFresh DEF ConfirmCommit
    <3>2. txn[w].seen.flag = pay[txn[w].p].flag
      BY <1>5, <3>1 DEF ConfirmCommit, Stale
    <3>3. QED
      BY <1>1, <2>2, <3>2 DEF Confirmed, StaysSettled, PayRow
  <2>3. QED
    BY <1>5, <2>1, <2>2 DEF ConfirmCommit, Throw
<1>6. ASSUME NEW w \in Workers, FailWrite(w) \/ RejectWrite(w) PROVE StaysSettled(p)
  <2>1. ~Stale(w) /\ txn[w].seen.status # "success"
    BY <1>6, WriterFresh DEF FailWrite, RejectWrite, SetFailed, IInv, Knows, Writing
  <2>2. pay[txn[w].p].status # "success"
    BY <1>6, <2>1 DEF FailWrite, RejectWrite, SetFailed, Stale
  <2>3. QED
    BY <1>1, <1>6, <2>2 DEF FailWrite, RejectWrite, SetFailed, StaysSettled, PayRow
<1>7. ASSUME NEW w \in Workers, FlagWrite(w) PROVE StaysSettled(p)
  BY <1>1, <1>7 DEF FlagWrite, StaysSettled, PayRow
<1>8. ASSUME UNCHANGED pay PROVE StaysSettled(p)
  BY <1>8, SettledSame
<1>9. ASSUME NEW w \in Workers, Arrive(w) PROVE StaysSettled(p)
  BY <1>2, <1>8, <1>9 DEF Arrive, Register, TestPayment, InitiateRead, CancelledModal, Reverify,
       ApproveRead, RejectRead, Verify, Webhook, CancelSeat
<1>10. ASSUME NEW w \in Workers, Statement(w) PROVE StaysSettled(p)
  BY <1>3, <1>4, <1>5, <1>6, <1>7, <1>8, <1>10
     DEF Statement, CronNext, Poll, ConfirmRead, ConfirmRows, FailRead, FlagRead
<1>11. QED
  BY <1>8, <1>9, <1>10 DEF Next, CronRead, Fault, Attempt, Capture, Decline, Age, Fill

\* No interleaving of the five paths re-opens or fails a settled payment, or
\* drops its refund flag, but a write from a row read before it was settled.
THEOREM SettledStays == Spec => OnlyStaleWritesUnsettle
<1>1. ASSUME IInv, [Next]_vars
      PROVE  [NoStaleWrite =>
                \A p \in Payments :
                   /\ pay[p].status = "success" => pay'[p].status = "success"
                   /\ pay[p].flag # "none" => pay'[p].flag # "none"]_vars
  BY <1>1, SettledStep DEF StaysSettled
<1>2. QED
  BY <1>1, Invariant, PTL DEF Spec, OnlyStaleWritesUnsettle
-----------------------------------------------------------------------------
(* What only a stale write, or a lost process, loses track of.             *)

\* Two payments for one seat stay two.
LEMMA PaidTwiceKept ==
    ASSUME IInv, Kept, NEW s \in Seats, NEW p, PaidTwice(s, p)
    PROVE  PaidTwice(s, p)'
BY Distinct DEF IInv, PaymentsOK, PaidTwice, Kept, Inserted, NoPay

\* Only a request between the seat and the flag stops being one.
LEMMA FlaggingKept ==
    ASSUME NEW w \in Workers, NEW p, Flagging(p), \A v \in Workers \ {w} : txn'[v] = txn[v],
           txn[w].p # p \/ txn[w].pc \notin {"flag_read", "flag_write"}
    PROVE  Flagging(p)'
BY DEF Flagging

\* A step that changes neither the payment nor the row of its seat, nor leaves
\* its flag to nobody.
LEMMA AccountKept ==
    ASSUME IInv, Kept, NEW p \in Payments, AccountedFor(p), pay'[p] = pay[p],
           \A s \in Seats : pay[p].seat = s => row'[s] = row[s],
           Flagging(p) => Flagging(p)'
    PROVE  AccountedFor(p)'
<1>1. PICK s \in Seats \cup {None} : s = pay[p].seat /\ pay'[p].seat = s
  BY DEF IInv, TypeOK, PayRow
<1>2. s # None => /\ row'[s] = row[s] /\ (PaidTwice(s, p) => PaidTwice(s, p)')
  BY <1>1, PaidTwiceKept
<1>3. QED
  BY <1>1, <1>2 DEF AccountedFor, Flagging, PaidTwice

\* Steps of a request that change no row.
LEMMA ReadAccounts ==
    ASSUME IInv, UNCHANGED <<pay, row, env>>, NEW w \in Workers, NEW p \in Payments,
           AccountedFor(p), \A v \in Workers \ {w} : txn'[v] = txn[v],
           txn[w].pc \notin {"flag_read", "flag_write"}
    PROVE  AccountedFor(p)'
BY SameRows, FlaggingKept, AccountKept

\* A request that begins, or goes on, is the only one that moves.
LEMMA OneMoves ==
    ASSUME IInv, NEW w \in Workers, Return(w) \/ (\E t : txn' = [txn EXCEPT ![w] = t])
    PROVE  \A v \in Workers \ {w} : txn'[v] = txn[v]
BY ReturnMoves DEF IInv, TypeOK

LEMMA InsertAccounts ==
    ASSUME IInv, NEW w \in Workers, NEW kind, NEW q \in Payments, NEW x \in Seats \cup {None},
           Insert(w, kind, q, x), NEW p \in Payments, AccountedFor(p)
    PROVE  AccountedFor(p)'
<1>1. /\ pay[q] = NoPay /\ pay' = [pay EXCEPT ![q] = [NoPay EXCEPT !.status = "pending", !.seat = x]]
      /\ row' = row /\ order' = order /\ pay \in [Payments -> PayRow]
      /\ txn' = [txn EXCEPT ![w] = [Idle EXCEPT !.pc = "reg_order", !.p = q]] /\ txn[w].pc = "idle"
  BY DEF Insert, Begin, IInv, TypeOK, PaymentsOK, Inserted, env
<1>2. Kept
  BY <1>1 DEF Kept, Inserted, NoPay, Captured
<1>3. \A v \in Workers \ {w} : txn'[v] = txn[v]
  BY <1>1, OneMoves
<1>4. CASE p # q
  <2>1. pay'[p] = pay[p]
    BY <1>1, <1>4
  <2>2. QED
    BY <1>1, <1>2, <1>3, <2>1, FlaggingKept, AccountKept
<1>5. CASE p = q
  <2>1. pay'[p].seat = x /\ pay'[p].status = "pending"
    BY <1>1, <1>5 DEF NoPay
  <2>2. x # None => row'[x].by # p
    BY <1>1, <1>5, Distinct DEF IInv, RowsOK, Inserted, NoPay
  <2>3. QED
    BY <2>1, <2>2 DEF AccountedFor
<1>6. QED
  BY <1>4, <1>5

\* A status that was not a success stays short of one: no place rests on it.
LEMMA UnsettledAccounts ==
    ASSUME IInv, IInv', NEW w \in Workers, NEW q \in Payments, NEW p \in Payments,
           AccountedFor(p), Kept, row' = row,
           \A v \in Workers \ {w} : txn'[v] = txn[v],
           txn[w].pc \notin {"flag_read", "flag_write"},
           \A y \in Payments \ {q} : pay'[y] = pay[y],
           pay[q].status # "success", pay'[q].status # "success",
           pay'[q].seat = pay[q].seat, pay'[q].flag = pay[q].flag
    PROVE  AccountedFor(p)'
<1>1. CASE p # q
  BY <1>1, FlaggingKept, AccountKept
<1>2. CASE p = q
  <2>1. PICK s \in Seats \cup {None} : s = pay[p].seat /\ pay'[p].seat = s
    BY <1>2 DEF IInv, TypeOK, PayRow
  <2>2. s # None => (PaidTwice(s, p) => PaidTwice(s, p)')
    BY <2>1, PaidTwiceKept
  <2>3. QED
    BY <1>2, <2>1, <2>2 DEF AccountedFor, PaidTwice
<1>3. QED
  BY <1>1, <1>2

LEMMA ConfirmAccounts ==
    ASSUME IInv, IInv', NEW w \in Workers, ConfirmCommit(w), NoStaleWrite,
           NEW p \in Payments, AccountedFor(p)
    PROVE  AccountedFor(p)'
<1>1. PICK t \in Txn, q \in Payments, s \in Seats \cup {None} :
         /\ t = txn[w] /\ q = t.p /\ s = t.seen.seat
         /\ Inserted(q) /\ s = pay[q].seat /\ t.seen.status # "success" /\ t.pc = "conf_commit"
  BY DEF IInv, TypeOK, Knows, Writing, ConfirmCommit, Txn, PayRow
<1> DEFINE fresh == s # None /\ ~t.has
           mine == [status |-> IF t.full THEN "waitlisted" ELSE "registered", by |-> q]
<1>2. CASE Return(w) /\ UNCHANGED <<pay, row, env>>
  BY <1>1, <1>2, OneMoves, ReadAccounts
<1>3. CASE /\ Return(w) /\ UNCHANGED env /\ pay' = [pay EXCEPT ![q] = Confirmed(t)]
           /\ row' = IF fresh THEN [row EXCEPT ![s] = mine] ELSE row
  <2>1. /\ pay[q].status = t.seen.status /\ pay[q].flag = t.seen.flag
        /\ s # None => t.has = (row[s].status # "none")
    BY <1>1, <1>3, WriterFresh DEF Stale
  <2>2. /\ pay \in [Payments -> PayRow]
        /\ row \in [Seats -> [status : {"none", "registered", "waitlisted"}, by : Payments \cup {None}]]
    BY DEF IInv, TypeOK
  <2>3. /\ pay'[q].status = "success" /\ pay'[q].seat = s /\ (pay'[q].flag = IF t.full THEN "event_full" ELSE pay[q].flag)
        /\ \A y \in Payments \ {q} : pay'[y] = pay[y]
    BY <1>1, <1>3, <2>1, <2>2 DEF Confirmed, PayRow
  <2>4. Kept
    BY <1>1, <1>3, <2>3 DEF Kept, Inserted, Captured, env
  <2>5. CASE p = q
    <3>1. CASE s = None
      BY <2>3, <2>5, <3>1 DEF AccountedFor
    <3>2. CASE fresh
      BY <1>3, <2>2, <2>3, <2>5, <3>2 DEF AccountedFor
    <3>3. CASE s # None /\ ~fresh
      <4>1. row' = row /\ row[s].status # "none"
        BY <1>3, <2>1, <3>3
      <4>2. CASE row[s].status = "registered"
        BY <2>3, <2>5, <4>1, <4>2 DEF AccountedFor
      <4>3. CASE pay[p].flag # "none"
        BY <2>3, <2>5, <4>3 DEF AccountedFor
      <4>4. CASE PaidTwice(s, p)
        BY <2>3, <2>4, <2>5, <3>3, <4>4, PaidTwiceKept DEF AccountedFor, PaidTwice
      <4>5. CASE row[s].by # p
        <5>1. row[s].by \in Payments \ {p} /\ pay[row[s].by].seat = s
          BY <2>2, <3>3, <4>1, <4>5 DEF IInv, RowsOK
        <5>2. PaidTwice(s, p)
          BY <5>1 DEF PaidTwice
        <5>3. QED
          BY <4>4, <5>2
      <4>6. pay[p].status # "success" /\ s = pay[p].seat
        BY <1>1, <2>1, <2>5
      <4>7. QED
        BY <3>3, <4>2, <4>3, <4>4, <4>5, <4>6 DEF AccountedFor
    <3>4. QED
      BY <3>1, <3>2, <3>3
  <2>6. CASE p # q /\ pay[p].seat = s /\ s # None
    BY <2>3, <2>6 DEF AccountedFor, PaidTwice
  <2>7. CASE p # q /\ ~(pay[p].seat = s /\ s # None)
    <3>1. \A x \in Seats : pay[p].seat = x => row'[x] = row[x]
      BY <1>3, <2>2, <2>7
    <3>2. pay'[p] = pay[p]
      BY <2>3, <2>7
    <3>3. Flagging(p) => Flagging(p)'
      BY <1>1, <1>3, OneMoves, FlaggingKept
    <3>4. QED
      BY <2>4, <3>1, <3>2, <3>3, AccountKept
  <2>8. QED
    BY <2>5, <2>6, <2>7
<1>4. QED
  BY <1>1, <1>2, <1>3 DEF ConfirmCommit, Throw

LEMMA CancelAccounts ==
    ASSUME IInv, NEW w \in Workers, NEW s \in Seats, CancelSeat(w, s),
           NEW p \in Payments, AccountedFor(p)
    PROVE  AccountedFor(p)'
<1>1. PICK q \in Payments : q = row[s].by /\ Inserted(q) /\ pay[q].seat = s
  BY DEF IInv, TypeOK, RowsOK, CancelSeat
<1>2. /\ pay' = pay /\ order' = order /\ row' = [row EXCEPT ![s] = NoRow] /\ txn[w].pc = "idle"
      /\ txn' = [txn EXCEPT ![w] = [Idle EXCEPT !.pc = "flag_read", !.p = q]]
  BY <1>1 DEF CancelSeat, Begin, env
<1>3. Kept
  BY <1>2 DEF Kept, Inserted, Captured
<1>4. /\ txn'[w].pc = "flag_read" /\ txn'[w].p = q
      /\ row'[s].by = None /\ \A x \in Seats \ {s} : row'[x] = row[x]
  BY <1>2 DEF IInv, TypeOK, Idle, NoRow
<1>5. CASE p = q
  <2>1. Flagging(p)' /\ pay'[p].seat = s /\ row'[s].by # p
    BY <1>1, <1>2, <1>4, <1>5, Distinct DEF Flagging
  <2>2. QED
    BY <2>1 DEF AccountedFor, Flagging
<1>6. CASE p # q /\ pay[p].seat = s
  BY <1>1, <1>2, <1>6 DEF AccountedFor, PaidTwice
<1>7. CASE pay[p].seat # s
  <2>1. Flagging(p) => Flagging(p)'
    BY <1>2, OneMoves, FlaggingKept
  <2>2. QED
    BY <1>2, <1>3, <1>4, <1>7, <2>1, AccountKept
<1>8. QED
  BY <1>5, <1>6, <1>7

LEMMA FlagAccounts ==
    ASSUME IInv, IInv', NEW w \in Workers, FlagRead(w) \/ FlagWrite(w),
           NEW p \in Payments, AccountedFor(p)
    PROVE  AccountedFor(p)'
<1>1. PICK q \in Payments : q = txn[w].p /\ Inserted(q)
  BY DEF IInv, Knows, FlagRead, FlagWrite
<1>2. pay \in [Payments -> PayRow] /\ txn \in [Workers -> Txn]
  BY DEF IInv, TypeOK
<1>3. row' = row /\ \A v \in Workers \ {w} : txn'[v] = txn[v]
  <2>1. row' = row /\ (Return(w) \/ txn' = [txn EXCEPT ![w] = [txn[w] EXCEPT !.pc = "flag_write"]])
    BY DEF FlagRead, FlagWrite, Goto
  <2>2. QED
    BY <2>1, OneMoves
<1>4. CASE FlagRead(w)
  <2>1. pay' = pay /\ Kept
    BY <1>4, SameRows DEF FlagRead
  <2>2. CASE p # q
    BY <1>1, <1>3, <2>1, <2>2, FlaggingKept, AccountKept
  <2>3. CASE p = q /\ pay[q].status = "success"
    <3>1. txn'[w].pc = "flag_write" /\ txn'[w].p = q
      BY <1>1, <1>2, <1>4, <2>3 DEF FlagRead, Goto, Txn
    <3>2. Flagging(p)'
      BY <2>3, <3>1 DEF Flagging
    <3>3. QED
      BY <1>3, <2>1, <3>2, AccountKept
  <2>4. CASE p = q /\ pay[q].status # "success"
    <3>1. \A y \in Payments \ {q} : pay'[y] = pay[y]
      BY <2>1
    <3>2. PICK s \in Seats \cup {None} : s = pay[p].seat /\ pay'[p].seat = s
      BY <1>2, <2>1 DEF PayRow
    <3>3. s # None => (PaidTwice(s, p) => PaidTwice(s, p)')
      BY <2>1, <3>2, PaidTwiceKept
    <3>4. QED
      BY <1>3, <2>1, <2>4, <3>2, <3>3 DEF AccountedFor, PaidTwice
  <2>5. QED
    BY <2>2, <2>3, <2>4
<1>5. CASE FlagWrite(w)
  <2>1. pay' = [pay EXCEPT ![q].flag = "cancellation"] /\ order' = order
    BY <1>1, <1>5 DEF FlagWrite, env
  <2>2. /\ pay'[q].flag = "cancellation" /\ pay'[q].seat = pay[q].seat /\ pay'[q].status = pay[q].status
        /\ \A y \in Payments \ {q} : pay'[y] = pay[y]
    BY <1>2, <2>1 DEF PayRow
  <2>3. Kept
    BY <2>1, <2>2 DEF Kept, Inserted, Captured
  <2>4. CASE p = q
    BY <2>2, <2>4 DEF AccountedFor
  <2>5. CASE p # q
    BY <1>1, <1>3, <2>2, <2>3, <2>5, FlaggingKept, AccountKept
  <2>6. QED
    BY <2>4, <2>5
<1>6. QED
  BY <1>4, <1>5
LEMMA AccountsStep ==
    ASSUME IInv, IInv', Next, NoStaleWrite, faults' = faults,
           NEW p \in Payments, AccountedFor(p)
    PROVE  AccountedFor(p)'
<1>1. ASSUME NEW w \in Workers, UNCHANGED <<pay, row, env>>,
             Return(w) \/ (\E t : txn' = [txn EXCEPT ![w] = t]),
             txn[w].pc \notin {"flag_read", "flag_write"}
      PROVE  AccountedFor(p)'
  BY <1>1, OneMoves, ReadAccounts
<1>2. ASSUME UNCHANGED <<pay, row, txn>> PROVE AccountedFor(p)'
  BY <1>2 DEF AccountedFor, PaidTwice, Flagging
<1>3. ASSUME NEW w \in Workers, Arrive(w) PROVE AccountedFor(p)'
  <2>1. CASE \E q \in Payments, s \in Seats : Register(w, q, s)
    BY <2>1, InsertAccounts DEF Register
  <2>2. CASE \E q \in Payments : TestPayment(w, q)
    BY <2>2, InsertAccounts DEF TestPayment
  <2>3. CASE \E q \in Payments : \/ InitiateRead(w, q) \/ CancelledModal(w, q) \/ Reverify(w, q)
                                 \/ ApproveRead(w, q) \/ RejectRead(w, q)
    BY <1>1, <2>3 DEF InitiateRead, CancelledModal, Reverify, ApproveRead, RejectRead, Begin
  <2>4. CASE \E o \in Orders : Verify(w, o) \/ Webhook(w, o)
    BY <1>1, <2>4 DEF Verify, Webhook, Begin
  <2>5. CASE \E s \in Seats : CancelSeat(w, s)
    BY <2>5, CancelAccounts
  <2>6. QED
    BY <1>3, <2>1, <2>2, <2>3, <2>4, <2>5 DEF Arrive
<1>4. ASSUME NEW w \in Workers, RegisterOrder(w) PROVE AccountedFor(p)'
  <2>1. PICK q \in Payments, o \in Orders :
           /\ Inserted(q) /\ order[o].last = "unused" /\ Opened(o, q)
           /\ pay' = [pay EXCEPT ![q].order = o]
    BY <1>4 DEF RegisterOrder, IInv, Knows
  <2>2. /\ row' = row /\ \A v \in Workers \ {w} : txn'[v] = txn[v]
        /\ txn[w].pc = "reg_order"
    BY <1>4, OneMoves DEF RegisterOrder
  <2>3. /\ pay'[q].seat = pay[q].seat /\ pay'[q].status = pay[q].status /\ pay'[q].flag = pay[q].flag
        /\ \A y \in Payments \ {q} : pay'[y] = pay[y]
    BY <2>1 DEF IInv, TypeOK, PayRow
  <2>4. Kept
    BY <2>1, <2>3 DEF IInv, TypeOK, OrderRec, Kept, Inserted, Captured, Opened
  <2>5. PICK s \in Seats \cup {None} : s = pay[p].seat /\ pay'[p].seat = s
    BY <2>3 DEF IInv, TypeOK, PayRow
  <2>6. /\ pay'[p].status = pay[p].status /\ pay'[p].flag = pay[p].flag
        /\ s # None => (PaidTwice(s, p) => PaidTwice(s, p)')
        /\ Flagging(p) => Flagging(p)'
    BY <2>2, <2>3, <2>4, <2>5, PaidTwiceKept, FlaggingKept
  <2>7. QED
    BY <2>2, <2>5, <2>6 DEF AccountedFor, PaidTwice, Flagging
<1>5. ASSUME NEW w \in Workers, InitiateWrite(w) PROVE AccountedFor(p)'
  <2>1. PICK q \in Payments, o \in Orders :
           /\ q = txn[w].p /\ Inserted(q) /\ order[o].last = "unused" /\ Opened(o, q)
           /\ pay' = [pay EXCEPT ![q].order = o, ![q].status = "pending"]
    BY <1>5 DEF InitiateWrite, IInv, Knows
  <2>2. /\ row' = row /\ \A v \in Workers \ {w} : txn'[v] = txn[v]
        /\ txn[w].pc = "init_write" /\ Return(w)
    BY <1>5, OneMoves DEF InitiateWrite
  <2>3. pay[q].status # "success"
    BY <2>1, <2>2, WriterFresh DEF Stale, IInv, Knows
  <2>4. /\ pay'[q].seat = pay[q].seat /\ pay'[q].status = "pending" /\ pay'[q].flag = pay[q].flag
        /\ \A y \in Payments \ {q} : pay'[y] = pay[y]
    BY <2>1 DEF IInv, TypeOK, PayRow
  <2>5. Kept
    BY <2>1, <2>4 DEF IInv, TypeOK, OrderRec, Kept, Inserted, Captured, Opened
  <2>6. QED
    BY <2>2, <2>3, <2>4, <2>5, UnsettledAccounts
<1>6. ASSUME NEW w \in Workers, FailWrite(w) \/ RejectWrite(w) PROVE AccountedFor(p)'
  <2>1. PICK q \in Payments : q = txn[w].p /\ Inserted(q) /\ pay' = [pay EXCEPT ![q].status = "failed"]
    BY <1>6 DEF FailWrite, RejectWrite, SetFailed, IInv, Knows
  <2>2. /\ row' = row /\ order' = order /\ \A v \in Workers \ {w} : txn'[v] = txn[v]
        /\ txn[w].pc \in {"fail_write", "rej_write"} /\ Return(w)
    BY <1>6, OneMoves DEF FailWrite, RejectWrite, SetFailed, env
  <2>3. pay[q].status # "success"
    BY <2>1, <2>2, WriterFresh DEF Stale, IInv, Knows, Writing
  <2>4. /\ pay'[q].seat = pay[q].seat /\ pay'[q].status = "failed" /\ pay'[q].flag = pay[q].flag
        /\ \A y \in Payments \ {q} : pay'[y] = pay[y]
    BY <2>1 DEF IInv, TypeOK, PayRow
  <2>5. Kept
    BY <2>2, <2>4 DEF Kept, Inserted, Captured
  <2>6. QED
    BY <2>2, <2>3, <2>4, <2>5, UnsettledAccounts
<1>7. ASSUME NEW w \in Workers, Statement(w) PROVE AccountedFor(p)'
  <2>1. CASE CronNext(w)
    BY <1>1, <2>1 DEF CronNext
  <2>2. CASE Poll(w)
    BY <1>1, <2>2 DEF Poll, Goto
  <2>3. CASE ConfirmRead(w) \/ FailRead(w)
    BY <1>1, <2>3 DEF ConfirmRead, FailRead
  <2>4. CASE ConfirmRows(w)
    <3> DEFINE has == row[txn[w].seen.seat].status # "none"
               t == [txn[w] EXCEPT !.pc = "conf_commit", !.has = has, !.full = ~has /\ full]
    <3>1. txn' = [txn EXCEPT ![w] = t]
      BY <2>4 DEF ConfirmRows
    <3> HIDE DEF t
    <3>2. QED
      BY <1>1, <2>4, <3>1 DEF ConfirmRows
  <2>5. QED
    BY <1>4, <1>5, <1>6, <1>7, <2>1, <2>2, <2>3, <2>4, ConfirmAccounts, FlagAccounts DEF Statement
<1>8. ASSUME NEW w \in Workers, CronRead(w) PROVE AccountedFor(p)'
  BY <1>1, <1>8 DEF CronRead, Begin
<1>9. ASSUME NEW w \in Workers PROVE ~Fault(w)
  <2>1. faults \in Nat
    BY PaymentsAssumption DEF IInv, TypeOK
  <2>2. faults + 1 # faults
    BY <2>1
  <2>3. QED
    BY <2>2 DEF Fault
<1>10. QED
  BY <1>2, <1>3, <1>7, <1>8, <1>9 DEF Next, Attempt, Capture, Decline, Age, Fill

\* Money taken stays accounted for: no interleaving of payments, approvals and
\* cancellations leaves a payer with neither the seat nor a refund in sight,
\* but a write from a stale read or a process lost on the way to the flag.
THEOREM MoneyStaysAccounted == Spec => OnlyStaleWritesLoseMoney
<1>1. ASSUME IInv, [Next]_vars
      PROVE  [(NoStaleWrite /\ faults' = faults) =>
                 \A p \in Payments : AccountedFor(p) => AccountedFor(p)']_vars
  BY <1>1, NextIInv, AccountsStep
<1>2. QED
  BY <1>1, Invariant, PTL DEF Spec, OnlyStaleWritesLoseMoney

=============================================================================
