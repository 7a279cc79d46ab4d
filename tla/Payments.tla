------------------------------- MODULE Payments -------------------------------
(***************************************************************************)
(* Online payments for event seats.  A payment row is opened together with *)
(* an order at the gateway; the member pays the order in the browser, and  *)
(* the outcome comes back over five paths that may all run at once: the    *)
(* browser's /verify, the gateway's /webhook, the reconciliation cron, an  *)
(* administrator's /reverify, and, for a failure, the browser's /cancelled.*)
(* Every path reads the row, then writes it by its id alone.               *)
(*                                                                         *)
(* The gateway is outside the code: an order is tried, fails or is         *)
(* captured, and calls of the webhook are lost, repeated and reordered.    *)
(* txn[w] is the request worker w serves, one action per statement whose   *)
(* result a later one uses.  A booking is taken to be for one seat (groups *)
(* are in EventSeats).                                                     *)
(***************************************************************************)
EXTENDS Naturals, FiniteSets

CONSTANTS
    Payments,     \* rows of payments
    Legacy,       \* those that may wait for a manual UPI check
    Orders,       \* orders the gateway can open
    Seats,        \* a member's seat at an event: ref_id and payer_user_id
    None,         \* no payment, no order, no seat
    Workers,      \* requests in flight, and cron ticks
    CronWorkers,  \* workers that run the cron's ticks, one per machine
    MaxPerTick,   \* rows the cron looks at in one tick
    MaxFaults,    \* bound: lost connections and failed gateway calls
    Mixes         \* what is explored together: the handlers and environment
                  \* steps in use, and the rows of Legacy that are there at first

AllKinds == {"register", "test", "initiate", "verify", "webhook", "cancelled",
             "reverify", "cron", "approve", "reject", "cancelseat",
             "decline", "fill"}

ASSUME PaymentsAssumption ==
    /\ Legacy \subseteq Payments
    /\ CronWorkers \subseteq Workers
    /\ None \notin Payments \cup Orders \cup Seats
    /\ IsFiniteSet(Payments) /\ IsFiniteSet(Orders)
    /\ MaxPerTick \in Nat \ {0} /\ MaxFaults \in Nat
    /\ Mixes \subseteq [handlers : SUBSET AllKinds, upi : SUBSET Legacy]

Statuses == {"none", "created", "pending", "pending_verification", "success", "failed"}

\* metadata.needs_refund
Flags == {"none", "event_full", "cancellation"}

PayRow == [status : Statuses, order : Orders \cup {None}, seat : Seats \cup {None},
           flag : Flags]

\* What the gateway knows of an order: its payment row and the last attempt.
OrderRec == [pay : Payments \cup {None},
             last : {"unused", "open", "trying", "failed", "captured"}]

PCs == {"idle", "reg_order", "init_write", "poll", "conf_read", "conf_rows",
        "conf_commit", "fail_read", "fail_write", "rej_write", "cron_next",
        "flag_read", "flag_write"}

Txn == [pc : PCs,
        p : Payments \cup {None},
        o : Orders \cup {None},              \* order to poll
        seen : PayRow,                       \* the row as the handler read it
        has : BOOLEAN,                       \* the member was registered already
        full : BOOLEAN,                      \* no seat was left
        batch : SUBSET (Payments \X Orders)] \* cron: rows still to look at

NoPay == [status |-> "none", order |-> None, seat |-> None, flag |-> "none"]

Idle == [pc |-> "idle", p |-> None, o |-> None, seen |-> NoPay,
         has |-> FALSE, full |-> FALSE, batch |-> {}]

VARIABLES
    mix,      \* which of the Mixes this behaviour explores
    pay,      \* payments
    row,      \* live registration of each seat, and the payment it came from
    full,     \* no seat is left at the event (the other members' doing)
    order,    \* the gateway's orders
    declined, \* orders of which an attempt failed: a payment.failed call was sent
    old,      \* payments older than STALE_AFTER_MINUTES
    txn,
    faults

vars == <<mix, pay, row, full, order, declined, old, txn, faults>>
gateway == <<order, declined>>
env == <<mix, order, declined, full, old, faults>>

NoRow == [status |-> "none", by |-> None]

TypeOK ==
    /\ mix \in Mixes
    /\ pay \in [Payments -> PayRow]
    /\ row \in [Seats -> [status : {"none", "registered", "waitlisted"},
                          by : Payments \cup {None}]]
    /\ full \in BOOLEAN
    /\ order \in [Orders -> OrderRec]
    /\ declined \subseteq Orders
    /\ old \subseteq Payments
    /\ txn \in [Workers -> Txn]
    /\ faults \in 0 .. MaxFaults

-----------------------------------------------------------------------------
(* Requests.                                                               *)

Begin(w, kind, t) ==
    /\ kind \in mix.handlers
    /\ txn[w].pc = "idle"
    /\ (w \in CronWorkers) <=> (kind = "cron")
    /\ txn' = [txn EXCEPT ![w] = t]

Goto(w, label) == txn' = [txn EXCEPT ![w].pc = label]

\* The end of a request, or of one row of a cron tick.
Return(w) ==
    LET rest == txn[w].batch
    IN  txn' = [txn EXCEPT ![w] = IF rest = {} THEN Idle
                                  ELSE [Idle EXCEPT !.pc = "cron_next", !.batch = rest]]

\* An exception: the cron logs it and goes on, a request is over.
Throw(w) == Return(w) /\ UNCHANGED <<pay, row, env>>

\* The connection or the process is lost, or a call of the gateway fails.
Fault(w) ==
    /\ txn[w].pc # "idle" /\ faults < MaxFaults
    /\ faults' = faults + 1
    /\ \/ Return(w)
       \/ txn' = [txn EXCEPT ![w] = Idle]
    /\ UNCHANGED <<mix, pay, row, full, gateway, old>>

-----------------------------------------------------------------------------
(* POST /:slug/register on a paid event, and POST /api/admin/payments/test:*)
(* the row is inserted, the order opened and its id stored.                *)

Opened(o, p) == order' = [order EXCEPT ![o] = [pay |-> p, last |-> "open"]]

Insert(w, kind, p, s) ==
    /\ pay[p].status = "none"
    /\ Begin(w, kind, [Idle EXCEPT !.pc = "reg_order", !.p = p])
    /\ pay' = [pay EXCEPT ![p] = [NoPay EXCEPT !.status = "pending", !.seat = s]]
    /\ UNCHANGED <<row, env>>

Register(w, p, s) == row[s].status = "none" /\ ~full /\ Insert(w, "register", p, s)

TestPayment(w, p) == Insert(w, "test", p, None)

RegisterOrder(w) ==
    /\ txn[w].pc = "reg_order"
    /\ \E o \in Orders :
          /\ order[o].last = "unused"
          /\ Opened(o, txn[w].p)
          /\ pay' = [pay EXCEPT ![txn[w].p].order = o]
    /\ Return(w)
    /\ UNCHANGED <<mix, row, full, declined, old, faults>>

-----------------------------------------------------------------------------
(* POST /api/payments/initiate: a fresh order for an unpaid row.           *)

\* Mutant: any row may be initiated again.
InitiateAny(w, p) ==
    /\ pay[p].status # "none"
    /\ Begin(w, "initiate", [Idle EXCEPT !.pc = "init_write", !.p = p, !.seen = pay[p]])
    /\ UNCHANGED <<pay, row, env>>

InitiateRead(w, p) ==
    /\ pay[p].status \in {"created", "pending"}
    /\ Begin(w, "initiate", [Idle EXCEPT !.pc = "init_write", !.p = p, !.seen = pay[p]])
    /\ UNCHANGED <<pay, row, env>>

InitiateWrite(w) ==
    /\ txn[w].pc = "init_write"
    /\ \E o \in Orders :
          /\ order[o].last = "unused"
          /\ Opened(o, txn[w].p)
          /\ pay' = [pay EXCEPT ![txn[w].p].order = o, ![txn[w].p].status = "pending"]
    /\ Return(w)
    /\ UNCHANGED <<mix, row, full, declined, old, faults>>

-----------------------------------------------------------------------------
(* The paths on which an outcome arrives.                                  *)

\* The browser's call after a capture, with a signature for the order.
Verify(w, o) ==
    /\ order[o].last = "captured"
    /\ \E p \in Payments :
          /\ pay[p].order = o /\ pay[p].status # "success"
          /\ Begin(w, "verify", [Idle EXCEPT !.pc = "conf_read", !.p = p])
    /\ UNCHANGED <<pay, row, env>>

\* A row whose order is another by now is "unknown order": acknowledged.
Webhook(w, o) ==
    /\ \E p \in Payments :
          /\ pay[p].order = o
          /\ \/ /\ order[o].last = "captured" /\ pay[p].status # "success"
                /\ Begin(w, "webhook", [Idle EXCEPT !.pc = "conf_read", !.p = p])
             \/ /\ o \in declined
                /\ Begin(w, "webhook", [Idle EXCEPT !.pc = "fail_read", !.p = p])
    /\ UNCHANGED <<pay, row, env>>

CancelledModal(w, p) ==
    /\ pay[p].status \in {"created", "pending"}
    /\ Begin(w, "cancelled", [Idle EXCEPT !.pc = "fail_read", !.p = p])
    /\ UNCHANGED <<pay, row, env>>

Reverify(w, p) ==
    /\ pay[p].order # None /\ pay[p].status # "success"
    /\ Begin(w, "reverify", [Idle EXCEPT !.pc = "poll", !.p = p, !.o = pay[p].order])
    /\ UNCHANGED <<pay, row, env>>

\* Mutant: created_at > now() - interval: fresh rows instead of stale ones.
StuckFresh == {p \in Payments \ old : pay[p].status = "pending" /\ pay[p].order # None}

Stuck == {p \in old : pay[p].status = "pending" /\ pay[p].order # None}

\* SELECT ... LIMIT without an ORDER BY: any MaxPerTick of the rows.
CronRead(w) ==
    /\ Stuck # {}
    /\ \E S \in SUBSET Stuck :
          /\ \/ S = Stuck /\ Cardinality(S) <= MaxPerTick
             \/ Cardinality(S) = MaxPerTick
          /\ Begin(w, "cron", [Idle EXCEPT !.pc = "cron_next",
                                           !.batch = {<<p, pay[p].order>> : p \in S}])
    /\ UNCHANGED <<pay, row, env>>

CronNext(w) ==
    /\ txn[w].pc = "cron_next"
    /\ \E b \in txn[w].batch :
          txn' = [txn EXCEPT ![w] = [Idle EXCEPT !.pc = "poll", !.p = b[1], !.o = b[2],
                                                 !.batch = txn[w].batch \ {b}]]
    /\ UNCHANGED <<pay, row, env>>

\* Mutant: an attempt that is authorised and not captured counts as paid.
OutcomeTrustsAttempt(o) ==
    CASE order[o].last \in {"trying", "captured"} -> "success"
      [] order[o].last = "failed"                 -> "failed"
      [] OTHER                                    -> "pending"

\* verifyOrderOutcome: any captured attempt, else the newest one.
Outcome(o) ==
    CASE order[o].last = "captured" -> "success"
      [] order[o].last = "failed"   -> "failed"
      [] OTHER                      -> "pending"

Poll(w) ==
    /\ txn[w].pc = "poll"
    /\ CASE Outcome(txn[w].o) = "success" -> Goto(w, "conf_read")
         [] Outcome(txn[w].o) = "failed"  -> Goto(w, "fail_read")
         [] OTHER                         -> Return(w)
    /\ UNCHANGED <<pay, row, env>>

-----------------------------------------------------------------------------
(* confirmPaymentAndFulfil: one transaction, reads without locks.          *)

ConfirmRead(w) ==
    LET p == txn[w].p
    IN  /\ txn[w].pc = "conf_read"
        /\ IF pay[p].status = "success" THEN Return(w)
           ELSE txn' = [txn EXCEPT ![w].seen = pay[p],
                           ![w].pc = IF pay[p].seat = None THEN "conf_commit" ELSE "conf_rows"]
        /\ UNCHANGED <<pay, row, env>>

\* Who is registered already, and is there room for the others.
ConfirmRows(w) ==
    LET has == row[txn[w].seen.seat].status # "none"
    IN  /\ txn[w].pc = "conf_rows"
        /\ txn' = [txn EXCEPT ![w].pc = "conf_commit", ![w].has = has,
                              ![w].full = ~has /\ full]
        /\ UNCHANGED <<pay, row, env>>

\* Mutant: the waitlisted group is not flagged for a refund.
ConfirmedUnflagged(t) == [pay[t.p] EXCEPT !.status = "success", !.flag = t.seen.flag]

\* metadata is written as it was read, needs_refund added when full.
Confirmed(t) == [pay[t.p] EXCEPT !.status = "success",
                                 !.flag = IF t.full THEN "event_full" ELSE t.seen.flag]

\* The insert meets the unique index, the counter its CHECK constraint.
ConfirmCommit(w) ==
    LET t == txn[w]
        s == t.seen.seat
        fresh == s # None /\ ~t.has
    IN  /\ t.pc = "conf_commit"
        /\ IF fresh /\ (row[s].status # "none" \/ (full /\ ~t.full))
           THEN Throw(w)
           ELSE /\ row' = IF fresh
                          THEN [row EXCEPT ![s] =
                                  [status |-> IF t.full THEN "waitlisted" ELSE "registered",
                                   by |-> t.p]]
                          ELSE row
                /\ pay' = [pay EXCEPT ![t.p] = Confirmed(t)]
                /\ Return(w)
                /\ UNCHANGED env

-----------------------------------------------------------------------------
(* markPaymentFailed.                                                      *)

\* Mutant: the status of the row is not looked at.
FailReadAny(w) ==
    /\ txn[w].pc = "fail_read"
    /\ txn' = [txn EXCEPT ![w].pc = "fail_write", ![w].seen = pay[txn[w].p]]
    /\ UNCHANGED <<pay, row, env>>

FailRead(w) ==
    /\ txn[w].pc = "fail_read"
    /\ IF pay[txn[w].p].status = "success" THEN Return(w)
       ELSE txn' = [txn EXCEPT ![w].pc = "fail_write", ![w].seen = pay[txn[w].p]]
    /\ UNCHANGED <<pay, row, env>>

SetFailed(w, label) ==
    /\ txn[w].pc = label
    /\ pay' = [pay EXCEPT ![txn[w].p].status = "failed"]
    /\ Return(w)
    /\ UNCHANGED <<row, env>>

FailWrite(w) == SetFailed(w, "fail_write")

-----------------------------------------------------------------------------
(* The queue of manual UPI payments: POST /:id/approve runs the same steps *)
(* as a confirmation, POST /:id/reject fails the row.                      *)

ApproveRead(w, p) ==
    /\ pay[p].status = "pending_verification"
    /\ Begin(w, "approve", [Idle EXCEPT !.pc = "conf_rows", !.p = p, !.seen = pay[p]])
    /\ UNCHANGED <<pay, row, env>>

RejectRead(w, p) ==
    /\ pay[p].status = "pending_verification"
    /\ Begin(w, "reject", [Idle EXCEPT !.pc = "rej_write", !.p = p, !.seen = pay[p]])
    /\ UNCHANGED <<pay, row, env>>

RejectWrite(w) == SetFailed(w, "rej_write")

-----------------------------------------------------------------------------
(* approve-cancellation of a paid registration: the seat is given up in a  *)
(* transaction (EventSeats), then the payment is flagged for the treasurer.*)

CancelSeat(w, s) ==
    /\ row[s].by # None
    /\ Begin(w, "cancelseat", [Idle EXCEPT !.pc = "flag_read", !.p = row[s].by])
    /\ row' = [row EXCEPT ![s] = NoRow]
    /\ UNCHANGED <<pay, env>>

FlagRead(w) ==
    /\ txn[w].pc = "flag_read"
    /\ IF pay[txn[w].p].status = "success" THEN Goto(w, "flag_write") ELSE Return(w)
    /\ UNCHANGED <<pay, row, env>>

FlagWrite(w) ==
    /\ txn[w].pc = "flag_write"
    /\ pay' = [pay EXCEPT ![txn[w].p].flag = "cancellation"]
    /\ Return(w)
    /\ UNCHANGED <<row, env>>

-----------------------------------------------------------------------------
(* The gateway, the other members, and time.                               *)

Attempt(o) ==
    /\ order[o].last \in {"open", "failed"}
    /\ order' = [order EXCEPT ![o].last = "trying"]
    /\ UNCHANGED <<mix, pay, row, full, declined, old, txn, faults>>

Capture(o) ==
    /\ order[o].last = "trying"
    /\ order' = [order EXCEPT ![o].last = "captured"]
    /\ UNCHANGED <<mix, pay, row, full, declined, old, txn, faults>>

Decline(o) ==
    /\ "decline" \in mix.handlers
    /\ order[o].last = "trying"
    /\ order' = [order EXCEPT ![o].last = "failed"]
    /\ declined' = declined \cup {o}
    /\ UNCHANGED <<mix, pay, row, full, old, txn, faults>>

\* The last free seat is taken by another member.
Fill ==
    /\ "fill" \in mix.handlers
    /\ ~full /\ full' = TRUE
    /\ UNCHANGED <<mix, pay, row, gateway, old, txn, faults>>

Age(p) ==
    /\ "cron" \in mix.handlers
    /\ pay[p].status # "none" /\ p \notin old
    /\ old' = old \cup {p}
    /\ UNCHANGED <<mix, pay, row, full, gateway, txn, faults>>

-----------------------------------------------------------------------------
Init ==
    /\ mix \in Mixes
    /\ \E f \in [mix.upi -> Seats] :
          pay = [p \in Payments |->
                   IF p \in mix.upi
                   THEN [NoPay EXCEPT !.status = "pending_verification", !.seat = f[p]]
                   ELSE NoPay]
    /\ row = [s \in Seats |-> NoRow]
    /\ full = FALSE
    /\ order = [o \in Orders |-> [pay |-> None, last |-> "unused"]]
    /\ declined = {}
    /\ old = {}
    /\ txn = [w \in Workers |-> Idle]
    /\ faults = 0

Arrive(w) ==
    \/ \E p \in Payments, s \in Seats : Register(w, p, s)
    \/ \E p \in Payments :
          \/ TestPayment(w, p) \/ InitiateRead(w, p)
          \/ CancelledModal(w, p) \/ Reverify(w, p)
          \/ ApproveRead(w, p) \/ RejectRead(w, p)
    \/ \E o \in Orders : Verify(w, o) \/ Webhook(w, o)
    \/ \E s \in Seats : CancelSeat(w, s)

Statement(w) ==
    \/ RegisterOrder(w) \/ InitiateWrite(w)
    \/ CronNext(w) \/ Poll(w)
    \/ ConfirmRead(w) \/ ConfirmRows(w) \/ ConfirmCommit(w)
    \/ FailRead(w) \/ FailWrite(w) \/ RejectWrite(w)
    \/ FlagRead(w) \/ FlagWrite(w)

Next ==
    \/ \E w \in Workers : Arrive(w) \/ CronRead(w) \/ Statement(w) \/ Fault(w)
    \/ \E o \in Orders : Attempt(o) \/ Capture(o) \/ Decline(o)
    \/ \E p \in Payments : Age(p)
    \/ Fill

Spec == Init /\ [][Next]_vars

\* Postgres and Node finish what they began, setInterval fires, time passes.
\* Nothing is assumed of the browser, the webhook or the gateway.
Fairness ==
    /\ \A w \in Workers : WF_vars(Statement(w))
    /\ \A w \in CronWorkers : WF_vars(CronRead(w))
    /\ \A p \in Payments : WF_vars(Age(p))

FairSpec == Spec /\ Fairness

-----------------------------------------------------------------------------
Captured(o) == order[o].last = "captured"

\* A payment counts as a success, and a seat is held on it, only if the gateway
\* captured an order of that very payment (or an administrator saw the money).
PaidMeansCaptured ==
    \A p \in Payments \ Legacy :
        \/ pay[p].status = "success"
        \/ \E s \in Seats : row[s].by = p
        => \E o \in Orders : order[o].pay = p /\ Captured(o)

\* The row changed between a handler's read of it and the write that follows.
Stale(w) ==
    LET t == txn[w]
        s == t.seen.seat
    IN  /\ t.pc \in {"init_write", "conf_commit", "fail_write", "rej_write"}
        /\ \/ pay[t.p].status # t.seen.status
           \/ pay[t.p].flag # t.seen.flag
           \/ t.pc = "conf_commit" /\ s # None /\ t.has # (row[s].status # "none")

NoStaleWrite == \A w \in Workers : txn'[w] # txn[w] => ~Stale(w)

\* A settled payment is never re-opened or failed, and its refund flag never
\* dropped, by any interleaving of the paths that decide it, except by a write
\* whose handler read the row before it was settled.
OnlyStaleWritesUnsettle ==
    [][NoStaleWrite =>
         \A p \in Payments :
            /\ pay[p].status = "success" => pay'[p].status = "success"
            /\ pay[p].flag # "none" => pay'[p].flag # "none"]_vars

\* Money taken is money accounted for: the payer of a settled payment is on the
\* event's list, or the treasurer's refund queue shows the payment, or the
\* request that will flag it is still running; and no place on the waitlist
\* rests on a payment that is no longer settled.
\* (An event whose seat was paid for twice is left out: see the README.)
Flagging(p) == \E w \in Workers : txn[w].p = p /\ txn[w].pc \in {"flag_read", "flag_write"}

PaidTwice(s, p) == \E q \in Payments \ {p} : pay[q].seat = s

AccountedFor(p) ==
    LET s == pay[p].seat
    IN  s # None =>
          \/ row[s].status = "registered"
          \/ pay[p].flag # "none"
          \/ PaidTwice(s, p)
          \/ IF pay[p].status = "success" THEN Flagging(p) ELSE row[s].by # p

\* No step of any path loses track of money that was accounted for, except a
\* write from a stale read, and a process lost between the cancellation of a
\* paid seat and its flag.
OnlyStaleWritesLoseMoney ==
    [][(NoStaleWrite /\ faults' = faults) =>
          \A p \in Payments : AccountedFor(p) => AccountedFor(p)']_vars

\* "This cron catches those rows": once the gateway has captured an order, the
\* payment it was opened for becomes a success, whatever calls were lost.
EveryCaptureSettles ==
    \A o \in Orders, p \in Payments :
        (order[o].pay = p /\ Captured(o)) ~> pay[p].status = "success"
=============================================================================
