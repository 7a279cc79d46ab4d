----------------------------- MODULE EventSeats -----------------------------
(***************************************************************************)
(* The seats of one event.  events.registered_count is a counter kept by   *)
(* hand beside the event_registrations rows it is meant to count, and nine *)
(* HTTP handlers move the two.  A handler is a sequence of SQL statements  *)
(* under READ COMMITTED: each statement sees what is committed when it     *)
(* runs, so a row read by one statement may have changed by the next.      *)
(*                                                                         *)
(* txn[w] is the request worker w serves: its program counter, what it has *)
(* read, and the row locks it holds.  One action is one statement; writes  *)
(* after which nothing is read or waited for are joined to the commit.     *)
(* Uncommitted writes stay in txn[w] (their locks keep others away) and    *)
(* reach reg and count at the commit.                                      *)
(***************************************************************************)
EXTENDS Integers, FiniteSets

CONSTANTS
    Users,        \* members who may hold a seat
    Workers,      \* requests that can be in flight at one time
    Nobody,       \* no user, and no holder of a lock
    MaxRows,      \* bound: registrations ever inserted
    MaxClock,     \* bound: transactions with an insert ever started
    Capacities,   \* values an administrator gives events.capacity
    Groups,       \* the seat holders one payment may pay for
    PatchTo,      \* statuses PATCH /:id and POST / are asked for
    Kinds         \* handlers in use, a subset of AllKinds

Unlimited == -1   \* capacity NULL

AllKinds == {"register", "waitlist", "enroll", "fulfil", "request", "approve",
             "reject", "patch", "bulk", "edit"}

Statuses == {"registered", "waitlisted", "cancelled", "attended", "no_show"}

\* registered_count counts confirmed seats, not the waitlist.
Counted == {"registered", "attended"}

RowId == 1 .. MaxRows

ASSUME SeatsAssumption ==
    /\ MaxRows \in Nat /\ MaxClock \in Nat
    /\ IsFiniteSet(Users)
    /\ Nobody \notin Users \cup Workers
    /\ Capacities \subseteq Nat \cup {Unlimited}
    /\ Groups \subseteq SUBSET Users
    /\ PatchTo \subseteq Statuses
    /\ Kinds \subseteq AllKinds

Row == [user : Users \cup {Nobody}, status : Statuses \cup {"none"},
        deleted : BOOLEAN, at : Nat,
        cxl : {"none", "pending", "approved", "rejected"}]

NoRow == [user |-> Nobody, status |-> "none", deleted |-> FALSE, at |-> 0,
          cxl |-> "none"]

PCs == {"idle",
        "reg_lock", "reg_insert", "wl_insert", "insert", "insert_count",
        "req_stamp", "approve_stamp", "rej_stamp",
        "cancel_read", "cancel_row", "cancel_count", "cancel_promote",
        "patch_row", "patch_count", "bulk_row", "bulk_count"}

Txn == [pc : PCs,
        who : SUBSET Users,                  \* users a row is inserted for
        as : Statuses \cup {"none"},         \* status to write
        at : Nat,                            \* now(): start of the transaction
        row : RowId \cup {0},                \* row the request names
        seen : Statuses \cup {"none"},       \* its status when read
        next : RowId \cup {0},               \* waitlisted row to promote
        cnt : Nat,                           \* registered_count as written
        regd : SUBSET RowId,                 \* bulk: targets read registered
        wait : SUBSET RowId,                 \* bulk: targets read waitlisted
        todo : SUBSET RowId,                 \* bulk: targets not yet updated
        locks : SUBSET RowId]                \* registration rows locked

Idle == [pc |-> "idle", who |-> {}, as |-> "none", at |-> 0, row |-> 0,
         seen |-> "none", next |-> 0, cnt |-> 0, regd |-> {}, wait |-> {},
         todo |-> {}, locks |-> {}]

VARIABLES
    capacity,   \* events.capacity
    count,      \* events.registered_count
    open,       \* published and not started
    evLock,     \* worker that holds the event row's lock, or Nobody
    reg,        \* event_registrations, in order of insertion
    used,       \* rows inserted so far
    clock,      \* now(), the source of registered_at
    txn         \* the request each worker serves

vars == <<capacity, count, open, evLock, reg, used, clock, txn>>

event == <<capacity, count, open>>

TypeOK ==
    /\ capacity \in Nat \cup {Unlimited}
    /\ count \in Nat
    /\ open \in BOOLEAN
    /\ evLock \in Workers \cup {Nobody}
    /\ reg \in [RowId -> Row]
    /\ used \in 0 .. MaxRows
    /\ clock \in Nat
    /\ txn \in [Workers -> Txn]

-----------------------------------------------------------------------------
(* What a statement reads.                                                 *)

Exists(r) == reg[r].status # "none"
Active(r) == Exists(r) /\ ~reg[r].deleted
HasActive(u) == \E r \in RowId : Active(r) /\ reg[r].user = u

\* The confirmed seats, which registered_count is meant to count.
Seated == {r \in RowId : Active(r) /\ reg[r].status \in Counted}
Waiting == {r \in RowId : Active(r) /\ reg[r].status = "waitlisted"}

Full == capacity # Unlimited /\ count >= capacity
FitsCapacity(n) == capacity = Unlimited \/ n <= capacity   \* the CHECK constraint

\* ORDER BY registered_at LIMIT 1; rows of one batch share their timestamp.
Oldest(S) == {r \in S : \A q \in S : reg[r].at <= reg[q].at}

\* Mutant: registered_count - 1 without GREATEST.
NoClamp(n) == n

Max0(n) == IF n > 0 THEN n ELSE 0
Delta(old, new) == (IF new \in Counted THEN 1 ELSE 0)
                   - (IF old \in Counted THEN 1 ELSE 0)

-----------------------------------------------------------------------------
(* Locks.  A row is locked from the UPDATE that touches it to the end of   *)
(* the transaction; so is a key of the partial unique index (event, user)  *)
(* that an uncommitted insert adds or an uncommitted delete removes.       *)

EventFree(w) == evLock \in {Nobody, w}
RowFree(w, r) == \A v \in Workers \ {w} : r \notin txn[v].locks
KeysTouched(v) ==
    IF txn[v].pc = "insert_count" THEN txn[v].who
    ELSE IF txn[v].pc \in {"cancel_count", "cancel_promote"}
         THEN {reg[txn[v].row].user} ELSE {}

\* Mutant: a check in the handlers instead of the unique index.
NoUniqueIndex(w) == TRUE

KeysFree(w) == \A v \in Workers \ {w} : KeysTouched(v) \cap txn[w].who = {}

Release(w) == evLock' = IF evLock = w THEN Nobody ELSE evLock
End(w) == txn' = [txn EXCEPT ![w] = Idle] /\ Release(w)

\* Mutant: the error path forgets to end the request.
RollbackLeavesOpen(w) == UNCHANGED vars

\* A statement fails, the connection is lost or the process dies: the
\* transaction is rolled back.  Statements committed before it stay.
Rollback(w) == End(w) /\ UNCHANGED <<event, reg, used, clock>>

Begin(w, t) ==
    /\ txn[w].pc = "idle"
    /\ txn' = [txn EXCEPT ![w] = t]

\* Bound: the rows in the table and those asked for stay within MaxRows.
RoomFor(n) ==
    used + Cardinality({p \in Workers \X Users : p[2] \in txn[p[1]].who}) + n <= MaxRows

\* BEGIN of a transaction that will insert: its now() is registered_at.
BeginInsert(w, t) ==
    /\ RoomFor(Cardinality(t.who)) /\ clock < MaxClock
    /\ Begin(w, [t EXCEPT !.at = clock + 1])
    /\ clock' = clock + 1
    /\ UNCHANGED <<event, evLock, reg, used>>

Goto(w, label) == txn' = [txn EXCEPT ![w].pc = label]

\* The rows of txn[w] become visible: one per user in who, in any order.
InsertRows(w, at) ==
    LET n == Cardinality(txn[w].who)
    IN  /\ used + n <= MaxRows
        /\ \E f \in [used + 1 .. used + n -> txn[w].who] :
              /\ \A r, q \in used + 1 .. used + n : f[r] = f[q] => r = q
              /\ reg' = [r \in RowId |->
                           IF r \in used + 1 .. used + n
                           THEN [user |-> f[r], status |-> txn[w].as,
                                 deleted |-> FALSE, at |-> at,
                                 cxl |-> "none"]
                           ELSE reg[r]]
        /\ used' = used + n

-----------------------------------------------------------------------------
(* POST /:slug/register on a free event.                                   *)

RegisterRead(w, u) ==
    /\ "register" \in Kinds
    /\ open /\ ~HasActive(u)
    /\ BeginInsert(w, [Idle EXCEPT !.pc = "reg_lock", !.who = {u}])

\* Mutant: the same SELECT without FOR UPDATE.
RegisterLockPlainSelect(w) ==
    /\ txn[w].pc = "reg_lock"
    /\ txn' = [txn EXCEPT ![w].pc = "reg_insert",
                          ![w].as = IF Full THEN "waitlisted" ELSE "registered"]
    /\ UNCHANGED <<event, evLock, reg, used, clock>>

\* SELECT ... FOR UPDATE on the event row decides between seat and waitlist.
RegisterLock(w) ==
    /\ txn[w].pc = "reg_lock"
    /\ EventFree(w)
    /\ evLock' = w
    /\ txn' = [txn EXCEPT ![w].pc = "reg_insert",
                          ![w].as = IF Full THEN "waitlisted" ELSE "registered"]
    /\ UNCHANGED <<event, reg, used, clock>>

RegisterInsert(w) ==
    /\ txn[w].pc = "reg_insert"
    /\ KeysFree(w)
    /\ IF \E u \in txn[w].who : HasActive(u)
       THEN Rollback(w)
       ELSE LET n == count + Delta("none", txn[w].as)
            IN  IF FitsCapacity(n)
                THEN /\ InsertRows(w, txn[w].at) /\ End(w)
                     /\ count' = n
                     /\ UNCHANGED <<capacity, open, clock>>
                ELSE Rollback(w)

-----------------------------------------------------------------------------
(* POST /:slug/waitlist: no transaction, no look at the free seats.        *)

WaitlistRead(w, u) ==
    /\ "waitlist" \in Kinds
    /\ open /\ ~HasActive(u)
    /\ RoomFor(1)
    /\ Begin(w, [Idle EXCEPT !.pc = "wl_insert", !.who = {u}, !.as = "waitlisted"])
    /\ UNCHANGED <<event, evLock, reg, used, clock>>

WaitlistInsert(w) ==
    /\ txn[w].pc = "wl_insert"
    /\ KeysFree(w)
    /\ IF \E u \in txn[w].who : HasActive(u)
       THEN Rollback(w)
       ELSE /\ InsertRows(w, clock + 1) /\ End(w)
            /\ clock' = clock + 1
            /\ UNCHANGED event

-----------------------------------------------------------------------------
(* POST /api/admin/registrations, and the seats confirmPaymentAndFulfil    *)
(* creates: capacity is read without a lock, rows are inserted, the        *)
(* counter is moved by a relative UPDATE under the CHECK constraint.       *)

EnrollRead(w, u, s) ==
    /\ "enroll" \in Kinds
    /\ ~(Full /\ s = "registered")
    /\ ~HasActive(u)
    /\ BeginInsert(w, [Idle EXCEPT !.pc = "insert", !.who = {u}, !.as = s])

\* A batch that does not fit as a whole is waitlisted as a whole.
FulfilRead(w, G) ==
    LET new == {u \in G : ~HasActive(u)}
    IN  /\ "fulfil" \in Kinds
        /\ new # {}
        /\ BeginInsert(w, [Idle EXCEPT !.pc = "insert", !.who = new,
                           !.as = IF FitsCapacity(count + Cardinality(new))
                                  THEN "registered" ELSE "waitlisted"])

Insert(w) ==
    /\ txn[w].pc = "insert"
    /\ KeysFree(w)
    /\ IF \E u \in txn[w].who : HasActive(u)
       THEN Rollback(w)
       ELSE IF txn[w].as \in Counted
            THEN Goto(w, "insert_count") /\ UNCHANGED <<event, evLock, reg, used, clock>>
            ELSE InsertRows(w, txn[w].at) /\ End(w) /\ UNCHANGED <<event, clock>>

InsertCount(w) ==
    LET n == count + Cardinality(txn[w].who)
    IN  /\ txn[w].pc = "insert_count"
        /\ EventFree(w)
        /\ IF FitsCapacity(n)
           THEN /\ InsertRows(w, txn[w].at) /\ End(w)
                /\ count' = n
                /\ UNCHANGED <<capacity, open, clock>>
           ELSE Rollback(w)

-----------------------------------------------------------------------------
(* Cancellation requests: filed by the member, decided by an administrator.*)
(* Each stamp is a statement of its own, WHERE id = ... and nothing else.  *)

RequestRead(w, r) ==
    /\ "request" \in Kinds
    /\ Active(r)
    /\ reg[r].status \notin {"attended", "cancelled"}
    /\ reg[r].cxl # "pending"
    /\ Begin(w, [Idle EXCEPT !.pc = "req_stamp", !.row = r])
    /\ UNCHANGED <<event, evLock, reg, used, clock>>

\* Pre-flight of approve-cancellation and of reject-cancellation.
DecideRead(w, r) ==
    /\ Exists(r)
    /\ reg[r].cxl = "pending"
    /\ \/ "approve" \in Kinds /\ Begin(w, [Idle EXCEPT !.pc = "approve_stamp", !.row = r])
       \/ "reject" \in Kinds /\ Begin(w, [Idle EXCEPT !.pc = "rej_stamp", !.row = r])
    /\ UNCHANGED <<event, evLock, reg, used, clock>>

Stamp(w, label, decision) ==
    /\ txn[w].pc = label
    /\ RowFree(w, txn[w].row)
    /\ reg' = [reg EXCEPT ![txn[w].row].cxl = decision]
    /\ UNCHANGED <<event, used, clock>>

RequestStamp(w) == Stamp(w, "req_stamp", "pending") /\ End(w)
RejectStamp(w) == Stamp(w, "rej_stamp", "rejected") /\ End(w)
ApproveStamp(w) ==
    /\ Stamp(w, "approve_stamp", "approved")
    /\ Goto(w, "cancel_read")
    /\ UNCHANGED evLock

-----------------------------------------------------------------------------
(* performRegistrationCancellation.                                        *)

CancelRead(w) ==
    LET r == txn[w].row
    IN  /\ txn[w].pc = "cancel_read"
        /\ IF Active(r) /\ reg[r].status \notin {"cancelled", "attended"}
           THEN txn' = [txn EXCEPT ![w].pc = "cancel_row", ![w].seen = reg[r].status]
           ELSE txn' = [txn EXCEPT ![w] = Idle]
        /\ UNCHANGED <<event, evLock, reg, used, clock>>

\* UPDATE ... SET status = 'cancelled', deleted_at = now() WHERE id = r.
Cancelled(r) == [reg[r] EXCEPT !.status = "cancelled", !.deleted = TRUE]

\* Mutant: wasConfirmed dropped, every cancellation frees a seat.
CancelRowAlwaysConfirmed(w) ==
    /\ txn[w].pc = "cancel_row"
    /\ RowFree(w, txn[w].row)
    /\ txn' = [txn EXCEPT ![w].pc = "cancel_count", ![w].locks = {txn[w].row}]
    /\ UNCHANGED <<event, evLock, reg, used, clock>>

CancelRow(w) ==
    LET r == txn[w].row
    IN  /\ txn[w].pc = "cancel_row"
        /\ RowFree(w, r)
        /\ IF txn[w].seen = "registered"
           THEN /\ txn' = [txn EXCEPT ![w].pc = "cancel_count", ![w].locks = {r}]
                /\ UNCHANGED <<evLock, reg>>
           ELSE /\ reg' = [reg EXCEPT ![r] = Cancelled(r)]
                /\ End(w)
        /\ UNCHANGED <<event, used, clock>>

\* Mutant: the event row is not locked while a waitlisted row is looked up.
CancelCountUnlocked(w) ==
    LET r == txn[w].row
        queue == Waiting \ {r}
    IN  /\ txn[w].pc = "cancel_count"
        /\ EventFree(w)
        /\ \/ /\ queue = {}
              /\ reg' = [reg EXCEPT ![r] = Cancelled(r)]
              /\ count' = Max0(count - 1)
              /\ End(w)
           \/ /\ \E q \in Oldest(queue) :
                    txn' = [txn EXCEPT ![w].pc = "cancel_promote", ![w].next = q,
                                       ![w].cnt = Max0(count - 1)]
              /\ UNCHANGED <<evLock, count, reg>>
        /\ UNCHANGED <<capacity, open, used, clock>>

\* GREATEST(registered_count - 1, 0), then the oldest waitlisted row.
CancelCount(w) ==
    LET r == txn[w].row
        n == Max0(count - 1)
        queue == Waiting \ {r}
    IN  /\ txn[w].pc = "cancel_count"
        /\ EventFree(w)
        /\ \/ /\ queue = {}
              /\ reg' = [reg EXCEPT ![r] = Cancelled(r)]
              /\ count' = n
              /\ End(w)
           \/ /\ \E q \in Oldest(queue) :
                    txn' = [txn EXCEPT ![w].pc = "cancel_promote", ![w].cnt = n,
                                       ![w].next = q]
              /\ evLock' = w
              /\ UNCHANGED <<count, reg>>
        /\ UNCHANGED <<capacity, open, used, clock>>

CancelPromote(w) ==
    LET r == txn[w].row
        q == txn[w].next
    IN  /\ txn[w].pc = "cancel_promote"
        /\ RowFree(w, q)
        /\ IF FitsCapacity(txn[w].cnt + 1)
           THEN /\ reg' = [reg EXCEPT ![r] = Cancelled(r), ![q].status = "registered"]
                /\ count' = txn[w].cnt + 1
                /\ End(w)
                /\ UNCHANGED <<capacity, open, used, clock>>
           ELSE Rollback(w)

-----------------------------------------------------------------------------
(* PATCH /api/admin/registrations/:id.                                     *)

PatchRead(w, r, s) ==
    /\ "patch" \in Kinds
    /\ Active(r) /\ reg[r].status # s
    /\ Begin(w, [Idle EXCEPT !.pc = "patch_row", !.row = r, !.as = s,
                             !.seen = reg[r].status])
    /\ UNCHANGED <<event, evLock, reg, used, clock>>

PatchRow(w) ==
    LET r == txn[w].row
    IN  /\ txn[w].pc = "patch_row"
        /\ RowFree(w, r)
        /\ IF Delta(txn[w].seen, txn[w].as) = 0
           THEN reg' = [reg EXCEPT ![r].status = txn[w].as] /\ End(w)
           ELSE /\ txn' = [txn EXCEPT ![w].pc = "patch_count", ![w].locks = {r}]
                /\ UNCHANGED <<evLock, reg>>
        /\ UNCHANGED <<event, used, clock>>

PatchCount(w) ==
    LET n == Max0(count + Delta(txn[w].seen, txn[w].as))
    IN  /\ txn[w].pc = "patch_count"
        /\ EventFree(w)
        /\ IF FitsCapacity(n)
           THEN /\ reg' = [reg EXCEPT ![txn[w].row].status = txn[w].as]
                /\ count' = n
                /\ End(w)
                /\ UNCHANGED <<capacity, open, used, clock>>
           ELSE Rollback(w)

-----------------------------------------------------------------------------
(* POST /api/admin/registrations/bulk-attended: one transaction, a loop of *)
(* updates over the rows as they were read at its start.                   *)

BulkRead(w, R) ==
    LET regd == {r \in R : Active(r) /\ reg[r].status = "registered"}
        wait == {r \in R : Active(r) /\ reg[r].status = "waitlisted"}
    IN  /\ "bulk" \in Kinds
        /\ regd \cup wait # {}
        /\ Begin(w, [Idle EXCEPT !.pc = "bulk_row", !.regd = regd,
                        !.wait = wait, !.todo = regd \cup wait])
        /\ UNCHANGED <<event, evLock, reg, used, clock>>

BulkRow(w) ==
    /\ txn[w].pc = "bulk_row"
    /\ \E r \in txn[w].todo :
          /\ RowFree(w, r)
          /\ txn' = [txn EXCEPT ![w].locks = @ \cup {r}, ![w].todo = @ \ {r},
                        ![w].pc = IF r \in txn[w].wait THEN "bulk_count" ELSE "bulk_row"]
    /\ UNCHANGED <<event, evLock, reg, used, clock>>

\* registered_count + 1 for a waitlisted target; the lock is then kept.
BulkCount(w) ==
    /\ txn[w].pc = "bulk_count"
    /\ EventFree(w)
    /\ IF FitsCapacity(count + Cardinality(txn[w].wait \ txn[w].todo))
       THEN /\ Goto(w, "bulk_row") /\ evLock' = w
            /\ UNCHANGED <<event, reg, used, clock>>
       ELSE Rollback(w)

\* Mutant: every row marked attended is counted as a new seat.
BulkCommitCountsAll(w) ==
    /\ txn[w].pc = "bulk_row" /\ txn[w].todo = {}
    /\ reg' = [r \in RowId |-> IF r \in txn[w].regd \cup txn[w].wait
                               THEN [reg[r] EXCEPT !.status = "attended"] ELSE reg[r]]
    /\ count' = count + Cardinality(txn[w].regd \cup txn[w].wait)
    /\ End(w)
    /\ UNCHANGED <<capacity, open, used, clock>>

BulkCommit(w) ==
    /\ txn[w].pc = "bulk_row" /\ txn[w].todo = {}
    /\ reg' = [r \in RowId |-> IF r \in txn[w].regd \cup txn[w].wait
                               THEN [reg[r] EXCEPT !.status = "attended"] ELSE reg[r]]
    /\ count' = count + Cardinality(txn[w].wait)
    /\ End(w)
    /\ UNCHANGED <<capacity, open, used, clock>>

-----------------------------------------------------------------------------
(* PATCH /api/admin/events/:id with a capacity; POST /:id/cancel and the   *)
(* start of the event, both of which only stop new self-registrations.     *)

\* Mutant: the new capacity does not wait for the row's lock.
EditCapacityUnlocked(c) ==
    /\ "edit" \in Kinds
    /\ c = Unlimited \/ count <= c
    /\ capacity' = c
    /\ UNCHANGED <<count, open, evLock, reg, used, clock, txn>>

EditCapacity(c) ==
    /\ "edit" \in Kinds
    /\ evLock = Nobody
    /\ c = Unlimited \/ count <= c
    /\ capacity' = c
    /\ UNCHANGED <<count, open, evLock, reg, used, clock, txn>>

CloseEvent ==
    /\ "edit" \in Kinds
    /\ open /\ evLock = Nobody
    /\ open' = FALSE
    /\ UNCHANGED <<capacity, count, evLock, reg, used, clock, txn>>

-----------------------------------------------------------------------------
Init ==
    /\ capacity \in Capacities
    /\ count = 0
    /\ open = TRUE
    /\ evLock = Nobody
    /\ reg = [r \in RowId |-> NoRow]
    /\ used = 0
    /\ clock = 0
    /\ txn = [w \in Workers |-> Idle]

Arrive(w) ==
    \/ \E u \in Users : RegisterRead(w, u) \/ WaitlistRead(w, u)
    \/ \E u \in Users, s \in PatchTo : EnrollRead(w, u, s)
    \/ \E G \in Groups : FulfilRead(w, G)
    \/ \E r \in RowId : RequestRead(w, r) \/ DecideRead(w, r)
    \/ \E r \in RowId, s \in PatchTo : PatchRead(w, r, s)
    \/ \E R \in SUBSET RowId : BulkRead(w, R)

Statement(w) ==
    \/ RegisterLock(w) \/ RegisterInsert(w)
    \/ WaitlistInsert(w)
    \/ Insert(w) \/ InsertCount(w)
    \/ RequestStamp(w) \/ ApproveStamp(w) \/ RejectStamp(w)
    \/ CancelRead(w) \/ CancelRow(w) \/ CancelCount(w) \/ CancelPromote(w)
    \/ PatchRow(w) \/ PatchCount(w)
    \/ BulkRow(w) \/ BulkCount(w) \/ BulkCommit(w)

Abort(w) == txn[w].pc # "idle" /\ Rollback(w)

Next ==
    \/ \E w \in Workers : Arrive(w) \/ Statement(w) \/ Abort(w)
    \/ \E c \in Capacities : EditCapacity(c)
    \/ CloseEvent

Spec == Init /\ [][Next]_vars

\* statement_timeout and the deadlock detector end a statement that waits.
Timeout(w) == ~ENABLED Statement(w) /\ Abort(w)

\* Postgres and Node keep executing what a worker has begun.
Fairness == \A w \in Workers : WF_vars(Statement(w) \/ Timeout(w))

FairSpec == Spec /\ Fairness

-----------------------------------------------------------------------------
(* What a row must still be when a transaction writes it, for the write to *)
(* mean what the handler computed from its earlier read.                   *)
Still(r, status) == Active(r) /\ reg[r].status = status

Stale(w) ==
    LET t == txn[w]
    IN  \/ /\ t.pc \in {"cancel_row", "cancel_count", "cancel_promote",
                        "patch_row", "patch_count"}
           /\ ~Still(t.row, t.seen)
        \/ t.pc = "cancel_promote" /\ t.next \notin Waiting
        \/ /\ t.pc = "bulk_row"
           /\ \/ \E r \in t.regd : ~Still(r, "registered")
              \/ \E r \in t.wait : ~Still(r, "waitlisted")

CountAgrees == count = Cardinality(Seated)

\* registered_count leaves the rows it counts only in a commit that overwrites
\* a row changed since the handler read it: every other step of every handler,
\* in any interleaving, under clamps and the CHECK constraint, keeps them equal.
OnlyStaleWritesBreakCount ==
    [][ CountAgrees /\ (\A w \in Workers : txn'[w].pc = "idle" => ~Stale(w))
        => CountAgrees' ]_vars

\* FOR UPDATE in /register: from the capacity check to the insert nobody else
\* moves the counter or the capacity, so the seat or waitlist decision is still
\* the right one when the row is written.
SeatDecisionHolds ==
    \A w \in Workers : txn[w].pc = "reg_insert" =>
        evLock = w /\ (txn[w].as = "waitlisted" <=> Full)

\* A promotion is still due when it is written: the seat counted free by the
\* cancellation cannot have been taken by another handler in between.
PromotionKeepsSeat ==
    \A w \in Workers : txn[w].pc = "cancel_promote" =>
        evLock = w /\ txn[w].cnt = Max0(count - 1)

\* A member never has two live registrations of the event, whichever of the
\* handlers that insert rows race (a group payment, an administrator, the member).
OneActivePerUser ==
    \A r, q \in RowId : Active(r) /\ Active(q) /\ reg[r].user = reg[q].user => r = q

\* A registration is cancelled once: approving "a registration that was already
\* cancelled" is rejected (approve-cancellation's pre-flight says so).
CancelledOnce ==
    [][\A w \in Workers :
          /\ txn[w].pc \in {"cancel_row", "cancel_count", "cancel_promote"}
          /\ <<reg, count>>' # <<reg, count>> /\ txn'[w].pc = "idle"
          => ~reg[txn[w].row].deleted]_vars

SeatIdle == Waiting # {} /\ ~Full

\* "the user gets in if a seat opens up": no registration and no cancellation
\* leaves a free seat and somebody waiting for it. (The desk's edits and
\* POST /waitlist, which never looks at the free seats, may.)
NoIdleSeat ==
    [][ /\ CountAgrees /\ ~SeatIdle
        /\ \E w \in Workers :
              /\ txn[w].pc \in {"reg_insert", "approve_stamp", "rej_stamp", "cancel_row",
                                "cancel_count", "cancel_promote"}
              /\ txn'[w] # txn[w]
        => ~(CountAgrees /\ SeatIdle)' ]_vars

\* Every request ends, whatever locks the others hold.
EveryRequestEnds ==
    \A w \in Workers : txn[w].pc # "idle" ~> txn[w].pc = "idle"
=============================================================================
