------------------------- MODULE EventSeats_proofs -------------------------
(* Theorems about EventSeats, for every number of members, rows, workers   *)
(* and every mix of handlers.                                              *)
EXTENDS EventSeats, FiniteSetTheorems, TLAPS

USE SeatsAssumption DEF SeatsAssumption

-----------------------------------------------------------------------------
(* The inductive invariant.                                                *)

NamesRow == {"req_stamp", "approve_stamp", "rej_stamp", "cancel_read", "cancel_row",
             "cancel_count", "cancel_promote", "patch_row", "patch_count"}

\* What a request's locals are worth at each point of its program.
LocalOK(t, n) ==
    /\ t.pc \in NamesRow => t.row \in 1 .. n
    /\ t.pc \in {"patch_row", "patch_count", "insert", "insert_count"} => t.as # "none"
    /\ t.pc \in {"reg_lock", "reg_insert"} => Cardinality(t.who) = 1
    /\ t.pc = "reg_insert" => t.as \in {"registered", "waitlisted"}
    /\ t.pc = "wl_insert" => t.as = "waitlisted"
    /\ t.pc = "insert_count" => t.as \in Counted
    /\ t.pc = "cancel_row" => t.seen \notin {"cancelled", "attended"}
    /\ t.pc \in {"cancel_count", "cancel_promote"} => t.seen = "registered"
    /\ t.pc = "cancel_promote" => t.next \in (1 .. n) \ {t.row}
    /\ t.pc \in {"bulk_row", "bulk_count"} =>
         /\ t.regd \cup t.wait \subseteq 1 .. n
         /\ t.regd \cap t.wait = {}

LocalsOK == \A w \in Workers : LocalOK(txn[w], used)

\* Rows are inserted in order of their ids.
FreshRows == \A r \in RowId : Exists(r) <=> r <= used

\* A bulk request that has counted a waitlisted target holds the event row.
BulkHoldsEvent ==
    \A w \in Workers :
        txn[w].pc = "bulk_row" /\ txn[w].wait \ txn[w].todo # {} => evLock = w

\* Keys of an uncommitted insert: nobody holds them, and no other insert has them.
KeysHeld ==
    /\ \A w \in Workers : txn[w].pc = "insert_count" =>
           \A u \in txn[w].who : ~HasActive(u)
    /\ \A v, w \in Workers :
           v # w /\ txn[v].pc = "insert_count" /\ txn[w].pc = "insert_count"
           => txn[v].who \cap txn[w].who = {}

IInv ==
    /\ TypeOK
    /\ LocalsOK
    /\ FreshRows
    /\ SeatDecisionHolds
    /\ PromotionKeepsSeat
    /\ BulkHoldsEvent
    /\ KeysHeld
    /\ OneActivePerUser

-----------------------------------------------------------------------------
(* Facts about the parts.                                                  *)

LEMMA FiniteParts ==
    /\ \A S \in SUBSET Users : IsFiniteSet(S) /\ Cardinality(S) \in Nat
    /\ \A S \in SUBSET RowId : IsFiniteSet(S) /\ Cardinality(S) \in Nat
<1>1. IsFiniteSet(RowId)
  BY FS_Interval DEF RowId
<1> QED
  BY <1>1, FS_Subset, FS_CardinalityType

LEMMA IdleTyped == Idle \in Txn
BY DEF Idle, Txn, PCs

\* Ending a request keeps the transactions and the lock well typed.
LEMMA EndTyped ==
    ASSUME TypeOK, NEW w \in Workers, End(w)
    PROVE  txn' \in [Workers -> Txn] /\ evLock' \in Workers \cup {Nobody}
BY IdleTyped DEF TypeOK, End, Release

LEMMA RollbackTyped ==
    ASSUME TypeOK, NEW w \in Workers, Rollback(w)
    PROVE  TypeOK'
BY EndTyped DEF TypeOK, Rollback, event

LEMMA BeginTyped ==
    ASSUME TypeOK, NEW w \in Workers, NEW t \in Txn, Begin(w, t)
    PROVE  txn' \in [Workers -> Txn]
BY DEF TypeOK, Begin

\* The rows an insert adds are well typed and fit the table.
LEMMA InsertRowsTyped ==
    ASSUME TypeOK, NEW w \in Workers, NEW at \in Nat, InsertRows(w, at)
    PROVE  reg' \in [RowId -> Row] /\ used' \in 0 .. MaxRows
<1> DEFINE n == Cardinality(txn[w].who)
<1>1. n \in Nat /\ txn[w].who \subseteq Users
  BY FiniteParts DEF TypeOK, Txn
<1>2. used' \in 0 .. MaxRows
  BY <1>1 DEF TypeOK, InsertRows
<1>3. PICK f \in [used + 1 .. used + n -> txn[w].who] :
          reg' = [r \in RowId |->
                    IF r \in used + 1 .. used + n
                    THEN [user |-> f[r], status |-> txn[w].as, deleted |-> FALSE,
                          at |-> at, cxl |-> "none"]
                    ELSE reg[r]]
  BY DEF InsertRows
<1>4. txn[w].as \in Statuses \cup {"none"}
  BY DEF TypeOK, Txn
<1>5. \A r \in RowId : reg'[r] \in Row
  <2> HIDE DEF n
  <2> TAKE r \in RowId
  <2>1. CASE r \in used + 1 .. used + n
    BY <1>1, <1>3, <1>4, <2>1 DEF Row
  <2>2. CASE r \notin used + 1 .. used + n
    BY <1>3, <2>2 DEF TypeOK
  <2> QED
    BY <2>1, <2>2
<1>6. reg' \in [RowId -> Row]
  BY <1>3, <1>5
<1> QED
  BY <1>2, <1>6

LEMMA MaxTyped == \A i \in Int : Max0(i) \in Nat /\ Max0(i) >= i
BY DEF Max0

LEMMA DeltaTyped == \A a, b : Delta(a, b) \in -1 .. 1 /\ Delta("none", b) \in 0 .. 1
BY DEF Delta, Counted

-----------------------------------------------------------------------------
(* Type correctness.                                                       *)

\* A worker's locals change one request at a time.
LEMMA GotoTyped ==
    ASSUME TypeOK, NEW w \in Workers, NEW label \in PCs
    PROVE  [txn EXCEPT ![w].pc = label] \in [Workers -> Txn]
<1>1. txn \in [Workers -> Txn]
  BY DEF TypeOK
<1>2. [txn[w] EXCEPT !.pc = label] \in Txn
  BY <1>1 DEF Txn
<1> QED
  BY <1>1, <1>2

LEMMA UpdateTyped ==
    ASSUME TypeOK, NEW w \in Workers, NEW t \in Txn
    PROVE  [txn EXCEPT ![w] = t] \in [Workers -> Txn]
BY DEF TypeOK

\* The row a cancellation writes.
LEMMA CancelledTyped ==
    ASSUME TypeOK, NEW r \in RowId
    PROVE  /\ Cancelled(r) \in Row
           /\ [reg EXCEPT ![r] = Cancelled(r)] \in [RowId -> Row]
           /\ \A q \in RowId : [reg EXCEPT ![r] = Cancelled(r), ![q].status = "registered"]
                                 \in [RowId -> Row]
<1>1. reg \in [RowId -> Row]
  BY DEF TypeOK
<1>2. Cancelled(r) \in Row
  <2>1. reg[r] \in Row
    BY <1>1
  <2>2. \A x \in Row : [x EXCEPT !.status = "cancelled", !.deleted = TRUE] \in Row
    BY DEF Row, Statuses
  <2> QED
    BY <2>1, <2>2 DEF Cancelled
<1>3. \A x \in Row : [x EXCEPT !.status = "registered"] \in Row
  BY DEF Row, Statuses
<1> HIDE DEF Cancelled
<1>4. [reg EXCEPT ![r] = Cancelled(r)] \in [RowId -> Row]
  BY <1>1, <1>2
<1>5. ASSUME NEW q \in RowId
      PROVE  [reg EXCEPT ![r] = Cancelled(r), ![q].status = "registered"] \in [RowId -> Row]
  <2> DEFINE reg2 == [reg EXCEPT ![r] = Cancelled(r)]
  <2>1. [reg EXCEPT ![r] = Cancelled(r), ![q].status = "registered"]
          = [reg2 EXCEPT ![q] = [reg2[q] EXCEPT !.status = "registered"]]
    OBVIOUS
  <2>2. reg2 \in [RowId -> Row] /\ [reg2[q] EXCEPT !.status = "registered"] \in Row
    BY <1>3, <1>4
  <2> QED
    BY <2>1, <2>2
<1> QED
  BY <1>2, <1>4, <1>5

LEMMA ArriveTyped ==
    ASSUME TypeOK, NEW w \in Workers, Arrive(w)
    PROVE  TypeOK'
<1> USE DEF event
<1>0. clock + 1 \in Nat /\ \A r \in RowId : reg[r].status \in Statuses \cup {"none"}
  BY DEF TypeOK, Row
<1>1. ASSUME NEW u \in Users, RegisterRead(w, u) PROVE TypeOK'
  <2>1. [Idle EXCEPT !.pc = "reg_lock", !.who = {u}, !.at = clock + 1] \in Txn
    BY <1>0 DEF Idle, Txn, PCs
  <2> QED
    BY <1>1, <2>1, BeginTyped DEF RegisterRead, BeginInsert, TypeOK
<1>2. ASSUME NEW u \in Users, WaitlistRead(w, u) PROVE TypeOK'
  <2>1. [Idle EXCEPT !.pc = "wl_insert", !.who = {u}, !.as = "waitlisted"] \in Txn
    BY DEF Idle, Txn, PCs, Statuses
  <2> QED
    BY <1>2, <2>1, BeginTyped DEF WaitlistRead, TypeOK
<1>3. ASSUME NEW u \in Users, NEW s \in PatchTo, EnrollRead(w, u, s) PROVE TypeOK'
  <2>1. [Idle EXCEPT !.pc = "insert", !.who = {u}, !.as = s, !.at = clock + 1] \in Txn
    BY <1>0 DEF Idle, Txn, PCs
  <2> QED
    BY <1>3, <2>1, BeginTyped DEF EnrollRead, BeginInsert, TypeOK
<1>4. ASSUME NEW G \in Groups, FulfilRead(w, G) PROVE TypeOK'
  <2> DEFINE new == {u \in G : ~HasActive(u)}
             as == IF FitsCapacity(count + Cardinality(new))
                   THEN "registered" ELSE "waitlisted"
  <2>1. [Idle EXCEPT !.pc = "insert", !.who = new, !.as = as, !.at = clock + 1] \in Txn
    <3>1. new \subseteq Users
      OBVIOUS
    <3>2. as \in Statuses
      BY DEF Statuses
    <3> HIDE DEF new, as
    <3> QED
      BY <1>0, <3>1, <3>2 DEF Idle, Txn, PCs
  <2> QED
    BY <1>4, <2>1, BeginTyped DEF FulfilRead, BeginInsert, TypeOK
<1>5. ASSUME NEW r \in RowId, RequestRead(w, r) PROVE TypeOK'
  <2>1. [Idle EXCEPT !.pc = "req_stamp", !.row = r] \in Txn
    BY DEF Idle, Txn, PCs
  <2> QED
    BY <1>5, <2>1, BeginTyped DEF RequestRead, TypeOK
<1>6. ASSUME NEW r \in RowId, DecideRead(w, r) PROVE TypeOK'
  <2>1. /\ [Idle EXCEPT !.pc = "approve_stamp", !.row = r] \in Txn
        /\ [Idle EXCEPT !.pc = "rej_stamp", !.row = r] \in Txn
    BY DEF Idle, Txn, PCs
  <2> QED
    BY <1>6, <2>1, BeginTyped DEF DecideRead, TypeOK
<1>7. ASSUME NEW r \in RowId, NEW s \in PatchTo, PatchRead(w, r, s) PROVE TypeOK'
  <2>1. [Idle EXCEPT !.pc = "patch_row", !.row = r, !.as = s,
                     !.seen = reg[r].status] \in Txn
    BY <1>0 DEF Idle, Txn, PCs
  <2> QED
    BY <1>7, <2>1, BeginTyped DEF PatchRead, TypeOK
<1>8. ASSUME NEW R \in SUBSET RowId, BulkRead(w, R) PROVE TypeOK'
  <2> DEFINE regd == {r \in R : Active(r) /\ reg[r].status = "registered"}
             wait == {r \in R : Active(r) /\ reg[r].status = "waitlisted"}
  <2>1. [Idle EXCEPT !.pc = "bulk_row", !.regd = regd, !.wait = wait,
                     !.todo = regd \cup wait] \in Txn
    BY DEF Idle, Txn, PCs
  <2> QED
    BY <1>8, <2>1, BeginTyped DEF BulkRead, TypeOK
<1> QED
  BY <1>1, <1>2, <1>3, <1>4, <1>5, <1>6, <1>7, <1>8 DEF Arrive

LEMMA CountTyped ==
    ASSUME TypeOK, NEW w \in Workers
    PROVE  /\ count + Cardinality(txn[w].who) \in Nat
           /\ count + Delta("none", txn[w].as) \in Nat
           /\ count + Cardinality(txn[w].wait) \in Nat
           /\ Max0(count - 1) \in Nat
           /\ Max0(count + Delta(txn[w].seen, txn[w].as)) \in Nat
BY FiniteParts, MaxTyped, DeltaTyped DEF TypeOK, Txn

LEMMA StatementTyped ==
    ASSUME TypeOK, LocalsOK, NEW w \in Workers, Statement(w)
    PROVE  TypeOK'
<1> USE CountTyped DEF event
<1>0. txn[w] \in Txn /\ clock + 1 \in Nat /\ LocalOK(txn[w], used)
  BY DEF TypeOK, LocalsOK
<1>1. CASE RegisterLock(w)
  <2> DEFINE t == [txn[w] EXCEPT !.pc = "reg_insert",
                                 !.as = IF Full THEN "waitlisted" ELSE "registered"]
  <2>1. t \in Txn
    BY <1>0 DEF Txn, PCs, Statuses
  <2>2. txn' = [txn EXCEPT ![w] = t]
    BY <1>1 DEF RegisterLock, TypeOK
  <2> QED
    BY <1>1, <2>1, <2>2, UpdateTyped DEF RegisterLock, TypeOK
<1>2. CASE RegisterInsert(w)
  BY <1>0, <1>2, RollbackTyped, EndTyped, InsertRowsTyped DEF RegisterInsert, TypeOK, Txn
<1>3. CASE WaitlistInsert(w)
  BY <1>0, <1>3, RollbackTyped, EndTyped, InsertRowsTyped DEF WaitlistInsert, TypeOK
<1>4. CASE Insert(w)
  <2>1. [txn EXCEPT ![w].pc = "insert_count"] \in [Workers -> Txn]
    BY GotoTyped DEF PCs
  <2> QED
    BY <1>0, <1>4, <2>1, RollbackTyped, EndTyped, InsertRowsTyped DEF Insert, Goto, TypeOK, Txn
<1>5. CASE InsertCount(w)
  BY <1>0, <1>5, RollbackTyped, EndTyped, InsertRowsTyped DEF InsertCount, TypeOK, Txn
<1>6. CASE RequestStamp(w) \/ RejectStamp(w)
  <2>1. reg' \in [RowId -> Row]
    BY <1>6 DEF RequestStamp, RejectStamp, Stamp, TypeOK, Row
  <2> QED
    BY <1>6, <2>1, EndTyped DEF RequestStamp, RejectStamp, Stamp, TypeOK
<1>7. CASE ApproveStamp(w)
  <2>1. reg' \in [RowId -> Row]
    <3>1. reg' = [reg EXCEPT ![txn[w].row].cxl = "approved"]
      BY <1>7 DEF ApproveStamp, Stamp
    <3>2. \A x \in Row : [x EXCEPT !.cxl = "approved"] \in Row
      BY DEF Row
    <3> QED
      BY <3>1, <3>2 DEF TypeOK
  <2>2. txn' \in [Workers -> Txn]
    BY <1>7, GotoTyped DEF ApproveStamp, Goto, PCs
  <2> QED
    BY <1>7, <2>1, <2>2 DEF ApproveStamp, Stamp, TypeOK
<1>8. CASE CancelRead(w)
  <2>1. txn[w].row \in RowId
    BY <1>0, <1>8 DEF CancelRead, LocalOK, NamesRow, TypeOK, RowId
  <2>2. reg[txn[w].row].status \in Statuses \cup {"none"}
    BY <2>1 DEF TypeOK, Row
  <2> QED
    BY <1>8, <2>2, IdleTyped DEF CancelRead, TypeOK, Txn, PCs
<1>9. CASE CancelRow(w)
  <2>1. txn[w].row \in RowId
    BY <1>0, <1>9 DEF CancelRow, LocalOK, NamesRow, TypeOK, RowId
  <2>2. [reg EXCEPT ![txn[w].row] = Cancelled(txn[w].row)] \in [RowId -> Row]
    BY <2>1, CancelledTyped
  <2>3. CASE txn[w].seen = "registered"
    BY <1>9, <2>1, <2>3 DEF CancelRow, TypeOK, Txn, PCs
  <2> QED
    BY <1>9, <2>2, <2>3, EndTyped DEF CancelRow, TypeOK
<1>10. CASE CancelCount(w)
  <2>1. txn[w].row \in RowId
    BY <1>0, <1>10 DEF CancelCount, LocalOK, NamesRow, TypeOK, RowId
  <2>2. [reg EXCEPT ![txn[w].row] = Cancelled(txn[w].row)] \in [RowId -> Row]
    BY <2>1, CancelledTyped
  <2>3. ASSUME NEW q \in Oldest(Waiting \ {txn[w].row})
        PROVE  [txn EXCEPT ![w].pc = "cancel_promote", ![w].cnt = Max0(count - 1),
                           ![w].next = q] \in [Workers -> Txn]
    <3> DEFINE t == [txn[w] EXCEPT !.pc = "cancel_promote", !.cnt = Max0(count - 1),
                                   !.next = q]
    <3>1. q \in RowId
      BY DEF Oldest, Waiting
    <3>2. t \in Txn
      BY <1>0, <3>1 DEF Txn, PCs
    <3> QED
      BY <3>2, UpdateTyped DEF TypeOK
  <2>4. CASE Waiting \ {txn[w].row} = {} /\ End(w)
    BY <1>10, <2>2, <2>4, EndTyped DEF CancelCount, TypeOK
  <2>5. CASE /\ \E q \in Oldest(Waiting \ {txn[w].row}) :
                 txn' = [txn EXCEPT ![w].pc = "cancel_promote",
                                    ![w].cnt = Max0(count - 1), ![w].next = q]
            /\ evLock' = w /\ UNCHANGED <<count, reg>>
    <3>1. PICK q \in Oldest(Waiting \ {txn[w].row}) :
            txn' = [txn EXCEPT ![w].pc = "cancel_promote", ![w].cnt = Max0(count - 1),
                               ![w].next = q]
      BY <2>5
    <3> QED
      BY <1>10, <2>3, <2>5, <3>1 DEF CancelCount, TypeOK
  <2> QED
    BY <1>10, <2>4, <2>5 DEF CancelCount
<1>11. CASE CancelPromote(w)
  <2>1. txn[w].row \in RowId /\ txn[w].next \in RowId /\ txn[w].cnt + 1 \in Nat
    BY <1>0, <1>11 DEF CancelPromote, LocalOK, NamesRow, TypeOK, RowId, Txn
  <2>2. [reg EXCEPT ![txn[w].row] = Cancelled(txn[w].row),
                    ![txn[w].next].status = "registered"] \in [RowId -> Row]
    BY <2>1, CancelledTyped
  <2> QED
    BY <1>11, <2>1, <2>2, EndTyped, RollbackTyped DEF CancelPromote, TypeOK
<1>12. CASE PatchRow(w)
  <2>1. txn[w].row \in RowId /\ txn[w].as \in Statuses \cup {"none"}
    BY <1>0, <1>12 DEF PatchRow, LocalOK, NamesRow, TypeOK, RowId, Txn
  <2>2. [reg EXCEPT ![txn[w].row].status = txn[w].as] \in [RowId -> Row]
    BY <2>1 DEF TypeOK, Row
  <2>3. [txn EXCEPT ![w].pc = "patch_count", ![w].locks = {txn[w].row}] \in [Workers -> Txn]
    <3> DEFINE t == [txn[w] EXCEPT !.pc = "patch_count", !.locks = {txn[w].row}]
    <3>1. t \in Txn
      BY <1>0, <2>1 DEF Txn, PCs
    <3> QED
      BY <3>1, UpdateTyped DEF TypeOK
  <2> QED
    BY <1>12, <2>2, <2>3, EndTyped DEF PatchRow, TypeOK
<1>13. CASE PatchCount(w)
  <2>1. txn[w].row \in RowId /\ txn[w].as \in Statuses \cup {"none"}
    BY <1>0, <1>13 DEF PatchCount, LocalOK, NamesRow, TypeOK, RowId, Txn
  <2>2. [reg EXCEPT ![txn[w].row].status = txn[w].as] \in [RowId -> Row]
    BY <2>1 DEF TypeOK, Row
  <2> QED
    BY <1>13, <2>2, EndTyped, RollbackTyped DEF PatchCount, TypeOK
<1>14. CASE BulkRow(w)
  <2>1. PICK r \in txn[w].todo :
          txn' = [txn EXCEPT ![w].locks = @ \cup {r}, ![w].todo = @ \ {r},
                     ![w].pc = IF r \in txn[w].wait THEN "bulk_count" ELSE "bulk_row"]
    BY <1>14 DEF BulkRow
  <2>2. txn' \in [Workers -> Txn]
    BY <1>0, <2>1 DEF TypeOK, Txn, PCs
  <2> QED
    BY <1>14, <2>2 DEF BulkRow, TypeOK
<1>15. CASE BulkCount(w)
  BY <1>15, RollbackTyped DEF BulkCount, Goto, TypeOK, Txn, PCs
<1>16. CASE BulkCommit(w)
  <2>1. reg' \in [RowId -> Row]
    BY <1>16 DEF BulkCommit, TypeOK, Row, Statuses
  <2> QED
    BY <1>16, <2>1, EndTyped DEF BulkCommit, TypeOK
<1> QED
  BY <1>1, <1>2, <1>3, <1>4, <1>5, <1>6, <1>7, <1>8, <1>9, <1>10, <1>11, <1>12,
     <1>13, <1>14, <1>15, <1>16 DEF Statement

LEMMA TypeNext ==
    ASSUME TypeOK, LocalsOK, [Next]_vars
    PROVE  TypeOK'
<1>1. ASSUME NEW w \in Workers, Arrive(w) \/ Statement(w) \/ Abort(w) PROVE TypeOK'
  BY <1>1, ArriveTyped, StatementTyped, RollbackTyped DEF Abort
<1>2. ASSUME NEW c \in Capacities, EditCapacity(c) PROVE TypeOK'
  BY <1>2 DEF EditCapacity, TypeOK
<1>3. CASE CloseEvent
  BY <1>3 DEF CloseEvent, TypeOK
<1>4. CASE UNCHANGED vars
  BY <1>4 DEF vars, TypeOK
<1> QED
  BY <1>1, <1>2, <1>3, <1>4 DEF Next

-----------------------------------------------------------------------------
(* The event row's lock.                                                   *)

Step(w) == Arrive(w) \/ Statement(w) \/ Abort(w)

LEMMA EndFrame ==
    ASSUME TypeOK, NEW w \in Workers, End(w)
    PROVE  /\ txn' = [txn EXCEPT ![w] = Idle] /\ txn'[w] = Idle
           /\ evLock' # w
           /\ \A v \in Workers \ {w} : txn'[v] = txn[v] /\ (evLock = v => evLock' = v)
BY DEF TypeOK, End, Release

\* While one worker holds the event row no other moves the counter, the
\* capacity or the lock; and no worker touches another's locals.
LEMMA StepFrame ==
    ASSUME IInv, NEW w \in Workers, Step(w)
    PROVE  \A v \in Workers \ {w} :
               /\ txn'[v] = txn[v]
               /\ evLock = v => evLock' = v /\ UNCHANGED <<count, capacity>>
<1> USE DEF event
<1>0. /\ TypeOK /\ SeatDecisionHolds /\ PromotionKeepsSeat /\ BulkHoldsEvent
      /\ w # Nobody
  BY DEF IInv
<1>1. CASE Arrive(w)
  BY <1>0, <1>1 DEF Arrive, RegisterRead, WaitlistRead, EnrollRead, FulfilRead,
     RequestRead, DecideRead, PatchRead, BulkRead, BeginInsert, Begin, TypeOK
<1>2. CASE Abort(w)
  BY <1>0, <1>2, EndFrame DEF Abort, Rollback
<1>3. CASE RegisterLock(w)
  BY <1>0, <1>3 DEF RegisterLock, EventFree, TypeOK
<1>4. CASE RegisterInsert(w)
  BY <1>0, <1>4, EndFrame DEF RegisterInsert, Rollback, SeatDecisionHolds
<1>5. CASE WaitlistInsert(w) \/ RequestStamp(w) \/ RejectStamp(w)
  BY <1>0, <1>5, EndFrame DEF WaitlistInsert, RequestStamp, RejectStamp, Stamp, Rollback
<1>6. CASE Insert(w)
  BY <1>0, <1>6, EndFrame DEF Insert, Rollback, Goto, TypeOK
<1>7. CASE InsertCount(w)
  BY <1>0, <1>7, EndFrame DEF InsertCount, Rollback, EventFree
<1>8. CASE ApproveStamp(w) \/ CancelRead(w) \/ BulkRow(w)
  BY <1>0, <1>8 DEF ApproveStamp, Stamp, Goto, CancelRead, BulkRow, TypeOK
<1>9. CASE CancelRow(w)
  BY <1>0, <1>9, EndFrame DEF CancelRow, TypeOK
<1>10. CASE CancelCount(w)
  BY <1>0, <1>10, EndFrame DEF CancelCount, EventFree, TypeOK
<1>11. CASE CancelPromote(w)
  BY <1>0, <1>11, EndFrame DEF CancelPromote, Rollback, PromotionKeepsSeat
<1>12. CASE PatchRow(w)
  BY <1>0, <1>12, EndFrame DEF PatchRow, TypeOK
<1>13. CASE PatchCount(w)
  BY <1>0, <1>13, EndFrame DEF PatchCount, Rollback, EventFree
<1>14. CASE BulkCount(w)
  BY <1>0, <1>14, EndFrame DEF BulkCount, Rollback, Goto, EventFree, TypeOK
<1>15. CASE BulkCommit(w)
  <2>1. CASE txn[w].wait = {}
    <3>1. count' = count
      BY <1>0, <1>15, <2>1, FS_EmptySet DEF BulkCommit, TypeOK
    <3> QED
      BY <1>0, <1>15, <3>1, EndFrame DEF BulkCommit
  <2>2. CASE txn[w].wait # {}
    <3>1. evLock = w
      BY <1>0, <1>15, <2>2 DEF BulkCommit, BulkHoldsEvent
    <3> QED
      BY <1>0, <1>15, <3>1, EndFrame DEF BulkCommit
  <2> QED
    BY <2>1, <2>2
<1> QED
  BY <1>1, <1>2, <1>3, <1>4, <1>5, <1>6, <1>7, <1>8, <1>9, <1>10, <1>11, <1>12,
     <1>13, <1>14, <1>15 DEF Step, Statement

\* The decisions taken under the lock survive every step.
LEMMA LocksNext ==
    ASSUME IInv, NEW w \in Workers, Step(w)
    PROVE  SeatDecisionHolds' /\ PromotionKeepsSeat' /\ BulkHoldsEvent'
<1> USE DEF event
<1>0. TypeOK /\ SeatDecisionHolds /\ PromotionKeepsSeat /\ BulkHoldsEvent
  BY DEF IInv
<1>1. \A v \in Workers \ {w} :
         /\ txn'[v] = txn[v]
         /\ evLock = v => evLock' = v /\ count' = count /\ capacity' = capacity
  BY StepFrame
<1>2. SUFFICES
        /\ txn'[w].pc = "reg_insert" =>
              evLock' = w /\ (txn'[w].as = "waitlisted" <=> Full')
        /\ txn'[w].pc = "cancel_promote" => evLock' = w /\ txn'[w].cnt = Max0(count' - 1)
        /\ txn'[w].pc = "bulk_row" /\ txn'[w].wait \ txn'[w].todo # {} => evLock' = w
  BY <1>0, <1>1 DEF SeatDecisionHolds, PromotionKeepsSeat, BulkHoldsEvent, Full
<1>3. CASE Arrive(w)
  <2>1. CASE \E R \in SUBSET RowId : BulkRead(w, R)
    BY <1>0, <2>1 DEF BulkRead, Begin, TypeOK, Idle
  <2>2. CASE ~\E R \in SUBSET RowId : BulkRead(w, R)
    <3>1. txn'[w].pc \in {"reg_lock", "wl_insert", "insert", "req_stamp",
                          "approve_stamp", "rej_stamp", "patch_row"}
      <4>1. ASSUME NEW u \in Users, RegisterRead(w, u)
            PROVE  txn'[w].pc = "reg_lock"
        BY <1>0, <4>1 DEF RegisterRead, BeginInsert, Begin, TypeOK, Idle
      <4>6. ASSUME NEW u \in Users, WaitlistRead(w, u)
            PROVE  txn'[w].pc = "wl_insert"
        BY <1>0, <4>6 DEF WaitlistRead, Begin, TypeOK, Idle
      <4>2. ASSUME NEW u \in Users, NEW s \in PatchTo, EnrollRead(w, u, s)
            PROVE  txn'[w].pc = "insert"
        BY <1>0, <4>2 DEF EnrollRead, BeginInsert, Begin, TypeOK, Idle
      <4>3. ASSUME NEW G \in Groups, FulfilRead(w, G)
            PROVE  txn'[w].pc = "insert"
        BY <1>0, <4>3 DEF FulfilRead, BeginInsert, Begin, TypeOK, Idle
      <4>4. ASSUME NEW r \in RowId, RequestRead(w, r)
            PROVE  txn'[w].pc = "req_stamp"
        BY <1>0, <4>4 DEF RequestRead, Begin, TypeOK, Idle
      <4>7. ASSUME NEW r \in RowId, DecideRead(w, r)
            PROVE  txn'[w].pc = "approve_stamp" \/ txn'[w].pc = "rej_stamp"
        <5>1. ASSUME NEW label, Begin(w, [Idle EXCEPT !.pc = label, !.row = r])
              PROVE  txn'[w].pc = label
          BY <1>0, <5>1 DEF Begin, TypeOK, Idle
        <5> QED
          BY <4>7, <5>1 DEF DecideRead
      <4>5. ASSUME NEW r \in RowId, NEW s \in PatchTo, PatchRead(w, r, s)
            PROVE  txn'[w].pc = "patch_row"
        BY <1>0, <4>5 DEF PatchRead, Begin, TypeOK, Idle
      <4> QED
        BY <1>3, <2>2, <4>1, <4>2, <4>3, <4>4, <4>5, <4>6, <4>7 DEF Arrive
    <3> QED
      BY <3>1
  <2> QED
    BY <2>1, <2>2
<1>4. CASE End(w)
  BY <1>0, <1>4, EndFrame DEF Idle
<1>5. CASE RegisterLock(w)
  BY <1>0, <1>5 DEF RegisterLock, TypeOK, Full
<1>6. CASE ApproveStamp(w) \/ CancelRead(w)
  <2>1. txn'[w].pc \in {"cancel_read", "cancel_row", "idle"}
    BY <1>0, <1>6 DEF ApproveStamp, Goto, CancelRead, TypeOK, Txn, Idle
  <2> QED
    BY <2>1
<1>7. CASE Goto(w, "insert_count")
  <2>1. txn'[w].pc = "insert_count"
    BY <1>0, <1>7 DEF Goto, TypeOK
  <2> QED
    BY <2>1
<1>8. CASE txn' = [txn EXCEPT ![w].pc = "cancel_count", ![w].locks = {txn[w].row}]
           \/ txn' = [txn EXCEPT ![w].pc = "patch_count", ![w].locks = {txn[w].row}]
  <2>1. txn'[w].pc \in {"cancel_count", "patch_count"}
    BY <1>0, <1>8 DEF TypeOK, Txn
  <2> QED
    BY <2>1
<1>9. CASE CancelCount(w) /\ ~End(w)
  <2>1. /\ \E q \in Oldest(Waiting \ {txn[w].row}) :
              txn' = [txn EXCEPT ![w].pc = "cancel_promote", ![w].cnt = Max0(count - 1),
                                 ![w].next = q]
        /\ evLock' = w /\ count' = count
    BY <1>9 DEF CancelCount
  <2>2. txn'[w].pc = "cancel_promote" /\ txn'[w].cnt = Max0(count - 1)
    BY <1>0, <2>1 DEF TypeOK
  <2> QED
    BY <2>1, <2>2
<1>10. CASE BulkRow(w)
  <2>1. PICK r \in txn[w].todo :
          txn' = [txn EXCEPT ![w].locks = @ \cup {r}, ![w].todo = @ \ {r},
                     ![w].pc = IF r \in txn[w].wait THEN "bulk_count" ELSE "bulk_row"]
    BY <1>10 DEF BulkRow
  <2>2. txn[w].pc = "bulk_row" /\ evLock' = evLock
    BY <1>10 DEF BulkRow
  <2> QED
    BY <1>0, <2>1, <2>2 DEF BulkHoldsEvent, TypeOK
<1>11. CASE BulkCount(w) /\ ~End(w)
  <2>1. Goto(w, "bulk_row") /\ evLock' = w
    BY <1>11 DEF BulkCount, Rollback
  <2>2. txn'[w].pc = "bulk_row"
    BY <1>0, <2>1 DEF Goto, TypeOK
  <2> QED
    BY <2>1, <2>2
<1> QED
  BY <1>3, <1>4, <1>5, <1>6, <1>7, <1>8, <1>9, <1>10, <1>11
  DEF Step, Statement, Abort, Rollback, RegisterInsert, WaitlistInsert, Insert,
      InsertCount, RequestStamp, RejectStamp, CancelRow, CancelCount,
      CancelPromote, PatchRow, PatchCount, BulkCount, BulkCommit

-----------------------------------------------------------------------------
(* The rows: a step either inserts new ones or keeps the users of those    *)
(* that exist, none of which is ever undeleted.                            *)

RowsKept ==
    /\ used' = used
    /\ \A r \in RowId : /\ reg'[r].user = reg[r].user
                        /\ reg[r].deleted => reg'[r].deleted
                        /\ reg'[r].status = "none" <=> reg[r].status = "none"

RowsAdded(w) ==
    /\ \E at \in Nat : InsertRows(w, at)
    /\ txn[w].as # "none"
    /\ txn'[w] = Idle
    /\ \A u \in txn[w].who : ~HasActive(u)
    /\ \A v \in Workers \ {w} :
          txn[v].pc = "insert_count" => txn[v].who \cap txn[w].who = {}

\* The existing rows a request writes.
LEMMA NamedRows ==
    ASSUME TypeOK, LocalsOK, FreshRows, NEW w \in Workers
    PROVE  /\ txn[w].pc \in NamesRow => txn[w].row \in RowId /\ Exists(txn[w].row)
           /\ txn[w].pc = "cancel_promote" => txn[w].next \in RowId /\ Exists(txn[w].next)
           /\ txn[w].pc = "bulk_row" =>
                \A r \in txn[w].regd \cup txn[w].wait : r \in RowId /\ Exists(r)
<1>1. LocalOK(txn[w], used)
  BY DEF LocalsOK
<1>2. \A r \in 1 .. used : r \in RowId /\ Exists(r)
  BY DEF TypeOK, RowId, FreshRows
<1> QED
  BY <1>1, <1>2 DEF LocalOK

LEMMA StepRows ==
    ASSUME IInv, NEW w \in Workers, Step(w)
    PROVE  RowsKept \/ RowsAdded(w)
<1> USE DEF event
<1>0. TypeOK /\ LocalsOK /\ FreshRows /\ KeysHeld /\ LocalOK(txn[w], used) /\ txn[w].at \in Nat
      /\ clock + 1 \in Nat
  BY DEF IInv, LocalsOK, TypeOK, Txn
<1>1. UNCHANGED <<reg, used>> => RowsKept
  BY DEF RowsKept
<1>2. CASE Arrive(w)
  BY <1>1, <1>2 DEF Arrive, RegisterRead, WaitlistRead, EnrollRead, FulfilRead,
     RequestRead, DecideRead, PatchRead, BulkRead, BeginInsert
<1>3. CASE Abort(w) \/ RegisterLock(w) \/ CancelRead(w) \/ BulkRow(w) \/ BulkCount(w)
  BY <1>1, <1>3 DEF Abort, Rollback, RegisterLock, CancelRead, BulkRow, BulkCount
<1>4. CASE RegisterInsert(w) /\ ~Rollback(w)
  BY <1>0, <1>4, EndFrame DEF RegisterInsert, RowsAdded, LocalOK, KeysFree, KeysTouched
<1>5. CASE WaitlistInsert(w) /\ ~Rollback(w)
  BY <1>0, <1>5, EndFrame DEF WaitlistInsert, RowsAdded, LocalOK, KeysFree, KeysTouched
<1>6. CASE Insert(w) /\ End(w) /\ ~Rollback(w)
  BY <1>0, <1>6, EndFrame DEF Insert, Goto, RowsAdded, LocalOK, KeysFree, KeysTouched,
     TypeOK, Txn, Idle
<1>7. CASE InsertCount(w) /\ ~Rollback(w)
  BY <1>0, <1>7, EndFrame DEF InsertCount, RowsAdded, LocalOK, KeysHeld
<1>8. CASE Insert(w) /\ ~End(w)
  BY <1>1, <1>8 DEF Insert, Rollback
<1>9. CASE RequestStamp(w) \/ ApproveStamp(w) \/ RejectStamp(w)
  BY <1>0, <1>9 DEF RequestStamp, ApproveStamp, RejectStamp, Stamp, RowsKept, TypeOK, Row
<1>10. ASSUME NEW r \in RowId, Exists(r), reg' = [reg EXCEPT ![r] = Cancelled(r)], used' = used
       PROVE  RowsKept
  BY <1>0, <1>10 DEF RowsKept, Cancelled, Exists, TypeOK, Row
<1>11. CASE CancelRow(w)
  BY <1>0, <1>1, <1>10, <1>11, NamedRows DEF CancelRow, NamesRow
<1>12. CASE CancelCount(w)
  BY <1>0, <1>1, <1>10, <1>12, NamedRows DEF CancelCount, NamesRow
<1>13. CASE CancelPromote(w) /\ ~Rollback(w)
  <2> DEFINE r == txn[w].row
             q == txn[w].next
  <2>1. r \in RowId /\ Exists(r) /\ q \in RowId /\ Exists(q) /\ q # r
    BY <1>0, <1>13, NamedRows DEF CancelPromote, NamesRow, LocalOK
  <2>2. /\ reg' = [reg EXCEPT ![r] = Cancelled(r), ![q].status = "registered"]
        /\ used' = used
    BY <1>13 DEF CancelPromote
  <2> HIDE DEF r, q
  <2> QED
    <3>1. reg'[r] = Cancelled(r) /\ reg'[q] = [reg[q] EXCEPT !.status = "registered"]
      BY <1>0, <2>1, <2>2 DEF TypeOK
    <3>2. \A p \in RowId \ {r, q} : reg'[p] = reg[p]
      BY <1>0, <2>1, <2>2 DEF TypeOK
    <3>3. reg[r] \in Row /\ reg[q] \in Row
      BY <1>0, <2>1 DEF TypeOK
    <3>4. /\ reg'[r].user = reg[r].user /\ reg'[r].deleted /\ reg'[r].status # "none"
          /\ reg'[q].user = reg[q].user /\ reg'[q].deleted = reg[q].deleted
          /\ reg'[q].status # "none"
      BY <3>1, <3>3 DEF Cancelled, Row
    <3> QED
      BY <2>1, <2>2, <3>2, <3>4 DEF RowsKept, Exists
<1>14. ASSUME NEW r \in RowId, Exists(r), txn[w].as # "none", used' = used,
              reg' = [reg EXCEPT ![r].status = txn[w].as]
       PROVE  RowsKept
  BY <1>0, <1>14 DEF RowsKept, Exists, TypeOK, Row
<1>15. CASE PatchRow(w)
  BY <1>0, <1>1, <1>14, <1>15, NamedRows DEF PatchRow, NamesRow, LocalOK
<1>16. CASE PatchCount(w)
  BY <1>0, <1>1, <1>14, <1>16, NamedRows DEF PatchCount, NamesRow, LocalOK, Rollback
<1>17. CASE BulkCommit(w)
  BY <1>0, <1>17, NamedRows DEF BulkCommit, RowsKept, Exists, TypeOK, Row
<1>18. Rollback(w) => RowsKept
  BY <1>1 DEF Rollback
<1> QED
  BY <1>2, <1>3, <1>4, <1>5, <1>6, <1>7, <1>8, <1>9, <1>11, <1>12, <1>13,
     <1>15, <1>16, <1>17, <1>18 DEF Step, Statement, Insert

LEMMA RowsNext ==
    ASSUME IInv, NEW w \in Workers, RowsKept \/ RowsAdded(w), TypeOK'
    PROVE  /\ FreshRows' /\ OneActivePerUser' /\ used' >= used
           /\ \A u \in Users : HasActive(u)' =>
                  HasActive(u) \/ (RowsAdded(w) /\ u \in txn[w].who)
<1>0. TypeOK /\ FreshRows /\ OneActivePerUser
  BY DEF IInv
<1>1. CASE RowsKept
  <2>1. \A r \in RowId : Active(r)' => Active(r) /\ reg'[r].user = reg[r].user
    BY <1>0, <1>1 DEF RowsKept, Active, Exists, TypeOK, Row
  <2>2. FreshRows'
    BY <1>0, <1>1 DEF FreshRows, RowsKept, Exists
  <2> QED
    BY <1>0, <1>1, <2>1, <2>2 DEF OneActivePerUser, HasActive, RowsKept, TypeOK
<1>2. CASE RowsAdded(w)
  <2> DEFINE n == Cardinality(txn[w].who)
             new == used + 1 .. used + n
  <2>0. PICK at \in Nat : InsertRows(w, at)
    BY <1>2 DEF RowsAdded
  <2>1. PICK f \in [new -> txn[w].who] :
          /\ used' = used + n
          /\ \A r, q \in new : f[r] = f[q] => r = q
          /\ reg' = [r \in RowId |->
                       IF r \in new
                       THEN [user |-> f[r], status |-> txn[w].as, deleted |-> FALSE,
                             at |-> at, cxl |-> "none"]
                       ELSE reg[r]]
    BY <2>0 DEF InsertRows
  <2>2. n \in Nat /\ txn[w].as # "none" /\ \A u \in txn[w].who : ~HasActive(u)
    BY <1>0, <1>2, FiniteParts DEF RowsAdded, TypeOK, Txn
  <2> HIDE DEF n
  <2>3. \A r \in RowId : r \notin new => reg'[r] = reg[r]
    BY <2>1
  <2>7. ASSUME NEW r \in RowId, r \in new
        PROVE  reg'[r].user \in txn[w].who /\ reg'[r].user = f[r] /\ Exists(r)'
    <3>1. reg'[r] = [user |-> f[r], status |-> txn[w].as, deleted |-> FALSE,
                     at |-> at, cxl |-> "none"]
      BY <2>1, <2>7
    <3>2. f[r] \in txn[w].who
      BY <2>7
    <3> QED
      BY <2>2, <3>1, <3>2 DEF Exists
  <2>4. FreshRows'
    BY <1>0, <2>1, <2>2, <2>3, <2>7 DEF FreshRows, Exists, TypeOK, RowId
  <2>5. \A r \in RowId : r \notin new => (Active(r)' <=> Active(r))
    BY <2>3 DEF Active, Exists
  <2>6. ASSUME NEW r \in RowId, NEW q \in RowId, Active(q)', r \in new, q \notin new
        PROVE  reg'[r].user # reg'[q].user
    <3>1. Active(q) /\ reg'[q] = reg[q]
      BY <2>3, <2>5, <2>6
    <3>2. reg'[r].user \in txn[w].who
      BY <2>6, <2>7
    <3>3. HasActive(reg[q].user)
      BY <3>1 DEF HasActive
    <3> QED
      BY <2>2, <3>1, <3>2, <3>3
  <2>8. OneActivePerUser'
    <3> SUFFICES ASSUME NEW r \in RowId, NEW q \in RowId, Active(r)', Active(q)',
                        reg'[r].user = reg'[q].user
                 PROVE  r = q
      BY DEF OneActivePerUser
    <3>1. CASE r \in new /\ q \in new
      BY <2>1, <2>7, <3>1
    <3>2. CASE r \in new /\ q \notin new
      BY <2>6, <3>2
    <3>3. CASE r \notin new /\ q \in new
      BY <2>6, <3>3
    <3>4. CASE r \notin new /\ q \notin new
      BY <1>0, <2>3, <2>5, <3>4 DEF OneActivePerUser
    <3> QED
      BY <3>1, <3>2, <3>3, <3>4
  <2>9. \A u \in Users : HasActive(u)' => HasActive(u) \/ u \in txn[w].who
    <3> SUFFICES ASSUME NEW u \in Users, NEW r \in RowId, Active(r)', reg'[r].user = u
                 PROVE  HasActive(u) \/ u \in txn[w].who
      BY DEF HasActive
    <3>1. CASE r \in new
      BY <2>7, <3>1
    <3>2. CASE r \notin new
      BY <2>3, <2>5, <3>2 DEF HasActive
    <3> QED
      BY <3>1, <3>2
  <2> QED
    BY <1>0, <1>2, <2>1, <2>2, <2>4, <2>8, <2>9 DEF TypeOK
<1> QED
  BY <1>1, <1>2

-----------------------------------------------------------------------------
(* The locals of the requests.                                             *)

LEMMA IdleOK == \A n : LocalOK(Idle, n)
BY DEF LocalOK, Idle, NamesRow

LEMMA ArriveLocal ==
    ASSUME IInv, NEW w \in Workers, Arrive(w), used' = used
    PROVE  LocalOK(txn'[w], used') /\ txn'[w].pc # "insert_count"
<1>0. TypeOK /\ FreshRows /\ \A r \in RowId : Exists(r) => r \in 1 .. used
  BY DEF IInv, FreshRows, RowId, TypeOK
<1>1. ASSUME NEW t, Begin(w, t) PROVE txn'[w] = t
  BY <1>0, <1>1 DEF Begin, TypeOK
<1> USE DEF LocalOK, NamesRow, Idle
<1>2. ASSUME NEW u \in Users, RegisterRead(w, u) PROVE LocalOK(txn'[w], used') /\ txn'[w].pc # "insert_count"
  <2>1. txn'[w] = [Idle EXCEPT !.pc = "reg_lock", !.who = {u}, !.at = clock + 1]
    BY <1>1, <1>2 DEF RegisterRead, BeginInsert
  <2>2. Cardinality({u}) = 1
    BY FS_Singleton
  <2> QED
    BY <2>1, <2>2
<1>3. ASSUME NEW u \in Users, WaitlistRead(w, u) PROVE LocalOK(txn'[w], used') /\ txn'[w].pc # "insert_count"
  <2>1. txn'[w] = [Idle EXCEPT !.pc = "wl_insert", !.who = {u}, !.as = "waitlisted"]
    BY <1>1, <1>3 DEF WaitlistRead
  <2> QED
    BY <2>1
<1>4. ASSUME NEW u \in Users, NEW s \in PatchTo, EnrollRead(w, u, s)
      PROVE  LocalOK(txn'[w], used') /\ txn'[w].pc # "insert_count"
  <2>1. txn'[w] = [Idle EXCEPT !.pc = "insert", !.who = {u}, !.as = s, !.at = clock + 1]
    BY <1>1, <1>4 DEF EnrollRead, BeginInsert
  <2> QED
    BY <2>1 DEF Statuses
<1>5. ASSUME NEW G \in Groups, FulfilRead(w, G) PROVE LocalOK(txn'[w], used') /\ txn'[w].pc # "insert_count"
  <2> DEFINE new == {u \in G : ~HasActive(u)}
             as == IF FitsCapacity(count + Cardinality(new))
                   THEN "registered" ELSE "waitlisted"
  <2>1. txn'[w] = [Idle EXCEPT !.pc = "insert", !.who = new, !.as = as, !.at = clock + 1]
    BY <1>1, <1>5 DEF FulfilRead, BeginInsert
  <2>2. txn'[w].pc = "insert" /\ txn'[w].as # "none"
    BY <2>1
  <2> QED
    BY <2>2
<1>6. ASSUME NEW r \in RowId, RequestRead(w, r) PROVE LocalOK(txn'[w], used') /\ txn'[w].pc # "insert_count"
  <2>1. txn'[w] = [Idle EXCEPT !.pc = "req_stamp", !.row = r] /\ r \in 1 .. used
    BY <1>0, <1>1, <1>6 DEF RequestRead, Active
  <2> QED
    BY <2>1
<1>7. ASSUME NEW r \in RowId, DecideRead(w, r) PROVE LocalOK(txn'[w], used') /\ txn'[w].pc # "insert_count"
  <2>1. used' = used /\ r \in 1 .. used
    BY <1>0, <1>7 DEF DecideRead
  <2>2. \/ txn'[w] = [Idle EXCEPT !.pc = "approve_stamp", !.row = r]
        \/ txn'[w] = [Idle EXCEPT !.pc = "rej_stamp", !.row = r]
    BY <1>1, <1>7 DEF DecideRead
  <2> QED
    BY <2>1, <2>2
<1>8. ASSUME NEW r \in RowId, NEW s \in PatchTo, PatchRead(w, r, s)
      PROVE  LocalOK(txn'[w], used') /\ txn'[w].pc # "insert_count"
  <2>1. /\ txn'[w] = [Idle EXCEPT !.pc = "patch_row", !.row = r, !.as = s,
                                  !.seen = reg[r].status]
        /\ r \in 1 .. used
    BY <1>0, <1>1, <1>8 DEF PatchRead, Active
  <2> QED
    BY <2>1 DEF Statuses
<1>9. ASSUME NEW R \in SUBSET RowId, BulkRead(w, R) PROVE LocalOK(txn'[w], used') /\ txn'[w].pc # "insert_count"
  <2> DEFINE regd == {r \in R : Active(r) /\ reg[r].status = "registered"}
             wait == {r \in R : Active(r) /\ reg[r].status = "waitlisted"}
  <2>1. txn'[w] = [Idle EXCEPT !.pc = "bulk_row", !.regd = regd, !.wait = wait,
                               !.todo = regd \cup wait]
    BY <1>1, <1>9 DEF BulkRead
  <2>2. regd \cup wait \subseteq 1 .. used /\ regd \cap wait = {}
    BY <1>0 DEF Active
  <2> HIDE DEF regd, wait
  <2> QED
    BY <2>1, <2>2
<1> QED
  BY <1>2, <1>3, <1>4, <1>5, <1>6, <1>7, <1>8, <1>9 DEF Arrive

LEMMA StatementLocal ==
    ASSUME IInv, NEW w \in Workers, Statement(w), used' >= used, used' \in Nat
    PROVE  LocalOK(txn'[w], used')
<1>0. /\ TypeOK /\ FreshRows /\ LocalOK(txn[w], used) /\ txn[w] \in Txn
      /\ \A r \in RowId : Exists(r) => r \in 1 .. used'
      /\ \A r \in 1 .. used : r \in 1 .. used'
  BY DEF IInv, LocalsOK, FreshRows, RowId, TypeOK
<1>1. CASE End(w)
  BY <1>0, <1>1, EndFrame, IdleOK
<1>2. CASE RegisterLock(w)
  BY <1>0, <1>2 DEF RegisterLock, LocalOK, NamesRow, TypeOK, Txn
<1>3. CASE Insert(w) /\ Goto(w, "insert_count") /\ txn[w].as \in Counted
  BY <1>0, <1>3 DEF Goto, Insert, LocalOK, NamesRow, TypeOK, Txn
<1>4. CASE ApproveStamp(w)
  BY <1>0, <1>4 DEF ApproveStamp, Stamp, Goto, LocalOK, NamesRow, TypeOK, Txn
<1>5. CASE CancelRead(w)
  <2>1. CASE txn' = [txn EXCEPT ![w] = Idle]
    <3>1. txn'[w] = Idle
      BY <1>0, <2>1 DEF TypeOK
    <3> QED
      BY <3>1, IdleOK
  <2>2. CASE ~(txn' = [txn EXCEPT ![w] = Idle])
    BY <1>0, <1>5, <2>2 DEF CancelRead, LocalOK, NamesRow, TypeOK, Txn
  <2> QED
    BY <2>1, <2>2
<1>6. CASE CancelRow(w) /\ ~End(w)
  BY <1>0, <1>6 DEF CancelRow, LocalOK, NamesRow, TypeOK, Txn
<1>7. CASE CancelCount(w) /\ ~End(w)
  <2>1. PICK q \in Oldest(Waiting \ {txn[w].row}) :
          txn' = [txn EXCEPT ![w].pc = "cancel_promote", ![w].cnt = Max0(count - 1),
                             ![w].next = q]
    BY <1>7 DEF CancelCount
  <2>2. q \in 1 .. used' /\ q # txn[w].row
    BY <1>0 DEF Oldest, Waiting, Active
  <2>3. txn[w].pc = "cancel_count"
    BY <1>7 DEF CancelCount
  <2> QED
    BY <1>0, <2>1, <2>2, <2>3 DEF LocalOK, NamesRow, TypeOK, Txn
<1>8. CASE PatchRow(w) /\ ~End(w)
  BY <1>0, <1>8 DEF PatchRow, LocalOK, NamesRow, TypeOK, Txn
<1>9. CASE BulkRow(w)
  <2>1. PICK r \in txn[w].todo :
          txn' = [txn EXCEPT ![w].locks = @ \cup {r}, ![w].todo = @ \ {r},
                     ![w].pc = IF r \in txn[w].wait THEN "bulk_count" ELSE "bulk_row"]
    BY <1>9 DEF BulkRow
  <2>2. txn[w].pc = "bulk_row"
    BY <1>9 DEF BulkRow
  <2> QED
    BY <1>0, <2>1, <2>2 DEF LocalOK, NamesRow, TypeOK, Txn
<1>10. CASE BulkCount(w) /\ ~End(w)
  BY <1>0, <1>10 DEF BulkCount, Rollback, Goto, LocalOK, NamesRow, TypeOK, Txn
<1> QED
  BY <1>1, <1>2, <1>3, <1>4, <1>5, <1>6, <1>7, <1>8, <1>9, <1>10
  DEF Statement, Rollback, RegisterInsert, WaitlistInsert, Insert, InsertCount,
      RequestStamp, RejectStamp, CancelPromote, PatchCount, BulkCommit

LEMMA LocalsNext ==
    ASSUME IInv, NEW w \in Workers, Step(w), TypeOK', used' >= used
    PROVE  LocalsOK'
<1>0. /\ TypeOK /\ LocalsOK /\ used \in Nat /\ used' \in Nat
      /\ \A v \in Workers \ {w} : txn'[v] = txn[v]
  BY StepFrame DEF IInv, TypeOK
<1>1. LocalOK(txn'[w], used')
  <2>1. CASE Statement(w)
    BY <1>0, <2>1, StatementLocal
  <2>2. CASE Abort(w)
    BY <1>0, <2>2, EndFrame, IdleOK DEF Abort, Rollback
  <2>3. CASE Arrive(w)
    <3>1. used' = used
      BY <2>3 DEF Arrive, RegisterRead, WaitlistRead, EnrollRead, FulfilRead,
         RequestRead, DecideRead, PatchRead, BulkRead, BeginInsert
    <3> QED
      BY <2>3, <3>1, ArriveLocal
  <2> QED
    BY <2>1, <2>2, <2>3 DEF Step
<1>2. ASSUME NEW v \in Workers \ {w} PROVE LocalOK(txn'[v], used')
  <2>1. LocalOK(txn[v], used) /\ \A r \in 1 .. used : r \in 1 .. used'
    BY <1>0 DEF LocalsOK
  <2>2. LocalOK(txn[v], used')
    BY <2>1 DEF LocalOK
  <2> QED
    BY <1>0, <2>2
<1> QED
  BY <1>1, <1>2 DEF LocalsOK

\* A transaction that has reached the counter with its rows inserted.
LEMMA StepInserts ==
    ASSUME IInv, NEW w \in Workers, Step(w), txn'[w].pc = "insert_count"
    PROVE  /\ Insert(w) /\ txn'[w].who = txn[w].who
           /\ used' = used /\ reg' = reg
<1> USE DEF event
<1>0. TypeOK /\ LocalsOK /\ LocalOK(txn[w], used) /\ Idle.pc # "insert_count"
  BY DEF IInv, LocalsOK, Idle
<1>1. CASE Arrive(w)
  <2>1. used' = used
    BY <1>1 DEF Arrive, RegisterRead, WaitlistRead, EnrollRead, FulfilRead,
       RequestRead, DecideRead, PatchRead, BulkRead, BeginInsert
  <2> QED
    BY <1>1, <2>1, ArriveLocal
<1>2. CASE End(w)
  BY <1>0, <1>2, EndFrame
<1>3. CASE Insert(w) /\ ~End(w)
  <2>1. /\ txn' = [txn EXCEPT ![w].pc = "insert_count"]
        /\ reg' = reg /\ used' = used
    BY <1>3 DEF Insert, Rollback, Goto
  <2> QED
    BY <1>0, <1>3, <2>1 DEF TypeOK, Txn
<1>4. ASSUME NEW t, txn' = [txn EXCEPT ![w] = t], t.pc # "insert_count" PROVE FALSE
  BY <1>0, <1>4 DEF TypeOK
<1>5. CASE RegisterLock(w) \/ ApproveStamp(w)
  BY <1>0, <1>5 DEF RegisterLock, ApproveStamp, Goto, TypeOK, Txn
<1>6. CASE CancelRead(w)
  BY <1>0, <1>6 DEF CancelRead, TypeOK, Txn
<1>7. CASE txn' = [txn EXCEPT ![w].pc = "cancel_count", ![w].locks = {txn[w].row}]
  BY <1>0, <1>7 DEF TypeOK, Txn
<1>8. CASE txn' = [txn EXCEPT ![w].pc = "patch_count", ![w].locks = {txn[w].row}]
  BY <1>0, <1>8 DEF TypeOK, Txn
<1>9. CASE CancelCount(w) /\ ~End(w)
  <2>1. PICK q : txn' = [txn EXCEPT ![w].pc = "cancel_promote",
                                    ![w].cnt = Max0(count - 1), ![w].next = q]
    BY <1>9 DEF CancelCount
  <2> QED
    BY <1>0, <2>1 DEF TypeOK, Txn
<1>10. CASE BulkRow(w)
  <2>1. PICK r \in txn[w].todo :
          txn' = [txn EXCEPT ![w].locks = @ \cup {r}, ![w].todo = @ \ {r},
                     ![w].pc = IF r \in txn[w].wait THEN "bulk_count" ELSE "bulk_row"]
    BY <1>10 DEF BulkRow
  <2> QED
    BY <1>0, <2>1 DEF TypeOK, Txn
<1>11. CASE BulkCount(w) /\ ~End(w)
  BY <1>0, <1>11 DEF BulkCount, Rollback, Goto, TypeOK, Txn
<1> QED
  BY <1>1, <1>2, <1>3, <1>5, <1>6, <1>7, <1>8, <1>9, <1>10, <1>11
  DEF Step, Statement, Abort, Rollback, RegisterInsert, WaitlistInsert,
      InsertCount, RequestStamp, RejectStamp, CancelRow, CancelPromote,
      PatchRow, PatchCount, BulkCount, BulkCommit, CancelCount

LEMMA KeysNext ==
    ASSUME IInv, TypeOK', NEW w \in Workers, Step(w)
    PROVE  KeysHeld'
<1>0. /\ TypeOK /\ KeysHeld
      /\ \A v \in Workers \ {w} : txn'[v] = txn[v]
      /\ \A v \in Workers : txn[v].who \subseteq Users
  BY StepFrame DEF IInv, TypeOK, Txn
<1>1. \A u \in Users : HasActive(u)' => HasActive(u) \/ (RowsAdded(w) /\ u \in txn[w].who)
  BY StepRows, RowsNext
<1>2. ASSUME NEW v \in Workers \ {w}, txn[v].pc = "insert_count", NEW u \in txn[v].who
      PROVE  ~HasActive(u)'
  <2>1. ~HasActive(u) /\ u \in Users
    BY <1>0, <1>2 DEF KeysHeld
  <2>2. RowsAdded(w) => u \notin txn[w].who
    BY <1>2 DEF RowsAdded
  <2> QED
    BY <1>1, <2>1, <2>2
<1>3. CASE txn'[w].pc # "insert_count"
  BY <1>0, <1>2, <1>3 DEF KeysHeld
<1>4. CASE txn'[w].pc = "insert_count"
  <2>1. Insert(w) /\ txn'[w].who = txn[w].who /\ reg' = reg
    BY <1>4, StepInserts
  <2>2. \A u \in txn[w].who : ~HasActive(u)
    <3>1. ~Rollback(w)
      BY <1>0, <1>4, EndFrame DEF Rollback, Idle
    <3> QED
      BY <2>1, <3>1 DEF Insert
  <2>3. \A u : HasActive(u)' <=> HasActive(u)
    BY <2>1 DEF HasActive, Active, Exists
  <2>4. \A v \in Workers \ {w} :
           txn[v].pc = "insert_count" => txn[v].who \cap txn[w].who = {}
    BY <2>1 DEF Insert, KeysFree, KeysTouched
  <2> QED
    BY <1>0, <2>1, <2>2, <2>3, <2>4 DEF KeysHeld
<1> QED
  BY <1>3, <1>4

-----------------------------------------------------------------------------
(* The invariant.                                                          *)

LEMMA InvInit == Init => IInv
<1> SUFFICES ASSUME Init PROVE IInv
  OBVIOUS
<1>1. TypeOK
  <2>1. NoRow \in Row
    BY DEF NoRow, Row, Statuses
  <2> QED
    BY <2>1, IdleTyped DEF Init, TypeOK
<1>2. LocalsOK
  BY IdleOK DEF Init, LocalsOK
<1>3. FreshRows /\ OneActivePerUser
  BY DEF Init, FreshRows, OneActivePerUser, Active, Exists, NoRow, RowId
<1>4. SeatDecisionHolds /\ PromotionKeepsSeat /\ BulkHoldsEvent /\ KeysHeld
  BY DEF Init, Idle, SeatDecisionHolds, PromotionKeepsSeat, BulkHoldsEvent, KeysHeld
<1> QED
  BY <1>1, <1>2, <1>3, <1>4 DEF IInv

LEMMA InvStep ==
    ASSUME IInv, NEW w \in Workers, Step(w)
    PROVE  IInv'
<1>1. TypeOK'
  BY TypeNext DEF IInv, Step, Next
<1>2. FreshRows' /\ OneActivePerUser' /\ used' >= used
  BY <1>1, StepRows, RowsNext
<1>3. LocalsOK'
  BY <1>1, <1>2, LocalsNext
<1>4. SeatDecisionHolds' /\ PromotionKeepsSeat' /\ BulkHoldsEvent'
  BY LocksNext
<1>5. KeysHeld'
  BY <1>1, KeysNext
<1> QED
  BY <1>1, <1>2, <1>3, <1>4, <1>5 DEF IInv

LEMMA InvNext == IInv /\ [Next]_vars => IInv'
<1> SUFFICES ASSUME IInv, [Next]_vars PROVE IInv'
  OBVIOUS
<1>1. ASSUME NEW w \in Workers, Step(w) PROVE IInv'
  BY <1>1, InvStep
<1>2. ASSUME UNCHANGED <<reg, used, txn, evLock>>, TypeOK',
             count' = count, evLock = Nobody \/ capacity' = capacity
      PROVE  IInv'
  <2>1. LocalsOK' /\ FreshRows' /\ OneActivePerUser' /\ KeysHeld' /\ BulkHoldsEvent'
    BY <1>2 DEF IInv, LocalsOK, FreshRows, OneActivePerUser, KeysHeld, BulkHoldsEvent,
       HasActive, Active, Exists
  <2>2. SeatDecisionHolds' /\ PromotionKeepsSeat'
    BY <1>2 DEF IInv, SeatDecisionHolds, PromotionKeepsSeat, Full
  <2> QED
    BY <1>2, <2>1, <2>2 DEF IInv
<1>3. TypeOK'
  BY TypeNext DEF IInv
<1>4. ASSUME NEW c \in Capacities, EditCapacity(c) PROVE IInv'
  BY <1>2, <1>3, <1>4 DEF EditCapacity
<1>5. CASE CloseEvent
  BY <1>2, <1>3, <1>5 DEF CloseEvent
<1>6. CASE UNCHANGED vars
  BY <1>2, <1>3, <1>6 DEF vars
<1> QED
  BY <1>1, <1>4, <1>5, <1>6 DEF Next, Step

LEMMA Invariance == Spec => []IInv
BY InvInit, InvNext, PTL DEF Spec

\* Every variable stays in the set the columns and the handlers' locals allow.
THEOREM TypeCorrect == Spec => []TypeOK
<1>1. IInv => TypeOK
  BY DEF IInv
<1> QED
  BY <1>1, Invariance, PTL

\* Whichever handlers race to insert, for any number of members, workers and
\* rows, a member has at most one live registration of the event.
THEOREM OneRegistrationEach == Spec => []OneActivePerUser
<1>1. IInv => OneActivePerUser
  BY DEF IInv
<1> QED
  BY <1>1, Invariance, PTL

\* The seat-or-waitlist decision of /register is still right when its row is
\* written: nobody moves the counter or the capacity under the event row's lock.
THEOREM DecisionsHold == Spec => []SeatDecisionHolds
<1>1. IInv => SeatDecisionHolds
  BY DEF IInv
<1> QED
  BY <1>1, Invariance, PTL

\* The seat a cancellation frees is still free when the promotion it decided on
\* is written, by the same lock.
THEOREM PromotionsHold == Spec => []PromotionKeepsSeat
<1>1. IInv => PromotionKeepsSeat
  BY DEF IInv
<1> QED
  BY <1>1, Invariance, PTL

-----------------------------------------------------------------------------
(* The counter.                                                            *)

LEMMA SeatedFinite ==
    /\ Seated \subseteq RowId /\ IsFiniteSet(Seated) /\ Cardinality(Seated) \in Nat
    /\ Seated' \subseteq RowId
BY FiniteParts DEF Seated

\* One row changes: the seats it holds before and after decide the difference.
LEMMA OneRowCount ==
    ASSUME NEW r \in RowId, \A q \in RowId \ {r} : q \in Seated' <=> q \in Seated
    PROVE  Cardinality(Seated') = Cardinality(Seated)
              + (IF r \in Seated' THEN 1 ELSE 0) - (IF r \in Seated THEN 1 ELSE 0)
<1>1. CASE r \in Seated <=> r \in Seated'
  <2>1. Seated' = Seated
    BY <1>1, SeatedFinite
  <2> QED
    BY <1>1, <2>1, SeatedFinite
<1>2. CASE r \in Seated /\ r \notin Seated'
  <2>1. Seated' = Seated \ {r}
    BY <1>2, SeatedFinite
  <2>2. Cardinality(Seated \ {r}) = Cardinality(Seated) - 1
    BY <1>2, SeatedFinite, FS_RemoveElement
  <2> QED
    BY <1>2, <2>1, <2>2, SeatedFinite
<1>3. CASE r \notin Seated /\ r \in Seated'
  <2>1. Seated' = Seated \cup {r}
    BY <1>3, SeatedFinite
  <2>2. Cardinality(Seated \cup {r}) = Cardinality(Seated) + 1
    BY <1>3, SeatedFinite, FS_AddElement
  <2> QED
    BY <1>3, <2>1, <2>2, SeatedFinite
<1> QED
  BY <1>1, <1>2, <1>3

LEMMA InsertedCount ==
    ASSUME TypeOK, FreshRows, NEW w \in Workers, NEW at \in Nat, InsertRows(w, at),
           txn[w].as # "none"
    PROVE  Cardinality(Seated') = Cardinality(Seated)
              + (IF txn[w].as \in Counted THEN Cardinality(txn[w].who) ELSE 0)
<1> DEFINE n == Cardinality(txn[w].who)
           new == used + 1 .. used + n
<1>1. PICK f \in [new -> txn[w].who] :
        /\ used + n <= MaxRows
        /\ reg' = [r \in RowId |->
                     IF r \in new
                     THEN [user |-> f[r], status |-> txn[w].as, deleted |-> FALSE,
                           at |-> at, cxl |-> "none"]
                     ELSE reg[r]]
  BY DEF InsertRows
<1>2. n \in Nat /\ used \in Nat
  BY FiniteParts DEF TypeOK, Txn
<1> HIDE DEF n
<1>3. IsFiniteSet(new) /\ Cardinality(new) = n /\ new \subseteq RowId
  <2>1. new \subseteq RowId
    BY <1>1, <1>2 DEF RowId
  <2>2. used + 1 \in Int /\ used + n \in Int
    BY <1>2
  <2>3. IsFiniteSet(new) /\ Cardinality(new) = IF used + 1 > used + n THEN 0 ELSE (used + n) - (used + 1) + 1
    BY <2>2, FS_Interval
  <2> QED
    BY <1>2, <2>1, <2>3
<1>4. Seated \cap new = {}
  BY <1>2 DEF FreshRows, Seated, Active
<1>5. ASSUME NEW r \in RowId PROVE r \in Seated' <=> IF r \in new THEN txn[w].as \in Counted ELSE r \in Seated
  <2>1. CASE r \in new
    <3>1. reg'[r] = [user |-> f[r], status |-> txn[w].as, deleted |-> FALSE,
                     at |-> at, cxl |-> "none"]
      BY <1>1, <2>1
    <3> QED
      BY <2>1, <3>1 DEF Seated, Active, Exists
  <2>2. CASE r \notin new
    <3>1. reg'[r] = reg[r]
      BY <1>1, <2>2
    <3> QED
      BY <2>2, <3>1 DEF Seated, Active, Exists
  <2> QED
    BY <2>1, <2>2
<1> HIDE DEF new
<1>6. CASE txn[w].as \in Counted
  <2>1. Seated' = Seated \cup new
    BY <1>3, <1>5, <1>6, SeatedFinite
  <2>2. Cardinality(Seated \cup new) = Cardinality(Seated) + Cardinality(new)
                                         - Cardinality(Seated \cap new)
    BY <1>3, SeatedFinite, FS_Union
  <2>3. Cardinality(Seated \cap new) = 0
    BY <1>4, FS_EmptySet
  <2>4. Cardinality(Seated') = Cardinality(Seated) + n
    BY <1>2, <1>3, <2>1, <2>2, <2>3, SeatedFinite
  <2> QED
    BY <1>6, <2>4 DEF n
<1>7. CASE txn[w].as \notin Counted
  <2>1. Seated' = Seated
    BY <1>3, <1>4, <1>5, <1>7, SeatedFinite
  <2> QED
    BY <1>7, <2>1, SeatedFinite
<1> QED
  BY <1>6, <1>7

\* A row the step writes is still what its handler read.
LEMMA FreshTargets ==
    ASSUME IInv, NEW w \in Workers, ~Stale(w)
    PROVE  /\ txn[w].pc \in {"cancel_row", "cancel_count", "cancel_promote",
                             "patch_row", "patch_count"}
              => /\ txn[w].row \in RowId /\ Still(txn[w].row, txn[w].seen)
                 /\ txn[w].row \in Seated <=> txn[w].seen \in Counted
           /\ txn[w].pc = "cancel_promote" => txn[w].next \in Waiting \ {txn[w].row}
<1>1. TypeOK /\ LocalsOK /\ FreshRows /\ LocalOK(txn[w], used)
  BY DEF IInv, LocalsOK
<1>2. txn[w].pc \in {"cancel_row", "cancel_count", "cancel_promote",
                     "patch_row", "patch_count"}
        => txn[w].row \in RowId /\ Still(txn[w].row, txn[w].seen)
  BY <1>1, NamedRows DEF Stale, NamesRow
<1>3. txn[w].pc = "cancel_promote" => txn[w].next \in Waiting \ {txn[w].row}
  BY <1>1 DEF Stale, LocalOK
<1> QED
  BY <1>2, <1>3 DEF Still, Seated

LEMMA CancelledSeat ==
    ASSUME TypeOK, NEW r \in RowId, reg' = [reg EXCEPT ![r] = Cancelled(r)]
    PROVE  Cardinality(Seated') = Cardinality(Seated) - (IF r \in Seated THEN 1 ELSE 0)
<1>1. \A q \in RowId \ {r} : q \in Seated' <=> q \in Seated
  BY DEF TypeOK, Seated, Active, Exists
<1>2. r \notin Seated'
  BY DEF TypeOK, Seated, Active, Cancelled, Row
<1> QED
  BY <1>1, <1>2, OneRowCount, SeatedFinite

LEMMA PatchedSeat ==
    ASSUME TypeOK, NEW r \in RowId, NEW s \in Statuses, Active(r),
           reg' = [reg EXCEPT ![r].status = s]
    PROVE  Cardinality(Seated') = Cardinality(Seated) + Delta(reg[r].status, s)
<1>1. \A q \in RowId \ {r} : q \in Seated' <=> q \in Seated
  BY DEF TypeOK, Seated, Active, Exists
<1>2. r \in Seated' <=> s \in Counted
  BY DEF TypeOK, Seated, Active, Exists, Row, Statuses
<1>3. r \in Seated <=> reg[r].status \in Counted
  BY DEF Seated
<1> QED
  BY <1>1, <1>2, <1>3, OneRowCount, SeatedFinite DEF Delta

LEMMA PromotedSeat ==
    ASSUME TypeOK, NEW r \in Seated, NEW q \in Waiting,
           reg' = [reg EXCEPT ![r] = Cancelled(r), ![q].status = "registered"]
    PROVE  Cardinality(Seated') = Cardinality(Seated)
<1>1. r \in RowId /\ q \in RowId /\ q \notin Seated /\ q # r
  BY DEF Seated, Waiting, Counted
<1>2. reg[r] \in Row /\ reg[q] \in Row
  BY <1>1 DEF TypeOK
<1>3. reg'[r] = Cancelled(r) /\ reg'[q] = [reg[q] EXCEPT !.status = "registered"]
      /\ \A p \in RowId \ {r, q} : reg'[p] = reg[p]
  BY <1>1 DEF TypeOK
<1>4. r \notin Seated'
  BY <1>2, <1>3 DEF Seated, Active, Cancelled, Row
<1>5. q \in Seated'
  <2>1. reg'[q].status = "registered" /\ reg'[q].deleted = reg[q].deleted
    <3>1. \A x \in Row : LET y == [x EXCEPT !.status = "registered"]
                         IN  y.status = "registered" /\ y.deleted = x.deleted
      BY DEF Row
    <3> QED
      BY <1>2, <1>3, <3>1
  <2>2. ~reg[q].deleted
    BY DEF Waiting, Active
  <2> QED
    BY <1>1, <2>1, <2>2 DEF Seated, Active, Exists, Counted
<1>6. \A p \in RowId \ {r, q} : p \in Seated' <=> p \in Seated
  BY <1>3 DEF Seated, Active, Exists
<1>7. Seated' = (Seated \ {r}) \cup {q}
  BY <1>1, <1>4, <1>5, <1>6, SeatedFinite
<1>8. Cardinality(Seated \ {r}) = Cardinality(Seated) - 1 /\ IsFiniteSet(Seated \ {r})
  BY SeatedFinite, FS_RemoveElement
<1>9. Cardinality((Seated \ {r}) \cup {q}) = Cardinality(Seated \ {r}) + 1
  BY <1>1, <1>8, FS_AddElement
<1> QED
  BY <1>7, <1>8, <1>9, SeatedFinite

LEMMA BulkSeats ==
    ASSUME IInv, NEW w \in Workers, BulkCommit(w), ~Stale(w)
    PROVE  Cardinality(Seated') = Cardinality(Seated) + Cardinality(txn[w].wait)
<1>1. TypeOK /\ txn[w] \in Txn
  BY DEF IInv, TypeOK
<1>2. /\ txn[w].wait \subseteq Waiting /\ txn[w].regd \subseteq Seated
      /\ txn[w].wait \subseteq RowId
  BY <1>1 DEF BulkCommit, Stale, Still, Waiting, Seated, Counted, Txn
<1>3. ASSUME NEW r \in RowId
      PROVE  r \in Seated' <=> r \in Seated \cup txn[w].wait
  <2>1. reg[r] \in Row
    BY <1>1 DEF TypeOK
  <2>2. CASE r \in txn[w].regd \cup txn[w].wait
    <3>1. reg'[r] = [reg[r] EXCEPT !.status = "attended"] /\ Active(r)
      BY <1>2, <2>2 DEF BulkCommit, Waiting, Seated
    <3>2. r \in Seated'
      BY <2>1, <3>1 DEF Seated, Active, Exists, Row, Counted
    <3> QED
      BY <1>2, <2>2, <3>2
  <2>3. CASE r \notin txn[w].regd \cup txn[w].wait
    <3>1. reg'[r] = reg[r]
      BY <2>3 DEF BulkCommit
    <3> QED
      BY <2>3, <3>1 DEF Seated, Active, Exists
  <2> QED
    BY <2>2, <2>3
<1>4. Seated' = Seated \cup txn[w].wait
  BY <1>2, <1>3, SeatedFinite
<1>5. Seated \cap txn[w].wait = {}
  BY <1>2 DEF Waiting, Seated, Counted
<1>6. IsFiniteSet(txn[w].wait) /\ Cardinality(txn[w].wait) \in Nat
  BY <1>2, FiniteParts
<1>7. Cardinality(Seated \cup txn[w].wait)
        = Cardinality(Seated) + Cardinality(txn[w].wait) - Cardinality(Seated \cap txn[w].wait)
  BY <1>6, SeatedFinite, FS_Union
<1>8. Cardinality(Seated \cap txn[w].wait) = 0
  BY <1>5, FS_EmptySet
<1> QED
  BY <1>4, <1>6, <1>7, <1>8, SeatedFinite

\* One step of one handler, its targets fresh, moves the counter with the rows.
LEMMA CountStep ==
    ASSUME IInv, NEW w \in Workers, Step(w), CountAgrees,
           txn'[w].pc = "idle" => ~Stale(w)
    PROVE  CountAgrees'
<1> USE DEF event
<1>0. /\ TypeOK /\ FreshRows /\ LocalOK(txn[w], used) /\ txn[w] \in Txn
      /\ clock + 1 \in Nat /\ count \in Nat /\ count = Cardinality(Seated)
      /\ Idle.pc = "idle"
  BY DEF IInv, LocalsOK, TypeOK, CountAgrees, Idle
<1>1. UNCHANGED <<count, reg>> => CountAgrees'
  BY <1>0 DEF CountAgrees, Seated, Active, Exists
<1>2. End(w) => ~Stale(w)
  BY <1>0, EndFrame
<1>3. Rollback(w) => CountAgrees'
  BY <1>1 DEF Rollback
<1>4. CASE Arrive(w) \/ Abort(w) \/ RegisterLock(w) \/ CancelRead(w) \/ BulkRow(w) \/ BulkCount(w)
  BY <1>1, <1>4 DEF Arrive, RegisterRead, WaitlistRead, EnrollRead, FulfilRead,
     RequestRead, DecideRead, PatchRead, BulkRead, BeginInsert, Abort, Rollback,
     RegisterLock, CancelRead, BulkRow, BulkCount
<1>5. CASE RegisterInsert(w) /\ ~Rollback(w)
  <2>1. /\ InsertRows(w, txn[w].at) /\ count' = count + Delta("none", txn[w].as)
        /\ txn[w].as # "none" /\ txn[w].at \in Nat /\ Cardinality(txn[w].who) = 1
    BY <1>0, <1>5 DEF RegisterInsert, LocalOK, Txn
  <2>2. Cardinality(Seated') = Cardinality(Seated) + (IF txn[w].as \in Counted THEN 1 ELSE 0)
    BY <1>0, <2>1, InsertedCount
  <2> QED
    BY <1>0, <2>1, <2>2 DEF CountAgrees, Delta, Counted
<1>6. CASE WaitlistInsert(w) /\ ~Rollback(w)
  <2>1. InsertRows(w, clock + 1) /\ count' = count /\ txn[w].as = "waitlisted"
    BY <1>0, <1>6 DEF WaitlistInsert, LocalOK
  <2> QED
    BY <1>0, <2>1, InsertedCount, SeatedFinite DEF CountAgrees, Counted
<1>7. CASE Insert(w) /\ ~Rollback(w)
  <2>1. CASE txn[w].as \in Counted
    BY <1>1, <1>7, <2>1 DEF Insert
  <2>2. CASE txn[w].as \notin Counted
    <3>1. /\ InsertRows(w, txn[w].at) /\ count' = count
          /\ txn[w].as # "none" /\ txn[w].at \in Nat
      BY <1>0, <1>7, <2>2 DEF Insert, LocalOK, Txn
    <3> QED
      BY <1>0, <2>2, <3>1, InsertedCount, SeatedFinite DEF CountAgrees
  <2> QED
    BY <2>1, <2>2
<1>8. CASE InsertCount(w) /\ ~Rollback(w)
  <2>1. /\ InsertRows(w, txn[w].at) /\ count' = count + Cardinality(txn[w].who)
        /\ txn[w].as # "none" /\ txn[w].at \in Nat /\ txn[w].as \in Counted
    BY <1>0, <1>8 DEF InsertCount, LocalOK, Txn
  <2> QED
    BY <1>0, <2>1, InsertedCount DEF CountAgrees
<1>9. CASE RequestStamp(w) \/ ApproveStamp(w) \/ RejectStamp(w)
  <2>1. Seated' = Seated /\ count' = count
    BY <1>0, <1>9 DEF RequestStamp, ApproveStamp, RejectStamp, Stamp, Seated, Active,
       Exists, TypeOK, Row
  <2> QED
    BY <1>0, <2>1 DEF CountAgrees
<1>10. CASE CancelRow(w) /\ End(w)
  <2>1. CASE txn[w].seen = "registered"
    BY <1>1, <1>10, <2>1 DEF CancelRow
  <2>2. CASE txn[w].seen # "registered"
    <3>1. /\ reg' = [reg EXCEPT ![txn[w].row] = Cancelled(txn[w].row)] /\ count' = count
          /\ txn[w].pc = "cancel_row" /\ txn[w].seen \notin Counted
      BY <1>0, <1>10, <2>2 DEF CancelRow, LocalOK, Counted
    <3>2. txn[w].row \in RowId \ Seated
      BY <1>2, <1>10, <3>1, FreshTargets
    <3>3. Cardinality(Seated') = Cardinality(Seated) - 0
      BY <1>0, <3>1, <3>2, CancelledSeat
    <3> QED
      BY <1>0, <3>1, <3>3, SeatedFinite DEF CountAgrees
  <2> QED
    BY <2>1, <2>2
<1>11. CASE CancelRow(w) /\ ~End(w)
  BY <1>1, <1>11 DEF CancelRow
<1>12. CASE CancelCount(w) /\ End(w)
  <2>0. txn[w].pc = "cancel_count" /\ txn[w].seen \in Counted
    BY <1>0, <1>12 DEF CancelCount, LocalOK, Counted
  <2>1. CASE reg' = reg /\ count' = count
    BY <1>1, <2>1
  <2>2. CASE /\ reg' = [reg EXCEPT ![txn[w].row] = Cancelled(txn[w].row)]
             /\ count' = Max0(count - 1)
    <3>1. txn[w].row \in RowId /\ txn[w].row \in Seated
      BY <1>2, <1>12, <2>0, FreshTargets
    <3>2. Cardinality(Seated') = Cardinality(Seated) - 1
      BY <1>0, <2>2, <3>1, CancelledSeat
    <3>3. Cardinality(Seated') \in Nat
      BY <3>2, FS_RemoveElement, FiniteParts, SeatedFinite
    <3> QED
      BY <1>0, <2>2, <3>2, <3>3 DEF CountAgrees, Max0
  <2> QED
    BY <1>12, <2>1, <2>2 DEF CancelCount
<1>13. CASE CancelCount(w) /\ ~End(w)
  BY <1>1, <1>13 DEF CancelCount
<1>14. CASE CancelPromote(w) /\ ~Rollback(w)
  <2>1. /\ reg' = [reg EXCEPT ![txn[w].row] = Cancelled(txn[w].row),
                              ![txn[w].next].status = "registered"]
        /\ count' = txn[w].cnt + 1 /\ End(w) /\ txn[w].pc = "cancel_promote"
    BY <1>14 DEF CancelPromote
  <2>2. txn[w].seen \in Counted /\ txn[w].cnt = Max0(count - 1)
    BY <1>0, <2>1 DEF IInv, PromotionKeepsSeat, LocalOK, Counted
  <2>3. txn[w].row \in Seated /\ txn[w].next \in Waiting
    BY <1>2, <2>1, <2>2, FreshTargets
  <2>4. Cardinality(Seated') = Cardinality(Seated)
    BY <1>0, <2>1, <2>3, PromotedSeat
  <2>5. count # 0
    BY <1>0, <2>3, SeatedFinite, FS_EmptySet
  <2> QED
    BY <1>0, <2>1, <2>2, <2>4, <2>5 DEF CountAgrees, Max0
<1>15. CASE PatchRow(w)
  <2>1. CASE Delta(txn[w].seen, txn[w].as) # 0
    BY <1>1, <1>15, <2>1 DEF PatchRow
  <2>2. CASE Delta(txn[w].seen, txn[w].as) = 0
    <3>1. /\ reg' = [reg EXCEPT ![txn[w].row].status = txn[w].as] /\ End(w)
          /\ txn[w].pc = "patch_row" /\ count' = count /\ txn[w].as \in Statuses
      BY <1>0, <1>15, <2>2 DEF PatchRow, LocalOK, Txn
    <3>2. txn[w].row \in RowId /\ Still(txn[w].row, txn[w].seen)
      BY <1>2, <3>1, FreshTargets
    <3>3. Cardinality(Seated') = Cardinality(Seated) + 0
      BY <1>0, <2>2, <3>1, <3>2, PatchedSeat DEF Still
    <3> QED
      BY <1>0, <3>1, <3>3, SeatedFinite DEF CountAgrees
  <2> QED
    BY <2>1, <2>2
<1>16. CASE PatchCount(w) /\ ~Rollback(w)
  <2>1. /\ reg' = [reg EXCEPT ![txn[w].row].status = txn[w].as] /\ End(w)
        /\ txn[w].pc = "patch_count" /\ txn[w].as \in Statuses
        /\ count' = Max0(count + Delta(txn[w].seen, txn[w].as))
    BY <1>0, <1>16 DEF PatchCount, LocalOK, Txn
  <2>2. txn[w].row \in RowId /\ Still(txn[w].row, txn[w].seen)
    BY <1>2, <2>1, FreshTargets
  <2>3. Cardinality(Seated') = Cardinality(Seated) + Delta(txn[w].seen, txn[w].as)
    BY <1>0, <2>1, <2>2, PatchedSeat DEF Still
  <2>4. Cardinality(Seated') \in Nat
    BY FiniteParts, SeatedFinite
  <2> QED
    BY <1>0, <2>1, <2>3, <2>4, DeltaTyped DEF CountAgrees, Max0
<1>17. CASE BulkCommit(w)
  <2>1. ~Stale(w)
    BY <1>2, <1>17 DEF BulkCommit
  <2> QED
    BY <1>0, <1>17, <2>1, BulkSeats DEF BulkCommit, CountAgrees
<1> QED
  BY <1>3, <1>4, <1>5, <1>6, <1>7, <1>8, <1>9, <1>10, <1>11, <1>12, <1>13, <1>14,
     <1>15, <1>16, <1>17 DEF Step, Statement

\* registered_count equals the confirmed rows for ever, except after a commit
\* that overwrites a row changed since the handler read it: the relative
\* updates, the clamp at zero, the promotion and the roll-backs are all exact.
THEOREM CounterExact == Spec => OnlyStaleWritesBreakCount
<1>1. IInv /\ [Next]_vars
        => [CountAgrees /\ (\A w \in Workers : txn'[w].pc = "idle" => ~Stale(w))
            => CountAgrees']_vars
  <2> SUFFICES ASSUME IInv, Next, CountAgrees,
                      \A w \in Workers : txn'[w].pc = "idle" => ~Stale(w)
               PROVE  CountAgrees'
    OBVIOUS
  <2>1. ASSUME NEW w \in Workers, Step(w) PROVE CountAgrees'
    BY <2>1, CountStep
  <2>2. UNCHANGED <<count, reg>> => CountAgrees'
    BY DEF CountAgrees, Seated, Active, Exists
  <2>3. ASSUME NEW c \in Capacities, EditCapacity(c) PROVE CountAgrees'
    BY <2>2, <2>3 DEF EditCapacity
  <2>4. CASE CloseEvent
    BY <2>2, <2>4 DEF CloseEvent
  <2> QED
    BY <2>1, <2>3, <2>4 DEF Next, Step
<1> QED
  BY <1>1, Invariance, PTL DEF Spec, OnlyStaleWritesBreakCount

-----------------------------------------------------------------------------
(* Free seats.                                                             *)

\* A step that adds nobody to the waitlist and frees no seat.
LEMMA NoSeatFreed ==
    ASSUME TypeOK, ~SeatIdle, Waiting' \subseteq Waiting, Full => Full'
    PROVE  ~SeatIdle'
BY DEF SeatIdle

LEMMA SameSeats ==
    ASSUME TypeOK, ~SeatIdle, UNCHANGED <<reg, count, capacity>>
    PROVE  ~SeatIdle'
BY DEF SeatIdle, Waiting, Active, Exists, Full

\* The insertion that /register decided under the lock.
LEMMA RegisterFills ==
    ASSUME IInv, ~SeatIdle, NEW w \in Workers, RegisterInsert(w)
    PROVE  ~SeatIdle'
<1>1. TypeOK /\ txn[w].pc = "reg_insert" /\ txn[w].as \in {"registered", "waitlisted"}
  BY DEF IInv, LocalsOK, LocalOK, RegisterInsert
<1>2. CASE Rollback(w)
  BY <1>1, <1>2, SameSeats DEF Rollback, event
<1>3. CASE /\ InsertRows(w, txn[w].at) /\ count' = count + Delta("none", txn[w].as)
           /\ capacity' = capacity
  <2>1. CASE txn[w].as = "waitlisted"
    <3>1. Full
      BY <1>1, <2>1 DEF IInv, SeatDecisionHolds
    <3>2. count' = count
      BY <1>1, <1>3, <2>1 DEF Delta, Counted, TypeOK
    <3>3. Full'
      BY <1>3, <3>1, <3>2 DEF Full
    <3> QED
      BY <3>3 DEF SeatIdle
  <2>2. CASE txn[w].as = "registered"
    <3>1. count \in Nat /\ count' = count + 1
      BY <1>1, <1>3, <2>2 DEF Delta, Counted, TypeOK
    <3>2. Full => Full'
      <4>1. capacity = Unlimited \/ capacity \in Nat
        BY <1>1 DEF TypeOK
      <4> QED
        BY <1>3, <3>1, <4>1 DEF Full
    <3>3. Waiting' \subseteq Waiting
      BY <1>3, <2>2 DEF InsertRows, Waiting, Active, Exists
    <3> QED
      BY <1>1, <3>2, <3>3, NoSeatFreed
  <2> QED
    BY <1>1, <2>1, <2>2
<1> QED
  BY <1>2, <1>3 DEF RegisterInsert

\* The steps of a cancellation: the row goes, and somebody moves up if anybody
\* waits.
LEMMA CancelFills ==
    ASSUME IInv, ~SeatIdle, NEW w \in Workers,
           \/ ApproveStamp(w) \/ RejectStamp(w)
           \/ CancelRow(w) \/ CancelCount(w) \/ CancelPromote(w)
    PROVE  ~SeatIdle'
<1> DEFINE r == txn[w].row
           q == txn[w].next
<1>1. TypeOK /\ reg \in [RowId -> Row] /\ count \in Nat
  BY DEF IInv, TypeOK
<1>2. ASSUME NEW d, reg' = [reg EXCEPT ![r].cxl = d], UNCHANGED <<count, capacity>>
      PROVE  ~SeatIdle'
  BY <1>1, <1>2, NoSeatFreed DEF Waiting, Active, Exists, Full, Row
<1>3. CASE ApproveStamp(w) \/ RejectStamp(w)
  BY <1>2, <1>3 DEF ApproveStamp, RejectStamp, Stamp, event
<1>4. CASE CancelRow(w)
  <2>1. CASE UNCHANGED reg
    BY <1>1, <1>4, <2>1, SameSeats DEF CancelRow, event
  <2>2. CASE reg' = [reg EXCEPT ![r] = Cancelled(r)]
    <3>1. Waiting' \subseteq Waiting
      BY <1>1, <2>2 DEF Waiting, Active, Exists, Cancelled, Row
    <3>2. Full => Full'
      BY <1>4 DEF CancelRow, event, Full
    <3> QED
      BY <1>1, <3>1, <3>2, NoSeatFreed
  <2> QED
    BY <1>4, <2>1, <2>2 DEF CancelRow
<1>5. CASE CancelCount(w)
  <2>1. CASE UNCHANGED <<reg, count>>
    BY <1>1, <1>5, <2>1, SameSeats DEF CancelCount
  <2>2. CASE Waiting \ {r} = {} /\ reg' = [reg EXCEPT ![r] = Cancelled(r)]
    <3>1. Waiting' = {}
      BY <1>1, <2>2 DEF Waiting, Active, Exists, Cancelled, Row
    <3> QED
      BY <3>1 DEF SeatIdle
  <2> QED
    BY <1>5, <2>1, <2>2 DEF CancelCount
<1>6. CASE CancelPromote(w)
  <2>1. CASE Rollback(w)
    BY <1>1, <2>1, SameSeats DEF Rollback, event
  <2>2. CASE /\ reg' = [reg EXCEPT ![r] = Cancelled(r), ![q].status = "registered"]
             /\ count' = txn[w].cnt + 1 /\ capacity' = capacity
    <3>1. txn[w].cnt = Max0(count - 1)
      BY <1>6 DEF IInv, PromotionKeepsSeat, CancelPromote
    <3>2. count' \in Nat /\ count' >= count
      BY <1>1, <2>2, <3>1 DEF Max0
    <3>3. Full => Full'
      <4>1. capacity = Unlimited \/ capacity \in Nat
        BY <1>1 DEF TypeOK
      <4> QED
        BY <1>1, <2>2, <3>2, <4>1 DEF Full
    <3>4. Waiting' \subseteq Waiting
      <4> DEFINE reg2 == [reg EXCEPT ![r] = Cancelled(r)]
      <4>1. reg' = [reg2 EXCEPT ![q] = [reg2[q] EXCEPT !.status = "registered"]]
        BY <2>2
      <4>2. reg2 \in [RowId -> Row] /\ \A x \in RowId : reg2[x] = reg[x] \/ reg2[x].deleted
        BY <1>1, CancelledTyped DEF Cancelled, Row
      <4> HIDE DEF reg2
      <4>3. \A x \in RowId : reg'[x] = reg2[x] \/ reg'[x].status = "registered"
        BY <4>1, <4>2 DEF Row
      <4> QED
        BY <4>2, <4>3 DEF Waiting, Active, Exists
    <3> QED
      BY <1>1, <3>3, <3>4, NoSeatFreed
  <2> QED
    BY <1>6, <2>1, <2>2 DEF CancelPromote
<1> QED
  BY <1>3, <1>4, <1>5, <1>6

\* No registration and no cancellation leaves a free seat and somebody waiting.
THEOREM SeatsFill == Spec => NoIdleSeat
<1> DEFINE Moved == \E w \in Workers :
              /\ txn[w].pc \in {"reg_insert", "approve_stamp", "rej_stamp", "cancel_row",
                                "cancel_count", "cancel_promote"}
              /\ txn'[w] # txn[w]
<1>1. ASSUME IInv, Next, ~SeatIdle, Moved
      PROVE  ~SeatIdle'
  <2>1. PICK w \in Workers :
              /\ txn[w].pc \in {"reg_insert", "approve_stamp", "rej_stamp", "cancel_row",
                                "cancel_count", "cancel_promote"}
              /\ txn'[w] # txn[w]
    BY <1>1
  <2>2. PICK v \in Workers : Step(v)
    BY <1>1, <2>1 DEF Next, Step, EditCapacity, CloseEvent
  <2>3. v = w
    BY <1>1, <2>1, <2>2, StepFrame
  <2>4. CASE Abort(w)
    BY <1>1, <2>4, SameSeats DEF IInv, Abort, Rollback, event
  <2>5. ~Arrive(w)
    BY <2>1 DEF Arrive, RegisterRead, WaitlistRead, EnrollRead, FulfilRead,
       RequestRead, DecideRead, PatchRead, BulkRead, BeginInsert, Begin
  <2>6. CASE Statement(w)
    <3>1. \/ RegisterInsert(w) \/ ApproveStamp(w) \/ RejectStamp(w)
          \/ CancelRow(w) \/ CancelCount(w) \/ CancelPromote(w)
      BY <2>1, <2>6 DEF Statement, RegisterLock, WaitlistInsert, Insert, InsertCount,
         RequestStamp, Stamp, CancelRead, PatchRow, PatchCount, BulkRow, BulkCount, BulkCommit
    <3> QED
      BY <1>1, <3>1, RegisterFills, CancelFills
  <2> QED
    BY <2>2, <2>3, <2>4, <2>5, <2>6 DEF Step
<1>2. ASSUME IInv, [Next]_vars
      PROVE  [CountAgrees /\ ~SeatIdle /\ Moved => ~(CountAgrees /\ SeatIdle)']_vars
  BY <1>1, <1>2
<1> QED
  BY <1>2, Invariance, PTL DEF Spec, NoIdleSeat
=============================================================================
