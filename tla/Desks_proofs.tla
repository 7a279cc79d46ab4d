---------------------------- MODULE Desks_proofs ----------------------------
(***************************************************************************)
(* Proofs about the smaller desks: Treasury, StudentDesks, Grievances and  *)
(* Notifications, for any number of rows and requests.                     *)
(*                                                                         *)
(* No two budgets plan the same line (DistinctLines), by the unique        *)
(* constraint that two requests meet which both have found no budget; a    *)
(* rollup keeps this of the budgets it has read.  An edit has read a       *)
(* draft.  A placement and a mentor come with their status.  A sweep holds *)
(* items that were due and not stamped as it listed them, and what was     *)
(* sent is stamped or about to be (Told).  An unsubscription that switches *)
(* push off has counted no device.                                         *)
(***************************************************************************)
EXTENDS StudentDesks, Treasury, Grievances, Notifications, FiniteSetTheorems, WellFoundedInduction, TLAPS

-----------------------------------------------------------------------------
(* The treasury.                                                           *)

\* What a request holds between its statements.
TreasuryTxn(t) ==
    /\ t.pc = "edit" => t.b \in Bills /\ t.amount \in Amounts /\ t.line \in Lines /\ t.read.status = "draft"
    /\ t.pc = "plan" => t.line \in Lines
    /\ t.pc = "rollup" => /\ t.rows \subseteq BudgetRows
                          /\ \A i, j \in t.rows : t.lines[i] = t.lines[j] => i = j

DistinctLines == \A i, j \in BudgetRows : budget[i] # None /\ budget[i] = budget[j] => i = j

\* The bill that is edited is there.
EditedBills == \A w \in Workers : At(w, "edit") => bill[txn[w].b] # None

\* Bills are not removed.
BillsKept == \A b \in Bills : bill[b] # None => bill'[b] # None

TreasuryInv ==
    /\ TreasuryTypeOK
    /\ DOMAIN txn = Workers
    /\ \A w \in Workers : TreasuryTxn(txn[w])
    /\ EditedBills
    /\ DistinctLines

-----------------------------------------------------------------------------
(* Requests and rows.                                                      *)

LEMMA TreasuryHolds ==
    ASSUME TreasuryInv, TreasuryTypeOK', UNCHANGED budget, BillsKept,
           NEW w \in Workers, NEW t, TreasuryTxn(t), txn' = [txn EXCEPT ![w] = t],
           t.pc = "edit" => bill[t.b] # None
    PROVE  TreasuryInv'
<1>1. DOMAIN txn' = Workers /\ \A v \in Workers : txn'[v] = IF v = w THEN t ELSE txn[v]
  BY DEF TreasuryInv
<1>2. EditedBills'
  BY <1>1 DEF TreasuryInv, EditedBills, TreasuryTxn, BillsKept, At
<1>3. QED
  BY <1>1, <1>2 DEF TreasuryInv, DistinctLines

LEMMA TreasuryIdle == TreasuryTxn(Idle) /\ Idle.pc = "idle"
BY DEF TreasuryTxn, Idle

LEMMA TreasuryEnds ==
    ASSUME TreasuryInv, TreasuryTypeOK', UNCHANGED budget, BillsKept, NEW w \in Workers, End(w)
    PROVE  TreasuryInv'
BY TreasuryHolds, TreasuryIdle DEF End

LEMMA RowFields ==
    ASSUME NEW r \in BillRows
    PROVE  /\ r.status \in {"draft", "submitted", "approved", "rejected", "paid"} /\ r.amount \in Amounts
           /\ r.line \in Lines \cup {[line EXCEPT !.category = None] : line \in Lines}
           /\ r # None
BY TreasuryAssumption DEF BillRows

LEMMA StatusRow ==
    ASSUME NEW r \in BillRows, NEW s \in {"draft", "submitted", "approved", "rejected", "paid"}
    PROVE  /\ [r EXCEPT !.status = s] \in BillRows
           /\ [r EXCEPT !.status = s].status = s /\ [r EXCEPT !.status = s].line = r.line
           /\ [r EXCEPT !.status = s].amount = r.amount /\ [r EXCEPT !.status = s].deleted = r.deleted
BY DEF BillRows

LEMMA DeletedRow == ASSUME NEW r \in BillRows PROVE [r EXCEPT !.deleted = TRUE] \in BillRows
BY DEF BillRows

LEMMA EditedRow ==
    ASSUME NEW r \in BillRows, NEW amount \in Amounts, NEW line \in Lines
    PROVE  [r EXCEPT !.amount = amount, !.line = line] \in BillRows
BY DEF BillRows

LEMMA UncategorisedRow ==
    ASSUME NEW r \in BillRows
    PROVE  [r EXCEPT !.line.category = None] \in BillRows
<1> DEFINE Left == {[line EXCEPT !.category = None] : line \in Lines}
<1>1. r.line \in Lines \cup Left
  BY DEF BillRows
<1>2. [r.line EXCEPT !.category = None] \in Left
  <2>1. CASE r.line \in Lines
    BY <2>1
  <2>2. CASE r.line \in Left
    <3>1. PICK line \in Lines : r.line = [line EXCEPT !.category = None]
      BY <2>2
    <3>2. [[line EXCEPT !.category = None] EXCEPT !.category = None] = [line EXCEPT !.category = None]
      OBVIOUS
    <3>3. QED
      BY <3>1, <3>2
  <2>3. QED
    BY <1>1, <2>1, <2>2
<1>3. PICK line \in Lines \cup Left : line = [r.line EXCEPT !.category = None]
  BY <1>2
<1>4. [r EXCEPT !.line = line] \in BillRows
  BY DEF BillRows
<1>5. [r EXCEPT !.line.category = None] = [r EXCEPT !.line = line]
  BY <1>3
<1>6. QED
  BY <1>4, <1>5

\* A step that changes one bill.
LEMMA BillType ==
    ASSUME TreasuryInv, NEW b \in Bills, NEW row \in BillRows, SetBill(b, row)
    PROVE  TreasuryTypeOK' /\ UNCHANGED <<budget, category>> /\ BillsKept
BY RowFields DEF SetBill, TreasuryInv, TreasuryTypeOK, BillsKept

-----------------------------------------------------------------------------
(* The invariant.                                                          *)

LEMMA TreasuryInitInv == ASSUME RequestsInit, TreasuryInit PROVE TreasuryInv
<1>1. TreasuryTypeOK /\ DistinctLines
  BY DEF TreasuryInit, TreasuryTypeOK, DistinctLines
<1>2. QED
  BY <1>1, TreasuryIdle DEF RequestsInit, TreasuryInv, EditedBills, At

\* Steps of one statement on a bill.
LEMMA BillStep ==
    ASSUME TreasuryInv, NEW b \in Bills,
           \/ DeleteBill(b) \/ \E step \in Flow.bill : DecideBill(b, step)
           \/ \E amount \in Amounts, line \in Lines, status \in {"draft", "submitted"} :
                 RecordBill(b, amount, line, status)
    PROVE  TreasuryInv'
<1>1. PICK row \in BillRows : SetBill(b, row) /\ UNCHANGED requests
  <2>1. bill[b] # None => bill[b] \in BillRows
    BY DEF TreasuryInv, TreasuryTypeOK
  <2>2. CASE DeleteBill(b)
    BY <2>1, <2>2, DeletedRow DEF DeleteBill, Serves
  <2>3. CASE \E step \in Flow.bill : DecideBill(b, step)
    <3>1. PICK step \in Flow.bill : DecideBill(b, step)
      BY <2>3
    <3>2. step[2] \in {"submitted", "approved", "rejected", "paid"}
      BY DEF Flow
    <3>3. QED
      BY <2>1, <3>1, <3>2, StatusRow DEF DecideBill, Serves
  <2>4. ASSUME NEW amount \in Amounts, NEW line \in Lines, NEW status \in {"draft", "submitted"},
               RecordBill(b, amount, line, status)
        PROVE  \E row \in BillRows : SetBill(b, row) /\ UNCHANGED requests
    <3>1. [status |-> status, amount |-> amount, line |-> line, deleted |-> FALSE] \in BillRows
      BY DEF BillRows
    <3>2. QED
      BY <2>4, <3>1 DEF RecordBill, Serves
  <2>5. QED
    BY <2>2, <2>3, <2>4
<1>2. TreasuryTypeOK' /\ UNCHANGED <<budget, txn>> /\ BillsKept
  BY <1>1, BillType DEF requests
<1>3. QED
  BY <1>2 DEF TreasuryInv, DistinctLines, EditedBills, TreasuryTxn, BillsKept, At

\* An edit: the draft it has read, and its write.
LEMMA EditStep ==
    ASSUME TreasuryInv, NEW w \in Workers,
           \/ \E b \in Bills, amount \in Amounts, line \in Lines : EditRead(w, b, amount, line)
           \/ EditWrite(w)
    PROVE  TreasuryInv'
<1>1. ASSUME NEW b \in Bills, NEW amount \in Amounts, NEW line \in Lines, EditRead(w, b, amount, line)
      PROVE  TreasuryInv'
  <2> DEFINE t == [pc |-> "edit", b |-> b, amount |-> amount, line |-> line, read |-> bill[b]]
  <2>1. TreasuryTxn(t) /\ txn' = [txn EXCEPT ![w] = t] /\ bill[t.b] # None
    BY <1>1 DEF EditRead, Hold, TreasuryTxn
  <2> HIDE DEF t
  <2>2. TreasuryTypeOK' /\ UNCHANGED budget /\ BillsKept
    BY <1>1 DEF EditRead, treasury, TreasuryInv, TreasuryTypeOK, BillsKept
  <2>3. QED
    BY <2>1, <2>2, TreasuryHolds
<1>2. ASSUME EditWrite(w) PROVE TreasuryInv'
  <2>1. PICK b \in Bills, amount \in Amounts, line \in Lines :
           b = txn[w].b /\ amount = txn[w].amount /\ line = txn[w].line
    BY <1>2 DEF EditWrite, At, TreasuryInv, TreasuryTxn
  <2>2. End(w) /\ (UNCHANGED treasury \/ SetBill(b, [bill[b] EXCEPT !.amount = amount, !.line = line]))
    BY <1>2, <2>1 DEF EditWrite
  <2>3. CASE UNCHANGED treasury
    BY <2>2, <2>3, TreasuryEnds DEF treasury, TreasuryInv, TreasuryTypeOK, BillsKept
  <2>4. CASE SetBill(b, [bill[b] EXCEPT !.amount = amount, !.line = line])
    <3>1. bill[b] \in BillRows
      BY <1>2, <2>1 DEF EditWrite, TreasuryInv, EditedBills, TreasuryTypeOK
    <3>2. QED
      BY <2>2, <2>4, <3>1, EditedRow, BillType, TreasuryEnds
  <2>5. QED
    BY <2>2, <2>3, <2>4
<1>3. QED
  BY <1>1, <1>2
\* A plan: whether the line was found, and the insertion.
LEMMA PlanStep ==
    ASSUME TreasuryInv, NEW w \in Workers, (\E line \in Lines : PlanRead(w, line)) \/ PlanWrite(w)
    PROVE  TreasuryInv'
<1>1. ASSUME NEW line \in Lines, PlanRead(w, line) PROVE TreasuryInv'
  <2> DEFINE found == \E i \in BudgetRows : budget[i] = line
             t == [pc |-> "plan", line |-> line, found |-> found]
  <2>1. TreasuryTxn(t) /\ txn' = [txn EXCEPT ![w] = t] /\ t.pc = "plan"
    <3>1. txn' = [txn EXCEPT ![w] = t]
      BY <1>1 DEF PlanRead, Serve, Hold
    <3> HIDE DEF found
    <3>2. QED
      BY <3>1 DEF TreasuryTxn
  <2> HIDE DEF t
  <2>2. TreasuryTypeOK' /\ UNCHANGED budget /\ BillsKept
    BY <1>1 DEF PlanRead, treasury, TreasuryInv, TreasuryTypeOK, BillsKept
  <2>3. QED
    BY <2>1, <2>2, TreasuryHolds
<1>2. ASSUME PlanWrite(w) PROVE TreasuryInv'
  <2>1. PICK line \in Lines : line = txn[w].line
    BY <1>2 DEF PlanWrite, At, TreasuryInv, TreasuryTxn
  <2>2. CASE UNCHANGED treasury
    BY <1>2, <2>2, TreasuryEnds DEF PlanWrite, treasury, TreasuryInv, TreasuryTypeOK, BillsKept
  <2>3. CASE ~UNCHANGED treasury
    <3>1. PICK i \in BudgetRows : budget[i] = None /\ SetBudget(i, line) /\ ~Planned(line)
      BY <1>2, <2>1, <2>3 DEF PlanWrite
    <3>2. budget' = [budget EXCEPT ![i] = line] /\ UNCHANGED <<bill, category>>
      BY <3>1 DEF SetBudget
    <3>3. TreasuryTypeOK' /\ DistinctLines'
      BY <3>1, <3>2 DEF TreasuryInv, TreasuryTypeOK, DistinctLines, Planned
    <3>4. DOMAIN txn' = Workers /\ \A v \in Workers : txn'[v] = IF v = w THEN Idle ELSE txn[v]
      BY <1>2 DEF PlanWrite, End, TreasuryInv
    <3>5. QED
      BY <3>2, <3>3, <3>4, TreasuryIdle DEF TreasuryInv, EditedBills, At
  <2>4. QED
    BY <2>2, <2>3
<1>3. QED
  BY <1>1, <1>2

LEMMA DeleteBudgetStep ==
    ASSUME TreasuryInv, NEW i \in BudgetRows, DeleteBudget(i)
    PROVE  TreasuryInv'
<1>1. budget' = [budget EXCEPT ![i] = None] /\ UNCHANGED <<bill, category, txn>>
  BY DEF DeleteBudget, SetBudget, Serves, requests
<1>2. TreasuryTypeOK' /\ DistinctLines'
  BY <1>1 DEF TreasuryInv, TreasuryTypeOK, DistinctLines
<1>3. QED
  BY <1>1, <1>2 DEF TreasuryInv, TreasuryTxn, EditedBills, At

\* The rollup's first read, and its answer.
LEMMA RollupStep ==
    ASSUME TreasuryInv, NEW w \in Workers, RollupRead(w) \/ RollupShow(w)
    PROVE  TreasuryInv'
<1>1. TreasuryTypeOK' /\ UNCHANGED budget /\ BillsKept
  BY DEF RollupRead, RollupShow, treasury, TreasuryInv, TreasuryTypeOK, BillsKept
<1>2. CASE RollupRead(w)
  <2> DEFINE rows == {i \in BudgetRows : budget[i] # None}
             t == [pc |-> "rollup", rows |-> rows, lines |-> budget]
  <2>1. txn' = [txn EXCEPT ![w] = t]
    BY <1>2 DEF RollupRead, Serve, Hold
  <2>2. t.pc = "rollup" /\ t.rows = rows /\ t.lines = budget
    OBVIOUS
  <2> HIDE DEF t
  <2>3. TreasuryTxn(t)
    BY <2>2 DEF TreasuryTxn, TreasuryInv, DistinctLines
  <2>4. QED
    BY <1>1, <2>1, <2>2, <2>3, TreasuryHolds
<1>3. CASE RollupShow(w)
  BY <1>1, <1>3, TreasuryEnds DEF RollupShow
<1>4. QED
  BY <1>2, <1>3

LEMMA CategoryStep ==
    ASSUME TreasuryInv, NEW w \in Workers,
           (\E kind \in Categories : DeleteCategoryRead(w, kind)) \/ DeleteCategoryWrite(w)
    PROVE  TreasuryInv'
<1>1. ASSUME NEW kind \in Categories, DeleteCategoryRead(w, kind) PROVE TreasuryInv'
  <2> DEFINE t == [pc |-> "delete_category", kind |-> kind]
  <2>1. TreasuryTxn(t) /\ txn' = [txn EXCEPT ![w] = t] /\ t.pc = "delete_category"
    BY <1>1 DEF DeleteCategoryRead, Hold, TreasuryTxn
  <2> HIDE DEF t
  <2>2. TreasuryTypeOK' /\ UNCHANGED budget /\ BillsKept
    BY <1>1 DEF DeleteCategoryRead, treasury, TreasuryInv, TreasuryTypeOK, BillsKept
  <2>3. QED
    BY <2>1, <2>2, TreasuryHolds
<1>2. ASSUME DeleteCategoryWrite(w) PROVE TreasuryInv'
  <2>1. PICK kind : kind = txn[w].kind
    OBVIOUS
  <2>2. CASE UNCHANGED treasury
    BY <1>2, <2>2, TreasuryEnds DEF DeleteCategoryWrite, treasury, TreasuryInv, TreasuryTypeOK, BillsKept
  <2>3. CASE ~UNCHANGED treasury
    <3>1. /\ category' = category \ {kind} /\ budget' = budget
          /\ bill' = [b \in Bills |-> IF bill[b] # None /\ bill[b].line.category = kind
                                      THEN [bill[b] EXCEPT !.line.category = None] ELSE bill[b]]
      BY <1>2, <2>1, <2>3 DEF DeleteCategoryWrite
    <3>2. ASSUME NEW b \in Bills PROVE bill'[b] \in BillRows \cup {None} /\ (bill[b] # None => bill'[b] # None)
      <4>1. CASE bill[b] = None
        BY <3>1, <4>1
      <4>2. CASE bill[b] # None
        <5>1. bill[b] \in BillRows
          BY <4>2 DEF TreasuryInv, TreasuryTypeOK
        <5>2. [bill[b] EXCEPT !.line.category = None] \in BillRows
          BY <5>1, UncategorisedRow
        <5>3. bill'[b] \in {bill[b], [bill[b] EXCEPT !.line.category = None]}
          BY <3>1
        <5>4. bill'[b] \in BillRows
          BY <5>1, <5>2, <5>3
        <5>5. QED
          BY <5>4, RowFields
      <4>3. QED
        BY <4>1, <4>2
    <3>3. bill' \in [Bills -> BillRows \cup {None}]
      BY <3>1, <3>2
    <3>4. TreasuryTypeOK' /\ BillsKept
      BY <3>1, <3>2, <3>3 DEF TreasuryInv, TreasuryTypeOK, BillsKept
    <3>5. QED
      BY <1>2, <3>1, <3>4, TreasuryEnds DEF DeleteCategoryWrite
  <2>4. QED
    BY <2>2, <2>3
<1>3. QED
  BY <1>1, <1>2

\* Refunds, transfers, assistance, and new categories.
LEMMA TreasuryOther ==
    ASSUME TreasuryInv, UNCHANGED <<bill, budget, txn>>, category' \subseteq Categories
    PROVE  TreasuryInv'
BY DEF TreasuryInv, TreasuryTypeOK, TreasuryTxn, EditedBills, DistinctLines, At

LEMMA TreasuryNextInv == TreasuryInv /\ [TreasuryStep]_treasuryVars => TreasuryInv'
<1> SUFFICES ASSUME TreasuryInv, [TreasuryStep]_treasuryVars PROVE TreasuryInv'
  OBVIOUS
<1>1. category \subseteq Categories
  BY DEF TreasuryInv, TreasuryTypeOK
<1>2. CASE UNCHANGED treasuryVars
  BY <1>1, <1>2, TreasuryOther DEF treasuryVars, treasury, requests
<1>3. ASSUME \/ \E kind \in Categories : CreateCategory(kind)
             \/ \E r \in Refunds : \/ \E amount \in Amounts : RequestRefund(r, amount)
                                   \/ \E step \in Flow.refund : DecideRefund(r, step)
             \/ \E x \in Transfers : RequestTransfer(x) \/ (\E step \in Flow.transfer : DecideTransfer(x, step))
             \/ \E a \in Assistance, status \in {"submitted", "reviewing", "approved", "rejected", "disbursed"} :
                   DecideAssistance(a, status)
      PROVE  TreasuryInv'
  <2>1. UNCHANGED <<bill, budget, txn>> /\ category' \subseteq Categories
    BY <1>1, <1>3 DEF CreateCategory, RequestRefund, DecideRefund, RequestTransfer, DecideTransfer,
       DecideAssistance, Serves, requests
  <2>2. QED
    BY <2>1, TreasuryOther
<1>4. QED
  BY <1>2, <1>3, BillStep, EditStep, PlanStep, DeleteBudgetStep, RollupStep, CategoryStep DEF TreasuryStep

LEMMA TreasuryInvariance == TreasurySpec => []TreasuryInv
BY TreasuryInitInv, TreasuryNextInv, PTL DEF TreasurySpec

-----------------------------------------------------------------------------
(* What the rollup and the edits do.                                       *)

\* Whatever is planned, deleted, booked or decided between the rollup's two
\* reads, for any number of lines and budgets, it shows each bill in one place.
THEOREM RollupShows == TreasurySpec => []RollupsShowOnce
<1>1. TreasuryInv => RollupsShowOnce
  <2> SUFFICES ASSUME TreasuryInv, NEW w \in Workers, At(w, "rollup"), NEW b \in Bills, Counts(b)
               PROVE  Cardinality({i \in txn[w].rows : txn[w].lines[i] = bill[b].line})
                      + Cardinality({x \in Uncategorised(txn[w]) : x = bill[b].line}) = 1
    BY DEF RollupsShowOnce
  <2>1. PICK line : line = bill[b].line
    OBVIOUS
  <2> DEFINE planned == {i \in txn[w].rows : txn[w].lines[i] = line}
             others == {x \in Uncategorised(txn[w]) : x = line}
  <2>2. \A i, j \in planned : i = j
    BY DEF At, TreasuryInv, TreasuryTxn
  <2>3. line \in Actuals
    BY <2>1 DEF Actuals
  <2>4. CASE planned = {}
    <3>1. others = {line}
      BY <2>3, <2>4 DEF Uncategorised
    <3>2. Cardinality(planned) = 0 /\ Cardinality(others) = 1
      BY <2>4, <3>1, FS_EmptySet, FS_Singleton
    <3>3. QED
      BY <2>1, <3>2
  <2>5. CASE planned # {}
    <3>1. PICK i : planned = {i}
      BY <2>2, <2>5
    <3>2. others = {}
      BY <3>1 DEF Uncategorised
    <3>3. Cardinality(planned) = 1 /\ Cardinality(others) = 0
      BY <3>1, <3>2, FS_EmptySet, FS_Singleton
    <3>4. QED
      BY <2>1, <3>3
  <2>6. QED
    BY <2>4, <2>5
<1>2. QED
  BY <1>1, TreasuryInvariance, PTL

\* A bill that counts is left as it is by every step of a fresh request.
LEMMA CountedStays ==
    ASSUME TreasuryInv, TreasuryStep, \A w \in Workers : Steps(w) => ~TreasuryStale(w),
           NEW b \in Bills, Counts(b)
    PROVE  Counts(b)' /\ bill'[b].line = bill[b].line /\ bill'[b].amount = bill[b].amount
<1>1. bill[b] \in BillRows /\ bill[b].status \in {"approved", "paid"} /\ bill[b].deleted = FALSE
  BY DEF Counts, TreasuryInv, TreasuryTypeOK, BillRows
<1>2. CASE bill'[b] = bill[b]
  BY <1>2 DEF Counts
<1>3. ASSUME NEW c \in Bills, NEW row, SetBill(c, row), c # b
      PROVE  bill'[b] = bill[b]
  BY <1>3 DEF SetBill, TreasuryInv, TreasuryTypeOK
<1>4. ASSUME NEW step \in Flow.bill, DecideBill(b, step)
      PROVE  Counts(b)' /\ bill'[b].line = bill[b].line /\ bill'[b].amount = bill[b].amount
  <2>1. step = <<"approved", "paid">>
    BY <1>1, <1>4 DEF DecideBill, Flow
  <2>2. bill'[b] = [bill[b] EXCEPT !.status = "paid"]
    BY <1>4, <2>1 DEF DecideBill, SetBill, TreasuryInv, TreasuryTypeOK
  <2>3. bill'[b] \in BillRows
    BY <1>1, <2>2, StatusRow
  <2>4. QED
    BY <1>1, <2>2, <2>3, StatusRow, RowFields DEF Counts
<1>5. ASSUME NEW w \in Workers, EditWrite(w) PROVE bill'[b] = bill[b]
  <2>1. Steps(w)
    BY <1>5, TreasuryIdle DEF EditWrite, End, At, Steps, TreasuryInv
  <2>2. bill[txn[w].b] = txn[w].read /\ txn[w].read.status = "draft" /\ txn[w].b \in Bills
    BY <1>5, <2>1 DEF TreasuryStale, EditWrite, At, TreasuryInv, TreasuryTxn
  <2>3. QED
    BY <1>1, <1>3, <1>5, <2>2 DEF EditWrite, treasury
<1>6. ASSUME NEW w \in Workers, DeleteCategoryWrite(w) PROVE bill'[b] = bill[b]
  <2>1. Steps(w)
    BY <1>6, TreasuryIdle DEF DeleteCategoryWrite, End, At, Steps, TreasuryInv
  <2>2. bill[b].line.category # txn[w].kind
    BY <1>1, <1>6, <2>1, RowFields DEF TreasuryStale, DeleteCategoryWrite, At
  <2>3. QED
    BY <1>6, <2>2 DEF DeleteCategoryWrite, treasury
<1>7. ASSUME NEW c \in Bills,
             \/ DeleteBill(c)
             \/ \E amount \in Amounts, line \in Lines, status \in {"draft", "submitted"} :
                   RecordBill(c, amount, line, status)
      PROVE  bill'[b] = bill[b]
  BY <1>1, <1>3, <1>7, RowFields DEF DeleteBill, RecordBill
<1>8. ASSUME NEW c \in Bills, NEW step \in Flow.bill, DecideBill(c, step), c # b
      PROVE  bill'[b] = bill[b]
  BY <1>3, <1>8 DEF DecideBill
<1>9. CASE UNCHANGED bill
  BY <1>2, <1>9
<1>10. QED
  BY <1>2, <1>4, <1>5, <1>6, <1>7, <1>8, <1>9
     DEF TreasuryStep, EditRead, PlanRead, PlanWrite, SetBudget, DeleteBudget, RollupRead, RollupShow,
         DeleteCategoryRead, CreateCategory, RequestRefund, DecideRefund, RequestTransfer, DecideTransfer,
         DecideAssistance, treasury

\* What was approved stays spent where it was approved, for any number of bills
\* and categories, unless an edit or a category's deletion has been overtaken.
THEOREM ApprovedStays == TreasurySpec => OnlyStaleEditsRestate
<1>1. ASSUME TreasuryInv, [TreasuryStep]_treasuryVars
      PROVE  [(\A w \in Workers : Steps(w) => ~TreasuryStale(w)) =>
                \A b \in Bills : Counts(b) =>
                   /\ Counts(b)'
                   /\ bill'[b].line = bill[b].line /\ bill'[b].amount = bill[b].amount]_bill
  <2>1. CASE TreasuryStep
    BY <1>1, <2>1, CountedStays
  <2>2. CASE UNCHANGED treasuryVars
    BY <2>2 DEF treasuryVars, treasury
  <2>3. QED
    BY <1>1, <2>1, <2>2
<1>2. QED
  BY <1>1, TreasuryInvariance, PTL DEF TreasurySpec, OnlyStaleEditsRestate

-----------------------------------------------------------------------------
(* The students' desks.                                                    *)

\* A placement and a mentor come with their status, and stay.
IsMatch(r) ==
    /\ r = [status |-> r.status, firms |-> r.firms, placed |-> r.placed, answer |-> r.answer]
    /\ r.placed # None => r.status \in {"placed", "cancelled"}

IsMentoring(r) ==
    /\ r = [status |-> r.status, mentor |-> r.mentor, by |-> r.by]
    /\ r.mentor # None => r.status \notin {None, "pending"}

IsPaper(r) == "year" \in DOMAIN r

StudentTxn(t) ==
    /\ t.pc = "confirm" => t.m \in Matches /\ t.read.status = "matched"
    /\ t.pc = "assign" => t.q \in Mentorings
    /\ t.pc = "paper" => t.p \in Papers

StudentRows ==
    /\ match = [m \in Matches |-> match[m]] /\ \A m \in Matches : IsMatch(match[m])
    /\ mentoring = [q \in Mentorings |-> mentoring[q]] /\ \A q \in Mentorings : IsMentoring(mentoring[q])
    /\ paper = [p \in Papers |-> paper[p]] /\ \A p \in Papers : IsPaper(paper[p])

StudentTxns ==
    /\ txn = [w \in Workers |-> txn[w]]
    /\ \A w \in Workers : StudentTxn(txn[w])

StudentInv == StudentRows /\ StudentTxns

LEMMA StudentHolds ==
    ASSUME StudentTxns, NEW w \in Workers, NEW t, StudentTxn(t), txn' = [txn EXCEPT ![w] = t]
    PROVE  StudentTxns'
BY DEF StudentTxns

LEMMA StudentEnds == ASSUME StudentTxns, NEW w \in Workers, End(w) PROVE StudentTxns'
<1>1. StudentTxn(Idle)
  BY DEF StudentTxn, Idle
<1>2. QED
  BY <1>1, StudentHolds DEF End

\* What one step does to the matches: nothing, or one row.
Matched(m, r) == IsMatch(r) /\ match' = [match EXCEPT ![m] = r]

LEMMA MatchSteps ==
    ASSUME StudentInv, NEW m \in Matches,
           \/ SubmitMatch(m) \/ CancelMatch(m) \/ DeclineShortlist(m)
           \/ \E firms \in SUBSET Firms : Recommend(m, firms)
           \/ \E firm \in Firms : Place(m, firm)
    PROVE  /\ UNCHANGED <<requests, mentoring, paper>>
           /\ \E r : /\ Matched(m, r)
                     /\ match[m].placed # None => r.placed = match[m].placed
                     /\ match[m].status = "cancelled" => r.status = "cancelled"
<1>1. PICK a : a = match[m] /\ IsMatch(a)
  BY DEF StudentInv, StudentRows
<1>2. CASE SubmitMatch(m)
  <2>1. PICK r : r = [a EXCEPT !.status = "submitted"]
    OBVIOUS
  <2>2. a.status = None /\ match' = [match EXCEPT ![m] = r]
    BY <1>1, <1>2, <2>1 DEF SubmitMatch, SetMatch
  <2>3. IsMatch(r) /\ r.placed = a.placed /\ a.status # "cancelled"
    BY <1>1, <2>1, <2>2, StudentDesksAssumption DEF IsMatch, MatchStatuses
  <2>4. QED
    BY <1>1, <1>2, <2>2, <2>3 DEF Matched, SubmitMatch, SetMatch, Serves
<1>3. CASE CancelMatch(m)
  <2>1. PICK r : r = [a EXCEPT !.status = "cancelled"]
    OBVIOUS
  <2>2. match' = [match EXCEPT ![m] = r]
    BY <1>1, <1>3, <2>1 DEF CancelMatch, SetMatch
  <2>3. IsMatch(r) /\ r.placed = a.placed /\ r.status = "cancelled"
    BY <1>1, <2>1 DEF IsMatch
  <2>4. QED
    BY <1>1, <1>3, <2>2, <2>3 DEF Matched, CancelMatch, SetMatch, Serves
<1>4. CASE DeclineShortlist(m)
  <2>1. PICK r : r = [a EXCEPT !.answer = "declined"]
    OBVIOUS
  <2>2. match' = [match EXCEPT ![m] = r]
    BY <1>1, <1>4, <2>1 DEF DeclineShortlist, SetMatch
  <2>3. IsMatch(r) /\ r.placed = a.placed /\ r.status = a.status
    BY <1>1, <2>1 DEF IsMatch
  <2>4. QED
    BY <1>1, <1>4, <2>2, <2>3 DEF Matched, DeclineShortlist, SetMatch, Serves
<1>5. ASSUME NEW firms \in SUBSET Firms, Recommend(m, firms)
      PROVE  /\ UNCHANGED <<requests, mentoring, paper>>
             /\ \E r : /\ Matched(m, r)
                       /\ match[m].placed # None => r.placed = match[m].placed
                       /\ match[m].status = "cancelled" => r.status = "cancelled"
  <2>1. PICK c : c = [a EXCEPT !.status = "matched"]
    OBVIOUS
  <2>2. PICK r : r = [c EXCEPT !.firms = firms]
    OBVIOUS
  <2>3. a.status = "submitted" /\ match' = [match EXCEPT ![m] = r]
    BY <1>1, <1>5, <2>1, <2>2 DEF Recommend, SetMatch
  <2>4. c = [status |-> "matched", firms |-> a.firms, placed |-> a.placed, answer |-> a.answer]
    BY <1>1, <2>1 DEF IsMatch
  <2>5. r = [status |-> "matched", firms |-> firms, placed |-> a.placed, answer |-> a.answer]
    BY <2>2, <2>4
  <2>6. IsMatch(r) /\ r.placed = a.placed
    BY <1>1, <2>3, <2>5 DEF IsMatch
  <2>7. QED
    BY <1>1, <1>5, <2>3, <2>6 DEF Matched, Recommend, SetMatch, Serves
<1>6. ASSUME NEW firm \in Firms, Place(m, firm)
      PROVE  /\ UNCHANGED <<requests, mentoring, paper>>
             /\ \E r : /\ Matched(m, r)
                       /\ match[m].placed # None => r.placed = match[m].placed
                       /\ match[m].status = "cancelled" => r.status = "cancelled"
  <2>1. PICK c : c = [a EXCEPT !.status = "placed"]
    OBVIOUS
  <2>2. PICK r : r = [c EXCEPT !.placed = firm]
    OBVIOUS
  <2>3. a.status = "matched" /\ match' = [match EXCEPT ![m] = r]
    BY <1>1, <1>6, <2>1, <2>2 DEF Place, SetMatch
  <2>4. c = [status |-> "placed", firms |-> a.firms, placed |-> a.placed, answer |-> a.answer]
    BY <1>1, <2>1 DEF IsMatch
  <2>5. r = [status |-> "placed", firms |-> a.firms, placed |-> firm, answer |-> a.answer]
    BY <2>2, <2>4
  <2>6. IsMatch(r) /\ a.placed = None
    BY <1>1, <2>3, <2>5 DEF IsMatch
  <2>7. QED
    BY <1>1, <1>6, <2>3, <2>6 DEF Matched, Place, SetMatch, Serves
<1>7. QED
  BY <1>2, <1>3, <1>4, <1>5, <1>6

LEMMA Confirms ==
    ASSUME StudentInv, NEW w \in Workers, ConfirmPlacementWrite(w)
    PROVE  /\ UNCHANGED <<mentoring, paper>> /\ End(w) /\ Steps(w)
           /\ \E r : Matched(txn[w].m, r)
           /\ txn[w].m \in Matches /\ txn[w].read.status = "matched"
<1>1. PICK t : t = txn[w]
  OBVIOUS
<1>2. t.pc = "confirm" /\ t.m \in Matches /\ t.read.status = "matched"
  BY <1>1 DEF ConfirmPlacementWrite, At, StudentInv, StudentTxns, StudentTxn
<1>3. PICK a : a = match[t.m] /\ IsMatch(a)
  BY <1>2 DEF StudentInv, StudentRows
<1>4. PICK c : c = [a EXCEPT !.status = "placed"]
  OBVIOUS
<1>5. PICK d : d = [c EXCEPT !.placed = t.firm]
  OBVIOUS
<1>6. PICK r : r = [d EXCEPT !.answer = "confirmed"]
  OBVIOUS
<1>7. c = [status |-> "placed", firms |-> a.firms, placed |-> a.placed, answer |-> a.answer]
  BY <1>3, <1>4 DEF IsMatch
<1>8. d = [status |-> "placed", firms |-> a.firms, placed |-> t.firm, answer |-> a.answer]
  BY <1>5, <1>7
<1>9. r = [status |-> "placed", firms |-> a.firms, placed |-> t.firm, answer |-> "confirmed"]
  BY <1>6, <1>8
<1>10. IsMatch(r)
  BY <1>9 DEF IsMatch
<1>11. match' = [match EXCEPT ![t.m] = r]
  <2>1. match' = [match EXCEPT ![t.m] = [a EXCEPT !.status = "placed", !.placed = t.firm, !.answer = "confirmed"]]
    BY <1>1, <1>3, Zenon DEF ConfirmPlacementWrite, SetMatch
  <2>2. QED
    BY <1>4, <1>5, <1>6, <2>1
<1>12. Steps(w)
  BY <1>1, <1>2 DEF ConfirmPlacementWrite, End, Idle, Steps, StudentInv, StudentTxns
<1>13. QED
  BY <1>1, <1>2, <1>10, <1>11, <1>12 DEF Matched, ConfirmPlacementWrite, SetMatch

\* What one step does to the requests for a mentor.
Mentored(q, r) ==
    /\ IsMentoring(r) /\ mentoring' = [mentoring EXCEPT ![q] = r]
    /\ mentoring[q].mentor # None => r.mentor = mentoring[q].mentor

LEMMA MentoringSteps ==
    ASSUME StudentInv, NEW q \in Mentorings,
           \/ RequestMentor(q) \/ ScheduleMentoring(q) \/ CompleteMentoring(q)
           \/ CancelByStudent(q) \/ CancelMentoringByDesk(q)
    PROVE  UNCHANGED <<requests, match, paper>> /\ \E r : Mentored(q, r)
<1>1. PICK a : a = mentoring[q] /\ IsMentoring(a)
  BY DEF StudentInv, StudentRows
<1>2. ASSUME NEW s, s \notin {None, "pending"} \/ a.mentor = None,
             mentoring' = [mentoring EXCEPT ![q] = [a EXCEPT !.status = s]]
      PROVE  \E r : Mentored(q, r)
  <2>1. PICK r : r = [a EXCEPT !.status = s]
    OBVIOUS
  <2>2. IsMentoring(r) /\ r.mentor = a.mentor
    BY <1>1, <1>2, <2>1 DEF IsMentoring
  <2>3. QED
    BY <1>1, <1>2, <2>1, <2>2 DEF Mentored
<1>3. ASSUME NEW s \in {"completed", "cancelled"}, NEW x,
             mentoring' = [mentoring EXCEPT ![q] = [a EXCEPT !.status = s, !.by = x]]
      PROVE  \E r : Mentored(q, r)
  <2>1. PICK c : c = [a EXCEPT !.status = s]
    OBVIOUS
  <2>2. PICK r : r = [c EXCEPT !.by = x]
    OBVIOUS
  <2>3. c = [status |-> s, mentor |-> a.mentor, by |-> a.by]
    BY <1>1, <2>1 DEF IsMentoring
  <2>4. r = [status |-> s, mentor |-> a.mentor, by |-> x]
    BY <2>2, <2>3
  <2>5. IsMentoring(r) /\ r.mentor = a.mentor
    BY <1>3, <2>4, StudentDesksAssumption DEF IsMentoring, MentoringStatuses
  <2>6. QED
    BY <1>1, <1>3, <2>1, <2>2, <2>5 DEF Mentored
<1>4. UNCHANGED <<requests, match, paper>>
  BY DEF RequestMentor, ScheduleMentoring, CompleteMentoring, CancelByStudent, CancelMentoringByDesk,
         SetMentoring, Serves
<1>5. CASE RequestMentor(q)
  <2>1. a.mentor = None
    BY <1>1, <1>5 DEF RequestMentor, IsMentoring
  <2>2. QED
    BY <1>1, <1>2, <1>4, <1>5, <2>1 DEF RequestMentor, SetMentoring
<1>6. CASE ScheduleMentoring(q)
  <2>1. "scheduled" \notin {None, "pending"}
    BY StudentDesksAssumption DEF MentoringStatuses
  <2>2. QED
    BY <1>1, <1>2, <1>4, <1>6, <2>1 DEF ScheduleMentoring, SetMentoring
<1>7. CASE CompleteMentoring(q)
  <2>1. mentoring' = [mentoring EXCEPT ![q] = [a EXCEPT !.status = "completed", !.by = None]]
    BY <1>1, <1>7, Zenon DEF CompleteMentoring, SetMentoring
  <2>2. QED
    BY <1>3, <1>4, <2>1
<1>8. CASE CancelByStudent(q)
  <2>1. mentoring' = [mentoring EXCEPT ![q] = [a EXCEPT !.status = "cancelled", !.by = "student"]]
    BY <1>1, <1>8, Zenon DEF CancelByStudent, SetMentoring
  <2>2. QED
    BY <1>3, <1>4, <2>1
<1>9. CASE CancelMentoringByDesk(q)
  <2>1. mentoring' = [mentoring EXCEPT ![q] = [a EXCEPT !.status = "cancelled", !.by = "desk"]]
    BY <1>1, <1>9, Zenon DEF CancelMentoringByDesk, SetMentoring
  <2>2. QED
    BY <1>3, <1>4, <2>1
<1>10. QED
  BY <1>5, <1>6, <1>7, <1>8, <1>9

LEMMA Assigns ==
    ASSUME StudentInv, NEW w \in Workers, AssignWrite(w)
    PROVE  /\ UNCHANGED <<match, paper>> /\ End(w)
           /\ mentoring' = mentoring \/ \E q \in Mentorings : \E r : Mentored(q, r)
<1>1. PICK t : t = txn[w]
  OBVIOUS
<1>2. t.q \in Mentorings
  BY <1>1 DEF AssignWrite, At, StudentInv, StudentTxns, StudentTxn
<1>3. PICK a : a = mentoring[t.q] /\ IsMentoring(a)
  BY <1>2 DEF StudentInv, StudentRows
<1>4. CASE a.status # "pending"
  BY <1>1, <1>3, <1>4 DEF AssignWrite, students
<1>5. CASE a.status = "pending"
  <2>1. PICK c : c = [a EXCEPT !.status = "matched"]
    OBVIOUS
  <2>2. PICK r : r = [c EXCEPT !.mentor = t.mentor]
    OBVIOUS
  <2>3. c = [status |-> "matched", mentor |-> a.mentor, by |-> a.by]
    BY <1>3, <2>1 DEF IsMentoring
  <2>4. r = [status |-> "matched", mentor |-> t.mentor, by |-> a.by]
    BY <2>2, <2>3
  <2>5. IsMentoring(r) /\ a.mentor = None
    BY <1>3, <1>5, <2>4, StudentDesksAssumption DEF IsMentoring, MentoringStatuses
  <2>6. SetMentoring(t.q, [a EXCEPT !.status = "matched", !.mentor = t.mentor])
    BY <1>1, <1>3, <1>5, Zenon DEF AssignWrite
  <2>7. mentoring' = [mentoring EXCEPT ![t.q] = r] /\ UNCHANGED <<match, paper>>
    BY <2>1, <2>2, <2>6 DEF SetMentoring
  <2>8. Mentored(t.q, r)
    BY <1>3, <2>5, <2>7 DEF Mentored
  <2>9. QED
    BY <1>2, <2>7, <2>8 DEF AssignWrite
<1>6. QED
  BY <1>4, <1>5

\* The paper of the year.
LEMMA PaperRow == ASSUME NEW b, NEW y PROVE LET r == [there |-> b, year |-> y] IN IsPaper(r) /\ r.year = y
BY DEF IsPaper

Papered(f) == paper' = f /\ f = [p \in Papers |-> f[p]] /\ \A p \in Papers : IsPaper(f[p])

LEMMA Unsets ==
    ASSUME StudentInv, NEW w \in Workers, NEW p \in Papers, NEW year \in Years, UnsetPrevious(w, p, year)
    PROVE  /\ UNCHANGED <<match, mentoring>>
           /\ \E f : Papered(f) /\ \A x \in Papers : paper[x].year \in {year, f[x].year}
           /\ txn[w] = Idle
           /\ \E t : StudentTxn(t) /\ t.pc = "paper" /\ t.year = year /\ txn' = [txn EXCEPT ![w] = t]
<1>1. PICK t : t = [pc |-> "paper", p |-> p, year |-> year, new |-> ~paper[p].there]
  OBVIOUS
<1>2. txn[w] = Idle /\ txn' = [txn EXCEPT ![w] = t]
  BY <1>1 DEF UnsetPrevious, Serve, Ready, Hold
<1>3. StudentTxn(t) /\ t.pc = "paper" /\ t.year = year
  BY <1>1 DEF StudentTxn
<1>4. PICK f : f = [x \in Papers |-> IF paper[x].year = year /\ x # p THEN [paper[x] EXCEPT !.year = None] ELSE paper[x]]
  OBVIOUS
<1>5. paper' = f /\ UNCHANGED <<match, mentoring>>
  BY <1>4 DEF UnsetPrevious, SetPapers
<1>6. ASSUME NEW x \in Papers PROVE IsPaper(f[x]) /\ paper[x].year \in {year, f[x].year}
  <2>1. IsPaper(paper[x])
    BY DEF StudentInv, StudentRows
  <2>2. QED
    BY <1>4, <2>1 DEF IsPaper
<1>7. Papered(f)
  BY <1>4, <1>5, <1>6 DEF Papered
<1>8. QED
  BY <1>2, <1>3, <1>5, <1>6, <1>7

\* One paper is written.
PaperSet(p, y) ==
    \E f : Papered(f) /\ f[p].year = y /\ \A x \in Papers \ {p} : f[x] = paper[x]

LEMMA SetsPaper ==
    ASSUME StudentInv, NEW p \in Papers, NEW b, NEW y, paper' = [paper EXCEPT ![p] = [there |-> b, year |-> y]]
    PROVE  PaperSet(p, y)
<1>1. PICK r : r = [there |-> b, year |-> y]
  OBVIOUS
<1>2. IsPaper(r) /\ r.year = y
  BY <1>1, PaperRow
<1>3. PICK f : f = [paper EXCEPT ![p] = r]
  OBVIOUS
<1>4. Papered(f) /\ f[p].year = y /\ \A x \in Papers \ {p} : f[x] = paper[x]
  BY <1>1, <1>2, <1>3 DEF Papered, StudentInv, StudentRows
<1>5. QED
  BY <1>4 DEF PaperSet

LEMMA PlainPapers ==
    ASSUME StudentInv, NEW p \in Papers, PlainPaper(p) \/ DeletePaper(p)
    PROVE  UNCHANGED <<requests, match, mentoring>> /\ PaperSet(p, None)
<1>1. PICK b : paper' = [paper EXCEPT ![p] = [there |-> b, year |-> None]]
  BY Zenon DEF PlainPaper, DeletePaper, SetPapers
<1>2. UNCHANGED <<requests, match, mentoring>>
  BY DEF PlainPaper, DeletePaper, SetPapers, Serves
<1>3. QED
  BY <1>1, <1>2, SetsPaper

LEMMA PaperWrites ==
    ASSUME StudentInv, NEW w \in Workers, PaperWrite(w)
    PROVE  /\ UNCHANGED <<match, mentoring>> /\ End(w) /\ txn[w].p \in Papers
           /\ paper' = paper \/ PaperSet(txn[w].p, txn[w].year)
<1>1. txn[w].p \in Papers
  BY DEF PaperWrite, At, StudentInv, StudentTxns, StudentTxn
<1>2. \/ UNCHANGED students
      \/ SetPapers([paper EXCEPT ![txn[w].p] = [there |-> TRUE, year |-> txn[w].year]])
  BY Zenon DEF PaperWrite
<1>3. CASE UNCHANGED students
  BY <1>1, <1>3 DEF PaperWrite, students
<1>4. CASE SetPapers([paper EXCEPT ![txn[w].p] = [there |-> TRUE, year |-> txn[w].year]])
  <2>1. PICK b : paper' = [paper EXCEPT ![txn[w].p] = [there |-> b, year |-> txn[w].year]]
    BY <1>4, Zenon DEF SetPapers
  <2>2. PaperSet(txn[w].p, txn[w].year)
    BY <1>1, <2>1, SetsPaper
  <2>3. QED
    BY <1>1, <1>4, <2>2 DEF PaperWrite, SetPapers
<1>5. QED
  BY <1>2, <1>3, <1>4

\* The steps, by what they do to matches, mentorings and papers.
MatchStep(m) ==
    \/ SubmitMatch(m) \/ CancelMatch(m) \/ DeclineShortlist(m)
    \/ \E firms \in SUBSET Firms : Recommend(m, firms)
    \/ \E firm \in Firms : Place(m, firm)

MentoringStep(q) ==
    \/ RequestMentor(q) \/ ScheduleMentoring(q) \/ CompleteMentoring(q)
    \/ CancelByStudent(q) \/ CancelMentoringByDesk(q)

StudentRequest(w) ==
    /\ UNCHANGED <<match, mentoring, paper>> /\ txn[w] = Idle
    /\ \E t : StudentTxn(t) /\ txn' = [txn EXCEPT ![w] = t]

StudentDone(w) == UNCHANGED <<match, mentoring, paper>> /\ End(w)

LEMMA StudentBegins ==
    ASSUME NEW w \in Workers,
           \/ \E m \in Matches, firm \in Firms : ConfirmPlacementRead(w, m, firm)
           \/ \E q \in Mentorings, u \in Mentors : AssignRead(w, q, u)
           \/ \E h \in Scholarships, u \in Students : ApplyRead(w, h, u)
           \/ \E s \in Suggestions, u \in Students : VoteRead(w, u, s)
           \/ \E topic \in Topics : DeleteTopicRead(w, topic) \/ \E u \in Students : SuggestRead(w, u, topic)
    PROVE  StudentRequest(w)
<1>1. ASSUME NEW m \in Matches, NEW firm \in Firms, ConfirmPlacementRead(w, m, firm) PROVE StudentRequest(w)
  <2>1. StudentTxn([pc |-> "confirm", m |-> m, firm |-> firm, read |-> match[m]])
    BY <1>1 DEF ConfirmPlacementRead, StudentTxn
  <2>2. QED
    BY <1>1, <2>1 DEF ConfirmPlacementRead, Ready, Hold, StudentRequest, students
<1>2. ASSUME NEW q \in Mentorings, NEW u \in Mentors, AssignRead(w, q, u) PROVE StudentRequest(w)
  <2>1. StudentTxn([pc |-> "assign", q |-> q, mentor |-> u])
    BY DEF StudentTxn
  <2>2. QED
    BY <1>2, <2>1 DEF AssignRead, Ready, Hold, StudentRequest, students
<1>3. ASSUME NEW h \in Scholarships, NEW u \in Students, ApplyRead(w, h, u) PROVE StudentRequest(w)
  <2>1. StudentTxn([pc |-> "apply", h |-> h, u |-> u])
    BY DEF StudentTxn
  <2>2. QED
    BY <1>3, <2>1 DEF ApplyRead, Ready, Hold, StudentRequest, students
<1>4. ASSUME NEW s \in Suggestions, NEW u \in Students, VoteRead(w, u, s) PROVE StudentRequest(w)
  <2>1. StudentTxn([pc |-> "vote", u |-> u, s |-> s])
    BY DEF StudentTxn
  <2>2. QED
    BY <1>4, <2>1 DEF VoteRead, Ready, Hold, StudentRequest, students
<1>5. ASSUME NEW topic \in Topics, DeleteTopicRead(w, topic) PROVE StudentRequest(w)
  <2>1. StudentTxn([pc |-> "delete_topic", topic |-> topic])
    BY DEF StudentTxn
  <2>2. QED
    BY <1>5, <2>1 DEF DeleteTopicRead, Ready, Hold, StudentRequest, students
<1>6. ASSUME NEW topic \in Topics, NEW u \in Students, SuggestRead(w, u, topic) PROVE StudentRequest(w)
  <2>1. StudentTxn([pc |-> "suggest", u |-> u, topic |-> topic, others |-> Submitted(u)])
    BY DEF StudentTxn
  <2>2. QED
    BY <1>6, <2>1 DEF SuggestRead, Ready, Hold, StudentRequest, students
<1>7. QED
  BY <1>1, <1>2, <1>3, <1>4, <1>5, <1>6

LEMMA StudentFinishes ==
    ASSUME NEW w \in Workers,
           \/ ApplyInsert(w) \/ VoteInsert(w) \/ DeleteTopicWrite(w) \/ (Crash(w) /\ UNCHANGED students)
           \/ \E s \in Suggestions : SuggestInsert(w, s)
    PROVE  StudentDone(w)
<1>1. CASE ApplyInsert(w)
  BY <1>1 DEF ApplyInsert, SetApplied, StudentDone, students
<1>2. CASE VoteInsert(w)
  BY <1>2 DEF VoteInsert, SetVotes, StudentDone
<1>3. CASE DeleteTopicWrite(w)
  BY <1>3 DEF DeleteTopicWrite, StudentDone
<1>4. CASE Crash(w) /\ UNCHANGED students
  BY <1>4 DEF Crash, StudentDone, students
<1>5. ASSUME NEW s \in Suggestions, SuggestInsert(w, s) PROVE StudentDone(w)
  BY <1>5 DEF SuggestInsert, SetSuggestion, StudentDone, students
<1>6. QED
  BY <1>1, <1>2, <1>3, <1>4, <1>5

StudentsApart == UNCHANGED <<requests, match, mentoring, paper>>

LEMMA StudentApart ==
    ASSUME \/ \E u \in Mentors : SetWilling(u)
           \/ \E h \in Scholarships :
                 \/ \E field \in {"open", "active", "past", "external"} : ChangeScholarship(h, field)
                 \/ \E u \in Students :
                       \/ WithdrawApplication(h, u)
                       \/ \E status \in {"submitted", "under_review", "awarded", "rejected", "withdrawn"} :
                             ReviewApplication(h, u, status)
           \/ \E s \in Suggestions :
                 \/ Moderate(s, "approved") \/ Moderate(s, "rejected") \/ DeleteSuggestion(s)
                 \/ \E u \in Students : Unvote(u, s)
           \/ \E topic \in Topics : SwitchTopic(topic) \/ CreateTopic(topic)
           \/ WeekPasses
    PROVE  StudentsApart
<1>1. ASSUME NEW u, SetWilling(u) PROVE StudentsApart
  BY <1>1 DEF SetWilling, Serves, StudentsApart
<1>2. ASSUME NEW h, NEW field, ChangeScholarship(h, field) PROVE StudentsApart
  BY <1>2 DEF ChangeScholarship, Serves, StudentsApart
<1>3. ASSUME NEW h, NEW u, WithdrawApplication(h, u) PROVE StudentsApart
  BY <1>3 DEF WithdrawApplication, SetApplied, Serves, StudentsApart
<1>4. ASSUME NEW h, NEW u, NEW status, ReviewApplication(h, u, status) PROVE StudentsApart
  BY <1>4 DEF ReviewApplication, SetApplied, Serves, StudentsApart
<1>5. ASSUME NEW s, NEW status, Moderate(s, status) PROVE StudentsApart
  BY <1>5 DEF Moderate, SetSuggestion, Serves, StudentsApart
<1>6. ASSUME NEW s, DeleteSuggestion(s) PROVE StudentsApart
  BY <1>6 DEF DeleteSuggestion, SetSuggestion, Serves, StudentsApart
<1>7. ASSUME NEW s, NEW u, Unvote(u, s) PROVE StudentsApart
  BY <1>7 DEF Unvote, SetVotes, Serves, StudentsApart
<1>8. ASSUME NEW topic, SwitchTopic(topic) \/ CreateTopic(topic) PROVE StudentsApart
  BY <1>8 DEF SwitchTopic, CreateTopic, SetTopic, Serves, StudentsApart
<1>9. CASE WeekPasses
  BY <1>9 DEF WeekPasses, Serves, StudentsApart
<1>10. QED
  BY <1>1, <1>2, <1>3, <1>4, <1>5, <1>6, <1>7, <1>8, <1>9

LEMMA StudentSteps ==
    ASSUME StudentStep
    PROVE  \/ StudentsApart
           \/ \E m \in Matches : MatchStep(m)
           \/ \E q \in Mentorings : MentoringStep(q)
           \/ \E p \in Papers : \/ PlainPaper(p) \/ DeletePaper(p)
                                \/ \E w \in Workers, year \in Years : UnsetPrevious(w, p, year)
           \/ \E w \in Workers : \/ ConfirmPlacementWrite(w) \/ AssignWrite(w) \/ PaperWrite(w)
                                 \/ StudentRequest(w) \/ StudentDone(w)
<1>1. CASE \E m \in Matches :
              \/ SubmitMatch(m) \/ CancelMatch(m) \/ DeclineShortlist(m)
              \/ \E firms \in SUBSET Firms : Recommend(m, firms)
              \/ \E firm \in Firms : Place(m, firm) \/ (\E w \in Workers : ConfirmPlacementRead(w, m, firm))
  BY <1>1, StudentBegins DEF MatchStep
<1>2. CASE \E q \in Mentorings :
              \/ RequestMentor(q) \/ ScheduleMentoring(q) \/ CompleteMentoring(q)
              \/ CancelByStudent(q) \/ CancelMentoringByDesk(q)
              \/ \E w \in Workers, u \in Mentors : AssignRead(w, q, u)
  BY <1>2, StudentBegins DEF MentoringStep
<1>3. CASE \E h \in Scholarships :
              \/ \E field \in {"open", "active", "past", "external"} : ChangeScholarship(h, field)
              \/ \E u \in Students :
                    \/ WithdrawApplication(h, u)
                    \/ \E status \in {"submitted", "under_review", "awarded", "rejected", "withdrawn"} :
                          ReviewApplication(h, u, status)
                    \/ \E w \in Workers : ApplyRead(w, h, u)
  BY <1>3, StudentApart, StudentBegins
<1>4. CASE \E s \in Suggestions :
              \/ Moderate(s, "approved") \/ Moderate(s, "rejected") \/ DeleteSuggestion(s)
              \/ \E u \in Students : Unvote(u, s) \/ (\E w \in Workers : VoteRead(w, u, s))
              \/ \E w \in Workers : SuggestInsert(w, s)
  BY <1>4, StudentApart, StudentBegins, StudentFinishes
<1>5. CASE \E topic \in Topics :
              \/ SwitchTopic(topic) \/ CreateTopic(topic)
              \/ \E w \in Workers : DeleteTopicRead(w, topic) \/ (\E u \in Students : SuggestRead(w, u, topic))
  BY <1>5, StudentApart, StudentBegins
<1>6. CASE WeekPasses \/ \E u \in Mentors : SetWilling(u)
  BY <1>6, StudentApart
<1>7. CASE \E p \in Papers :
              \/ PlainPaper(p) \/ DeletePaper(p)
              \/ \E w \in Workers, year \in Years : UnsetPrevious(w, p, year)
  BY <1>7
<1>8. CASE \E w \in Workers :
              \/ ConfirmPlacementWrite(w) \/ AssignWrite(w) \/ ApplyInsert(w) \/ VoteInsert(w)
              \/ DeleteTopicWrite(w) \/ PaperWrite(w)
              \/ Crash(w) /\ UNCHANGED students
  BY <1>8, StudentFinishes
<1>9. QED
  BY <1>1, <1>2, <1>3, <1>4, <1>5, <1>6, <1>7, <1>8 DEF StudentStep

LEMMA StudentNext == StudentInv /\ [StudentStep]_studentVars => StudentInv'
<1> SUFFICES ASSUME StudentInv, [StudentStep]_studentVars PROVE StudentInv'
  OBVIOUS
<1>1. ASSUME UNCHANGED <<match, mentoring, paper, txn>> PROVE StudentInv'
  BY <1>1 DEF StudentInv, StudentRows, StudentTxns
<1>2. ASSUME NEW m \in Matches, NEW r, Matched(m, r), UNCHANGED <<mentoring, paper>> PROVE StudentRows'
  BY <1>2 DEF Matched, StudentInv, StudentRows
<1>3. ASSUME NEW q \in Mentorings, NEW r, Mentored(q, r), UNCHANGED <<match, paper>> PROVE StudentRows'
  BY <1>3 DEF Mentored, StudentInv, StudentRows
<1>4. ASSUME NEW f, Papered(f), UNCHANGED <<match, mentoring>> PROVE StudentRows'
  BY <1>4 DEF Papered, StudentInv, StudentRows
<1>5. ASSUME UNCHANGED <<match, mentoring, paper>> PROVE StudentRows'
  BY <1>5 DEF StudentInv, StudentRows
<1>6. ASSUME UNCHANGED txn PROVE StudentTxns'
  BY <1>6 DEF StudentInv, StudentTxns
<1>7. ASSUME NEW m \in Matches, MatchStep(m) PROVE StudentInv'
  BY <1>2, <1>6, <1>7, MatchSteps DEF MatchStep, StudentInv, requests
<1>8. ASSUME NEW q \in Mentorings, MentoringStep(q) PROVE StudentInv'
  BY <1>3, <1>6, <1>8, MentoringSteps DEF MentoringStep, StudentInv, requests
<1>9. ASSUME NEW p \in Papers, PlainPaper(p) \/ DeletePaper(p) PROVE StudentInv'
  BY <1>4, <1>6, <1>9, PlainPapers DEF PaperSet, StudentInv, requests
<1>10. ASSUME NEW p \in Papers, NEW w \in Workers, NEW year \in Years, UnsetPrevious(w, p, year) PROVE StudentInv'
  BY <1>4, <1>10, Unsets, StudentHolds DEF StudentInv
<1>11. ASSUME NEW w \in Workers, ConfirmPlacementWrite(w) PROVE StudentInv'
  BY <1>2, <1>11, Confirms, StudentEnds DEF StudentInv
<1>12. ASSUME NEW w \in Workers, AssignWrite(w) PROVE StudentInv'
  BY <1>3, <1>5, <1>12, Assigns, StudentEnds DEF StudentInv
<1>13. ASSUME NEW w \in Workers, PaperWrite(w) PROVE StudentInv'
  BY <1>4, <1>5, <1>13, PaperWrites, StudentEnds DEF PaperSet, StudentInv
<1>14. ASSUME NEW w \in Workers, StudentRequest(w) \/ StudentDone(w) PROVE StudentInv'
  BY <1>5, <1>14, StudentHolds, StudentEnds DEF StudentRequest, StudentDone, StudentInv
<1>15. CASE StudentsApart \/ UNCHANGED studentVars
  BY <1>1, <1>15 DEF StudentsApart, studentVars, students, requests
<1>16. QED
  BY <1>7, <1>8, <1>9, <1>10, <1>11, <1>12, <1>13, <1>14, <1>15, StudentSteps

LEMMA StudentInvariance == StudentsSpec => []StudentInv
<1>1. RequestsInit /\ StudentsInit => StudentInv
  <2> SUFFICES ASSUME RequestsInit, StudentsInit PROVE StudentInv
    OBVIOUS
  <2>1. ASSUME NEW m \in Matches PROVE IsMatch(match[m])
    BY DEF StudentsInit, IsMatch
  <2>2. ASSUME NEW q \in Mentorings PROVE IsMentoring(mentoring[q])
    BY DEF StudentsInit, IsMentoring
  <2>3. ASSUME NEW p \in Papers PROVE IsPaper(paper[p])
    <3>1. PICK b : paper = [x \in Papers |-> [there |-> b, year |-> None]]
      BY Zenon DEF StudentsInit
    <3>2. QED
      BY <3>1, PaperRow
  <2>4. StudentTxn(Idle)
    BY DEF StudentTxn, Idle
  <2>5. match = [m \in Matches |-> match[m]] /\ mentoring = [q \in Mentorings |-> mentoring[q]]
    BY DEF StudentsInit
  <2>6. paper = [p \in Papers |-> paper[p]]
    <3>1. PICK b : paper = [x \in Papers |-> [there |-> b, year |-> None]]
      BY Zenon DEF StudentsInit
    <3>2. QED
      BY <3>1
  <2>7. QED
    BY <2>1, <2>2, <2>3, <2>4, <2>5, <2>6 DEF RequestsInit, StudentInv, StudentRows, StudentTxns
<1>2. QED
  BY <1>1, StudentNext, PTL DEF StudentsSpec

\* A placement and a mentor stay.
Settle(m) ==
    /\ match[m].placed # None => match'[m].placed = match[m].placed
    /\ match[m].status = "cancelled" => match'[m].status = "cancelled"

LEMMA PlacementsStay ==
    ASSUME StudentInv, StudentStep,
           \A w \in Workers : (Steps(w) /\ At(w, "confirm")) => match[txn[w].m] = txn[w].read,
           NEW m \in Matches
    PROVE  Settle(m)
<1>1. CASE match' = match
  BY <1>1 DEF Settle
<1>2. ASSUME NEW n \in Matches, MatchStep(n) PROVE Settle(m)
  <2>1. PICK r : /\ Matched(n, r)
                 /\ match[n].placed # None => r.placed = match[n].placed
                 /\ match[n].status = "cancelled" => r.status = "cancelled"
    BY <1>2, MatchSteps DEF MatchStep
  <2>2. match'[m] = IF m = n THEN r ELSE match[m]
    BY <2>1 DEF Matched, StudentInv, StudentRows
  <2>3. QED
    BY <2>1, <2>2 DEF Settle
<1>3. ASSUME NEW w \in Workers, ConfirmPlacementWrite(w) PROVE Settle(m)
  <2>1. PICK n, r : n = txn[w].m /\ Matched(n, r) /\ n \in Matches
    BY <1>3, Confirms
  <2>2. match[n].status = "matched"
    BY <1>3, <2>1, Confirms DEF ConfirmPlacementWrite
  <2>3. match[n].placed = None
    BY <2>1, <2>2 DEF StudentInv, StudentRows, IsMatch
  <2>4. match'[m] = IF m = n THEN r ELSE match[m]
    BY <2>1 DEF Matched, StudentInv, StudentRows
  <2>5. QED
    BY <2>2, <2>3, <2>4 DEF Settle
<1>4. ASSUME NEW q \in Mentorings, MentoringStep(q) PROVE match' = match
  BY <1>4, MentoringSteps DEF MentoringStep
<1>5. ASSUME NEW p \in Papers, PlainPaper(p) \/ DeletePaper(p) PROVE match' = match
  BY <1>5, PlainPapers
<1>6. ASSUME NEW p \in Papers, NEW w \in Workers, NEW year \in Years, UnsetPrevious(w, p, year) PROVE match' = match
  BY <1>6, Unsets
<1>7. ASSUME NEW w \in Workers, AssignWrite(w) \/ PaperWrite(w) \/ StudentRequest(w) \/ StudentDone(w) PROVE match' = match
  BY <1>7, Assigns, PaperWrites DEF StudentRequest, StudentDone
<1>8. QED
  BY <1>1, <1>2, <1>3, <1>4, <1>5, <1>6, <1>7, StudentSteps DEF StudentsApart

LEMMA MentorsStay ==
    ASSUME StudentInv, StudentStep, NEW q \in Mentorings, mentoring[q].mentor # None
    PROVE  mentoring'[q].mentor = mentoring[q].mentor
<1>1. ASSUME NEW p \in Mentorings, NEW r, Mentored(p, r) PROVE mentoring'[q].mentor = mentoring[q].mentor
  BY <1>1 DEF Mentored, StudentInv, StudentRows
<1>2. ASSUME NEW p \in Mentorings, MentoringStep(p) PROVE mentoring'[q].mentor = mentoring[q].mentor
  BY <1>1, <1>2, MentoringSteps DEF MentoringStep
<1>3. ASSUME NEW w \in Workers, AssignWrite(w) PROVE mentoring'[q].mentor = mentoring[q].mentor
  BY <1>1, <1>3, Assigns
<1>4. ASSUME NEW m \in Matches, MatchStep(m) PROVE mentoring' = mentoring
  BY <1>4, MatchSteps DEF MatchStep
<1>5. ASSUME NEW p \in Papers, PlainPaper(p) \/ DeletePaper(p) PROVE mentoring' = mentoring
  BY <1>5, PlainPapers
<1>6. ASSUME NEW p \in Papers, NEW w \in Workers, NEW year \in Years, UnsetPrevious(w, p, year)
      PROVE  mentoring' = mentoring
  BY <1>6, Unsets
<1>7. ASSUME NEW w \in Workers, ConfirmPlacementWrite(w) \/ PaperWrite(w) \/ StudentRequest(w) \/ StudentDone(w)
      PROVE  mentoring' = mentoring
  BY <1>7, Confirms, PaperWrites DEF StudentRequest, StudentDone
<1>8. QED
  BY <1>2, <1>3, <1>4, <1>5, <1>6, <1>7, StudentSteps DEF StudentsApart

\* A placement and a mentor are for good, and a cancelled match stays so,
\* unless a match is confirmed that has changed since it was read.
THEOREM AnswersStand == StudentsSpec => OnlyStaleConfirmsReplace
<1>1. ASSUME StudentInv, [StudentStep]_studentVars
      PROVE  [(\A w \in Workers : (Steps(w) /\ At(w, "confirm")) => match[txn[w].m] = txn[w].read)
              => /\ \A m \in Matches :
                       /\ match[m].placed # None => match'[m].placed = match[m].placed
                       /\ match[m].status = "cancelled" => match'[m].status = "cancelled"
                 /\ \A q \in Mentorings :
                       mentoring[q].mentor # None => mentoring'[q].mentor = mentoring[q].mentor]_<<match, mentoring>>
  <2>1. CASE StudentStep
    BY <1>1, <2>1, PlacementsStay, MentorsStay DEF Settle
  <2>2. CASE UNCHANGED studentVars
    BY <2>2 DEF studentVars, students
  <2>3. QED
    BY <1>1, <2>1, <2>2
<1>2. QED
  BY <1>1, StudentInvariance, PTL DEF StudentsSpec, OnlyStaleConfirmsReplace

\* A year keeps its paper.
Keeps(y) == Crowned(y)' \/ Promised(y)' \/ GivesUp(y)

LEMMA PromiseKept ==
    ASSUME StudentTxns, NEW w \in Workers, NEW t, txn' = [txn EXCEPT ![w] = t], ~At(w, "paper"),
           NEW y, Promised(y)
    PROVE  Promised(y)'
<1>1. PICK v \in Workers : At(v, "paper") /\ txn[v].year = y
  BY DEF Promised
<1>2. v # w /\ txn'[v] = txn[v]
  BY <1>1 DEF StudentTxns
<1>3. QED
  BY <1>1, <1>2 DEF Promised, At

LEMMA IdlePlain == ASSUME NEW w, txn[w] = Idle PROVE ~At(w, "paper")
BY DEF At, Idle

LEMMA Reigns ==
    ASSUME StudentInv, StudentStep,
           \A w \in Workers : (Steps(w) /\ At(w, "paper")) => paper' # paper,
           NEW y \in Years, Crowned(y) \/ Promised(y)
    PROVE  Keeps(y)
<1>1. ASSUME UNCHANGED paper, UNCHANGED txn PROVE Keeps(y)
  BY <1>1 DEF Keeps, Crowned, Promised, At
<1>2. ASSUME UNCHANGED paper, NEW w \in Workers, NEW t, txn' = [txn EXCEPT ![w] = t], ~At(w, "paper") PROVE Keeps(y)
  BY <1>2, PromiseKept DEF Keeps, Crowned, StudentInv
<1>3. ASSUME UNCHANGED paper, NEW w \in Workers, End(w) PROVE Keeps(y)
  <2>1. ~At(w, "paper")
    BY <1>3 DEF End, Idle, At, Steps, StudentInv, StudentTxns
  <2>2. QED
    BY <1>2, <1>3, <2>1 DEF End
<1>4. ASSUME NEW m \in Matches, MatchStep(m) PROVE Keeps(y)
  BY <1>1, <1>4, MatchSteps DEF MatchStep, requests
<1>5. ASSUME NEW q \in Mentorings, MentoringStep(q) PROVE Keeps(y)
  BY <1>1, <1>5, MentoringSteps DEF MentoringStep, requests
<1>6. ASSUME NEW p \in Papers, PlainPaper(p) \/ DeletePaper(p) PROVE Keeps(y)
  <2>1. UNCHANGED txn /\ PaperSet(p, None)
    BY <1>6, PlainPapers DEF requests
  <2>2. CASE Promised(y)
    BY <2>1, <2>2 DEF Keeps, Promised, At
  <2>3. CASE Crowned(y)
    <3>1. PICK x \in Papers : paper[x].year = y
      BY <2>3 DEF Crowned
    <3>2. CASE x = p
      BY <2>1, <3>1, <3>2 DEF Keeps, GivesUp, Steps
    <3>3. CASE x # p
      BY <2>1, <3>1, <3>3 DEF PaperSet, Papered, Keeps, Crowned
    <3>4. QED
      BY <3>2, <3>3
  <2>4. QED
    BY <2>2, <2>3
<1>7. ASSUME NEW p \in Papers, NEW w \in Workers, NEW year \in Years, UnsetPrevious(w, p, year) PROVE Keeps(y)
  <2>1. PICK t : txn[w] = Idle /\ t.pc = "paper" /\ t.year = year /\ txn' = [txn EXCEPT ![w] = t]
    BY <1>7, Unsets
  <2>2. PICK f : Papered(f) /\ \A x \in Papers : paper[x].year \in {year, f[x].year}
    BY <1>7, Unsets
  <2>3. CASE y = year
    <3>1. txn'[w] = t
      BY <2>1 DEF StudentInv, StudentTxns
    <3>2. QED
      BY <2>1, <2>3, <3>1 DEF Keeps, Promised, At
  <2>4. CASE y # year /\ Crowned(y)
    BY <2>2, <2>4 DEF Papered, Keeps, Crowned
  <2>5. CASE Promised(y)
    BY <2>1, <2>5, IdlePlain, PromiseKept DEF Keeps, StudentInv
  <2>6. QED
    BY <2>3, <2>4, <2>5
<1>8. ASSUME NEW w \in Workers, PaperWrite(w) PROVE Keeps(y)
  <2>1. PICK t : t = txn[w]
    OBVIOUS
  <2>2. t.pc = "paper" /\ t.p \in Papers /\ txn' = [txn EXCEPT ![w] = Idle]
    BY <1>8, <2>1, PaperWrites DEF PaperWrite, At, End
  <2>3. Steps(w) /\ At(w, "paper")
    BY <2>1, <2>2 DEF Steps, At, Idle, StudentInv, StudentTxns
  <2>4. PaperSet(t.p, t.year)
    BY <1>8, <2>1, <2>3, PaperWrites
  <2>5. CASE t.year = y
    BY <2>2, <2>4, <2>5 DEF PaperSet, Papered, Keeps, Crowned
  <2>6. CASE t.year # y /\ Crowned(y)
    <3>1. PICK x \in Papers : paper[x].year = y
      BY <2>6 DEF Crowned
    <3>2. CASE x = t.p
      BY <2>1, <2>3, <3>1, <3>2 DEF Keeps, GivesUp
    <3>3. CASE x # t.p
      BY <2>4, <3>1, <3>3 DEF PaperSet, Papered, Keeps, Crowned
    <3>4. QED
      BY <3>2, <3>3
  <2>7. CASE t.year # y /\ Promised(y)
    <3>1. PICK v \in Workers : At(v, "paper") /\ txn[v].year = y
      BY <2>7 DEF Promised
    <3>2. v # w /\ txn'[v] = txn[v]
      BY <2>1, <2>2, <2>7, <3>1 DEF StudentInv, StudentTxns
    <3>3. QED
      BY <3>1, <3>2 DEF Keeps, Promised, At
  <2>8. QED
    BY <2>5, <2>6, <2>7
<1>9. ASSUME NEW w \in Workers, ConfirmPlacementWrite(w) \/ AssignWrite(w) \/ StudentDone(w) PROVE Keeps(y)
  BY <1>3, <1>9, Confirms, Assigns DEF StudentDone
<1>10. ASSUME NEW w \in Workers, StudentRequest(w) PROVE Keeps(y)
  BY <1>2, <1>10, IdlePlain DEF StudentRequest
<1>11. CASE StudentsApart
  BY <1>1, <1>11 DEF StudentsApart, requests
<1>12. QED
  BY <1>4, <1>5, <1>6, <1>7, <1>8, <1>9, <1>10, <1>11, StudentSteps

\* A year that has its paper of the year, or is about to, keeps one until that
\* paper is deleted or changed, unless a write fails or is lost.
THEOREM YearsCrowned == StudentsSpec => OnlyFailedWritesDethrone
<1>1. ASSUME StudentInv, [StudentStep]_studentVars
      PROVE  [(\A w \in Workers : (Steps(w) /\ At(w, "paper")) => paper' # paper)
              => \A y \in Years : (Crowned(y) \/ Promised(y)) => ((Crowned(y) \/ Promised(y))' \/ GivesUp(y))]_studentVars
  BY <1>1, Reigns DEF Keeps
<1>2. QED
  BY <1>1, StudentInvariance, PTL DEF StudentsSpec, OnlyFailedWritesDethrone

-----------------------------------------------------------------------------
(* The sweeps.                                                             *)

\* A sweep holds items that were due as it listed them, at least one; of the
\* tickets among them, none is taken away.
IsSweep(t, items) == /\ t = [pc |-> t.pc, todo |-> t.todo, rows |-> t.rows]
                     /\ t.todo \subseteq items /\ t.todo # {}

SweepTxn(t) ==
    /\ t.pc = "submit" => t.subject \in Subjects /\ t.no \in Tickets
    /\ t.pc \in {"mail", "stamp"} => /\ IsSweep(t, Tickets)
                                     /\ \A n \in t.todo : t.rows[n].open /\ ~t.rows[n].escalated /\ ticket[n] # None
    /\ t.pc \in {"notify", "mark"} => /\ IsSweep(t, Stages)
                                      /\ \A s \in t.todo : t.rows[s].pending /\ ~t.rows[s].escalated

SweepTxns ==
    /\ txn = [w \in Workers |-> txn[w]]
    /\ \A w \in Workers : SweepTxn(txn[w])

IsStage(r) == r = [pending |-> r.pending, due |-> r.due, escalated |-> r.escalated]

SweepRows ==
    /\ ticket \in [Tickets -> TicketRows \cup {None}]
    /\ stage = [s \in Stages |-> stage[s]]
    /\ \A s \in Stages : IsStage(stage[s])

\* What was sent is stamped, or a sweep is about to stamp it.
Told ==
    "crash" \notin mix =>
      /\ \A n \in Tickets : <<"ticket", n>> \in mailed =>
            /\ ticket[n] # None
            /\ ticket[n].escalated \/ \E v \in Workers : At(v, "stamp") /\ First(txn[v].todo) = n
      /\ \A s \in Stages : <<"stage", s>> \in mailed =>
            stage[s].escalated \/ \E v \in Workers : At(v, "mark") /\ First(txn[v].todo) = s

SweepInv == SweepTxns /\ SweepRows /\ Told

LEMMA FirstIn == ASSUME NEW todo, todo \subseteq Nat, todo # {} PROVE First(todo) \in todo
<1>1. IsWellFoundedOn(OpToRel(<, Nat), Nat)
  BY NatLessThanWellFounded
<1>2. PICK x \in todo : \A y \in todo : ~(<<y, x>> \in OpToRel(<, Nat))
  BY <1>1, WFMin
<1>3. \A y \in todo : x =< y
  <2>1. ASSUME NEW y \in todo, y < x PROVE FALSE
    BY <1>2, <2>1 DEF OpToRel
  <2>2. QED
    BY <2>1
<1>4. QED
  BY <1>3 DEF First, Min

\* Tickets stay, and nothing is taken back.
Grown ==
    /\ \A n \in Tickets : ticket[n] # None => ticket'[n] # None /\ (ticket[n].escalated => ticket'[n].escalated)
    /\ \A s \in Stages : stage[s].escalated => stage'[s].escalated

LEMMA SweepHolds ==
    ASSUME SweepTxns, Grown, NEW w \in Workers, NEW t, SweepTxn(t), txn' = [txn EXCEPT ![w] = t]
    PROVE  SweepTxns'
<1>1. ASSUME NEW r, SweepTxn(r) PROVE SweepTxn(r)'
  BY <1>1 DEF SweepTxn, IsSweep, Grown
<1>2. QED
  BY <1>1 DEF SweepTxns

LEMMA SweepStays == ASSUME SweepTxns, Grown, UNCHANGED txn PROVE SweepTxns'
<1>1. ASSUME NEW r, SweepTxn(r) PROVE SweepTxn(r)'
  BY <1>1 DEF SweepTxn, IsSweep, Grown
<1>2. QED
  BY <1>1 DEF SweepTxns

LEMMA ToldKeeps ==
    ASSUME Told, Grown, UNCHANGED <<mailed, mix>>,
           \A v \in Workers : (At(v, "stamp") \/ At(v, "mark")) => txn'[v] = txn[v]
    PROVE  Told'
<1>1. ASSUME NEW v \in Workers, NEW n, At(v, "stamp"), First(txn[v].todo) = n
      PROVE  At(v, "stamp")' /\ First(txn'[v].todo) = n
  BY <1>1 DEF At
<1>2. ASSUME NEW v \in Workers, NEW n, At(v, "mark"), First(txn[v].todo) = n
      PROVE  At(v, "mark")' /\ First(txn'[v].todo) = n
  BY <1>2 DEF At
<1>3. QED
  BY <1>1, <1>2 DEF Told, Grown

\* A request of w goes on with t, and what was told stays told.
Onward(w, t) == SweepTxn(t) /\ txn' = [txn EXCEPT ![w] = t] /\ UNCHANGED <<mix, mailed>>

LEMMA SweepMoves ==
    ASSUME SweepInv, Grown, SweepRows', NEW w \in Workers, ~At(w, "stamp"), ~At(w, "mark"), NEW t, Onward(w, t)
    PROVE  SweepInv'
<1>1. SweepTxns'
  BY SweepHolds DEF SweepInv, Onward
<1>2. \A v \in Workers : (At(v, "stamp") \/ At(v, "mark")) => txn'[v] = txn[v]
  BY DEF SweepInv, SweepTxns, Onward
<1>3. QED
  BY <1>1, <1>2, ToldKeeps DEF SweepInv, Onward

LEMMA SweepPasses ==
    ASSUME SweepInv, Grown, SweepRows', UNCHANGED <<requests, mailed>>
    PROVE  SweepInv'
BY SweepStays, ToldKeeps DEF SweepInv, requests

LEMMA IdleSweep == SweepTxn(Idle)
BY DEF SweepTxn, Idle

LEMMA SameRows == ASSUME UNCHANGED <<ticket, stage>> PROVE Grown /\ (SweepRows => SweepRows')
BY DEF Grown, SweepRows

\* A row of a ticket keeps its stamp.
LEMMA TicketWrites ==
    ASSUME SweepRows, NEW n \in Tickets, NEW row \in TicketRows, SetTicket(n, row),
           ticket[n] # None => (ticket[n].escalated => row.escalated)
    PROVE  Grown /\ SweepRows' /\ UNCHANGED mailed
<1>1. row # None
  BY GrievancesAssumption
<1>2. QED
  BY <1>1 DEF Grown, SweepRows, SetTicket

LEMMA StageWrites ==
    ASSUME SweepRows, NEW s \in Stages, NEW row, IsStage(row), SetStage(s, row), stage[s].escalated => row.escalated
    PROVE  Grown /\ SweepRows' /\ UNCHANGED mailed
BY DEF Grown, SweepRows, SetStage

LEMMA SubmitKeeps == ASSUME SweepInv, NEW w \in Workers, NEW subject \in Subjects, Submit(w, subject) PROVE SweepInv'
<1>1. PICK t : /\ t = [pc |-> "submit", subject |-> IF route[subject] = "on" THEN subject ELSE "other", no |-> NextNo]
               /\ t.no \in Tickets
  BY DEF Submit
<1>2. SweepTxn(t)
  BY <1>1, GrievancesAssumption DEF SweepTxn
<1>3. txn' = [txn EXCEPT ![w] = t]
  BY <1>1, Zenon DEF Submit, Serve, Hold
<1>4. Onward(w, t) /\ txn[w] = Idle
  BY <1>2, <1>3 DEF Submit, Serve, Ready, Hold, Onward, grievances
<1>5. QED
  BY <1>4, SweepMoves, SameRows DEF Submit, grievances, At, Idle, SweepInv

LEMMA SubmitInsertKeeps == ASSUME SweepInv, NEW w \in Workers, SubmitInsert(w) PROVE SweepInv'
<1>1. PICK t : t = txn[w] /\ t.pc = "submit" /\ t.subject \in Subjects /\ t.no \in Tickets
  BY DEF SubmitInsert, At, SweepInv, SweepTxns, SweepTxn
<1>2. Grown /\ SweepRows' /\ UNCHANGED mailed
  <2>1. CASE UNCHANGED grievances
    BY <2>1, SameRows DEF grievances, SweepInv
  <2>2. CASE /\ ticket[t.no] = None
             /\ SetTicket(t.no, [subject |-> t.subject, open |-> TRUE, due |-> FALSE, escalated |-> FALSE])
    <3>1. [subject |-> t.subject, open |-> TRUE, due |-> FALSE, escalated |-> FALSE] \in TicketRows
      BY <1>1 DEF TicketRows
    <3>2. QED
      BY <1>1, <2>2, <3>1, TicketWrites DEF SweepInv
  <2>3. QED
    BY <1>1, <2>1, <2>2 DEF SubmitInsert
<1>3. Onward(w, Idle)
  BY <1>2, IdleSweep DEF SubmitInsert, End, Onward
<1>4. QED
  BY <1>1, <1>2, <1>3, SweepMoves DEF At

LEMMA GrievanceSweepKeeps == ASSUME SweepInv, NEW w \in Workers, GrievanceSweep(w) PROVE SweepInv'
<1>1. PICK t : t = [pc |-> "mail", todo |-> Overdue, rows |-> ticket]
  OBVIOUS
<1>2. t.pc = "mail" /\ t.todo = Overdue /\ t.rows = ticket /\ t = [pc |-> t.pc, todo |-> t.todo, rows |-> t.rows]
  BY <1>1
<1>3. t.todo \subseteq Tickets /\ t.todo # {}
      /\ \A n \in t.todo : t.rows[n].open /\ ~t.rows[n].escalated /\ ticket[n] # None
  BY <1>2 DEF GrievanceSweep, Overdue, Taken
<1>4. SweepTxn(t)
  BY <1>2, <1>3 DEF SweepTxn, IsSweep
<1>5. Onward(w, t) /\ txn[w] = Idle
  BY <1>1, <1>4 DEF GrievanceSweep, Ready, Hold, Onward, grievances
<1>6. QED
  BY <1>5, SweepMoves, SameRows DEF GrievanceSweep, grievances, At, Idle, SweepInv

LEMMA StageSweepKeeps == ASSUME SweepInv, NEW w \in Workers, StageSweep(w) PROVE SweepInv'
<1>1. PICK t : t = [pc |-> "notify", todo |-> Waiting, rows |-> stage]
  OBVIOUS
<1>2. t.pc = "notify" /\ t.todo = Waiting /\ t.rows = stage /\ t = [pc |-> t.pc, todo |-> t.todo, rows |-> t.rows]
  BY <1>1
<1>3. t.todo \subseteq Stages /\ t.todo # {} /\ \A s \in t.todo : t.rows[s].pending /\ ~t.rows[s].escalated
  BY <1>2 DEF StageSweep, Waiting
<1>4. SweepTxn(t)
  BY <1>2, <1>3 DEF SweepTxn, IsSweep
<1>5. Onward(w, t) /\ txn[w] = Idle
  BY <1>1, <1>4 DEF StageSweep, Ready, Hold, Onward, grievances
<1>6. QED
  BY <1>5, SweepMoves, SameRows DEF StageSweep, grievances, At, Idle, SweepInv

LEMMA LeftSweep ==
    ASSUME NEW t, SweepTxn(t), NEW label,
           \/ t.pc \in {"mail", "stamp"} /\ label = "mail"
           \/ t.pc \in {"notify", "mark"} /\ label = "notify",
           NEW todo, todo \subseteq t.todo, todo # {}, NEW r, r = [pc |-> label, todo |-> todo, rows |-> t.rows]
    PROVE  SweepTxn(r)
<1>1. r.pc = label /\ r.todo = todo /\ r.rows = t.rows
  OBVIOUS
<1>2. r = [pc |-> r.pc, todo |-> r.todo, rows |-> r.rows]
  BY <1>1
<1>3. QED
  BY <1>1, <1>2 DEF SweepTxn, IsSweep

\* What is left of a sweep, when its first item is done.
LEMMA RestSweep ==
    ASSUME NEW t, SweepTxn(t), NEW label,
           \/ t.pc \in {"mail", "stamp"} /\ label = "mail"
           \/ t.pc \in {"notify", "mark"} /\ label = "notify",
           NEW r, r = IF Cardinality(t.todo) = 1 THEN Idle ELSE [t EXCEPT !.pc = label, !.todo = @ \ {First(@)}]
    PROVE  SweepTxn(r)
<1>1. t = [pc |-> t.pc, todo |-> t.todo, rows |-> t.rows] /\ t.todo # {}
  BY DEF SweepTxn, IsSweep
<1>2. CASE Cardinality(t.todo) = 1
  BY <1>2, IdleSweep
<1>3. CASE Cardinality(t.todo) # 1
  <2>1. PICK todo : todo = t.todo \ {First(t.todo)}
    OBVIOUS
  <2>2. r = [pc |-> label, todo |-> todo, rows |-> t.rows]
    BY <1>1, <1>3, <2>1
  <2>3. todo # {}
    <3>1. SUFFICES ASSUME todo = {} PROVE FALSE
      OBVIOUS
    <3>2. t.todo = {First(t.todo)}
      BY <1>1, <2>1, <3>1
    <3>3. QED
      BY <1>3, <3>2, FS_Singleton
  <2>4. todo \subseteq t.todo
    BY <2>1
  <2>5. QED
    BY <2>2, <2>3, <2>4, LeftSweep
<1>4. QED
  BY <1>2, <1>3

LEMMA MailKeeps == ASSUME SweepInv, NEW w \in Workers, NEW sent \in BOOLEAN, Mail(w, sent) PROVE SweepInv'
<1>1. PICK t, n : t = txn[w] /\ t.pc = "mail" /\ SweepTxn(t) /\ n = First(t.todo)
  BY DEF Mail, At, SweepInv, SweepTxns
<1>2. IsSweep(t, Tickets) /\ n \in t.todo /\ n \in Tickets /\ ticket[n] # None
  BY <1>1, FirstIn, GrievancesAssumption DEF SweepTxn, IsSweep
<1>3. PICK r : r = [pc |-> "stamp", todo |-> t.todo, rows |-> t.rows]
  OBVIOUS
<1>4. r.pc = "stamp" /\ r.todo = t.todo /\ r.rows = t.rows /\ r = [pc |-> r.pc, todo |-> r.todo, rows |-> r.rows]
  BY <1>3
<1>5. SweepTxn(r)
  BY <1>1, <1>2, <1>4 DEF SweepTxn, IsSweep
<1>6. txn' = [txn EXCEPT ![w] = r]
  <2>1. r = [t EXCEPT !.pc = "stamp"]
    BY <1>2, <1>3 DEF IsSweep
  <2>2. txn' = [txn EXCEPT ![w].pc = "stamp"]
    BY DEF Mail, Goto
  <2>3. QED
    BY <1>1, <2>1, <2>2
<1>7. Grown /\ SweepRows'
  BY SameRows DEF Mail, SweepInv
<1>8. SweepTxns'
  BY <1>5, <1>6, <1>7, SweepHolds DEF SweepInv
<1>9. Told'
  <2>1. /\ txn'[w] = r
        /\ \A v \in Workers : (At(v, "stamp") \/ At(v, "mark")) => v # w /\ txn'[v] = txn[v]
    BY <1>1, <1>6 DEF At, SweepInv, SweepTxns
  <2>2. mailed' \subseteq mailed \cup {<<"ticket", n>>}
    BY <1>1 DEF Mail
  <2>3. ASSUME NEW s, <<"stage", s>> \in mailed' PROVE <<"stage", s>> \in mailed
    BY <2>2, <2>3
  <2>4. ASSUME NEW k, <<"ticket", k>> \in mailed', k # n PROVE <<"ticket", k>> \in mailed
    BY <2>2, <2>4
  <2>5. At(w, "stamp")' /\ First(txn'[w].todo) = n
    BY <1>1, <1>4, <2>1 DEF At
  <2>6. ASSUME "crash" \notin mix, NEW s \in Stages, <<"stage", s>> \in mailed'
        PROVE  stage'[s].escalated \/ \E v \in Workers : At(v, "mark")' /\ First(txn'[v].todo) = s
    BY <2>1, <2>3, <2>6 DEF SweepInv, Told, Mail, At
  <2>7. ASSUME "crash" \notin mix, NEW k \in Tickets, <<"ticket", k>> \in mailed'
        PROVE  /\ ticket'[k] # None
               /\ ticket'[k].escalated \/ \E v \in Workers : At(v, "stamp")' /\ First(txn'[v].todo) = k
    BY <1>2, <2>1, <2>4, <2>5, <2>7 DEF SweepInv, Told, Mail, At
  <2>8. mix' = mix
    BY DEF Mail, Goto
  <2>9. QED
    BY <2>6, <2>7, <2>8 DEF Told
<1>10. QED
  BY <1>7, <1>8, <1>9 DEF SweepInv

LEMMA StampKeeps == ASSUME SweepInv, NEW w \in Workers, Stamp(w) PROVE SweepInv'
<1>1. PICK t, n : t = txn[w] /\ t.pc = "stamp" /\ SweepTxn(t) /\ n = First(t.todo)
  BY DEF Stamp, At, SweepInv, SweepTxns
<1>2. n \in Tickets /\ ticket[n] # None /\ ticket[n] \in TicketRows
  BY <1>1, FirstIn, GrievancesAssumption DEF SweepTxn, IsSweep, SweepInv, SweepRows
<1>3. PICK row : row = [ticket[n] EXCEPT !.escalated = TRUE]
  OBVIOUS
<1>4. row \in TicketRows /\ row.escalated
  BY <1>2, <1>3 DEF TicketRows
<1>5. SetTicket(n, row)
  BY <1>1, <1>3 DEF Stamp
<1>6. Grown /\ SweepRows' /\ UNCHANGED mailed
  BY <1>2, <1>4, <1>5, TicketWrites DEF SweepInv
<1>7. PICK r : r = Rest(w)
  OBVIOUS
<1>8. SweepTxn(r)
  BY <1>1, <1>7, RestSweep DEF Rest
<1>9. txn' = [txn EXCEPT ![w] = r]
  BY <1>7 DEF Stamp
<1>10. SweepTxns'
  BY <1>6, <1>8, <1>9, SweepHolds DEF SweepInv
<1>11. ticket'[n] = row /\ row # None /\ stage' = stage
  BY <1>2, <1>4, <1>5, GrievancesAssumption DEF SetTicket, SweepInv, SweepRows
<1>12. \A v \in Workers : v # w => txn'[v] = txn[v]
  BY <1>9 DEF SweepInv, SweepTxns
<1>13. ASSUME "crash" \notin mix, NEW k \in Tickets, <<"ticket", k>> \in mailed'
       PROVE  /\ ticket'[k] # None
              /\ ticket'[k].escalated \/ \E v \in Workers : At(v, "stamp")' /\ First(txn'[v].todo) = k
  <2>1. CASE k = n
    BY <1>4, <1>11, <2>1
  <2>2. CASE k # n
    <3>1. ticket[k] # None /\ (ticket[k].escalated \/ \E v \in Workers : At(v, "stamp") /\ First(txn[v].todo) = k)
      BY <1>6, <1>13 DEF SweepInv, Told
    <3>2. ASSUME NEW v \in Workers, At(v, "stamp"), First(txn[v].todo) = k PROVE At(v, "stamp")' /\ First(txn'[v].todo) = k
      BY <1>1, <1>12, <2>2, <3>2 DEF At
    <3>3. QED
      BY <1>6, <3>1, <3>2 DEF Grown
  <2>3. QED
    BY <2>1, <2>2
<1>14. ASSUME "crash" \notin mix, NEW s \in Stages, <<"stage", s>> \in mailed'
       PROVE  stage'[s].escalated \/ \E v \in Workers : At(v, "mark")' /\ First(txn'[v].todo) = s
  <2>1. stage[s].escalated \/ \E v \in Workers : At(v, "mark") /\ First(txn[v].todo) = s
    BY <1>6, <1>14 DEF SweepInv, Told
  <2>2. ASSUME NEW v \in Workers, At(v, "mark"), First(txn[v].todo) = s PROVE At(v, "mark")' /\ First(txn'[v].todo) = s
    BY <1>1, <1>12, <2>2 DEF At
  <2>3. QED
    BY <1>11, <2>1, <2>2
<1>15. QED
  BY <1>6, <1>10, <1>13, <1>14 DEF SweepInv, Told, Stamp

LEMMA NotifyNoneKeeps == ASSUME SweepInv, NEW w \in Workers, NotifyNone(w) PROVE SweepInv'
<1>1. PICK t, r : t = txn[w] /\ t.pc = "notify" /\ SweepTxn(t) /\ r = RestStages(w)
  BY DEF NotifyNone, At, SweepInv, SweepTxns
<1>2. SweepTxn(r)
  BY <1>1, RestSweep DEF RestStages
<1>3. Onward(w, r)
  BY <1>1, <1>2 DEF NotifyNone, Onward, grievances
<1>4. QED
  BY <1>1, <1>3, SweepMoves, SameRows DEF NotifyNone, grievances, At, SweepInv

LEMMA NotifyChairKeeps == ASSUME SweepInv, NEW w \in Workers, NotifyChair(w) PROVE SweepInv'
<1>1. PICK t, n : t = txn[w] /\ t.pc = "notify" /\ SweepTxn(t) /\ n = First(t.todo)
  BY DEF NotifyChair, At, SweepInv, SweepTxns
<1>2. IsSweep(t, Stages) /\ n \in t.todo /\ n \in Stages
  BY <1>1, FirstIn, GrievancesAssumption DEF SweepTxn, IsSweep
<1>3. PICK r : r = [pc |-> "mark", todo |-> t.todo, rows |-> t.rows]
  OBVIOUS
<1>4. r.pc = "mark" /\ r.todo = t.todo /\ r.rows = t.rows /\ r = [pc |-> r.pc, todo |-> r.todo, rows |-> r.rows]
  BY <1>3
<1>5. SweepTxn(r)
  BY <1>1, <1>2, <1>4 DEF SweepTxn, IsSweep
<1>6. txn' = [txn EXCEPT ![w] = r]
  <2>1. r = [t EXCEPT !.pc = "mark"]
    BY <1>2, <1>3 DEF IsSweep
  <2>2. txn' = [txn EXCEPT ![w].pc = "mark"]
    BY DEF NotifyChair, Goto
  <2>3. QED
    BY <1>1, <2>1, <2>2
<1>7. Grown /\ SweepRows'
  BY SameRows DEF NotifyChair, SweepInv
<1>8. SweepTxns'
  BY <1>5, <1>6, <1>7, SweepHolds DEF SweepInv
<1>9. Told'
  <2>1. /\ txn'[w] = r
        /\ \A v \in Workers : (At(v, "stamp") \/ At(v, "mark")) => v # w /\ txn'[v] = txn[v]
    BY <1>1, <1>6 DEF At, SweepInv, SweepTxns
  <2>2. mailed' = mailed \cup {<<"stage", n>>}
    BY <1>1 DEF NotifyChair
  <2>3. ASSUME NEW k, <<"ticket", k>> \in mailed' PROVE <<"ticket", k>> \in mailed
    BY <2>2, <2>3
  <2>4. ASSUME NEW s, <<"stage", s>> \in mailed', s # n PROVE <<"stage", s>> \in mailed
    BY <2>2, <2>4
  <2>5. At(w, "mark")' /\ First(txn'[w].todo) = n
    BY <1>1, <1>4, <2>1 DEF At
  <2>6. ASSUME "crash" \notin mix, NEW s \in Stages, <<"stage", s>> \in mailed'
        PROVE  stage'[s].escalated \/ \E v \in Workers : At(v, "mark")' /\ First(txn'[v].todo) = s
    BY <2>1, <2>4, <2>5, <2>6 DEF SweepInv, Told, NotifyChair, At
  <2>7. ASSUME "crash" \notin mix, NEW k \in Tickets, <<"ticket", k>> \in mailed'
        PROVE  /\ ticket'[k] # None
               /\ ticket'[k].escalated \/ \E v \in Workers : At(v, "stamp")' /\ First(txn'[v].todo) = k
    BY <2>1, <2>3, <2>7 DEF SweepInv, Told, NotifyChair, At
  <2>8. mix' = mix
    BY DEF NotifyChair, Goto
  <2>9. QED
    BY <2>6, <2>7, <2>8 DEF Told
<1>10. QED
  BY <1>7, <1>8, <1>9 DEF SweepInv

LEMMA MarkStageKeeps == ASSUME SweepInv, NEW w \in Workers, MarkStage(w) PROVE SweepInv'
<1>1. PICK t, n : t = txn[w] /\ t.pc = "mark" /\ SweepTxn(t) /\ n = First(t.todo)
  BY DEF MarkStage, At, SweepInv, SweepTxns
<1>2. n \in Stages /\ IsStage(stage[n])
  BY <1>1, FirstIn, GrievancesAssumption DEF SweepTxn, IsSweep, SweepInv, SweepRows
<1>3. PICK yes, row : yes /\ row = [stage[n] EXCEPT !.escalated = yes] /\ SetStage(n, row)
  <2>1. PICK row : row = [stage[n] EXCEPT !.escalated = TRUE]
    OBVIOUS
  <2>2. SetStage(n, row)
    BY <1>1, <2>1 DEF MarkStage
  <2>3. QED
    BY <2>1, <2>2
<1>4. IsStage(row) /\ row.escalated
  BY <1>2, <1>3 DEF IsStage
<1>5. Grown /\ SweepRows' /\ UNCHANGED mailed
  BY <1>2, <1>3, <1>4, StageWrites DEF SweepInv
<1>6. PICK r : r = RestStages(w)
  OBVIOUS
<1>7. SweepTxn(r)
  BY <1>1, <1>6, RestSweep DEF RestStages
<1>8. txn' = [txn EXCEPT ![w] = r]
  BY <1>6 DEF MarkStage
<1>9. SweepTxns'
  BY <1>5, <1>7, <1>8, SweepHolds DEF SweepInv
<1>10. stage'[n] = row /\ ticket' = ticket
  BY <1>2, <1>3 DEF SetStage, SweepInv, SweepRows
<1>11. \A v \in Workers : v # w => txn'[v] = txn[v]
  BY <1>8 DEF SweepInv, SweepTxns
<1>12. ASSUME "crash" \notin mix, NEW s \in Stages, <<"stage", s>> \in mailed'
       PROVE  stage'[s].escalated \/ \E v \in Workers : At(v, "mark")' /\ First(txn'[v].todo) = s
  <2>1. CASE s = n
    BY <1>4, <1>10, <2>1
  <2>2. CASE s # n
    <3>1. stage[s].escalated \/ \E v \in Workers : At(v, "mark") /\ First(txn[v].todo) = s
      BY <1>5, <1>12 DEF SweepInv, Told
    <3>2. ASSUME NEW v \in Workers, At(v, "mark"), First(txn[v].todo) = s PROVE At(v, "mark")' /\ First(txn'[v].todo) = s
      BY <1>1, <1>11, <2>2, <3>2 DEF At
    <3>3. QED
      BY <1>5, <3>1, <3>2 DEF Grown
  <2>3. QED
    BY <2>1, <2>2
<1>13. ASSUME "crash" \notin mix, NEW k \in Tickets, <<"ticket", k>> \in mailed'
       PROVE  /\ ticket'[k] # None
              /\ ticket'[k].escalated \/ \E v \in Workers : At(v, "stamp")' /\ First(txn'[v].todo) = k
  <2>1. ticket[k] # None /\ (ticket[k].escalated \/ \E v \in Workers : At(v, "stamp") /\ First(txn[v].todo) = k)
    BY <1>5, <1>13 DEF SweepInv, Told
  <2>2. ASSUME NEW v \in Workers, At(v, "stamp"), First(txn[v].todo) = k PROVE At(v, "stamp")' /\ First(txn'[v].todo) = k
    BY <1>1, <1>11, <2>2 DEF At
  <2>3. QED
    BY <1>10, <2>1, <2>2
<1>14. QED
  BY <1>5, <1>9, <1>12, <1>13 DEF SweepInv, Told, MarkStage

\* What is not a sweep's writes no stamp and sends nothing.
LEMMA DeskKeeps ==
    ASSUME SweepInv,
           \/ \E s \in Subjects : DeleteRoute(s) \/ (\E state \in {"on", "off"} : EnterRoute(s, state))
           \/ \E n \in Tickets : PatchTicket(n)
           \/ \E s \in Stages : DecideStage(s)
           \/ TimePasses \/ SwitchTemplate \/ SwitchChair
    PROVE  SweepInv'
<1>1. ASSUME UNCHANGED <<ticket, stage, mailed, requests>> PROVE SweepInv'
  BY <1>1, SameRows, SweepPasses DEF SweepInv
<1>2. ASSUME NEW n \in Tickets, PatchTicket(n) PROVE SweepInv'
  <2>1. ticket[n] \in TicketRows
    BY <1>2 DEF PatchTicket, SweepInv, SweepRows
  <2>2. PICK row : row = [ticket[n] EXCEPT !.open = ~@]
    OBVIOUS
  <2>3. row \in TicketRows /\ row.escalated = ticket[n].escalated
    BY <2>1, <2>2 DEF TicketRows
  <2>4. SetTicket(n, row) /\ UNCHANGED requests
    BY <1>2, <2>2 DEF PatchTicket, Serves
  <2>5. QED
    BY <2>3, <2>4, TicketWrites, SweepPasses DEF SweepInv
<1>3. ASSUME NEW s \in Stages, DecideStage(s) PROVE SweepInv'
  <2>1. IsStage(stage[s])
    BY DEF SweepInv, SweepRows
  <2>2. PICK no, row : row = [stage[s] EXCEPT !.pending = no] /\ SetStage(s, row)
    BY <1>3 DEF DecideStage
  <2>3. IsStage(row) /\ row.escalated = stage[s].escalated
    BY <2>1, <2>2 DEF IsStage
  <2>4. UNCHANGED requests
    BY <1>3 DEF DecideStage, Serves
  <2>5. QED
    BY <2>2, <2>3, <2>4, StageWrites, SweepPasses DEF SweepInv
<1>4. CASE TimePasses
  <2>1. PICK yes \in BOOLEAN :
           /\ ticket' = [n \in Tickets |-> IF ticket[n] = None THEN None ELSE [ticket[n] EXCEPT !.due = yes]]
           /\ stage' = [s \in Stages |-> [stage[s] EXCEPT !.due = yes]]
    BY <1>4 DEF TimePasses
  <2>2. ASSUME NEW n \in Tickets
        PROVE  /\ ticket[n] = None => ticket'[n] = None
               /\ ticket[n] # None => /\ ticket'[n] \in TicketRows /\ ticket'[n] # None
                                      /\ ticket'[n].escalated = ticket[n].escalated
    <3>1. CASE ticket[n] = None
      BY <2>1, <3>1
    <3>2. CASE ticket[n] # None
      <4>1. ticket[n] \in TicketRows
        BY <3>2 DEF SweepInv, SweepRows
      <4>2. PICK row : row = [ticket[n] EXCEPT !.due = yes]
        OBVIOUS
      <4>3. row \in TicketRows /\ row.escalated = ticket[n].escalated
        BY <4>1, <4>2 DEF TicketRows
      <4>4. ticket'[n] = row
        BY <2>1, <3>2, <4>2
      <4>5. QED
        BY <3>2, <4>3, <4>4, GrievancesAssumption
    <3>3. QED
      BY <3>1, <3>2
  <2>3. ASSUME NEW s \in Stages PROVE IsStage(stage'[s]) /\ stage'[s].escalated = stage[s].escalated
    <3>1. IsStage(stage[s])
      BY DEF SweepInv, SweepRows
    <3>2. PICK row : row = [stage[s] EXCEPT !.due = yes]
      OBVIOUS
    <3>3. IsStage(row) /\ row.escalated = stage[s].escalated
      BY <3>1, <3>2 DEF IsStage
    <3>4. QED
      BY <2>1, <3>2, <3>3
  <2>4. ticket' \in [Tickets -> TicketRows \cup {None}]
    <3>1. \A n \in Tickets : ticket'[n] \in TicketRows \cup {None}
      BY <2>2
    <3>2. QED
      BY <2>1, <3>1
  <2>5. Grown /\ SweepRows'
    BY <2>1, <2>2, <2>3, <2>4 DEF Grown, SweepRows
  <2>6. UNCHANGED <<requests, mailed>>
    BY <1>4 DEF TimePasses, Serves
  <2>7. QED
    BY <2>5, <2>6, SweepPasses
<1>5. QED
  BY <1>1, <1>2, <1>3, <1>4 DEF DeleteRoute, EnterRoute, SetRoute, SwitchTemplate, SwitchChair, Serves

LEMMA CrashKeeps == ASSUME SweepInv, NEW w \in Workers, Crash(w), UNCHANGED grievances PROVE SweepInv'
<1>1. Grown /\ SweepRows'
  BY SameRows DEF grievances, SweepInv
<1>2. SweepTxns'
  BY <1>1, IdleSweep, SweepHolds DEF Crash, End, SweepInv
<1>3. Told'
  BY DEF Crash, End, Told
<1>4. QED
  BY <1>1, <1>2, <1>3 DEF SweepInv

\* One of two things is said of each kind of sweep, and each is a property of
\* its messages.
TicketsOnce == \A w \in Workers : (Steps(w) /\ At(w, "mail") /\ txn'[w].pc = "stamp") =>
    LET n == First(txn[w].todo)
    IN  ("crash" \notin mix /\ txn[w].rows[n] = ticket[n] /\ ~Overlaps(w, "stamp", n))
        => ticket[n].open /\ <<"ticket", n>> \notin mailed

StagesOnce == \A w \in Workers : (Steps(w) /\ At(w, "notify") /\ txn'[w].pc = "mark") =>
    LET s == First(txn[w].todo)
    IN  ("crash" \notin mix /\ txn[w].rows[s] = stage[s] /\ ~Overlaps(w, "mark", s))
        => stage[s].pending /\ <<"stage", s>> \notin mailed

LEMMA SweepOnce == ASSUME SweepInv PROVE TicketsOnce /\ StagesOnce
<1>1. ASSUME NEW w \in Workers, At(w, "mail"), NEW n, n = First(txn[w].todo),
             "crash" \notin mix, txn[w].rows[n] = ticket[n], ~Overlaps(w, "stamp", n)
      PROVE  ticket[n].open /\ <<"ticket", n>> \notin mailed
  <2>1. PICK t : t = txn[w] /\ t.pc = "mail" /\ SweepTxn(t)
    BY <1>1 DEF At, SweepInv, SweepTxns
  <2>2. n \in t.todo /\ n \in Tickets
    BY <1>1, <2>1, FirstIn, GrievancesAssumption DEF SweepTxn, IsSweep
  <2>3. ticket[n].open /\ ~ticket[n].escalated
    BY <1>1, <2>1, <2>2 DEF SweepTxn
  <2>4. ~\E v \in Workers : At(v, "stamp") /\ First(txn[v].todo) = n
    BY <1>1, <2>1 DEF Overlaps, At
  <2>5. QED
    BY <1>1, <2>2, <2>3, <2>4 DEF SweepInv, Told
<1>2. ASSUME NEW w \in Workers, At(w, "notify"), NEW s, s = First(txn[w].todo),
             "crash" \notin mix, txn[w].rows[s] = stage[s], ~Overlaps(w, "mark", s)
      PROVE  stage[s].pending /\ <<"stage", s>> \notin mailed
  <2>1. PICK t : t = txn[w] /\ t.pc = "notify" /\ SweepTxn(t)
    BY <1>2 DEF At, SweepInv, SweepTxns
  <2>2. s \in t.todo /\ s \in Stages
    BY <1>2, <2>1, FirstIn, GrievancesAssumption DEF SweepTxn, IsSweep
  <2>3. stage[s].pending /\ ~stage[s].escalated
    BY <1>2, <2>1, <2>2 DEF SweepTxn
  <2>4. ~\E v \in Workers : At(v, "mark") /\ First(txn[v].todo) = s
    BY <1>2, <2>1 DEF Overlaps, At
  <2>5. QED
    BY <1>2, <2>2, <2>3, <2>4 DEF SweepInv, Told
<1>3. QED
  BY <1>1, <1>2 DEF TicketsOnce, StagesOnce

LEMMA SweepInit == ASSUME RequestsInit, GrievancesInit PROVE SweepInv
<1>1. SweepTxns
  BY IdleSweep DEF RequestsInit, SweepTxns
<1>2. ticket \in [Tickets -> TicketRows \cup {None}]
  BY DEF GrievancesInit
<1>3. PICK yes, no : stage = [s \in Stages |-> [pending |-> yes, due |-> no, escalated |-> no]]
  BY DEF GrievancesInit
<1>4. SweepRows
  BY <1>2, <1>3 DEF SweepRows, IsStage
<1>5. QED
  BY <1>1, <1>4 DEF GrievancesInit, SweepInv, Told

LEMMA SweepNext == ASSUME SweepInv, [GrievanceStep]_grievanceVars PROVE SweepInv'
<1>1. CASE UNCHANGED grievanceVars
  BY <1>1, SameRows, SweepPasses DEF grievanceVars, grievances, SweepInv
<1>2. CASE GrievanceStep
  BY <1>2, DeskKeeps, SubmitKeeps, SubmitInsertKeeps, GrievanceSweepKeeps, MailKeeps, StampKeeps, StageSweepKeeps,
     NotifyNoneKeeps, NotifyChairKeeps, MarkStageKeeps, CrashKeeps DEF GrievanceStep
<1>3. QED
  BY <1>1, <1>2

\* A sweep reminds nobody twice of one item, and of none that is answered, as
\* long as the item is as it was listed and no other sweep is between its
\* message and its stamp.
THEOREM RemindedOnce == GrievancesSpec => OnlyOverlappingSweepsRepeat
<1>1. RequestsInit /\ GrievancesInit => SweepInv
  BY SweepInit
<1>2. SweepInv /\ [GrievanceStep]_grievanceVars => SweepInv'
  BY SweepNext
<1>3. SweepInv => [\A w \in Workers : (Steps(w) /\ At(w, "mail") /\ txn'[w].pc = "stamp") =>
         LET n == First(txn[w].todo)
         IN  ("crash" \notin mix /\ txn[w].rows[n] = ticket[n] /\ ~Overlaps(w, "stamp", n))
             => ticket[n].open /\ <<"ticket", n>> \notin mailed]_grievanceVars
  BY SweepOnce DEF TicketsOnce
<1>4. SweepInv => [\A w \in Workers : (Steps(w) /\ At(w, "notify") /\ txn'[w].pc = "mark") =>
         LET s == First(txn[w].todo)
         IN  ("crash" \notin mix /\ txn[w].rows[s] = stage[s] /\ ~Overlaps(w, "mark", s))
             => stage[s].pending /\ <<"stage", s>> \notin mailed]_grievanceVars
  BY SweepOnce DEF StagesOnce
<1>5. QED
  BY <1>1, <1>2, <1>3, <1>4, PTL DEF GrievancesSpec, OnlyOverlappingSweepsRepeat

-----------------------------------------------------------------------------
(* Notifications.                                                          *)

\* A dispatch goes from channel to channel, and an unsubscription that
\* switches push off has counted no device.
IsChannel(t) == t = [pc |-> "channel", u |-> t.u, push |-> t.push, n |-> t.n, channels |-> t.channels]

NoticeTxn(t) ==
    /\ t.pc = "opt_out" => t.seen = {}
    /\ t.pc = "channel" => IsChannel(t)
    /\ t.pc = "push" => /\ t = [pc |-> t.pc, t |-> t.t, n |-> t.n, todo |-> t.todo, told |-> t.told]
                        /\ IsChannel(t.t)
    /\ t.pc = "pushed" => IsChannel(t.t)

NoticeInv ==
    /\ txn = [w \in Workers |-> txn[w]]
    /\ \A w \in Workers : NoticeTxn(txn[w])

LEMMA NoticeHolds ==
    ASSUME NoticeInv, NEW w \in Workers, NEW t, NoticeTxn(t), txn' = [txn EXCEPT ![w] = t]
    PROVE  NoticeInv'
BY DEF NoticeInv

LEMMA NoticeEnds == ASSUME NoticeInv, NEW w \in Workers, End(w) PROVE NoticeInv'
<1>1. NoticeTxn(Idle)
  BY DEF NoticeTxn, Idle
<1>2. QED
  BY <1>1, NoticeHolds DEF End

LEMMA NoticeStays == ASSUME NoticeInv, UNCHANGED txn PROVE NoticeInv'
BY DEF NoticeInv

LEMMA TailChannel == ASSUME NEW t, IsChannel(t), NEW c, NEW r, r = [t EXCEPT !.channels = c] PROVE NoticeTxn(r)
<1>1. r = [pc |-> "channel", u |-> t.u, push |-> t.push, n |-> t.n, channels |-> c]
  BY DEF IsChannel
<1>2. IsChannel(r) /\ r.pc = "channel"
  BY <1>1 DEF IsChannel
<1>3. QED
  BY <1>2 DEF NoticeTxn

LEMMA GoesOn == ASSUME NoticeInv, NEW w \in Workers, At(w, "channel"), GoOn(w) PROVE NoticeInv'
<1>1. PICK t : t = txn[w] /\ IsChannel(t)
  BY DEF At, NoticeInv, NoticeTxn
<1>2. PICK c : c = Tail(t.channels)
  OBVIOUS
<1>3. PICK r : r = [t EXCEPT !.channels = c]
  OBVIOUS
<1>4. NoticeTxn(r)
  BY <1>1, <1>3, TailChannel
<1>5. CASE Len(t.channels) = 1
  BY <1>1, <1>5, NoticeEnds DEF GoOn, NextChannel, End
<1>6. CASE Len(t.channels) # 1
  <2>1. txn' = [txn EXCEPT ![w] = r]
    BY <1>1, <1>2, <1>3, <1>6 DEF GoOn, NextChannel
  <2>2. QED
    BY <1>4, <2>1, NoticeHolds
<1>7. QED
  BY <1>5, <1>6

LEMMA DevicesKeep == ASSUME NoticeInv, NEW w \in Workers, Devices(w) PROVE NoticeInv' /\ wants' = wants
<1>0. wants' = wants
  BY DEF Devices, Record, SetNotice, notices
<1>1. PICK t : t = txn[w] /\ IsChannel(t)
  BY DEF Devices, At, NoticeInv, NoticeTxn
<1>2. PICK todo : todo = [e \in DevicesOf(t.u) |-> device[e].id]
  OBVIOUS
<1>3. PICK r : r = [pc |-> "push", t |-> t, n |-> t.n, todo |-> todo, told |-> {}]
  OBVIOUS
<1>4. r.pc = "push" /\ r.t = t /\ r = [pc |-> r.pc, t |-> r.t, n |-> r.n, todo |-> r.todo, told |-> r.told]
  BY <1>3
<1>5. NoticeTxn(r)
  BY <1>1, <1>4 DEF NoticeTxn
<1>6. CASE DevicesOf(t.u) = {}
  BY <1>0, <1>1, <1>6, GoesOn DEF Devices
<1>7. CASE DevicesOf(t.u) # {}
  <2>1. txn' = [txn EXCEPT ![w] = r]
    BY <1>1, <1>2, <1>3, <1>7, Zenon DEF Devices
  <2>2. QED
    BY <1>0, <1>5, <2>1, NoticeHolds
<1>8. QED
  BY <1>6, <1>7

LEMMA PushKeeps ==
    ASSUME NoticeInv, NEW w \in Workers, NEW e, NEW status, Push(w, e, status)
    PROVE  NoticeInv' /\ wants' = wants
<1>1. PICK t : /\ t = txn[w] /\ t.pc = "push" /\ IsChannel(t.t)
               /\ t = [pc |-> t.pc, t |-> t.t, n |-> t.n, todo |-> t.todo, told |-> t.told]
  BY DEF Push, At, NoticeInv, NoticeTxn
<1>2. PICK r : r = [pc |-> "pushed", t |-> t.t, n |-> t.n, todo |-> t.todo, told |-> t.told, e |-> e, status |-> status]
  OBVIOUS
<1>3. r.pc = "pushed" /\ r.t = t.t
  BY <1>2
<1>4. NoticeTxn(r)
  BY <1>1, <1>3 DEF NoticeTxn
<1>5. txn' = [txn EXCEPT ![w] = r]
  BY <1>1, <1>2, Zenon DEF Push
<1>6. QED
  BY <1>4, <1>5, NoticeHolds DEF Push

LEMMA PushedKeeps == ASSUME NoticeInv, NEW w \in Workers, Pushed(w) PROVE NoticeInv' /\ wants' = wants
<1>1. PICK t : t = txn[w] /\ t.pc = "pushed" /\ IsChannel(t.t)
  BY DEF Pushed, At, NoticeInv, NoticeTxn
<1>2. PICK told, c : told = t.told \cup {t.e} /\ c = Tail(t.t.channels)
  OBVIOUS
<1>3. PICK x : x = [t.t EXCEPT !.channels = c]
  OBVIOUS
<1>4. NoticeTxn(x)
  BY <1>1, <1>3, TailChannel
<1>5. PICK y : y = [pc |-> "push", t |-> t.t, n |-> t.n, todo |-> t.todo, told |-> told]
  OBVIOUS
<1>6. y.pc = "push" /\ y.t = t.t /\ y = [pc |-> y.pc, t |-> y.t, n |-> y.n, todo |-> y.todo, told |-> y.told]
  BY <1>5
<1>7. NoticeTxn(y)
  BY <1>1, <1>6 DEF NoticeTxn
<1>8. PICK r \in {x, y, Idle} : txn' = [txn EXCEPT ![w] = r]
  BY <1>1, <1>2, <1>3, <1>5, Zenon DEF Pushed
<1>9. NoticeTxn(r)
  BY <1>4, <1>7 DEF NoticeTxn, Idle
<1>10. QED
  BY <1>8, <1>9, NoticeHolds DEF Pushed, Record, SetNotice

LEMMA NoticeBegins ==
    ASSUME NoticeInv, NEW w \in Workers, NEW u \in Members,
           (\E e \in Endpoints : Subscribe(w, u, e) \/ Unsubscribe(w, u, e)) \/ Notify(w, u)
    PROVE  NoticeInv' /\ wants' = wants
<1>1. PICK b : b = (u \in wants)
  OBVIOUS
<1>2. NoticeTxn([pc |-> "opt_in", u |-> u]) /\ NoticeTxn([pc |-> "count", u |-> u])
  BY DEF NoticeTxn
<1>3. NoticeTxn([pc |-> "insert", u |-> u, push |-> b])
  BY DEF NoticeTxn
<1>4. ASSUME NEW e \in Endpoints, Subscribe(w, u, e) PROVE NoticeInv' /\ wants' = wants
  BY <1>2, <1>4, NoticeHolds DEF Subscribe, Serve, Hold
<1>5. ASSUME NEW e \in Endpoints, Unsubscribe(w, u, e) PROVE NoticeInv' /\ wants' = wants
  BY <1>2, <1>5, NoticeHolds DEF Unsubscribe, Serve, Hold
<1>6. CASE Notify(w, u)
  <2>1. txn' = [txn EXCEPT ![w] = [pc |-> "insert", u |-> u, push |-> b]]
    BY <1>1, <1>6, Zenon DEF Notify, Hold
  <2>2. QED
    BY <1>3, <1>6, <2>1, NoticeHolds DEF Notify, notices
<1>7. QED
  BY <1>4, <1>5, <1>6

LEMMA InsertKeeps ==
    ASSUME NoticeInv, NEW w \in Workers, NEW n, InsertNotice(w, n)
    PROVE  NoticeInv' /\ wants' = wants
<1>1. PICK t, r : /\ t = txn[w]
                  /\ r = [pc |-> "channel", u |-> t.u, push |-> t.push, n |-> n, channels |-> Channels]
  OBVIOUS
<1>2. IsChannel(r) /\ r.pc = "channel"
  BY <1>1 DEF IsChannel
<1>3. NoticeTxn(r)
  BY <1>2 DEF NoticeTxn
<1>4. txn' = [txn EXCEPT ![w] = r]
  BY <1>1, Zenon DEF InsertNotice
<1>5. QED
  BY <1>3, <1>4, NoticeHolds DEF InsertNotice, SetNotice

LEMMA CountKeeps == ASSUME NoticeInv, NEW w \in Workers, Count(w) PROVE NoticeInv' /\ wants' = wants
<1>1. PICK d : d = DevicesOf(txn[w].u)
  OBVIOUS
<1>2. CASE d = {}
  <2>1. NoticeTxn([pc |-> "opt_out", u |-> txn[w].u, seen |-> d])
    BY <1>2 DEF NoticeTxn
  <2>2. txn' = [txn EXCEPT ![w] = [pc |-> "opt_out", u |-> txn[w].u, seen |-> d]]
    BY <1>1, <1>2, Zenon DEF Count, Remaining
  <2>3. QED
    BY <2>1, <2>2, NoticeHolds DEF Count, notices
<1>3. CASE d # {}
  BY <1>1, <1>3, NoticeEnds DEF Count, notices
<1>4. QED
  BY <1>2, <1>3

LEMMA ChannelKeeps ==
    ASSUME NoticeInv, NEW w \in Workers,
           InApp(w) \/ SkipChannel(w) \/ \E status \in {"sent", "failed", "skipped"} : Email(w, status)
    PROVE  NoticeInv' /\ wants' = wants
<1>1. CASE InApp(w)
  BY <1>1, GoesOn DEF InApp, notices
<1>2. CASE SkipChannel(w)
  BY <1>2, GoesOn DEF SkipChannel, Record, SetNotice
<1>3. ASSUME NEW status, Email(w, status) PROVE NoticeInv' /\ wants' = wants
  BY <1>3, GoesOn DEF Email, Record, SetNotice
<1>4. QED
  BY <1>1, <1>2, <1>3

\* A member with a device is not opted out by an unsubscription that is fresh.
Wanted == \A u \in wants : DevicesOf(u) # {} => u \in wants'

LEMMA NoticeSteps ==
    ASSUME NoticeInv, NoticeStep
    PROVE  /\ NoticeInv'
           /\ (\A w \in Workers : (Steps(w) /\ At(w, "opt_out")) => DevicesOf(txn[w].u) \subseteq txn[w].seen) => Wanted
<1>1. ASSUME wants' = wants PROVE Wanted
  BY <1>1 DEF Wanted
<1>2. ASSUME NEW w \in Workers, OptIn(w) PROVE NoticeInv' /\ Wanted
  BY <1>2, NoticeEnds DEF OptIn, SetWants, Wanted
<1>3. ASSUME NEW w \in Workers, OptOut(w)
      PROVE  /\ NoticeInv'
             /\ ((Steps(w) /\ At(w, "opt_out")) => DevicesOf(txn[w].u) \subseteq txn[w].seen) => Wanted
  <2>1. PICK t : t = txn[w] /\ t.pc = "opt_out" /\ t.seen = {}
    BY <1>3 DEF OptOut, At, NoticeInv, NoticeTxn
  <2>2. Steps(w) /\ At(w, "opt_out")
    BY <1>3, <2>1 DEF OptOut, End, Idle, Steps, At, NoticeInv
  <2>3. wants' = wants \ {t.u}
    BY <1>3, <2>1 DEF OptOut, SetWants
  <2>4. QED
    BY <1>3, <2>1, <2>2, <2>3, NoticeEnds DEF OptOut, Wanted
<1>4. CASE EnableTemplate \/ (\E u \in Members : ReadAll(u)) \/ \E n \in Notices : ReadNotice(n)
  BY <1>1, <1>4, NoticeStays DEF EnableTemplate, ReadAll, ReadNotice, SetNotice, Serves, requests
<1>5. ASSUME NEW w \in Workers, Crash(w), UNCHANGED notices PROVE NoticeInv' /\ wants' = wants
  BY <1>5, NoticeEnds DEF Crash, notices
<1>6. QED
  BY <1>1, <1>2, <1>3, <1>4, <1>5, NoticeBegins, InsertKeeps, CountKeeps, ChannelKeeps, DevicesKeep, PushKeeps,
     PushedKeeps DEF NoticeStep

\* Push stays on for a member who has a device, unless one subscribes while
\* the unsubscription of another has counted none.
THEOREM PushStays == NoticesSpec => OnlyStaleCountsMute
<1>1. RequestsInit /\ NoticesInit => NoticeInv
  BY DEF RequestsInit, NoticeInv, NoticeTxn, Idle
<1>2. NoticeInv /\ [NoticeStep]_noticeVars => NoticeInv'
  BY NoticeSteps, NoticeStays DEF noticeVars, requests
<1>3. ASSUME NoticeInv, [NoticeStep]_noticeVars
      PROVE  [(\A w \in Workers : (Steps(w) /\ At(w, "opt_out")) => DevicesOf(txn[w].u) \subseteq txn[w].seen)
              => \A u \in wants : DevicesOf(u) # {} => u \in wants']_wants
  BY <1>3, NoticeSteps DEF Wanted, noticeVars, notices
<1>4. QED
  BY <1>1, <1>2, <1>3, PTL DEF NoticesSpec, OnlyStaleCountsMute
=============================================================================
