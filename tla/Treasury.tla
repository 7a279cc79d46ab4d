------------------------------ MODULE Treasury ------------------------------
(***************************************************************************)
(* Bills, budgets, refunds and transfers of the branch:                    *)
(* routes/admin/{bills,budgets,refunds,iutTransfers,vendorsAndCategories,  *)
(* cabf}.ts.                                                               *)
(*                                                                         *)
(* A decision is one UPDATE whose WHERE asks for the status before it.     *)
(* Editing a bill, entering a budget and deleting a category read first.   *)
(* Amounts are small numbers; planned amounts, dates within the financial  *)
(* year, notes and documents are left out.                                 *)
(***************************************************************************)
EXTENDS Requests

CONSTANTS
    Bills, BudgetRows, Refunds, Transfers, Assistance,
    Categories,     \* expense_categories
    Lines,          \* committee and category of a bill or a budget, each of them or None
    Amounts,        \* amount_paise
    PaymentAmount   \* of the captured payment that refunds are asked of

\* A bill keeps its line when the category of it goes.
BillRows ==
    [status : {"draft", "submitted", "approved", "rejected", "paid"}, amount : Amounts,
     line : Lines \cup {[line EXCEPT !.category = None] : line \in Lines}, deleted : BOOLEAN]

ASSUME TreasuryAssumption ==
    /\ Amounts \subseteq Nat /\ PaymentAmount \in Nat
    /\ None \notin Categories /\ None \notin Lines /\ None \notin BillRows
    /\ \A line \in Lines : line.category \in Categories \cup {None}

VARIABLES
    bill,       \* bill[b]: status, amount, line and deleted_at, or None
    budget,     \* budget[i]: the line planned for, or None
    category,   \* expense_categories that are there
    refund,     \* refund[r]: status and amount, or None
    transfer,   \* transfer[x]: status, or None
    assistance  \* assistance[a]: status of a CABF request

treasury == <<bill, budget, category, refund, transfer, assistance>>
treasuryVars == <<requests, treasury>>

TreasuryInit ==
    /\ bill = [b \in Bills |-> None]
    /\ budget = [i \in BudgetRows |-> None]
    /\ category = Categories
    /\ refund = [r \in Refunds |-> None]
    /\ transfer = [x \in Transfers |-> None]
    /\ assistance = [a \in Assistance |-> "submitted"]

-----------------------------------------------------------------------------
(* Bills.                                                                  *)

SetBill(b, row) ==
    /\ bill' = [bill EXCEPT ![b] = row]
    /\ UNCHANGED <<budget, category, refund, transfer, assistance>>

RecordBill(b, amount, line, status) ==
    /\ Serves("bill")
    /\ bill[b] = None /\ line.category \in category \cup {None}
    /\ SetBill(b, [status |-> status, amount |-> amount, line |-> line, deleted |-> FALSE])

\* PATCH /:id reads a draft; the UPDATE goes by id.
EditRead(w, b, amount, line) ==
    /\ Ready(w, "edit")
    /\ bill[b] # None /\ bill[b].status = "draft" /\ ~bill[b].deleted
    /\ Hold(w, [pc |-> "edit", b |-> b, amount |-> amount, line |-> line, read |-> bill[b]])
    /\ UNCHANGED treasury

\* The foreign key refuses a category that is gone.
EditWrite(w) ==
    LET t == txn[w]
    IN  /\ At(w, "edit")
        /\ IF t.line.category \notin category \cup {None} THEN UNCHANGED treasury
           ELSE SetBill(t.b, [bill[t.b] EXCEPT !.amount = t.amount, !.line = t.line])
        /\ End(w)

Flow ==
    [bill |-> {<<"draft", "submitted">>, <<"submitted", "approved">>, <<"submitted", "rejected">>, <<"approved", "paid">>},
     refund |-> {<<"requested", "approved">>, <<"requested", "rejected">>, <<"approved", "processed">>},
     transfer |-> {<<"requested", "approved">>, <<"requested", "rejected">>, <<"approved", "executed">>}]

\* Submit, approve, reject and paid: none of them asks for deleted_at.
DecideBill(b, step) ==
    /\ Serves(IF step[2] \in {"rejected", "paid"} THEN "settle" ELSE "bill")
    /\ bill[b] # None /\ bill[b].status = step[1]
    /\ SetBill(b, [bill[b] EXCEPT !.status = step[2]])

\* Mutant: the deletion does not ask for a draft.
DeleteBillAny(b) ==
    /\ Serves("bill")
    /\ bill[b] # None /\ ~bill[b].deleted
    /\ SetBill(b, [bill[b] EXCEPT !.deleted = TRUE])

DeleteBill(b) ==
    /\ Serves("bill")
    /\ bill[b] # None /\ bill[b].status = "draft" /\ ~bill[b].deleted
    /\ SetBill(b, [bill[b] EXCEPT !.deleted = TRUE])

-----------------------------------------------------------------------------
(* Budgets and the rollup.                                                 *)

SetBudget(i, line) ==
    /\ budget' = [budget EXCEPT ![i] = line]
    /\ UNCHANGED <<bill, category, refund, transfer, assistance>>

\* Mutant: UNIQUE with NULLs distinct.
PlannedNullsDistinct(line) == line.committee # None /\ \E i \in BudgetRows : budget[i] = line

\* UNIQUE NULLS NOT DISTINCT (fy_start_year, committee_id, category_id).
Planned(line) == \E i \in BudgetRows : budget[i] = line

\* POST / looks for the row of the line, then updates it by id or inserts one.
PlanRead(w, line) ==
    /\ line.category # None
    /\ Serve(w, "plan", [pc |-> "plan", line |-> line, found |-> \E i \in BudgetRows : budget[i] = line])
    /\ UNCHANGED treasury

\* The amount planned is left out, so only an insertion changes anything.
PlanWrite(w) ==
    LET line == txn[w].line
        inserts == ~txn[w].found /\ ~Planned(line) /\ line.category \in category
        free == {i \in BudgetRows : budget[i] = None}
    IN  /\ At(w, "plan")
        /\ inserts => free # {}
        /\ IF inserts THEN SetBudget(CHOOSE i \in free : TRUE, line) ELSE UNCHANGED treasury
        /\ End(w)

DeleteBudget(i) ==
    /\ Serves("plan")
    /\ budget[i] # None
    /\ SetBudget(i, None)

Counts(b) == bill[b] # None /\ bill[b].status \in {"approved", "paid"} /\ ~bill[b].deleted

\* The lines on which the bills that count were spent.
Actuals == {bill[b].line : b \in {x \in Bills : Counts(x)}}

\* GET /rollup reads the rows planned, then what was spent on each line.
RollupRead(w) ==
    /\ Serve(w, "rollup", [pc |-> "rollup", rows |-> {i \in BudgetRows : budget[i] # None}, lines |-> budget])
    /\ UNCHANGED treasury

\* What it then answers: what was spent beside each row planned, and on the
\* lines that no row plans.
Uncategorised(t) == Actuals \ {t.lines[i] : i \in t.rows}

RollupShow(w) ==
    /\ At(w, "rollup")
    /\ End(w)
    /\ UNCHANGED treasury

\* DELETE of a category counts its bills; then the foreign keys refuse it if
\* a budget names it and take it from the bills.
DeleteCategoryRead(w, kind) ==
    /\ Ready(w, "category")
    /\ \A b \in Bills : bill[b] # None => bill[b].deleted \/ bill[b].line.category # kind
    /\ Hold(w, [pc |-> "delete_category", kind |-> kind])
    /\ UNCHANGED treasury

DeleteCategoryWrite(w) ==
    LET kind == txn[w].kind
    IN  /\ At(w, "delete_category")
        /\ IF \E i \in BudgetRows : budget[i] # None /\ budget[i].category = kind THEN UNCHANGED treasury
           ELSE /\ category' = category \ {kind}
                /\ bill' = [b \in Bills |-> IF bill[b] # None /\ bill[b].line.category = kind
                                            THEN [bill[b] EXCEPT !.line.category = None] ELSE bill[b]]
                /\ UNCHANGED <<budget, refund, transfer, assistance>>
        /\ End(w)

CreateCategory(kind) ==
    /\ Serves("category")
    /\ category' = category \cup {kind}
    /\ UNCHANGED <<bill, budget, refund, transfer, assistance>>

-----------------------------------------------------------------------------
(* Refunds, transfers and assistance.                                      *)

\* Each refund is compared with the payment alone.
RequestRefund(r, amount) ==
    /\ Serves("refund")
    /\ refund[r] = None /\ amount \in 1..PaymentAmount
    /\ refund' = [refund EXCEPT ![r] = [status |-> "requested", amount |-> amount]]
    /\ UNCHANGED <<bill, budget, category, transfer, assistance>>

DecideRefund(r, step) ==
    /\ Serves("refund")
    /\ refund[r] # None /\ refund[r].status = step[1]
    /\ refund' = [refund EXCEPT ![r].status = step[2]]
    /\ UNCHANGED <<bill, budget, category, transfer, assistance>>

RequestTransfer(x) ==
    /\ Serves("transfer")
    /\ transfer[x] = None
    /\ transfer' = [transfer EXCEPT ![x] = "requested"]
    /\ UNCHANGED <<bill, budget, category, refund, assistance>>

DecideTransfer(x, step) ==
    /\ Serves("transfer")
    /\ transfer[x] = step[1]
    /\ transfer' = [transfer EXCEPT ![x] = step[2]]
    /\ UNCHANGED <<bill, budget, category, refund, assistance>>

\* PATCH of a CABF request takes any status after any other.
DecideAssistance(a, status) ==
    /\ Serves("transfer")
    /\ assistance' = [assistance EXCEPT ![a] = status]
    /\ UNCHANGED <<bill, budget, category, refund, transfer>>

TreasuryStep ==
    \/ \E b \in Bills :
          \/ DeleteBill(b)
          \/ \E step \in Flow.bill : DecideBill(b, step)
          \/ \E amount \in Amounts, line \in Lines :
                \/ \E status \in {"draft", "submitted"} : RecordBill(b, amount, line, status)
                \/ \E w \in Workers : EditRead(w, b, amount, line)
    \/ \E i \in BudgetRows : DeleteBudget(i)
    \/ \E kind \in Categories : CreateCategory(kind) \/ (\E w \in Workers : DeleteCategoryRead(w, kind))
    \/ \E r \in Refunds :
          \/ \E amount \in Amounts : RequestRefund(r, amount)
          \/ \E step \in Flow.refund : DecideRefund(r, step)
    \/ \E x \in Transfers : RequestTransfer(x) \/ (\E step \in Flow.transfer : DecideTransfer(x, step))
    \/ \E a \in Assistance, status \in {"submitted", "reviewing", "approved", "rejected", "disbursed"} : DecideAssistance(a, status)
    \/ \E w \in Workers :
          \/ \E line \in Lines : PlanRead(w, line)
          \/ EditWrite(w) \/ PlanWrite(w) \/ RollupRead(w) \/ RollupShow(w) \/ DeleteCategoryWrite(w)

\* The treasury alone.
TreasurySpec == RequestsInit /\ TreasuryInit /\ [][TreasuryStep]_treasuryVars

-----------------------------------------------------------------------------
(* Properties.                                                             *)

TreasuryTypeOK ==
    /\ bill \in [Bills -> BillRows \cup {None}]
    /\ budget \in [BudgetRows -> Lines \cup {None}]
    /\ category \subseteq Categories

\* An edit's bill has left the draft since it was read, or a bill has come to a
\* category since its bills were counted.
TreasuryStale(w) ==
    \/ At(w, "edit") /\ bill[txn[w].b] # txn[w].read
    \/ /\ At(w, "delete_category")
       /\ \E b \in Bills : bill[b] # None /\ ~bill[b].deleted /\ bill[b].line.category = txn[w].kind

\* What was approved on a line is spent there for good: neither an edit nor a
\* deletion nor a later decision moves, lowers or drops it, but for the writes
\* of stale requests.
OnlyStaleEditsRestate ==
    [][(\A w \in Workers : Steps(w) => ~TreasuryStale(w)) =>
         \A b \in Bills : Counts(b) =>
            /\ Counts(b)'
            /\ bill'[b].line = bill[b].line /\ bill'[b].amount = bill[b].amount]_bill

\* The rollup shows every rupee once: a bill that counts is beside one planned
\* row or among the uncategorised, and never in two places, whatever was
\* planned or decided between its two reads.
RollupsShowOnce ==
    \A w \in Workers : At(w, "rollup") =>
        \A b \in Bills : Counts(b) =>
            Cardinality({i \in txn[w].rows : txn[w].lines[i] = bill[b].line})
            + Cardinality({line \in Uncategorised(txn[w]) : line = bill[b].line}) = 1
=============================================================================
