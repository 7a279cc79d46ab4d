----------------------------- MODULE JobPostings -----------------------------
(***************************************************************************)
(* Job postings and their applications: routes/employer.ts,                *)
(* routes/admin/jobs.ts, routes/jobApplications.ts, and the job branch of  *)
(* confirmPaymentAndFulfil in lib/razorpay/confirm.ts.                     *)
(*                                                                         *)
(* An employer's posting waits for its fee; the desk's are active at once. *)
(* A posting that becomes active is announced by dispatchJobAlerts in the  *)
(* same request, which JobAlerts takes from the label "dispatch".          *)
(***************************************************************************)
EXTENDS Requests

CONSTANTS
    Postings,     \* rows that may be inserted, numbers
    Bills         \* payments for them, numbers

PostingStatuses == {"draft", "pending_payment", "active", "closed"}

\* What an employer may set; the applicant's own are the first and the last.
ApplicationStatuses == {"applied", "shortlisted", "rejected", "withdrawn"}

ASSUME JobPostingsAssumption ==
    /\ Postings \subseteq Nat /\ Bills \subseteq Nat
    /\ None \notin Nat /\ None \notin PostingStatuses /\ None \notin ApplicationStatuses

VARIABLES
    posting,      \* posting[p]: status, None before it is inserted, and whether it is deleted
    bill,         \* bill[k]: the posting it is for, its order, its outcome
    application,  \* status of the applicant's row for each posting, None before
    told          \* the status of the latest mail to the applicant about it

jobs == <<posting, bill, application, told>>

NoPosting == [status |-> None, deleted |-> FALSE]
NoBill == [posting |-> None, order |-> FALSE, paid |-> FALSE, flagged |-> FALSE]

JobsTypeOK ==
    /\ posting \in [Postings -> [status : PostingStatuses \cup {None}, deleted : BOOLEAN]]
    /\ bill \in [Bills -> [posting : Postings \cup {None}, order : BOOLEAN,
                           paid : BOOLEAN, flagged : BOOLEAN]]
    /\ application \in [Postings -> ApplicationStatuses \cup {None}]
    /\ told \in [Postings -> ApplicationStatuses]

Exists(p) == posting[p].status # None /\ ~posting[p].deleted

\* The next row of a table that is filled in order.
NewPosting(p) == posting[p].status = None /\ \A q \in Postings : posting[q].status = None => p <= q
NewBill(k) == bill[k].posting = None /\ \A j \in Bills : bill[j].posting = None => k <= j

JobsInit ==
    /\ posting = [p \in Postings |->
                    IF p = 1 /\ "apply" \in mix THEN [NoPosting EXCEPT !.status = "active"]
                    ELSE NoPosting]
    /\ bill = [k \in Bills |-> NoBill]
    /\ application = [p \in Postings |-> None]
    /\ told = [p \in Postings |-> "applied"]

-----------------------------------------------------------------------------
(* The employer.                                                           *)

\* POST /postings: posting and payment are one transaction, the order comes
\* after it and may fail.
CreatePosting(p, k) ==
    /\ Serves("pay")
    /\ NewPosting(p) /\ NewBill(k)
    /\ posting' = [posting EXCEPT ![p].status = "pending_payment"]
    /\ \E order \in BOOLEAN :
          bill' = [bill EXCEPT ![k] = [NoBill EXCEPT !.posting = p, !.order = order]]
    /\ UNCHANGED <<application, told>>

\* POST /postings/:id/pay: a fresh payment; the earlier order stays payable.
RetryRead(w, p) ==
    /\ Ready(w, "pay")
    /\ Exists(p) /\ posting[p].status = "pending_payment"
    /\ Hold(w, [pc |-> "retry", posting |-> p, old |-> posting[p]])
    /\ UNCHANGED jobs

RetryInsert(w, k) ==
    /\ At(w, "retry")
    /\ NewBill(k)
    /\ \E order \in BOOLEAN :
          bill' = [bill EXCEPT ![k] = [NoBill EXCEPT !.posting = txn[w].posting, !.order = order]]
    /\ End(w)
    /\ UNCHANGED <<posting, application, told>>

\* POST /:id/close, the employer's and the desk's: one UPDATE, whatever the
\* status.
Close(p) ==
    /\ Serves("close")
    /\ Exists(p)
    /\ posting' = [posting EXCEPT ![p].status = "closed"]
    /\ UNCHANGED <<bill, application, told>>

DeletePosting(p) ==
    /\ Serves("delete")
    /\ Exists(p)
    /\ posting' = [posting EXCEPT ![p].deleted = TRUE]
    /\ UNCHANGED <<bill, application, told>>

-----------------------------------------------------------------------------
(* The payment.  An order is confirmed by the webhook, the browser's       *)
(* return, the reconciliation, or several of them.                         *)

\* Mutant: deleted postings are not left out.
ConfirmReadDeleted(w, k) ==
    /\ Ready(w, "pay")
    /\ bill[k].order /\ ~bill[k].paid
    /\ Hold(w, [pc |-> "confirm", bill |-> k, posting |-> bill[k].posting,
                old |-> posting[bill[k].posting], gone |-> FALSE])
    /\ UNCHANGED jobs

\* Without a lock.  A payment that is a success already ends the request.
ConfirmRead(w, k) ==
    /\ Ready(w, "pay")
    /\ bill[k].order /\ ~bill[k].paid
    /\ Hold(w, [pc |-> "confirm", bill |-> k, posting |-> bill[k].posting,
                old |-> posting[bill[k].posting], gone |-> ~Exists(bill[k].posting)])
    /\ UNCHANGED jobs

Dispatch(w, p) == txn' = [txn EXCEPT ![w] = [pc |-> "dispatch", posting |-> p]] /\ UNCHANGED mix

\* The UPDATEs name ids; a posting that is active already is announced again.
ConfirmCommit(w) ==
    LET t == txn[w]
    IN  /\ At(w, "confirm")
        /\ posting' = IF t.gone \/ t.old.status = "active" THEN posting
                      ELSE [posting EXCEPT ![t.posting].status = "active"]
        /\ bill' = [bill EXCEPT ![t.bill].paid = TRUE, ![t.bill].flagged = @ \/ t.gone]
        /\ IF t.gone THEN End(w) ELSE Dispatch(w, t.posting)
        /\ UNCHANGED <<application, told>>

-----------------------------------------------------------------------------
(* The desk.                                                               *)

\* POST /admin/jobs.
AdminCreate(w, p) ==
    /\ Ready(w, "post")
    /\ NewPosting(p)
    /\ posting' = [posting EXCEPT ![p].status = "active"]
    /\ Hold(w, [pc |-> "dispatch", posting |-> p])
    /\ UNCHANGED <<bill, application, told>>

\* PATCH /admin/jobs/:id, with a status or (None) without; the UPDATE names
\* the id only.
PatchRead(w, p, s) ==
    /\ Ready(w, "desk")
    /\ Exists(p)
    /\ Hold(w, [pc |-> "patch", posting |-> p, to |-> s, old |-> posting[p]])
    /\ UNCHANGED jobs

\* POST /admin/jobs/:id/activate.
ActivateRead(w, p) ==
    /\ Ready(w, "desk")
    /\ Exists(p) /\ posting[p].status # "closed"
    /\ Hold(w, [pc |-> "activate", posting |-> p, to |-> "active", old |-> posting[p]])
    /\ UNCHANGED jobs

DeskWrite(w) ==
    LET t == txn[w]
        s == IF t.to = None THEN posting[t.posting].status ELSE t.to
    IN  /\ At(w, "patch") \/ At(w, "activate")
        /\ posting' = [posting EXCEPT ![t.posting].status = s]
        /\ IF t.old.status # "active" /\ s = "active" THEN Dispatch(w, t.posting) ELSE End(w)
        /\ UNCHANGED <<bill, application, told>>

-----------------------------------------------------------------------------
(* Applications.                                                           *)

\* POST /job-applications; a second row meets the unique index.
ApplyRead(w, p) ==
    /\ Ready(w, "apply")
    /\ Exists(p) /\ posting[p].status = "active"
    /\ Hold(w, [pc |-> "apply", posting |-> p, old |-> posting[p]])
    /\ UNCHANGED jobs

ApplyInsert(w) ==
    LET p == txn[w].posting
    IN  /\ At(w, "apply")
        /\ application' = [application EXCEPT ![p] = IF @ = None THEN "applied" ELSE @]
        /\ End(w)
        /\ UNCHANGED <<posting, bill, told>>

\* POST /:id/withdraw: one UPDATE, whatever the status.
Withdraw(p) ==
    /\ Serves("apply")
    /\ application[p] # None
    /\ application' = [application EXCEPT ![p] = "withdrawn"]
    /\ UNCHANGED <<posting, bill, told>>

\* PATCH /employer/applications/:appId.
ReviewRead(w, p, s) ==
    /\ Ready(w, "review")
    /\ application[p] # None
    /\ Hold(w, [pc |-> "review", posting |-> p, to |-> s, prev |-> application[p]])
    /\ UNCHANGED jobs

\* Mutant: the status is compared with the row the UPDATE returns.
ReviewWriteCompareNew(w) ==
    LET t == txn[w]
    IN  /\ At(w, "review")
        /\ application' = [application EXCEPT ![t.posting] = t.to]
        /\ IF application'[t.posting] # t.to THEN Goto(w, "tell") ELSE End(w)
        /\ UNCHANGED <<posting, bill, told>>

ReviewWrite(w) ==
    LET t == txn[w]
    IN  /\ At(w, "review")
        /\ application' = [application EXCEPT ![t.posting] = t.to]
        /\ IF t.prev # t.to THEN Goto(w, "tell") ELSE End(w)
        /\ UNCHANGED <<posting, bill, told>>

ReviewTell(w) ==
    /\ At(w, "tell")
    /\ told' = [told EXCEPT ![txn[w].posting] = txn[w].to]
    /\ End(w)
    /\ UNCHANGED <<posting, bill, application>>

EmployerStep ==
    \/ \E p \in Postings, k \in Bills : CreatePosting(p, k)
    \/ \E w \in Workers, p \in Postings : RetryRead(w, p)
    \/ \E w \in Workers, k \in Bills : RetryInsert(w, k) \/ ConfirmRead(w, k)
    \/ \E p \in Postings : Close(p) \/ DeletePosting(p)
    \/ \E w \in Workers : ConfirmCommit(w)

DeskStep ==
    \/ \E w \in Workers, p \in Postings : AdminCreate(w, p) \/ ActivateRead(w, p)
    \/ \E w \in Workers, p \in Postings, s \in PostingStatuses \cup {None} : PatchRead(w, p, s)
    \/ \E w \in Workers : DeskWrite(w)

ApplicationStep ==
    \/ \E w \in Workers, p \in Postings : ApplyRead(w, p)
    \/ \E w \in Workers : ApplyInsert(w) \/ ReviewWrite(w) \/ ReviewTell(w)
    \/ \E p \in Postings : Withdraw(p)
    \/ \E w \in Workers, p \in Postings, s \in ApplicationStatuses : ReviewRead(w, p, s)

JobsNext == EmployerStep \/ DeskStep \/ ApplicationStep

-----------------------------------------------------------------------------
(* Properties.                                                             *)

JobsStale(w) ==
    LET t == txn[w]
    IN  \/ t.pc \in {"retry", "confirm", "patch", "activate"} /\ posting[t.posting] # t.old
        \/ t.pc = "review" /\ application[t.posting] # t.prev
        \/ t.pc = "tell" /\ application[t.posting] # t.to

JobsFresh == \A w \in Workers : Steps(w) => ~JobsStale(w)

\* A fee that is collected has its posting published, or is flagged for a
\* refund: only a deletion between confirmPaymentAndFulfil's read and its
\* writes leaves a fee that bought nothing and that nobody returns.  "Closed
\* postings cannot be reactivated": they are, by the desk's PATCH, by a fee
\* paid late, and otherwise only by an activation that read the posting before
\* it was closed.
OnlyStaleWritesUndo ==
    [][/\ \A k \in Bills :
            ~bill[k].paid /\ bill'[k].paid =>
               \/ bill'[k].flagged
               \/ posting'[bill[k].posting] = [status |-> "active", deleted |-> FALSE]
               \/ ~JobsFresh
       /\ \A p \in Postings :
            posting[p].status = "closed" /\ posting'[p].status = "active" =>
               \/ \E w \in Workers : Steps(w) /\ (At(w, "patch") \/ At(w, "confirm"))
               \/ ~JobsFresh]_<<bill, posting>>

\* The latest mail an applicant has is the status of the application, or its
\* mail is on the way, unless two reviews of it overlap: one overwrites what
\* the other read, or mails a status that is no longer the row's.
Informed(p) ==
    \/ application[p] \in {None, "withdrawn", told[p]}
    \/ \E w \in Workers : At(w, "tell") /\ txn[w].posting = p /\ txn[w].to = application[p]

OnlyOverlappingReviewsMisinform ==
    [][\A p \in Postings : Informed(p) /\ ~Informed(p)' => ~JobsFresh]_<<requests, jobs>>
=============================================================================
