---------------------- MODULE ChecklistApproval_proofs ----------------------
(***************************************************************************)
(* Proofs about ChecklistApproval, for any sections, stages, requests and  *)
(* mixes of handlers.  The inductive invariant says what a request in      *)
(* flight knows: the status it was let in with, that the rows it holds     *)
(* still exist, what an approval in its transaction rests on, and who has  *)
(* the event's row.                                                        *)
(***************************************************************************)
EXTENDS ChecklistApproval, TLAPS

Locking == {"rf_write", "pub_write"}

\* What the request of txn[w] has checked, and cannot have changed since.
Checked(t) ==
    /\ t.pc = "resp_write" => t.seen \in {"awaiting_fill", "rejected"}
    /\ t.pc = "q_write" => t.seen \in {"awaiting_fill", "rejected", "draft"}
    /\ t.pc \in {"app_read", "rej_read"} => t.set = {}
    /\ t.pc \in {"st_write", "st_commit", "rf_lock", "rf_write"} =>
          t.g \in Stages /\ t.dec \in {"approved", "rejected"}
    /\ t.pc = "st_commit" => t.out \in {"none", "approved", "rejected"}
    /\ (t.pc = "app_commit" /\ t.out = "approved") =>
          \A s \in Sections : t.rows[s] \in {"none", "approved"} \/ s \in t.set

\* The rows a request is about to write are there.
Finds(t) ==
    t.pc \in {"sub_rows", "app_rows", "app_write", "app_commit", "rej_rows", "rej_write"} =>
       \A s \in t.set : row[s] # "none"

Requested == \A w \in Workers : Checked(txn[w]) /\ Finds(txn[w])

\* The event's row has one holder, and reads as it did when it was locked.
EventLocked ==
    /\ \A v, w \in Workers : txn[v].pc \in Locking /\ txn[w].pc \in Locking => v = w
    /\ \A w \in Workers :
          /\ txn[w].pc = "rf_write" => event # "published"
          /\ txn[w].pc = "pub_write" => event = "draft"

IInv == TypeOK /\ mix \in Mixes /\ Requested /\ EventLocked

LEMMA IdleTyped == Idle \in Txn /\ Idle.pc = "idle" /\ Checked(Idle) /\ Finds(Idle)
BY ChecklistAssumption DEF Txn, PCs, Statuses, Decisions, Idle, Checked, Finds

LEMMA InitIInv == Init => IInv
<1> SUFFICES ASSUME Init PROVE IInv
  OBVIOUS
<1>1. mix.heads \subseteq Sections /\ mix.codes \subseteq Stages /\ mix \in Mixes
  BY ChecklistAssumption DEF Init
<1>2. txn \in [Workers -> Txn] /\ \A w \in Workers : txn[w] = Idle
  BY IdleTyped DEF Init
<1>3. stage \in [Stages -> Decisions] /\ status \in Statuses /\ owned \subseteq headings
  BY <1>1 DEF Init, Decisions, Statuses
<1>4. PICK R \in SUBSET headings : owned \subseteq R /\ row = [s \in Sections |-> IF s \in R THEN "pending" ELSE "none"]
  BY DEF Init
<1>5. TypeOK
  BY <1>1, <1>2, <1>3, <1>4 DEF Init, TypeOK, Decisions
<1>6. Requested
  BY <1>2, IdleTyped DEF Requested
<1>7. EventLocked
  BY <1>2, IdleTyped DEF EventLocked, Locking
<1>8. QED
  BY <1>1, <1>5, <1>6, <1>7 DEF IInv

-----------------------------------------------------------------------------
(* Steps that change nothing but the request's own record.                 *)

Turns(w) ==
    /\ txn' = [txn EXCEPT ![w] = txn'[w]]
    /\ txn'[w] \in Txn
    /\ Checked(txn'[w]) /\ Finds(txn'[w])
    /\ txn'[w].pc \in Locking =>
          /\ EventFree
          /\ txn'[w].pc = "rf_write" => event # "published"
          /\ txn'[w].pc = "pub_write" => event = "draft"
    /\ UNCHANGED <<mix, instance, form, assignment, stage, publication>>

LEMMA TurnStep == ASSUME IInv, NEW w \in Workers, Turns(w) PROVE IInv'
<1> USE DEF IInv, Turns
<1>1. TypeOK' /\ mix' \in Mixes
  BY DEF TypeOK, instance, form, assignment, publication
<1>2. Requested'
  BY DEF TypeOK, Requested, Finds, Checked, instance, form, assignment, publication
<1>3. EventLocked'
  BY DEF TypeOK, EventLocked, EventFree, Locking, instance, form, assignment, publication
<1>4. QED
  BY <1>1, <1>2, <1>3

LEMMA Labelled ==
  ASSUME NEW l \in PCs
  PROVE /\ At(l) \in Txn /\ At(l).pc = l /\ At(l).set = {} /\ At(l).out = "none"
BY ChecklistAssumption DEF At, Idle, Txn, Statuses, Decisions

LEMMA BeginTurns ==
  ASSUME IInv, NEW w \in Workers, NEW kind, NEW l \in Txn, Begin(w, kind, l),
         l.pc \in {"rel_write", "resp_write", "q_write", "as_write", "sub_write", "app_ensure", "rej_ensure",
                   "st_write", "rf_lock", "reo_write", "del_write"},
         l.pc = "resp_write" => status \in {"awaiting_fill", "rejected"},
         l.pc = "q_write" => status \in {"awaiting_fill", "rejected", "draft"},
         l.pc \in {"st_write", "rf_lock"} => l.g \in Stages /\ l.dec \in {"approved", "rejected"}
  PROVE Turns(w)
<1>1. PICK t : t = [l EXCEPT !.seen = status]
  OBVIOUS
<1>2. status \in Statuses /\ txn \in [Workers -> Txn]
  BY DEF IInv, TypeOK
<1>3. t \in Txn /\ t.pc = l.pc /\ t.seen = status /\ t.g = l.g /\ t.dec = l.dec
  BY <1>1, <1>2 DEF Txn
<1>4. txn' = [txn EXCEPT ![w] = t] /\ UNCHANGED <<mix, instance, form, assignment, stage, publication>>
  BY <1>1 DEF Begin, Hold
<1>5. txn'[w] = t
  BY <1>2, <1>4
<1>6. Checked(t) /\ Finds(t) /\ t.pc \notin Locking
  BY <1>3 DEF Checked, Finds, Locking
<1>7. QED
  BY <1>3, <1>4, <1>5, <1>6 DEF Turns

LEMMA ArriveTurns == ASSUME IInv, NEW w \in Workers, Arrive(w) PROVE Turns(w)
<1>0. mix.heads \subseteq Sections /\ mix.codes \subseteq Stages /\ txn \in [Workers -> Txn] /\ headings \subseteq Sections
  BY ChecklistAssumption DEF IInv, TypeOK
<1>1. CASE Release(w) \/ Submit(w) \/ Approve(w) \/ Reject(w) \/ Reopen(w) \/ DeleteRead(w)
  <2>1. PICK l \in {"rel_write", "sub_write", "app_ensure", "rej_ensure", "reo_write", "del_write"}, kind \in AllKinds :
           Begin(w, kind, At(l))
    BY <1>1 DEF Release, Submit, Approve, Reject, Reopen, DeleteRead, AllKinds
  <2>2. QED
    BY <2>1, Labelled, BeginTurns DEF PCs
<1>2. CASE PublishLock(w)
  <2>1. At("pub_write") \in Txn /\ At("pub_write").pc = "pub_write"
    BY Labelled DEF PCs
  <2>2. txn'[w] = At("pub_write") /\ txn' = [txn EXCEPT ![w] = txn'[w]]
    BY <1>0, <1>2 DEF PublishLock, Hold
  <2>3. QED
    BY <1>2, <2>1, <2>2 DEF PublishLock, Hold, Turns, Checked, Finds, Locking
<1>3. ASSUME NEW s \in mix.heads, ResponsesRead(w, s) PROVE Turns(w)
  <2>1. PICK a \in Txn : a = At("resp_write") /\ a.pc = "resp_write"
    BY Labelled DEF PCs
  <2>2. PICK t : t = [a EXCEPT !.set = {s}]
    OBVIOUS
  <2>3. t \in Txn /\ t.pc = "resp_write"
    BY <1>0, <2>1, <2>2 DEF Txn
  <2>4. QED
    BY <1>3, <2>1, <2>2, <2>3, BeginTurns DEF ResponsesRead
<1>4. ASSUME NEW S \in SUBSET mix.heads, QuestionsRead(w, S) PROVE Turns(w)
  <2>1. PICK a \in Txn : a = At("q_write") /\ a.pc = "q_write"
    BY Labelled DEF PCs
  <2>2. PICK t : t = [a EXCEPT !.set = S, !.heads = headings]
    OBVIOUS
  <2>3. t \in Txn /\ t.pc = "q_write"
    BY <1>0, <2>1, <2>2 DEF Txn
  <2>4. QED
    BY <1>4, <2>1, <2>2, <2>3, BeginTurns DEF QuestionsRead
<1>5. ASSUME NEW S \in SUBSET mix.heads, AssignRead(w, S) PROVE Turns(w)
  <2>1. PICK a \in Txn : a = At("as_write") /\ a.pc = "as_write"
    BY Labelled DEF PCs
  <2>2. PICK t : t = [a EXCEPT !.set = S]
    OBVIOUS
  <2>3. t \in Txn /\ t.pc = "as_write"
    BY <1>0, <2>1, <2>2 DEF Txn
  <2>4. QED
    BY <1>5, <2>1, <2>2, <2>3, BeginTurns DEF AssignRead
<1>6. ASSUME NEW g \in mix.codes, StageApprove(w, g) \/ StageReject(w, g) \/ FinalRead(w, g) PROVE Turns(w)
  <2>1. PICK kind \in AllKinds, l \in {"st_write", "rf_lock"}, dec \in {"approved", "rejected"} :
           Begin(w, kind, [At(l) EXCEPT !.g = g, !.dec = dec])
    BY <1>6 DEF StageApprove, StageReject, FinalRead, StageRead, AllKinds
  <2>2. PICK a \in Txn : a = At(l) /\ a.pc = l
    BY Labelled DEF PCs
  <2>3. PICK t : t = [a EXCEPT !.g = g, !.dec = dec]
    OBVIOUS
  <2>4. t \in Txn /\ t.pc = l /\ t.g = g /\ t.dec = dec
    BY <1>0, <2>2, <2>3 DEF Txn, Decisions
  <2>5. QED
    BY <1>0, <2>1, <2>2, <2>3, <2>4, BeginTurns
<1>7. QED
  BY <1>1, <1>2, <1>3, <1>4, <1>5, <1>6 DEF Arrive

LEMMA IdleTurns == ASSUME IInv, NEW w \in Workers, Rollback(w) PROVE Turns(w)
BY IdleTyped DEF IInv, TypeOK, Locking, Turns, Rollback, End, Hold

\* Requests that read, and go on with a record r.
LEMMA GoesOn ==
  ASSUME IInv, NEW w \in Workers, NEW r \in Txn, Hold(w, r), Checked(r), Finds(r), r.pc \notin Locking,
         UNCHANGED <<instance, form, assignment, stage, publication>>
  PROVE Turns(w)
BY DEF IInv, TypeOK, Turns, Hold

LEMMA ReadTurns ==
  ASSUME IInv, NEW w \in Workers,
         EnsureRead(w) \/ ApproveRead(w) \/ ApproveWrite(w) \/ RejectRead(w) \/ StageWrite(w) \/ FinalLock(w)
  PROVE Turns(w)
<1>0. txn[w] \in Txn /\ Checked(txn[w]) /\ Finds(txn[w])
  BY DEF IInv, TypeOK, Requested
<1>00. headings \subseteq Sections /\ row \in [Sections -> Decisions] /\ Rows \subseteq Sections
  BY DEF IInv, TypeOK, Rows
<1>1. CASE EnsureRead(w)
  <2>1. PICK p \in {"sub_rows", "app_rows", "rej_rows"} :
           Hold(w, [txn[w] EXCEPT !.pc = p, !.heads = headings, !.rows = row, !.set = Rows])
    BY <1>1 DEF EnsureRead
  <2>2. PICK r : r = [txn[w] EXCEPT !.pc = p, !.heads = headings, !.rows = row, !.set = Rows]
    OBVIOUS
  <2>3. r \in Txn /\ r.pc = p /\ r.set = Rows
    BY <1>0, <1>00, <2>2 DEF Txn, PCs
  <2>4. Checked(r) /\ Finds(r) /\ r.pc \notin Locking
    BY <2>3 DEF Checked, Finds, Rows, Locking
  <2>5. QED
    BY <1>1, <2>1, <2>2, <2>3, <2>4, GoesOn DEF EnsureRead
<1>2. CASE ApproveRead(w)
  <2>1. CASE Rows = {} /\ Hold(w, [txn[w] EXCEPT !.pc = "app_commit", !.out = "approved", !.rows = row])
    <3>1. PICK r : r = [txn[w] EXCEPT !.pc = "app_commit", !.out = "approved", !.rows = row]
      OBVIOUS
    <3>2. r \in Txn /\ r.pc = "app_commit" /\ r.set = txn[w].set /\ r.rows = row
      BY <1>0, <1>00, <3>1 DEF Txn, PCs, Decisions
    <3>3. r.set = {}
      BY <1>0, <1>2, <3>2 DEF Checked, ApproveRead
    <3>4. Checked(r) /\ Finds(r) /\ r.pc \notin Locking
      BY <2>1, <3>2, <3>3 DEF Checked, Finds, Rows, Locking
    <3>5. QED
      BY <1>2, <2>1, <3>1, <3>2, <3>4, GoesOn DEF ApproveRead
  <2>2. CASE \E T \in (SUBSET Rows) \ {{}} :
                Hold(w, [txn[w] EXCEPT !.pc = "app_write", !.set = {s \in T : row[s] # "approved"}])
    <3>1. PICK T \in SUBSET Rows :
             Hold(w, [txn[w] EXCEPT !.pc = "app_write", !.set = {s \in T : row[s] # "approved"}])
      BY <2>2
    <3>2. PICK r : r = [txn[w] EXCEPT !.pc = "app_write", !.set = {s \in T : row[s] # "approved"}]
      OBVIOUS
    <3>3. r \in Txn /\ r.pc = "app_write" /\ r.set \subseteq Rows
      BY <1>0, <1>00, <3>2 DEF Txn, PCs
    <3>4. Checked(r) /\ Finds(r) /\ r.pc \notin Locking
      BY <3>3 DEF Checked, Finds, Rows, Locking
    <3>5. QED
      BY <1>2, <3>1, <3>2, <3>3, <3>4, GoesOn DEF ApproveRead
  <2>3. QED
    BY <1>2, <2>1, <2>2 DEF ApproveRead
<1>3. CASE ApproveWrite(w)
  <2>1. PICK o \in {"approved", "none"} :
           /\ o = "approved" => \A s \in Rows \ txn[w].set : row[s] = "approved"
           /\ Hold(w, [txn[w] EXCEPT !.pc = "app_commit", !.rows = row, !.out = o])
    BY <1>3 DEF ApproveWrite
  <2>2. PICK r : r = [txn[w] EXCEPT !.pc = "app_commit", !.rows = row, !.out = o]
    OBVIOUS
  <2>3. r \in Txn /\ r.pc = "app_commit" /\ r.set = txn[w].set /\ r.rows = row /\ r.out = o
    BY <1>0, <1>00, <2>2 DEF Txn, PCs, Decisions
  <2>4. Checked(r) /\ Finds(r) /\ r.pc \notin Locking
    BY <1>0, <1>00, <1>3, <2>1, <2>3 DEF Checked, Finds, Rows, Locking, ApproveWrite
  <2>5. QED
    BY <1>3, <2>1, <2>2, <2>3, <2>4, GoesOn DEF ApproveWrite
<1>4. CASE RejectRead(w)
  <2>1. PICK T \in SUBSET Rows : Hold(w, [txn[w] EXCEPT !.pc = "rej_write", !.set = T])
    BY <1>4 DEF RejectRead
  <2>2. PICK r : r = [txn[w] EXCEPT !.pc = "rej_write", !.set = T]
    OBVIOUS
  <2>3. r \in Txn /\ r.pc = "rej_write" /\ r.set \subseteq Rows
    BY <1>0, <1>00, <2>2 DEF Txn, PCs
  <2>4. Checked(r) /\ Finds(r) /\ r.pc \notin Locking
    BY <2>3 DEF Checked, Finds, Rows, Locking
  <2>5. QED
    BY <1>4, <2>1, <2>2, <2>3, <2>4, GoesOn DEF RejectRead
<1>5. CASE StageWrite(w)
  <2>1. PICK o \in {"none", "approved", "rejected"} : Hold(w, [txn[w] EXCEPT !.pc = "st_commit", !.out = o])
    BY <1>5 DEF StageWrite, Cascade
  <2>2. PICK r : r = [txn[w] EXCEPT !.pc = "st_commit", !.out = o]
    OBVIOUS
  <2>3. r \in Txn /\ r.pc = "st_commit" /\ r.g = txn[w].g /\ r.dec = txn[w].dec /\ r.out = o
    BY <1>0, <2>1, <2>2 DEF Txn, PCs, Decisions
  <2>4. Checked(r) /\ Finds(r) /\ r.pc \notin Locking
    BY <1>0, <1>5, <2>3 DEF Checked, Finds, Locking, StageWrite
  <2>5. QED
    BY <1>5, <2>1, <2>2, <2>3, <2>4, GoesOn DEF StageWrite
<1>6. CASE FinalLock(w)
  <2>1. CASE event = "published"
    BY <1>6, <2>1, IdleTurns DEF FinalLock, Rollback
  <2>2. CASE event # "published"
    <3>1. PICK r : r = [txn[w] EXCEPT !.pc = "rf_write"]
      OBVIOUS
    <3>2. r \in Txn /\ r.pc = "rf_write" /\ r.g = txn[w].g /\ r.dec = txn[w].dec
      BY <1>0, <3>1 DEF Txn, PCs
    <3>3. Checked(r) /\ Finds(r)
      BY <1>0, <1>6, <3>2 DEF Checked, Finds, FinalLock
    <3>4. txn' = [txn EXCEPT ![w] = r] /\ txn'[w] = r
      BY <1>6, <2>2, <3>1 DEF FinalLock, Goto, Hold, IInv, TypeOK
    <3>5. QED
      BY <1>6, <2>2, <3>2, <3>3, <3>4 DEF FinalLock, Goto, Hold, Turns
  <2>3. QED
    BY <2>1, <2>2
<1>7. QED
  BY <1>1, <1>2, <1>3, <1>4, <1>5, <1>6

-----------------------------------------------------------------------------
(* Statements that write, and end or go on.                                *)

\* Nothing but w's record changes among the requests, and its new one holds no
\* row and no lock.
Frees(w) ==
    /\ txn' = [txn EXCEPT ![w] = txn'[w]]
    /\ txn'[w] \in Txn /\ Checked(txn'[w])
    /\ txn'[w].pc \in {"idle", "rel_stages", "sub_read", "reo_stages", "app_read", "rej_read"}
    /\ UNCHANGED mix

LEMMA EndFrees == ASSUME IInv, NEW w \in Workers, End(w) PROVE Frees(w)
BY IdleTyped DEF IInv, TypeOK, End, Hold, Frees

LEMMA GotoFrees ==
  ASSUME IInv, NEW w \in Workers, NEW p \in {"rel_stages", "sub_read", "reo_stages"}, Goto(w, p)
  PROVE Frees(w)
<1>1. txn[w] \in Txn
  BY DEF IInv, TypeOK
<1>2. PICK r : r = [txn[w] EXCEPT !.pc = p]
  OBVIOUS
<1>3. r \in Txn /\ r.pc = p /\ Checked(r)
  BY <1>1, <1>2 DEF Txn, PCs, Checked
<1>4. txn' = [txn EXCEPT ![w] = r] /\ txn'[w] = r /\ mix' = mix
  BY <1>2 DEF Goto, Hold, IInv, TypeOK
<1>5. QED
  BY <1>3, <1>4 DEF Frees

\* Sections keep their rows: what the requests hold is still there.
LEMMA FreesKeep ==
  ASSUME IInv, NEW w \in Workers, Frees(w), \A s \in Sections : row[s] # "none" => row'[s] # "none"
  PROVE Requested' /\ txn' \in [Workers -> Txn] /\ mix' \in Mixes
<1>1. txn' \in [Workers -> Txn] /\ mix' \in Mixes
  BY DEF IInv, TypeOK, Frees
<1>2. ASSUME NEW v \in Workers PROVE Checked(txn'[v]) /\ Finds(txn[v])'
  <2>1. CASE v = w
    BY <2>1 DEF Frees, Finds
  <2>2. CASE v # w
    <3>1. txn'[v] = txn[v] /\ txn[v] \in Txn /\ txn[v].set \subseteq Sections
      BY <2>2 DEF Frees, IInv, TypeOK, Txn
    <3>2. QED
      BY <3>1 DEF IInv, Requested, Finds
  <2>3. QED
    BY <2>1, <2>2
<1>3. QED
  BY <1>1, <1>2 DEF Requested, Checked

\* The event changes only in the hands of the one who holds it, or of nobody.
LEMMA FreesLock ==
  ASSUME IInv, NEW w \in Workers, Frees(w), event' = event \/ EventFree \/ txn[w].pc \in Locking
  PROVE EventLocked'
<1>1. \A v \in Workers : txn'[v] = IF v = w THEN txn'[w] ELSE txn[v]
  BY DEF Frees, IInv, TypeOK
<1>2. \A v \in Workers : txn'[v].pc \in Locking => v # w /\ txn[v].pc \in Locking /\ txn'[v] = txn[v]
  BY <1>1 DEF Frees, Locking
<1>3. \A v \in Workers : txn'[v].pc \in Locking => event' = event
  BY <1>2 DEF IInv, EventLocked, EventFree, Locking
<1>4. QED
  BY <1>2, <1>3 DEF IInv, EventLocked, Locking

\* The statements after which the requests hold what they held.
Writes(w) ==
    \/ ReleaseWrite(w) \/ ReleaseStages(w) \/ ResponsesWrite(w) \/ SubmitWrite(w)
    \/ ApproveCommit(w) \/ RejectWrite(w) \/ StageCommit(w) \/ FinalWrite(w)
    \/ ReopenWrite(w) \/ ReopenStages(w) \/ DeleteWrite(w) \/ PublishWrite(w)

LEMMA WritesFree == ASSUME IInv, NEW w \in Workers, Writes(w) PROVE Frees(w)
<1>1. CASE ReleaseWrite(w) \/ SubmitWrite(w) \/ ReopenWrite(w)
  BY <1>1, EndFrees, GotoFrees DEF ReleaseWrite, SubmitWrite, ReopenWrite
<1>2. CASE ReleaseStages(w)
  <2>1. CASE UNCHANGED <<mix, txn>>
    BY <1>2, <2>1 DEF ReleaseStages, Frees, IInv, TypeOK, Requested
  <2>2. QED
    BY <1>2, <2>1, EndFrees DEF ReleaseStages
<1>3. CASE \/ ResponsesWrite(w) \/ ApproveCommit(w) \/ RejectWrite(w) \/ StageCommit(w) \/ FinalWrite(w)
           \/ ReopenStages(w) \/ DeleteWrite(w) \/ PublishWrite(w)
  BY <1>3, EndFrees
     DEF ResponsesWrite, ApproveCommit, RejectWrite, StageCommit, FinalWrite, ReopenStages, DeleteWrite, PublishWrite
<1>4. QED
  BY <1>1, <1>2, <1>3 DEF Writes

\* They delete no row, and publish or cancel the event only when they may.
LEMMA WritesKeep ==
  ASSUME IInv, NEW w \in Workers, Writes(w)
  PROVE /\ row' \in [Sections -> Decisions] /\ \A s \in Sections : row[s] # "none" <=> row'[s] # "none"
        /\ headings' = headings /\ owned' = owned
        /\ event' = event \/ EventFree \/ txn[w].pc \in Locking
<1>1. row \in [Sections -> Decisions] /\ Checked(txn[w]) /\ Finds(txn[w])
  BY DEF IInv, TypeOK, Requested
<1>2. CASE ApproveCommit(w) \/ RejectWrite(w)
  BY <1>1, <1>2 DEF ApproveCommit, RejectWrite, Finds, Decisions, form, publication, Becomes
<1>3. CASE StageCommit(w) \/ FinalWrite(w) \/ PublishWrite(w)
  BY <1>1, <1>3 DEF StageCommit, FinalWrite, PublishWrite, Becomes, form, assignment, Locking
<1>4. CASE \/ ReleaseWrite(w) \/ ReleaseStages(w) \/ ResponsesWrite(w) \/ SubmitWrite(w)
           \/ ReopenWrite(w) \/ ReopenStages(w) \/ DeleteWrite(w)
  BY <1>1, <1>4 DEF ReleaseWrite, ReleaseStages, ResponsesWrite, SubmitWrite, ReopenWrite, ReopenStages, DeleteWrite,
     form, assignment, publication
<1>5. QED
  BY <1>2, <1>3, <1>4 DEF Writes

LEMMA WriteStep == ASSUME IInv, NEW w \in Workers, Writes(w) PROVE IInv'
<1>0. Frees(w)
  BY WritesFree
<1>1. txn' \in [Workers -> Txn] /\ mix' \in Mixes /\ Requested'
  BY <1>0, WritesKeep, FreesKeep
<1>2. EventLocked'
  BY <1>0, WritesKeep, FreesLock
<1>3. txn[w] \in Txn /\ Checked(txn[w]) /\ mix.codes \subseteq Stages
  BY ChecklistAssumption DEF IInv, TypeOK, Requested
<1>4. status' \in Statuses /\ deleted' \in BOOLEAN /\ event' \in {"draft", "published", "cancelled"}
  <2>1. CASE ReleaseWrite(w) \/ ReleaseStages(w) \/ SubmitWrite(w) \/ ReopenWrite(w)
    BY <2>1 DEF IInv, TypeOK, Statuses, ReleaseWrite, ReleaseStages, SubmitWrite, ReopenWrite, publication
  <2>2. CASE ResponsesWrite(w) \/ ReopenStages(w) \/ DeleteWrite(w) \/ PublishWrite(w)
    BY <2>2 DEF IInv, TypeOK, Statuses, ResponsesWrite, ReopenStages, DeleteWrite, PublishWrite, instance, publication
  <2>3. CASE ApproveCommit(w) \/ RejectWrite(w) \/ FinalWrite(w)
    BY <2>3 DEF IInv, TypeOK, Statuses, ApproveCommit, RejectWrite, FinalWrite, Becomes, instance, publication
  <2>4. CASE StageCommit(w)
    BY <1>3, <2>4 DEF IInv, TypeOK, Statuses, Checked, StageCommit, Becomes, publication
  <2>5. QED
    BY <2>1, <2>2, <2>3, <2>4 DEF Writes
<1>5. filled' \subseteq headings /\ overrides' \in Nat
  <2>1. CASE ResponsesWrite(w)
    BY <1>3, <2>1 DEF IInv, TypeOK, Txn, ResponsesWrite, publication
  <2>2. CASE PublishWrite(w)
    BY <2>2 DEF IInv, TypeOK, PublishWrite, form, publication
  <2>3. CASE ~ResponsesWrite(w) /\ ~PublishWrite(w)
    BY <2>3 DEF IInv, TypeOK, Writes, ReleaseWrite, ReleaseStages, SubmitWrite, ApproveCommit, RejectWrite, StageCommit,
         FinalWrite, ReopenWrite, ReopenStages, DeleteWrite, form, publication
  <2>4. QED
    BY <2>1, <2>2, <2>3
<1>6. stage' \in [Stages -> Decisions]
  <2>1. CASE ReleaseStages(w)
    BY <1>3, <2>1 DEF IInv, TypeOK, Decisions, ReleaseStages
  <2>2. CASE StageCommit(w) \/ FinalWrite(w)
    BY <1>3, <2>2 DEF IInv, TypeOK, Decisions, Txn, StageCommit, FinalWrite
  <2>3. CASE ReopenStages(w)
    BY <2>3 DEF IInv, TypeOK, Decisions, ReopenStages
  <2>4. CASE ~ReleaseStages(w) /\ ~StageCommit(w) /\ ~FinalWrite(w) /\ ~ReopenStages(w)
    BY <2>4 DEF IInv, TypeOK, Writes, ReleaseWrite, ResponsesWrite, SubmitWrite, ApproveCommit, RejectWrite,
         ReopenWrite, DeleteWrite, PublishWrite
  <2>5. QED
    BY <2>1, <2>2, <2>3, <2>4
<1>7. TypeOK'
  BY <1>1, <1>4, <1>5, <1>6, WritesKeep DEF IInv, TypeOK
<1>8. QED
  BY <1>1, <1>2, <1>7 DEF IInv

\* Deletion of the rows of S: no request in a transaction has one of them, and
\* the others lose them.
LEMMA ForgetStep ==
  ASSUME IInv, NEW w \in Workers, NEW S \in SUBSET Sections, RowsFree(S), EndForget(w, S),
         \A s \in Sections \ S : row[s] # "none" => row'[s] # "none",
         UNCHANGED event
  PROVE txn' \in [Workers -> Txn] /\ mix' \in Mixes /\ Requested' /\ EventLocked'
<1>0. ASSUME NEW v \in Workers, v # w
      PROVE /\ txn'[v] \in Txn /\ txn'[v].pc = txn[v].pc /\ txn'[v].seen = txn[v].seen /\ txn'[v].g = txn[v].g
            /\ txn'[v].dec = txn[v].dec /\ txn'[v].out = txn[v].out /\ txn'[v].rows = txn[v].rows
            /\ txn'[v].set = IF txn[v].pc \in {"sub_rows", "app_rows", "rej_rows", "app_write", "rej_write"}
                             THEN txn[v].set \ S ELSE txn[v].set
  <2>1. PICK t \in Txn : t = txn[v]
    BY DEF IInv, TypeOK
  <2>2. txn'[v] = IF t.pc \in {"sub_rows", "app_rows", "rej_rows", "app_write", "rej_write"}
                  THEN [t EXCEPT !.set = t.set \ S] ELSE t
    BY <1>0, <2>1 DEF EndForget
  <2>3. QED
    BY <2>1, <2>2 DEF Txn
<1>1. txn'[w] = Idle
  BY DEF EndForget
<1>2. txn' \in [Workers -> Txn] /\ mix' \in Mixes
  <2>1. \A v \in Workers : txn'[v] \in Txn
    BY <1>0, <1>1, IdleTyped
  <2>2. QED
    BY <2>1 DEF EndForget, IInv
<1>3. ASSUME NEW v \in Workers PROVE Checked(txn'[v]) /\ Finds(txn[v])'
  <2>1. CASE v = w
    BY <1>1, <2>1, IdleTyped DEF Finds, Idle
  <2>2. CASE v # w
    <3>1. Checked(txn[v]) /\ Finds(txn[v]) /\ txn[v].set \subseteq Sections
      BY DEF IInv, Requested, TypeOK, Txn
    <3>2. Checked(txn'[v])
      BY <1>0, <2>2, <3>1 DEF Checked
    <3>3. txn[v].pc = "app_commit" => txn[v].set \cap S = {}
      BY DEF RowsFree
    <3>4. Finds(txn[v])'
      BY <1>0, <2>2, <3>1, <3>3 DEF Finds
    <3>5. QED
      BY <3>2, <3>4
  <2>3. QED
    BY <2>1, <2>2
<1>4. EventLocked'
  <2>1. \A v \in Workers : txn'[v].pc \in Locking => txn[v].pc = txn'[v].pc
    BY <1>0, <1>1, IdleTyped DEF Locking
  <2>2. QED
    BY <2>1 DEF IInv, EventLocked, Locking
<1>5. QED
  BY <1>2, <1>3, <1>4 DEF Requested, Checked

LEMMA RowsStep ==
  ASSUME IInv, NEW w \in Workers, QuestionsWrite(w) \/ AssignWrite(w) \/ EnsureWrite(w)
  PROVE IInv'
<1>0. txn[w] \in Txn /\ Checked(txn[w]) /\ Finds(txn[w])
  BY DEF IInv, TypeOK, Requested
<1>1. CASE QuestionsWrite(w)
  <2>1. Edited(w) \subseteq Sections
    BY <1>0 DEF Edited, Txn, IInv, TypeOK
  <2>2. txn' \in [Workers -> Txn] /\ mix' \in Mixes /\ Requested' /\ EventLocked'
    <3>1. \A s \in Edited(w) : row'[s] = row[s]
      BY <1>1, <2>1 DEF QuestionsWrite
    <3>2. QED
      BY <1>1, <2>1, <3>1, ForgetStep DEF QuestionsWrite, publication
  <2>3. TypeOK'
    BY <1>1, <2>1, <2>2 DEF IInv, TypeOK, QuestionsWrite, Decisions, instance, publication
  <2>4. QED
    BY <2>2, <2>3 DEF IInv
<1>2. CASE AssignWrite(w)
  <2>1. CASE txn[w].set \subseteq headings
    <3>1. txn' \in [Workers -> Txn] /\ mix' \in Mixes /\ Requested' /\ EventLocked'
      BY <1>2, <2>1, ForgetStep DEF AssignWrite, publication
    <3>2. TypeOK'
      BY <1>0, <1>2, <2>1, <3>1 DEF IInv, TypeOK, AssignWrite, Decisions, instance, form, publication
    <3>3. QED
      BY <3>1, <3>2 DEF IInv
  <2>2. CASE ~(txn[w].set \subseteq headings)
    BY <1>2, <2>2, IdleTurns, TurnStep DEF AssignWrite
  <2>3. QED
    BY <2>1, <2>2
<1>3. CASE EnsureWrite(w)
  <2> DEFINE missing == {s \in txn[w].heads : txn[w].rows[s] = "none"}
             reset == IF txn[w].pc = "sub_rows" THEN txn[w].set ELSE {}
  <2>1. CASE ~(missing \subseteq headings \ Rows)
    BY <1>3, <2>1, IdleTurns, TurnStep DEF EnsureWrite
  <2>2. CASE missing \subseteq headings \ Rows
    <3>1. /\ row' = [s \in Sections |-> IF s \in reset \cup missing THEN "pending" ELSE row[s]]
          /\ UNCHANGED <<instance, form, owned, stage, publication>>
      BY <1>3, <2>2 DEF EnsureWrite
    <3>2. Frees(w)
      <4>1. CASE txn[w].pc = "sub_rows"
        BY <1>3, <2>2, <4>1, EndFrees DEF EnsureWrite, End
      <4>2. CASE txn[w].pc # "sub_rows"
        <5>0. PICK rows : rows = [s \in Sections |-> IF s \in missing THEN "pending"
                                                   ELSE txn[w].rows[s]]
          OBVIOUS
        <5>1. PICK p \in {"app_read", "rej_read"} :
                 Hold(w, [txn[w] EXCEPT !.pc = p, !.set = {}, !.rows = rows])
          BY <1>3, <2>2, <4>2, <5>0 DEF EnsureWrite
        <5>2. PICK r : r = [txn[w] EXCEPT !.pc = p, !.set = {}, !.rows = rows]
          OBVIOUS
        <5>3. rows \in [Sections -> Decisions]
          BY <1>0, <5>0 DEF Txn, Decisions
        <5>4. r \in Txn /\ r.pc = p /\ r.set = {}
          BY <1>0, <5>2, <5>3 DEF Txn, PCs
        <5>5. Checked(r)
          BY <5>4 DEF Checked
        <5>6. QED
          BY <5>1, <5>2, <5>4, <5>5 DEF Hold, Frees, IInv, TypeOK
      <4>3. QED
        BY <4>1, <4>2
    <3>3. missing \subseteq headings /\ \A s \in reset : row[s] # "none"
      BY <1>0, <2>2 DEF Finds
    <3>4. row' \in [Sections -> Decisions] /\ \A s \in Sections : row[s] # "none" => row'[s] # "none"
      BY <3>1 DEF IInv, TypeOK, Decisions
    <3>5. txn' \in [Workers -> Txn] /\ mix' \in Mixes /\ Requested' /\ EventLocked'
      BY <3>1, <3>2, <3>4, FreesKeep, FreesLock DEF publication
    <3>6. \A s \in Sections : row'[s] # "none" => s \in headings
      BY <3>1, <3>3 DEF IInv, TypeOK
    <3>7. \A s \in owned : row'[s] # "none"
      BY <3>4 DEF IInv, TypeOK
    <3>8. TypeOK'
      BY <3>1, <3>4, <3>5, <3>6, <3>7 DEF IInv, TypeOK, instance, form, publication
    <3>9. QED
      BY <3>5, <3>8 DEF IInv
  <2>3. QED
    BY <2>1, <2>2
<1>4. QED
  BY <1>1, <1>2, <1>3

LEMMA NextIInv == IInv /\ [Next]_vars => IInv'
<1> SUFFICES ASSUME IInv, [Next]_vars PROVE IInv'
  OBVIOUS
<1>1. CASE UNCHANGED vars
  BY <1>1 DEF vars, form, assignment, publication, instance, IInv, TypeOK, Requested, Checked, Finds, EventLocked
<1>2. CASE CancelEvent
  BY <1>2 DEF CancelEvent, form, assignment, publication, instance, IInv, TypeOK, Requested, Checked, Finds,
     EventLocked, EventFree, Locking
<1>3. ASSUME NEW w \in Workers, Arrive(w) \/ Statement(w) \/ Abort(w) PROVE IInv'
  BY <1>3, ArriveTurns, IdleTurns, ReadTurns, TurnStep, WriteStep, RowsStep DEF Statement, Abort, Writes
<1>4. QED
  BY <1>1, <1>2, <1>3 DEF Next

LEMMA Invariance == Spec => []IInv
BY InitIInv, NextIInv, PTL DEF Spec

\* Status, answers, section rows, stages and the records of all requests keep
\* their types, and only sections of the form have rows.
THEOREM TypeCorrect == Spec => []TypeOK
<1>1. IInv => TypeOK
  BY DEF IInv
<1>2. QED
  BY <1>1, Invariance, PTL

-----------------------------------------------------------------------------
(* The answers under review.                                               *)

LEMMA EditStep ==
  IInv /\ [Next]_vars => ((NoStaleWrite /\ status \in {"awaiting_review", "approved"}) => form' = form)
<1> SUFFICES ASSUME IInv, [Next]_vars, NoStaleWrite, status \in {"awaiting_review", "approved"} PROVE form' = form
  OBVIOUS
<1>1. ASSUME NEW w \in Workers, Arrive(w) \/ Statement(w) \/ Abort(w) PROVE form' = form
  <2>1. txn[w] \in Txn /\ Checked(txn[w])
    BY DEF IInv, TypeOK, Requested
  <2>2. ~ResponsesWrite(w)
    <3>1. SUFFICES ASSUME ResponsesWrite(w) PROVE FALSE
      OBVIOUS
    <3>2. txn'[w] = Idle /\ txn[w].pc = "resp_write"
      BY <3>1 DEF ResponsesWrite, End, Hold, IInv, TypeOK
    <3>3. ~Stale(w)
      BY <3>2, IdleTyped DEF NoStaleWrite
    <3>4. QED
      BY <2>1, <3>2, <3>3 DEF Stale, Checked
  <2>3. ~QuestionsWrite(w)
    <3>1. SUFFICES ASSUME QuestionsWrite(w) PROVE FALSE
      OBVIOUS
    <3>2. txn'[w] = Idle /\ txn[w].pc = "q_write"
      BY <3>1 DEF QuestionsWrite, EndForget
    <3>3. ~Stale(w)
      BY <3>2, IdleTyped DEF NoStaleWrite
    <3>4. QED
      BY <2>1, <3>2, <3>3 DEF Stale, Checked
  <2>4. CASE Arrive(w) \/ Abort(w)
    BY <2>4, ArriveTurns, IdleTurns DEF Turns, Abort
  <2>5. CASE Statement(w)
    BY <2>2, <2>3, <2>5, ReadTurns, IdleTurns
       DEF Statement, Turns, ReleaseWrite, ReleaseStages, AssignWrite, SubmitWrite, EnsureWrite, ApproveCommit, RejectWrite,
           StageCommit, FinalWrite, ReopenWrite, ReopenStages, DeleteWrite, PublishWrite, form
  <2>6. QED
    BY <1>1, <2>4, <2>5
<1>2. QED
  BY <1>1 DEF Next, CancelEvent, vars, form

\* For any sections, stages and requests: from the submit to the decision
\* sections and answers change only in a request let in before the submit.
THEOREM AnswersStay == Spec => OnlyStaleWritesEdit
BY Invariance, EditStep, PTL DEF Spec, OnlyStaleWritesEdit

-----------------------------------------------------------------------------
(* The event's end.                                                        *)

LEMMA EventStep ==
  IInv /\ [Next]_vars =>
     /\ event = "cancelled" => event' = "cancelled"
     /\ (event = "published" /\ txn' # txn) => event' = "published"
     /\ overrides' # overrides => event = "draft" /\ event' = "published"
<1> SUFFICES ASSUME IInv, [Next]_vars
             PROVE /\ event = "cancelled" => event' = "cancelled"
                   /\ (event = "published" /\ txn' # txn) => event' = "published"
                   /\ overrides' # overrides => event = "draft" /\ event' = "published"
  OBVIOUS
<1>1. ASSUME NEW w \in Workers, Arrive(w) \/ Statement(w) \/ Abort(w)
      PROVE UNCHANGED publication \/ PublishWrite(w) \/ FinalWrite(w) \/ ApproveCommit(w) \/ StageCommit(w)
  <2>1. CASE Arrive(w) \/ Abort(w)
    BY <2>1, ArriveTurns, IdleTurns DEF Turns, Abort
  <2>2. CASE Statement(w)
    BY <2>2, ReadTurns, IdleTurns
       DEF Statement, Turns, ReleaseWrite, ReleaseStages, ResponsesWrite, QuestionsWrite, AssignWrite, SubmitWrite,
           EnsureWrite, RejectWrite, ReopenWrite, ReopenStages, DeleteWrite
  <2>3. QED
    BY <1>1, <2>1, <2>2
<1>2. ASSUME NEW w \in Workers, PublishWrite(w)
      PROVE event = "draft" /\ event' \in {"draft", "published"} /\ (overrides' # overrides => event' = "published")
  BY <1>2 DEF PublishWrite, publication, IInv, EventLocked
<1>3. ASSUME NEW w \in Workers, FinalWrite(w)
      PROVE event # "published" /\ event' = "cancelled" /\ overrides' = overrides
  BY <1>3 DEF FinalWrite, IInv, EventLocked
<1>4. ASSUME NEW w \in Workers, ApproveCommit(w) \/ StageCommit(w)
      PROVE (event' = event \/ (event # "cancelled" /\ event' = "published")) /\ overrides' = overrides
  BY <1>4 DEF ApproveCommit, StageCommit, Becomes
<1>5. CASE CancelEvent
  BY <1>5 DEF CancelEvent
<1>6. CASE UNCHANGED vars
  BY <1>6 DEF vars, publication
<1>7. QED
  BY <1>1, <1>2, <1>3, <1>4, <1>5, <1>6 DEF Next, publication

\* However reject-final, the cascade of the stages and publish meet: a cancelled
\* event stays cancelled, no checklist decision takes a published one back, and
\* an override is recorded only by the request that publishes.
THEOREM EventEnds == Spec => EventKeepsItsEnd
BY Invariance, EventStep, PTL DEF Spec, EventKeepsItsEnd

-----------------------------------------------------------------------------
(* The decisions.                                                          *)

LEMMA StagesStep ==
  ASSUME IInv, [Next]_vars, NoStaleWrite, NEW g \in Stages, stage[g] \in {"approved", "rejected"}
  PROVE stage'[g] \in {stage[g], "pending"}
<1>1. ASSUME NEW w \in Workers, StageCommit(w) \/ FinalWrite(w) PROVE stage'[g] = stage[g]
  <2>1. txn'[w] = Idle /\ txn[w].pc \in {"st_commit", "rf_write"}
    BY <1>1 DEF StageCommit, FinalWrite, End, Hold, IInv, TypeOK
  <2>2. ~Stale(w)
    BY <2>1, IdleTyped DEF NoStaleWrite
  <2>3. stage[txn[w].g] = "pending"
    BY <2>1, <2>2 DEF Stale
  <2>4. QED
    BY <1>1, <2>3 DEF StageCommit, FinalWrite, IInv, TypeOK
<1>2. ASSUME NEW w \in Workers, ReleaseStages(w) \/ ReopenStages(w) PROVE stage'[g] \in {stage[g], "pending"}
  BY <1>2 DEF ReleaseStages, ReopenStages, IInv, TypeOK
<1>3. ASSUME NEW w \in Workers, Arrive(w) \/ Statement(w) \/ Abort(w),
             ~StageCommit(w), ~FinalWrite(w), ~ReleaseStages(w), ~ReopenStages(w)
      PROVE stage' = stage
  <2>1. CASE Arrive(w) \/ Abort(w)
    BY <2>1, ArriveTurns, IdleTurns DEF Turns, Abort
  <2>2. CASE Statement(w)
    BY <1>3, <2>2, ReadTurns, IdleTurns
       DEF Statement, Turns, ReleaseWrite, ResponsesWrite, QuestionsWrite, AssignWrite, SubmitWrite,
           EnsureWrite, ApproveCommit, RejectWrite, ReopenWrite, DeleteWrite, PublishWrite
  <2>3. QED
    BY <1>3, <2>1, <2>2
<1>4. QED
  BY <1>1, <1>2, <1>3 DEF Next, CancelEvent, vars

LEMMA SignedStep ==
  ASSUME IInv, [Next]_vars, NoStaleWrite, status # "approved", status' = "approved"
  PROVE Signed'
<1>1. PICK w \in Workers : ApproveCommit(w) \/ StageCommit(w)
  <2>1. ASSUME NEW w \in Workers, Arrive(w) \/ Statement(w) \/ Abort(w), ~ApproveCommit(w), ~StageCommit(w)
        PROVE status' = status \/ status' # "approved"
    <3>1. CASE Arrive(w) \/ Abort(w)
      BY <3>1, ArriveTurns, IdleTurns DEF Turns, Abort, instance
    <3>2. CASE Statement(w)
      BY <2>1, <3>2, ReadTurns, IdleTurns
         DEF Statement, Turns, ReleaseWrite, ReleaseStages, ResponsesWrite, QuestionsWrite, AssignWrite, SubmitWrite,
             EnsureWrite, RejectWrite, FinalWrite, ReopenWrite, ReopenStages, DeleteWrite, PublishWrite, instance
    <3>3. QED
      BY <2>1, <3>1, <3>2
  <2>2. QED
    BY <2>1 DEF Next, CancelEvent, vars, instance
<1>2. txn'[w] = Idle /\ txn[w].pc \in {"app_commit", "st_commit"}
  BY <1>1 DEF ApproveCommit, StageCommit, End, Hold, IInv, TypeOK
<1>3. ~Stale(w)
  BY <1>2, IdleTyped DEF NoStaleWrite
<1>4. txn[w] \in Txn /\ Checked(txn[w])
  BY DEF IInv, TypeOK, Requested
<1>5. CASE ApproveCommit(w)
  <2>1. txn[w].out = "approved" /\ stage' = stage /\ headings' = headings
    BY <1>5 DEF ApproveCommit, form
  <2>2. row = txn[w].rows /\ Rows = headings /\ \A g \in Stages : stage[g] = "none"
    BY <1>3, <1>5 DEF Stale, ApproveCommit
  <2>3. \A s \in headings : s \in Sections /\ row[s] # "none"
    BY <2>2 DEF Rows
  <2>4. \A s \in headings : row[s] = "approved" \/ s \in txn[w].set
    BY <1>4, <1>5, <2>1, <2>2, <2>3 DEF Checked, ApproveCommit
  <2>5. \A s \in headings : row'[s] = "approved"
    BY <1>5, <2>3, <2>4 DEF ApproveCommit
  <2>6. QED
    BY <2>1, <2>2, <2>5 DEF Signed
<1>6. CASE StageCommit(w)
  <2>1. txn[w].out = "approved"
    BY <1>6 DEF StageCommit, Becomes
  <2>2. stage' = [stage EXCEPT ![txn[w].g] = txn[w].dec] /\ Cascade(stage') = "approved"
    BY <1>3, <1>6, <2>1 DEF Stale, StageCommit
  <2>3. \A g \in Stages : stage'[g] # "rejected" /\ stage'[g] # "pending"
    BY <2>2 DEF Cascade
  <2>4. txn[w].g \in Stages /\ stage'[txn[w].g] # "none"
    BY <1>4, <1>6, <2>2 DEF Checked, StageCommit, IInv, TypeOK
  <2>5. \A g \in Stages : stage'[g] \in Decisions
    BY NextIInv DEF IInv, TypeOK
  <2>6. \A g \in Stages : stage'[g] \in {"approved", "none"}
    BY <2>3, <2>5 DEF Decisions
  <2>7. QED
    BY <2>4, <2>6 DEF Signed
<1>7. QED
  BY <1>1, <1>5, <1>6

\* For any sections, stages and requests: a checklist is approved without an
\* approval it needs, or a stage decided one way decided the other way, only
\* by a write that follows from a read another request has made stale.
THEOREM ApprovalsSigned == Spec => OnlyStaleWritesMisdecide
<1>1. IInv /\ [Next]_vars =>
         (NoStaleWrite =>
            /\ (status # "approved" /\ status' = "approved") => Signed'
            /\ \A g \in Stages :
                  stage[g] \in {"approved", "rejected"} => stage'[g] \in {stage[g], "pending"})
  BY StagesStep, SignedStep
<1>2. QED
  BY <1>1, Invariance, PTL DEF Spec, OnlyStaleWritesMisdecide
=============================================================================
