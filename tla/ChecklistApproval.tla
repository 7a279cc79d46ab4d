-------------------------- MODULE ChecklistApproval --------------------------
(***************************************************************************)
(* One checklist of an event, from the draft to the approval that          *)
(* publishes the event.  Fillers save answers and submit; reviewers decide *)
(* sections (per-section approval) or stages (multi-stage approval);       *)
(* administrators release, edit, reassign, reopen and delete; they may     *)
(* also publish the event over the checklist's head.                       *)
(*                                                                         *)
(* Every handler checks the checklist's status outside the statement or    *)
(* the transaction that writes.  txn[w] is the request worker w serves,    *)
(* with what it has read; one action is one statement, or one transaction  *)
(* of which nobody sees the middle.  Two triggers belong to the writes: a  *)
(* stage's decision cascades to the checklist, and a checklist that        *)
(* becomes approved publishes its event.                                   *)
(***************************************************************************)
EXTENDS Naturals

CONSTANTS
    Sections,   \* section headings a checklist can have
    Stages,     \* codes a template's approver_role_codes can have
    Workers,    \* requests in flight
    Nothing,    \* no stage
    Mixes       \* the checklists explored: the handlers that meet on one, and
                \* the headings and the template's stage codes it has

AllKinds == {"release", "responses", "questions", "assign", "submit", "approve",
             "reject", "stage", "final", "reopen", "delete", "publish", "cancel",
             "crash"}

ASSUME ChecklistAssumption ==
    /\ Nothing \notin Stages
    /\ Mixes \subseteq [handlers : SUBSET AllKinds, heads : SUBSET Sections,
                        codes : SUBSET Stages]

Statuses == {"draft", "awaiting_fill", "awaiting_review", "approved", "rejected"}

\* The status of a section's or a stage's row, if the row exists.
Decisions == {"none", "pending", "approved", "rejected"}

PCs == {"idle", "rel_write", "rel_stages", "resp_write", "q_write", "as_write",
        "sub_write", "sub_read", "sub_rows", "app_ensure", "app_rows", "app_read", "app_write",
        "app_commit", "rej_ensure", "rej_rows", "rej_read", "rej_write", "st_write", "st_commit",
        "rf_lock", "rf_write", "reo_write", "reo_stages", "del_write", "pub_write"}

Txn == [pc : PCs,
        seen : Statuses,                \* the checklist's status as read
        set : SUBSET Sections,          \* the sections, or rows, it will write
        heads : SUBSET Sections,        \* the headings as read
        rows : [Sections -> Decisions], \* the section rows as read
        g : Stages \cup {Nothing},      \* the stage it decides
        dec : Decisions,                \* its decision
        out : Decisions]                \* what the checklist becomes, or "none"

Idle == [pc |-> "idle", seen |-> "draft", set |-> {}, heads |-> {},
         rows |-> [s \in Sections |-> "none"], g |-> Nothing, dec |-> "none",
         out |-> "none"]

VARIABLES
    mix,        \* which of the Mixes this behaviour explores
    status,     \* checklist_instances.status
    deleted,    \* checklist_instances.deleted_at is set
    headings,   \* section headings among the checklist's questions
    filled,     \* those whose required items are all answered
    row,        \* approval_status of each section's row
    owned,      \* sections with a filler of their own (assignee_id)
    stage,      \* status of each stage row
    event,      \* events.status, "draft" for all that come before publication
    overrides,  \* rows of event_override_log
    txn

vars == <<mix, status, deleted, headings, filled, row, owned, stage, event, overrides, txn>>
form == <<headings, filled>>
assignment == <<row, owned>>
publication == <<event, overrides>>
instance == <<status, deleted>>

TypeOK ==
    /\ status \in Statuses /\ deleted \in BOOLEAN
    /\ headings \subseteq Sections /\ filled \subseteq headings
    /\ row \in [Sections -> Decisions]
    /\ owned \subseteq {s \in Sections : row[s] # "none"}
    /\ {s \in Sections : row[s] # "none"} \subseteq headings
    /\ stage \in [Stages -> Decisions]
    /\ event \in {"draft", "published", "cancelled"}
    /\ overrides \in Nat
    /\ txn \in [Workers -> Txn]

-----------------------------------------------------------------------------
(* Requests, and the row locks a transaction of several statements holds.  *)

Hold(w, t) == txn' = [txn EXCEPT ![w] = t] /\ UNCHANGED mix

\* authorise() reads the checklist before every handler; a deleted one is 404.
Begin(w, kind, label) ==
    /\ kind \in mix.handlers
    /\ ~deleted
    /\ txn[w].pc = "idle"
    /\ Hold(w, [label EXCEPT !.seen = status])
    /\ UNCHANGED <<instance, form, assignment, stage, publication>>

At(label) == [Idle EXCEPT !.pc = label]
Goto(w, label) == Hold(w, [txn[w] EXCEPT !.pc = label])
End(w) == Hold(w, Idle)

\* A statement fails, or the process is lost between two of them.
Rollback(w) == End(w) /\ UNCHANGED <<instance, form, assignment, stage, publication>>
Abort(w) == "crash" \in mix.handlers /\ txn[w].pc # "idle" /\ Rollback(w)

EventFree == \A v \in Workers : txn[v].pc \notin {"rf_write", "pub_write"}
StageFree(g) == \A v \in Workers : txn[v].pc = "st_commit" => txn[v].g # g
RowsFree(S) ==
    \A v \in Workers : txn[v].pc = "app_commit" => txn[v].set \cap S = {}

\* Rows deleted by w are gone for the requests that hold their ids.
EndForget(w, S) ==
    /\ UNCHANGED mix
    /\ txn' = [v \in Workers |->
                 IF v = w THEN Idle
                 ELSE IF txn[v].pc \in {"sub_rows", "app_rows", "rej_rows", "app_write", "rej_write"}
                      THEN [txn[v] EXCEPT !.set = @ \ S] ELSE txn[v]]

Rows == {s \in Sections : row[s] # "none"}

\* UPDATE checklist_instances; the trigger publishes the event of a checklist
\* that becomes approved.
Becomes(w, s) ==
    /\ status' = s
    /\ IF s = "approved" /\ status # "approved" /\ event # "cancelled"
       THEN EventFree /\ event' = "published"
       ELSE UNCHANGED event

-----------------------------------------------------------------------------
(* POST /:id/release, and the release a PATCH with a first filler implies. *)

Release(w) == status = "draft" /\ Begin(w, "release", At("rel_write"))

ReleaseWrite(w) ==
    /\ txn[w].pc = "rel_write"
    /\ status' = "awaiting_fill"
    /\ IF mix.codes = {} THEN End(w) ELSE Goto(w, "rel_stages")
    /\ UNCHANGED <<deleted, form, assignment, stage, publication>>

\* cascade_checklist_approval_status: what the checklist becomes.
Cascade(st) ==
    IF status # "awaiting_review" THEN "none"
    ELSE IF \E g \in Stages : st[g] = "rejected" THEN "rejected"
    ELSE IF \E g \in Stages : st[g] = "pending" THEN "none" ELSE "approved"

\* ensureApprovalStages: one INSERT ... ON CONFLICT DO NOTHING per stage, each
\* a statement of its own, with the trigger.
ReleaseStages(w) ==
    /\ txn[w].pc = "rel_stages"
    /\ \/ \E g \in mix.codes :
             /\ stage[g] = "none"
             /\ stage' = [stage EXCEPT ![g] = "pending"]
             /\ status' = IF Cascade(stage') = "rejected" THEN "rejected" ELSE status
             /\ IF \A h \in mix.codes : stage'[h] # "none" THEN End(w) ELSE UNCHANGED <<mix, txn>>
       \/ /\ \A g \in mix.codes : stage[g] # "none"
          /\ End(w) /\ UNCHANGED <<status, stage>>
    /\ UNCHANGED <<deleted, form, assignment, publication>>

-----------------------------------------------------------------------------
(* PUT responses, questions and section-assignments.                       *)

ResponsesRead(w, s) ==
    /\ status \in {"awaiting_fill", "rejected"}
    /\ s \in headings
    /\ Begin(w, "responses", [At("resp_write") EXCEPT !.set = {s}])

\* The answers saved are complete or not; the question may be gone by now.
ResponsesWrite(w) ==
    /\ txn[w].pc = "resp_write"
    /\ IF txn[w].set \subseteq headings
       THEN filled' \in {filled \cup txn[w].set, filled \ txn[w].set}
       ELSE UNCHANGED filled
    /\ End(w)
    /\ UNCHANGED <<instance, headings, assignment, stage, publication>>

\* Mutant: the status is not asked for.
QuestionsAnyStatus(w, H) ==
    Begin(w, "questions", [At("q_write") EXCEPT !.set = H, !.heads = headings])

QuestionsRead(w, H) ==
    /\ status \in {"awaiting_fill", "rejected", "draft"}
    /\ Begin(w, "questions", [At("q_write") EXCEPT !.set = H, !.heads = headings])

\* The headings after the edit: those of the snapshot the request drops are
\* deleted, those it adds are inserted, what others did since stays.
Edited(w) == (headings \ (txn[w].heads \ txn[w].set)) \cup (txn[w].set \ txn[w].heads)

\* Removed headings take their rows along; items come and go.
QuestionsWrite(w) ==
    LET H == Edited(w)
    IN  /\ txn[w].pc = "q_write"
        /\ RowsFree(Sections \ H)
        /\ headings' = H
        /\ filled' \in SUBSET H
        /\ row' = [s \in Sections |-> IF s \in H THEN row[s] ELSE "none"]
        /\ owned' = owned \cap H
        /\ EndForget(w, Sections \ H)
        /\ UNCHANGED <<instance, stage, publication>>

AssignRead(w, S) ==
    /\ S \subseteq headings
    /\ Begin(w, "assign", [At("as_write") EXCEPT !.set = S])

\* Wipe and recreate: the decisions go with the rows, at any status.
AssignWrite(w) ==
    LET S == txn[w].set
    IN  /\ txn[w].pc = "as_write"
        /\ RowsFree(Sections)
        /\ IF S \subseteq headings
           THEN /\ row' = [s \in Sections |-> IF s \in S THEN "pending" ELSE "none"]
                /\ owned' = S
                /\ EndForget(w, Sections)
                /\ UNCHANGED <<instance, form, stage, publication>>
           ELSE Rollback(w)

-----------------------------------------------------------------------------
(* POST /:id/submit.                                                       *)

\* The required items the caller answers for: the primary filler's are those of
\* the sections nobody owns, a section filler's those of the own ones.
Submit(w) ==
    /\ status \in {"awaiting_fill", "rejected"}
    /\ \/ headings \ owned \subseteq filled
       \/ \E M \in (SUBSET owned) \ {{}} : M \subseteq filled
    /\ Begin(w, "submit", At("sub_write"))

SubmitWrite(w) ==
    /\ txn[w].pc = "sub_write"
    /\ status' = "awaiting_review"
    /\ Goto(w, "sub_read")
    /\ UNCHANGED <<deleted, form, assignment, stage, publication>>

-----------------------------------------------------------------------------
(* ensureSectionApprovalRows, which submit, approve and reject call.       *)

EnsureRead(w) ==
    /\ txn[w].pc \in {"sub_read", "app_ensure", "rej_ensure"}
    /\ Hold(w, [txn[w] EXCEPT !.pc = CASE txn[w].pc = "sub_read" -> "sub_rows"
                                      [] txn[w].pc = "app_ensure" -> "app_rows"
                                      [] OTHER -> "rej_rows",
                          !.heads = headings, !.rows = row, !.set = Rows])
    /\ UNCHANGED <<instance, form, assignment, stage, publication>>

\* In one transaction: after a submit the known rows go back to pending; the
\* missing ones are inserted, which fails when the row is there by now or its
\* heading is gone.
EnsureWrite(w) ==
    LET t == txn[w]
        missing == {s \in t.heads : t.rows[s] = "none"}
        reset == IF t.pc = "sub_rows" THEN t.set ELSE {}
    IN  /\ t.pc \in {"sub_rows", "app_rows", "rej_rows"}
        /\ RowsFree(reset)
        /\ IF missing \subseteq headings \ Rows
           THEN /\ row' = [s \in Sections |->
                             IF s \in reset \cup missing THEN "pending" ELSE row[s]]
                /\ Hold(w, IF t.pc = "sub_rows" THEN Idle
                             ELSE [t EXCEPT !.pc = IF t.pc = "app_rows" THEN "app_read" ELSE "rej_read",
                                            !.set = {},
                                            !.rows = [s \in Sections |->
                                               IF s \in missing THEN "pending" ELSE t.rows[s]]])
                /\ UNCHANGED <<instance, form, owned, stage, publication>>
           ELSE Rollback(w)

-----------------------------------------------------------------------------
(* POST /:id/approve and POST /:id/reject: decisions on sections.          *)

Approve(w) ==
    /\ status = "awaiting_review"
    /\ \A g \in Stages : stage[g] = "none"
    /\ Begin(w, "approve", At("app_ensure"))

\* /reject does not ask for stages.
Reject(w) == status = "awaiting_review" /\ Begin(w, "reject", At("rej_ensure"))

\* The sections decided are those the caller may act on, or some of them; a
\* checklist without section rows is approved as a whole.
ApproveRead(w) ==
    /\ txn[w].pc = "app_read"
    /\ \/ /\ Rows = {}
          /\ Hold(w, [txn[w] EXCEPT !.pc = "app_commit", !.out = "approved",
                                    !.rows = row])
       \/ \E T \in (SUBSET Rows) \ {{}} :
             Hold(w, [txn[w] EXCEPT !.pc = "app_write",
                                    !.set = {s \in T : row[s] # "approved"}])
    /\ UNCHANGED <<instance, form, assignment, stage, publication>>

\* Mutant: pending sections do not hold the checklist back.
ApproveWriteUnrejected(w) ==
    LET T == txn[w].set
        all == Rows # {} /\ \A s \in Rows \ T : row[s] # "rejected"
    IN  /\ txn[w].pc = "app_write"
        /\ RowsFree(T)
        /\ Hold(w, [txn[w] EXCEPT !.pc = "app_commit", !.rows = row,
                                  !.out = IF all THEN "approved" ELSE "none"])
        /\ UNCHANGED <<instance, form, assignment, stage, publication>>

\* UPDATE of the targeted rows, then SELECT of all of them.
ApproveWrite(w) ==
    LET T == txn[w].set
        all == Rows # {} /\ \A s \in Rows \ T : row[s] = "approved"
    IN  /\ txn[w].pc = "app_write"
        /\ RowsFree(T)
        /\ Hold(w, [txn[w] EXCEPT !.pc = "app_commit", !.rows = row,
                                  !.out = IF all THEN "approved" ELSE "none"])
        /\ UNCHANGED <<instance, form, assignment, stage, publication>>

ApproveCommit(w) ==
    /\ txn[w].pc = "app_commit"
    /\ row' = [s \in Sections |-> IF s \in txn[w].set THEN "approved" ELSE row[s]]
    /\ IF txn[w].out = "approved" THEN Becomes(w, "approved") ELSE UNCHANGED <<status, event>>
    /\ End(w)
    /\ UNCHANGED <<deleted, form, owned, stage, overrides>>

RejectRead(w) ==
    /\ txn[w].pc = "rej_read"
    /\ \E T \in SUBSET Rows :
          /\ T = {} => Rows = {}
          /\ Hold(w, [txn[w] EXCEPT !.pc = "rej_write", !.set = T])
    /\ UNCHANGED <<instance, form, assignment, stage, publication>>

RejectWrite(w) ==
    /\ txn[w].pc = "rej_write"
    /\ RowsFree(txn[w].set)
    /\ row' = [s \in Sections |-> IF s \in txn[w].set THEN "rejected" ELSE row[s]]
    /\ status' = "rejected"
    /\ End(w)
    /\ UNCHANGED <<deleted, form, owned, stage, publication>>

-----------------------------------------------------------------------------
(* POST /:id/approve-stage, /reject-stage and /reject-final.               *)

StageRead(w, g, kind, label, dec) ==
    /\ status = "awaiting_review"
    /\ stage[g] = "pending"
    /\ Begin(w, kind, [At(label) EXCEPT !.g = g, !.dec = dec])

StageApprove(w, g) == StageRead(w, g, "stage", "st_write", "approved")
StageReject(w, g) == StageRead(w, g, "stage", "st_write", "rejected")
FinalRead(w, g) == StageRead(w, g, "final", "rf_lock", "rejected")

\* UPDATE by id; the trigger counts the stages it can see.
StageWrite(w) ==
    /\ txn[w].pc = "st_write"
    /\ StageFree(txn[w].g)
    /\ Hold(w, [txn[w] EXCEPT !.pc = "st_commit",
                              !.out = Cascade([stage EXCEPT ![txn[w].g] = txn[w].dec])])
    /\ UNCHANGED <<instance, form, assignment, stage, publication>>

StageCommit(w) ==
    /\ txn[w].pc = "st_commit"
    /\ stage' = [stage EXCEPT ![txn[w].g] = txn[w].dec]
    /\ IF txn[w].out = "none" THEN UNCHANGED <<status, event>> ELSE Becomes(w, txn[w].out)
    /\ End(w)
    /\ UNCHANGED <<deleted, form, assignment, overrides>>

\* Mutant: the same SELECT without FOR UPDATE, before the lock is free.
FinalLockPlainSelect(w) ==
    /\ txn[w].pc = "rf_lock"
    /\ IF event = "published" THEN End(w) ELSE Goto(w, "rf_write")
    /\ UNCHANGED <<instance, form, assignment, stage, publication>>

\* SELECT ... FOR UPDATE on the event: not under a published one.
FinalLock(w) ==
    /\ txn[w].pc = "rf_lock"
    /\ EventFree
    /\ IF event = "published" THEN End(w) ELSE Goto(w, "rf_write")
    /\ UNCHANGED <<instance, form, assignment, stage, publication>>

FinalWrite(w) ==
    /\ txn[w].pc = "rf_write"
    /\ StageFree(txn[w].g)
    /\ stage' = [stage EXCEPT ![txn[w].g] = "rejected"]
    /\ status' = "rejected"
    /\ event' = "cancelled"
    /\ End(w)
    /\ UNCHANGED <<deleted, form, assignment, overrides>>

-----------------------------------------------------------------------------
(* POST /:id/reopen, DELETE /:id, and the event's own publish and cancel.  *)

Reopen(w) == status # "awaiting_fill" /\ Begin(w, "reopen", At("reo_write"))

ReopenWrite(w) ==
    /\ txn[w].pc = "reo_write"
    /\ status' = "awaiting_fill"
    /\ IF mix.codes = {} THEN End(w) ELSE Goto(w, "reo_stages")
    /\ UNCHANGED <<deleted, form, assignment, stage, publication>>

ReopenStages(w) ==
    /\ txn[w].pc = "reo_stages"
    /\ \A g \in Stages : StageFree(g)
    /\ stage' = [g \in Stages |-> IF stage[g] = "none" THEN "none" ELSE "pending"]
    /\ End(w)
    /\ UNCHANGED <<instance, form, assignment, publication>>

DeleteRead(w) == event # "published" /\ Begin(w, "delete", At("del_write"))

DeleteWrite(w) ==
    /\ txn[w].pc = "del_write"
    /\ deleted' = TRUE
    /\ End(w)
    /\ UNCHANGED <<status, form, assignment, stage, publication>>

PublishLock(w) ==
    /\ "publish" \in mix.handlers
    /\ txn[w].pc = "idle" /\ EventFree
    /\ event = "draft"
    /\ Hold(w, At("pub_write"))
    /\ UNCHANGED <<instance, form, assignment, stage, publication>>

\* Without ?override=true the checklist, if there is one, must be approved.
PublishWrite(w) ==
    /\ txn[w].pc = "pub_write"
    /\ \/ /\ deleted \/ status = "approved"
          /\ event' = "published" /\ UNCHANGED overrides
       \/ /\ ~deleted /\ status # "approved"
          /\ UNCHANGED publication
       \/ event' = "published" /\ overrides' = overrides + 1
    /\ End(w)
    /\ UNCHANGED <<instance, form, assignment, stage>>

CancelEvent ==
    /\ "cancel" \in mix.handlers
    /\ EventFree
    /\ event' = "cancelled"
    /\ UNCHANGED <<instance, form, assignment, stage, overrides, mix, txn>>

-----------------------------------------------------------------------------
\* Created as a draft, or with a filler, which releases it at once.
Init ==
    /\ mix \in Mixes
    /\ headings = mix.heads /\ filled = {}
    /\ \/ status = "draft" /\ stage = [g \in Stages |-> "none"] /\ owned = {}
       \/ /\ status = "awaiting_fill" /\ owned \in SUBSET headings
          /\ stage = [g \in Stages |-> IF g \in mix.codes THEN "pending" ELSE "none"]
    /\ deleted = FALSE
    /\ \E R \in SUBSET headings :
          /\ owned \subseteq R
          /\ row = [s \in Sections |-> IF s \in R THEN "pending" ELSE "none"]
    /\ event = "draft" /\ overrides = 0
    /\ txn = [w \in Workers |-> Idle]

Arrive(w) ==
    \/ Release(w) \/ Submit(w) \/ Approve(w) \/ Reject(w) \/ Reopen(w) \/ DeleteRead(w)
    \/ PublishLock(w)
    \/ \E s \in mix.heads : ResponsesRead(w, s)
    \/ \E S \in SUBSET mix.heads : QuestionsRead(w, S) \/ AssignRead(w, S)
    \/ \E g \in mix.codes : StageApprove(w, g) \/ StageReject(w, g) \/ FinalRead(w, g)

Statement(w) ==
    \/ ReleaseWrite(w) \/ ReleaseStages(w)
    \/ ResponsesWrite(w) \/ QuestionsWrite(w) \/ AssignWrite(w)
    \/ SubmitWrite(w) \/ EnsureRead(w) \/ EnsureWrite(w)
    \/ ApproveRead(w) \/ ApproveWrite(w) \/ ApproveCommit(w)
    \/ RejectRead(w) \/ RejectWrite(w)
    \/ StageWrite(w) \/ StageCommit(w) \/ FinalLock(w) \/ FinalWrite(w)
    \/ ReopenWrite(w) \/ ReopenStages(w)
    \/ DeleteWrite(w) \/ PublishWrite(w)

Next ==
    \/ \E w \in Workers : Arrive(w) \/ Statement(w) \/ Abort(w)
    \/ CancelEvent

Spec == Init /\ [][Next]_vars

-----------------------------------------------------------------------------
(* What a request has read is no longer so when it writes.                 *)

Stale(w) ==
    LET t == txn[w]
    IN  \/ /\ t.pc \in {"rel_write", "resp_write", "q_write", "sub_write", "reo_write",
                        "app_write", "app_commit", "rej_write", "st_write", "st_commit",
                        "rf_lock", "rf_write"}
           /\ status # t.seen
        \/ /\ t.pc \in {"sub_rows", "app_rows", "app_write", "app_commit", "rej_rows", "rej_write"}
           /\ headings # t.heads \/ row # t.rows
        \/ t.pc \in {"app_write", "app_commit"} /\ \E g \in Stages : stage[g] # "none"
        \/ /\ t.pc \in {"st_write", "st_commit", "rf_lock", "rf_write"}
           /\ stage[t.g] # "pending"
        \/ t.pc \in {"app_write", "app_commit"} /\ Rows # headings
        \/ t.pc = "st_commit" /\ t.out # Cascade([stage EXCEPT ![t.g] = t.dec])

NoStaleWrite == \A w \in Workers : txn'[w] # txn[w] => ~Stale(w)

\* Every decision the checklist needs is an approval.
Signed ==
    IF \E g \in Stages : stage[g] # "none"
    THEN \A g \in Stages : stage[g] \in {"approved", "none"}
    ELSE \A s \in headings : row[s] = "approved"

\* A checklist becomes approved only with the approval of every stage or, where
\* there are none, of every section it has at that moment; and a stage decided
\* one way is not decided the other way, unless the checklist is reopened.  Both
\* fail only in a write that follows from a read another request made stale.
OnlyStaleWritesMisdecide ==
    [][NoStaleWrite =>
         /\ (status # "approved" /\ status' = "approved") => Signed'
         /\ \A g \in Stages :
               stage[g] \in {"approved", "rejected"} => stage'[g] \in {stage[g], "pending"}]_vars

\* From the submit to the decision nobody changes the sections or the answers,
\* unless a request that was let in before the submit is still writing.
OnlyStaleWritesEdit ==
    [][(NoStaleWrite /\ status \in {"awaiting_review", "approved"}) => form' = form]_vars

\* A cancelled event is never published, and no checklist decision takes a
\* published one back: reject-final, the cascade of the last stage and publish
\* meet on the event's row.  An override is recorded only by the one request
\* that publishes, however many administrators override at once.
EventKeepsItsEnd ==
    [][/\ event = "cancelled" => event' = "cancelled"
       /\ (event = "published" /\ txn' # txn) => event' = "published"
       /\ overrides' # overrides => event = "draft" /\ event' = "published"]_vars

Quiet == \A w \in Workers : txn[w].pc = "idle"

\* "sends the checklist back to the filler (who can fix and resubmit)": under
\* review again, every stage can be approved.
RejectedCanBeFixed ==
    (Quiet /\ status = "awaiting_review") => \A g \in Stages : stage[g] # "rejected"
=============================================================================
