-------------------------- MODULE ChecklistTemplates --------------------------
(***************************************************************************)
(* The versions of checklist templates (routes/checklistTemplates.ts) and  *)
(* the checklists created from them.                                       *)
(*                                                                         *)
(* A version is edited until it is published and is locked from then on: a *)
(* trigger on its questions refuses every write once the version is        *)
(* published.  The trigger reads what is committed and locks nothing.  An  *)
(* edit that also changes the version's own row holds that row until it    *)
(* commits.                                                                *)
(***************************************************************************)
EXTENDS Requests, FiniteSetsExt

CONSTANTS
    Templates,    \* rows of checklist_templates
    Questions,    \* rows of a version's questions
    QuestionSets, \* what a request may send
    Instances     \* rows of checklist_instances

ASSUME TemplatesAssumption == Templates \subseteq Nat /\ QuestionSets \subseteq SUBSET Questions

VARIABLES
    template,   \* template[t]: None, or its family, version, flags and questions
    instance    \* instance[i]: None, or its template, questions and state

templates == <<template, instance>>

Version(family, version, starter, asks) ==
    [family |-> family, version |-> version, starter |-> starter,
     published |-> starter, deleted |-> FALSE, asks |-> asks]

\* Nothing, or a starter of the gallery that asks one question.
TemplatesInit ==
    /\ \E first \in {None} \cup {Version(1, 1, TRUE, {q}) : q \in Questions} :
          /\ template = [t \in Templates |-> IF t = 1 THEN first ELSE None]
          /\ first # None => "clone" \in mix
    /\ instance = [i \in Instances |-> None]

There(t) == template[t] # None

SetTemplate(t, row) == template' = [template EXCEPT ![t] = row] /\ UNCHANGED instance

\* A free row: one is as good as another.
FreeTemplates == IF \E t \in Templates : ~There(t) THEN {Min({t \in Templates : ~There(t)})} ELSE {}

\* The edits of version t whose transaction is open.
Edits(t) == {v \in Workers : txn[v].pc \in {"edit_insert", "edit_commit"} /\ txn[v].t = t}

\* None of the others holds the version's own row.
RowFree(w, t) == \A v \in Edits(t) \ {w} : ~txn[v].meta

\* Rows that no question of version t, old or to come, has.
FreshRows(t) ==
    Questions \ (template[t].asks \cup
                 UNION {txn[v].gone \cup txn[v].new : v \in {u \in Workers : txn[u].pc \in {"edit_delete", "edit_insert", "edit_commit"}}})

-----------------------------------------------------------------------------
(* Versions.                                                               *)

\* POST /: version 1 of a new family.
CreateTemplate(t, Q) ==
    /\ Serves("draft")
    /\ t \in FreeTemplates
    /\ SetTemplate(t, Version(t, 1, FALSE, Q))

\* PATCH /:id with questions, and with metadata or without.
EditRead(w, t, Q, meta) ==
    /\ There(t) /\ ~template[t].deleted /\ ~template[t].starter /\ ~template[t].published
    /\ Q \subseteq FreshRows(t)
    /\ Serve(w, "draft", [pc |-> "edit_delete", t |-> t, new |-> Q, meta |-> meta, gone |-> {}, saw |-> FALSE])
    /\ UNCHANGED templates

\* lock_published_template_questions, for the rows of one statement.
Locked(t, rows) == template[t].published /\ rows # {}

\* The transaction: the version's own row is updated, if the edit touches it,
\* and the old questions are deleted.  Of two edits that overlap
\* neither sees the rows of the other, and both remain.
EditDelete(w) ==
    LET t == txn[w]
    IN  /\ At(w, "edit_delete")
        /\ t.meta => RowFree(w, t.t)
        /\ IF Locked(t.t, template[t.t].asks) THEN End(w)
           ELSE Hold(w, [t EXCEPT !.pc = "edit_insert", !.gone = template[t.t].asks,
                                  !.saw = template[t.t].published])
        /\ UNCHANGED templates

\* Mutant: the trigger guards the deletion of questions and not their insertion.
EditInsertUnguarded(w) ==
    /\ At(w, "edit_insert")
    /\ Hold(w, [txn[w] EXCEPT !.pc = "edit_commit", !.saw = template[txn[w].t].published])
    /\ UNCHANGED templates

\* And the new ones inserted, if there are any.
EditInsert(w) ==
    LET t == txn[w]
    IN  /\ At(w, "edit_insert")
        /\ IF Locked(t.t, t.new) THEN End(w)
           ELSE Hold(w, [t EXCEPT !.pc = "edit_commit",
                                  !.saw = IF t.new = {} THEN @ ELSE template[t.t].published])
        /\ UNCHANGED templates

EditCommit(w) ==
    LET t == txn[w]
    IN  /\ At(w, "edit_commit")
        /\ SetTemplate(t.t, [template[t.t] EXCEPT !.asks = (@ \ t.gone) \cup t.new])
        /\ End(w)

\* POST /:id/publish.
PublishRead(w, t) ==
    /\ There(t) /\ ~template[t].deleted /\ ~template[t].starter /\ ~template[t].published
    /\ Serve(w, "publish", [pc |-> "publish_count", t |-> t])
    /\ UNCHANGED templates

PublishCount(w) ==
    LET t == txn[w].t
    IN  /\ At(w, "publish_count")
        /\ IF template[t].asks = {} THEN End(w) ELSE Goto(w, "publish_version")
        /\ UNCHANGED templates

PublishVersion(w) ==
    LET t == txn[w].t
    IN  /\ At(w, "publish_version")
        /\ RowFree(w, t)
        /\ SetTemplate(t, [template[t] EXCEPT !.published = TRUE])
        /\ End(w)

\* POST /:id/clone, of any row that is there, a deleted one too.  A starter
\* begins a family of its own.
CloneRead(w, t, fork) ==
    /\ There(t)
    /\ LET own == fork \/ template[t].starter
           family == template[t].family
           versions == {template[s].version : s \in {u \in Templates : There(u) /\ template[u].family = family}}
       IN  Serve(w, "clone", [pc |-> "clone", t |-> t, own |-> own,
                              version |-> IF own THEN 1 ELSE 1 + Max({0} \cup versions)])
    /\ UNCHANGED templates

\* UNIQUE (family_id, version): the second of two that read the same maximum
\* gets an error.
CloneInsert(w, n) ==
    LET t == txn[w]
        family == IF t.own THEN n ELSE template[t.t].family
    IN  /\ At(w, "clone")
        /\ n \in FreeTemplates
        /\ IF \E s \in Templates : There(s) /\ template[s].family = family /\ template[s].version = t.version
           THEN UNCHANGED templates
           ELSE SetTemplate(n, Version(family, t.version, FALSE, template[t.t].asks))
        /\ End(w)

-----------------------------------------------------------------------------
(* Checklists of a template, and its deletion.                             *)

Uses(t) == {i \in Instances : instance[i] # None /\ instance[i].t = t}
LiveUses(t) == {i \in Uses(t) : instance[i].state = "live"}

\* POST /api/checklist-instances: the version is read, and its questions are
\* copied in the transaction that creates the checklist.
UseRead(w, t) ==
    /\ There(t) /\ ~template[t].deleted /\ template[t].published
    /\ Serve(w, "use", [pc |-> "use", t |-> t])
    /\ UNCHANGED templates

UseInsert(w, i) ==
    LET t == txn[w].t
    IN  /\ At(w, "use")
        /\ instance[i] = None
        /\ instance' = [instance EXCEPT ![i] = [t |-> t, asks |-> template[t].asks, state |-> "live"]]
        /\ End(w)
        /\ UNCHANGED template

\* Its approval or rejection, which ChecklistApproval has in full.
Finish(i) ==
    /\ Serves("use")
    /\ instance[i] # None /\ instance[i].state = "live"
    /\ \E state \in {"approved", "rejected"} : instance' = [instance EXCEPT ![i].state = state]
    /\ UNCHANGED template

\* A rejected one is filled in and submitted again.
Resubmit(i) ==
    /\ Serves("use")
    /\ instance[i] # None /\ instance[i].state = "rejected"
    /\ instance' = [instance EXCEPT ![i].state = "live"]
    /\ UNCHANGED template

\* DELETE /:id: refused for a starter, and while checklists are live unless
\* the caller forces it.
DropRead(w, t, force) ==
    /\ There(t) /\ ~template[t].starter
    /\ LiveUses(t) = {} \/ force
    /\ Serve(w, "drop", [pc |-> "drop", t |-> t, cascade |-> force /\ LiveUses(t) # {}, live |-> LiveUses(t)])
    /\ UNCHANGED templates

\* The cascade takes the checklists that have ended too.
DropWrite(w) ==
    LET t == txn[w]
    IN  /\ At(w, "drop")
        /\ RowFree(w, t.t)
        /\ template' = [template EXCEPT ![t.t].deleted = TRUE]
        /\ instance' = [i \in Instances |-> IF t.cascade /\ i \in Uses(t.t)
                                            THEN [instance[i] EXCEPT !.state = "deleted"] ELSE instance[i]]
        /\ End(w)

TemplatesNext ==
    \/ \E t \in Templates, Q \in QuestionSets :
          CreateTemplate(t, Q) \/ \E w \in Workers, meta \in BOOLEAN : EditRead(w, t, Q, meta)
    \/ \E w \in Workers : EditDelete(w) \/ EditInsert(w) \/ EditCommit(w)
    \/ \E w \in Workers, t \in Templates :
          \/ PublishRead(w, t) \/ UseRead(w, t) \/ CloneInsert(w, t)
          \/ \E yes \in BOOLEAN : CloneRead(w, t, yes) \/ DropRead(w, t, yes)
    \/ \E w \in Workers : PublishCount(w) \/ PublishVersion(w) \/ DropWrite(w)
    \/ \E i \in Instances : Finish(i) \/ Resubmit(i) \/ \E w \in Workers : UseInsert(w, i)

TemplatesSpec == RequestsInit /\ TemplatesInit /\ [][TemplatesNext]_<<requests, templates>>

-----------------------------------------------------------------------------
(* Properties.                                                             *)

\* What a step relies on has changed since the request, or the trigger, read it.
TemplatesStale(w) ==
    LET t == txn[w]
    IN  \/ t.pc = "edit_commit" /\ template[t.t].published # t.saw
        \/ t.pc = "publish_version" /\ (template[t.t].deleted \/ template[t.t].asks = {})
        \/ t.pc = "use" /\ template[t.t].deleted
        \/ t.pc = "drop" /\ LiveUses(t.t) # t.live

\* "Locks the question set for that version": once a version is published its
\* questions are never changed; it is published with questions and not after
\* its deletion, and a deleted version leaves no checklist open. The
\* exceptions are the requests overtaken by another between what they read, or
\* what the trigger read for them, and their commit.
OnlyStaleWritesUnlock ==
    [][(\A w \in Workers : Steps(w) => ~TemplatesStale(w)) =>
         \A t \in Templates : There(t) =>
            /\ template[t].published => template'[t].asks = template[t].asks
            /\ ~template[t].published /\ template'[t].published =>
                  template[t].asks # {} /\ ~template[t].deleted
            /\ LiveUses(t)' # {} => template'[t].deleted = template[t].deleted]_templates
=============================================================================
