----------------------------- MODULE Grievances -----------------------------
(***************************************************************************)
(* Grievances and the hourly sweeps that escalate what waits too long:     *)
(* routes/grievances.ts, routes/admin/grievances.ts, lib/escalations.ts.   *)
(*                                                                         *)
(* A machine runs two sweeps an hour, one over grievances and one over     *)
(* stages of checklists.  A sweep lists what is due, and for each item     *)
(* sends and then stamps it.  Mail is external: it is sent, or refused; in *)
(* either case sendEmail returns.                                          *)
(***************************************************************************)
EXTENDS Requests, FiniteSetsExt

CONSTANTS
    Tickets,    \* grievances, numbered by ticket_no
    Subjects,   \* of grievance_subject_routes, "other" among them
    Stages      \* checklist_instance_approvals

TicketRows == [subject : Subjects, open : BOOLEAN, due : BOOLEAN, escalated : BOOLEAN]

ASSUME GrievancesAssumption ==
    "other" \in Subjects /\ Tickets \subseteq Nat /\ Stages \subseteq Nat /\ None \notin TicketRows

VARIABLES
    ticket,     \* ticket[n]: the grievance with number n, or None
    route,      \* route[s]: "on", "off" or None
    stage,      \* stage[s]: pending, long after its event, escalated
    chair,      \* a chairperson holds the office
    template,   \* the template of the reminder is enabled
    mailed      \* tickets and stages that a sweep's message was sent for

grievances == <<ticket, route, stage, chair, template, mailed>>
grievanceVars == <<requests, grievances>>

GrievancesInit ==
    /\ ticket = [n \in Tickets |-> None]
    /\ route = [s \in Subjects |-> "on"]
    /\ stage = [s \in Stages |-> [pending |-> TRUE, due |-> FALSE, escalated |-> FALSE]]
    /\ chair = TRUE
    /\ template = TRUE
    /\ mailed = {}

-----------------------------------------------------------------------------
(* The form and the desk.                                                  *)

SetTicket(n, row) ==
    /\ ticket' = [ticket EXCEPT ![n] = row]
    /\ UNCHANGED <<route, stage, chair, template, mailed>>

Taken == {n \in Tickets : ticket[n] # None}

\* nextTicketNo: MAX + 1, in one SELECT before the INSERT.
NextNo == 1 + Max({0} \cup Taken)

\* An unknown subject, or one that is switched off, goes to "other".
Submit(w, subject) ==
    LET s == IF route[subject] = "on" THEN subject ELSE "other"
    IN  /\ Serve(w, "submit", [pc |-> "submit", subject |-> s, no |-> NextNo])
        /\ route[s] # None /\ NextNo \in Tickets
        /\ UNCHANGED grievances

\* UNIQUE (ticket_no): the second of two that read the same number gets an error.
SubmitInsert(w) ==
    LET t == txn[w]
    IN  /\ At(w, "submit")
        /\ IF ticket[t.no] # None \/ route[t.subject] = None THEN UNCHANGED grievances
           ELSE SetTicket(t.no, [subject |-> t.subject, open |-> TRUE, due |-> FALSE, escalated |-> FALSE])
        /\ End(w)

\* PATCH /:id sets the status, whatever it was: open and in_review wait for an
\* answer, resolved and closed do not.
PatchTicket(n) ==
    /\ Serves("desk")
    /\ ticket[n] # None
    /\ SetTicket(n, [ticket[n] EXCEPT !.open = ~@])

SetRoute(s, state) ==
    /\ Serves("routes")
    /\ route' = [route EXCEPT ![s] = state]
    /\ UNCHANGED <<ticket, stage, chair, template, mailed>>

\* POST of a route, and PATCH of one that is there.
EnterRoute(s, state) == SetRoute(s, state)

\* The foreign key of grievances.subject refuses a route in use.
DeleteRoute(s) ==
    /\ s # "other" /\ route[s] # None
    /\ \A n \in Taken : ticket[n].subject # s
    /\ SetRoute(s, None)

-----------------------------------------------------------------------------
(* The sweeps.                                                             *)

\* 48 hours pass over what is open, and three days over an event.
TimePasses ==
    /\ Serves("time")
    /\ ticket' = [n \in Tickets |-> IF ticket[n] = None THEN None ELSE [ticket[n] EXCEPT !.due = TRUE]]
    /\ stage' = [s \in Stages |-> [stage[s] EXCEPT !.due = TRUE]]
    /\ UNCHANGED <<route, chair, template, mailed>>

\* Mutant: the stamp is not asked for.
OverdueAgain == {n \in Taken : ticket[n].open /\ ticket[n].due}

Overdue == {n \in Taken : ticket[n].open /\ ticket[n].due /\ ~ticket[n].escalated}

GrievanceSweep(w) ==
    /\ Ready(w, "sweep")
    /\ Overdue # {}
    /\ Hold(w, [pc |-> "mail", todo |-> Overdue, rows |-> ticket])
    /\ UNCHANGED grievances

\* The items are taken one after the other.
First(todo) == Min(todo)

Rest(w) == IF Cardinality(txn[w].todo) = 1 THEN Idle ELSE [txn[w] EXCEPT !.pc = "mail", !.todo = @ \ {First(@)}]

\* sendEmail to the owner of the subject's route; the answer is not looked at.
\* The foreign key keeps the route as long as the ticket names it.
Mail(w, sent) ==
    LET n == First(txn[w].todo)
    IN  /\ At(w, "mail")
        /\ mailed' = IF sent THEN mailed \cup {<<"ticket", n>>} ELSE mailed
        /\ Goto(w, "stamp")
        /\ UNCHANGED <<ticket, route, stage, chair, template>>

Stamp(w) ==
    LET n == First(txn[w].todo)
    IN  /\ At(w, "stamp")
        /\ SetTicket(n, [ticket[n] EXCEPT !.escalated = TRUE])
        /\ txn' = [txn EXCEPT ![w] = Rest(w)]
        /\ UNCHANGED mix

SetStage(s, row) ==
    /\ stage' = [stage EXCEPT ![s] = row]
    /\ UNCHANGED <<ticket, route, chair, template, mailed>>

\* findCandidates; without a chairperson the sweep ends.
Waiting == {s \in Stages : stage[s].pending /\ stage[s].due /\ ~stage[s].escalated}

StageSweep(w) ==
    /\ Ready(w, "stages")
    /\ Waiting # {} /\ chair
    /\ Hold(w, [pc |-> "notify", todo |-> Waiting, rows |-> stage])
    /\ UNCHANGED grievances

RestStages(w) == IF Cardinality(txn[w].todo) = 1 THEN Idle ELSE [txn[w] EXCEPT !.pc = "notify", !.todo = @ \ {First(@)}]

\* notify answers null when the template is missing or off: no stamp.
NotifyNone(w) ==
    /\ At(w, "notify") /\ ~template
    /\ txn' = [txn EXCEPT ![w] = RestStages(w)]
    /\ UNCHANGED <<mix, grievances>>

NotifyChair(w) ==
    /\ At(w, "notify") /\ template
    /\ mailed' = mailed \cup {<<"stage", First(txn[w].todo)>>}
    /\ Goto(w, "mark")
    /\ UNCHANGED <<ticket, route, stage, chair, template>>

MarkStage(w) ==
    LET s == First(txn[w].todo)
    IN  /\ At(w, "mark")
        /\ SetStage(s, [stage[s] EXCEPT !.escalated = TRUE])
        /\ txn' = [txn EXCEPT ![w] = RestStages(w)]
        /\ UNCHANGED mix

\* The stage's approver decides it.
DecideStage(s) ==
    /\ Serves("desk")
    /\ stage[s].pending
    /\ SetStage(s, [stage[s] EXCEPT !.pending = FALSE])

SwitchTemplate ==
    /\ Serves("office")
    /\ template' = ~template
    /\ UNCHANGED <<ticket, route, stage, chair, mailed>>

SwitchChair ==
    /\ Serves("office")
    /\ chair' = ~chair
    /\ UNCHANGED <<ticket, route, stage, template, mailed>>

GrievanceStep ==
    \/ \E s \in Subjects : DeleteRoute(s) \/ (\E state \in {"on", "off"} : EnterRoute(s, state))
    \/ \E n \in Tickets : PatchTicket(n)
    \/ \E s \in Stages : DecideStage(s)
    \/ TimePasses \/ SwitchTemplate \/ SwitchChair
    \/ \E w \in Workers :
          \/ \E s \in Subjects : Submit(w, s)
          \/ \E sent \in BOOLEAN : Mail(w, sent)
          \/ SubmitInsert(w) \/ GrievanceSweep(w) \/ Stamp(w)
          \/ StageSweep(w) \/ NotifyNone(w) \/ NotifyChair(w) \/ MarkStage(w)
          \/ Crash(w) /\ UNCHANGED grievances

GrievancesSpec == RequestsInit /\ GrievancesInit /\ [][GrievanceStep]_grievanceVars

-----------------------------------------------------------------------------
(* Properties.                                                             *)

\* Another sweep has sent the message of this item and not stamped it yet.
Overlaps(w, label, n) == \E v \in Workers \ {w} : At(v, label) /\ First(txn[v].todo) = n

\* A sweep reminds nobody twice of one item, and of none that is answered,
\* unless the item has changed since it was listed, another sweep is between
\* its message and its stamp, or one was lost there.
OnlyOverlappingSweepsRepeat ==
    [][\A w \in Workers : (Steps(w) /\ At(w, "mail") /\ txn'[w].pc = "stamp") =>
         LET n == First(txn[w].todo)
         IN  ("crash" \notin mix /\ txn[w].rows[n] = ticket[n] /\ ~Overlaps(w, "stamp", n))
             => ticket[n].open /\ <<"ticket", n>> \notin mailed]_grievanceVars
    /\ [][\A w \in Workers : (Steps(w) /\ At(w, "notify") /\ txn'[w].pc = "mark") =>
         LET s == First(txn[w].todo)
         IN  ("crash" \notin mix /\ txn[w].rows[s] = stage[s] /\ ~Overlaps(w, "mark", s))
             => stage[s].pending /\ <<"stage", s>> \notin mailed]_grievanceVars
=============================================================================
