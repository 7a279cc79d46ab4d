-------------------------------- MODULE Access --------------------------------
(***************************************************************************)
(* Who may use the portal as what: the accounts administrators approve and *)
(* delete, the employers that onboarding creates, the role assignments and *)
(* the list of office bearers that is kept in step with them.              *)
(*                                                                         *)
(* One branch, one committee and one day, so an assignment is a person, a  *)
(* role, and whether it began today or earlier.  Two triggers guard each   *)
(* assignment: a role with one holder refuses a second, and the chairman   *)
(* of a committee must hold mcm.  A trigger reads what is committed; it    *)
(* locks nothing.                                                          *)
(***************************************************************************)
EXTENDS Requests

CONSTANTS
    People,
    Bearers,   \* rows of office_bearers
    Mapped     \* roles that a bearer's row can be mapped to

Roles == {"branch_chairman", "mcm", "committee_chairman"}
Singleton == {"branch_chairman", "committee_chairman"}

ASSUME AccessAssumption ==
    /\ IsFiniteSet(People) /\ None \notin People
    /\ Mapped \subseteq Roles \ {"committee_chairman"}

AccountStatuses == {"pending_approval", "active", "inactive", "deleted"}

VARIABLES
    account,   \* users.status, "deleted" for a row with deleted_at
    owned,     \* employers of which the person is the owner
    held,      \* active assignments: who, role, from
    bearer     \* what each row of office_bearers says

access == <<account, owned, held, bearer>>

NoBearer == [who |-> None, role |-> "none", hidden |-> TRUE]

AccessInit ==
    /\ account \in [People -> {"pending_approval", "active"}]
    /\ "onboard" \notin mix => account = [p \in People |-> "active"]
    /\ owned = [p \in People |-> 0]
    /\ held \in SUBSET [who : People, role : Mapped, from : {"earlier", "today"}]
    /\ "bearer" \notin mix => held = {}
    /\ bearer = [b \in Bearers |-> NoBearer]

-----------------------------------------------------------------------------
(* Accounts and onboarding.                                                *)

\* PATCH /api/admin/users/:id with a status.
SetStatus(p, s) ==
    /\ Serves("onboard")
    /\ account[p] # "deleted"
    /\ account' = [account EXCEPT ![p] = s]
    /\ UNCHANGED <<owned, held, bearer>>

\* The roles the person holds are not ended.
DeleteUser(p) ==
    /\ Serves("grant")
    /\ account[p] # "deleted"
    /\ account' = [account EXCEPT ![p] = "deleted"]
    /\ UNCHANGED <<owned, held, bearer>>

\* requireUser lets only active accounts in.
OnboardRead(w, p) ==
    /\ Ready(w, "onboard")
    /\ account[p] = "active"
    /\ Hold(w, [pc |-> "onboard", p |-> p])
    /\ UNCHANGED access

\* Mutant: the employer is looked up before the account is updated.
OnboardLookupFirst(w) ==
    /\ At(w, "onboard")
    /\ txn' = [txn EXCEPT ![w] = [pc |-> "onboard_employer", p |-> txn[w].p, has |-> owned[txn[w].p]]]
    /\ UNCHANGED <<mix, access>>

\* The transaction begins with the UPDATE of the account, whose row it then
\* holds; the employer is looked up under that lock.
OnboardUpdate(w) ==
    /\ At(w, "onboard")
    /\ \A v \in Workers : At(v, "onboard_employer") => txn[v].p # txn[w].p
    /\ txn' = [txn EXCEPT ![w] = [pc |-> "onboard_employer", p |-> txn[w].p, has |-> owned[txn[w].p]]]
    /\ UNCHANGED <<mix, access>>

OnboardEmployer(w) ==
    LET t == txn[w]
    IN  /\ At(w, "onboard_employer")
        /\ owned' = IF t.has > 0 THEN owned ELSE [owned EXCEPT ![t.p] = @ + 1]
        /\ End(w)
        /\ UNCHANGED <<account, held, bearer>>

-----------------------------------------------------------------------------
(* Role assignments.                                                       *)

Holds(p, r) == \E a \in held : a.who = p /\ a.role = r
Holders(r) == {a.who : a \in {b \in held : b.role = r}}

\* Mutant: only the person's own assignments are looked at.
TakenByHolder(p, r) == r \in Singleton /\ p \in Holders(r)

\* enforce_role_assignment_scope: the role has one holder, and has it.
Taken(p, r) == r \in Singleton /\ Holders(r) # {}

\* enforce_committee_chairman_is_mcm.
LacksMcm(p, r) == r = "committee_chairman" /\ ~Holds(p, "mcm")

\* POST /api/admin/users/:id/roles: the account, then the INSERT, whose
\* triggers read before it is committed.
GrantRead(w, p, r) ==
    /\ Ready(w, "grant")
    /\ account[p] # "deleted"
    /\ Hold(w, [pc |-> "grant", p |-> p, role |-> r])
    /\ UNCHANGED access

GrantTriggers(w) ==
    LET t == txn[w]
    IN  /\ At(w, "grant")
        /\ IF Taken(t.p, t.role) \/ LacksMcm(t.p, t.role)
           THEN End(w)
           ELSE /\ txn' = [txn EXCEPT ![w] = [pc |-> "grant_insert", p |-> t.p, role |-> t.role,
                                              holders |-> Holders(t.role), mcm |-> Holds(t.p, "mcm")]]
                /\ UNCHANGED mix
        /\ UNCHANGED access

\* The unique index knows the person, the role and the first day: a second
\* grant of the same day is refused, one of another day is not.
GrantInsert(w) ==
    LET t == txn[w]
    IN  /\ At(w, "grant_insert")
        /\ held' = held \cup {[who |-> t.p, role |-> t.role, from |-> "today"]}
        /\ End(w)
        /\ UNCHANGED <<account, owned, bearer>>

\* DELETE /:id/roles/:assignment_id: deleted or, when it began on an earlier
\* day, ended as of yesterday. Either way it is no longer active.
EndRole(a) ==
    /\ Serves("end")
    /\ a \in held
    /\ held' = held \ {a}
    /\ UNCHANGED <<account, owned, bearer>>

-----------------------------------------------------------------------------
(* Office bearers.                                                         *)

\* A row says nothing of the access of the person it does not name; one with a
\* role that is only displayed is the same hidden or not.
Rows == {NoBearer} \cup [who : People, role : Mapped, hidden : BOOLEAN]
                   \cup [who : People \cup {None}, role : {"none"}, hidden : {FALSE}]

Linked(row) == row.who # None /\ row.role \in Mapped

\* syncRoleAssignment, first half: an assignment ends with this change of a row.
Ends(old, new) ==
    Linked(old) /\ (old.who # new.who \/ old.role # new.role \/ new.hidden)

\* Those findActiveAssignment may return: it takes one of them, LIMIT 1.
Found(old, new) ==
    LET rows == {a \in held : a.who = old.who /\ a.role = old.role}
    IN  IF Ends(old, new) /\ rows # {} THEN rows ELSE {None}

\* The second half: a visible row needs the role. An INSERT without a branch is
\* refused by the trigger, so only a role the person already holds will do.
Granted(new, H) ==
    (Linked(new) /\ ~new.hidden) => \E a \in H : a.who = new.who /\ a.role = new.role

\* Three kinds of change: a POST has no row to read, a DELETE leaves none.
Patches(t) == t.old # NoBearer /\ t.row # NoBearer

\* The transaction of v holds the row of b, which its UPDATE has changed.
Updates(v, b) == At(v, "bearer_write") /\ txn[v].b = b /\ Patches(txn[v])

\* PATCH and DELETE read the row without a lock; a POST will have a row of its own.
BearerRead(w, b, row) ==
    /\ Ready(w, "bearer")
    /\ IF bearer[b] # NoBearer THEN TRUE
       ELSE /\ row # NoBearer
            /\ \A v \in Workers : txn[v].pc \in {"bearer", "bearer_write"} => txn[v].b # b
    /\ row.who # None => account[row.who] # "deleted"
    /\ Hold(w, [pc |-> "bearer", b |-> b, old |-> bearer[b], row |-> row])
    /\ UNCHANGED access

\* PATCH updates the row, waiting for another that has; all then look for the
\* assignment that ends.
BearerFind(w) ==
    LET t == txn[w]
    IN  /\ At(w, "bearer")
        /\ Patches(t) => \A v \in Workers : ~Updates(v, t.b)
        /\ \E a \in Found(t.old, t.row) :
              Hold(w, [pc |-> "bearer_write", b |-> t.b, old |-> t.old, row |-> t.row, a |-> a])
        /\ UNCHANGED access

\* endAssignment ends the one found, by its id, if it is still there; then the
\* second half, DELETE's deletion of the row, and the commit. A row deleted
\* meanwhile stays deleted: the UPDATE and the DELETE change no row.
BearerWrite(w) ==
    LET t == txn[w]
        H == held \ {t.a}
    IN  /\ At(w, "bearer_write")
        /\ t.row = NoBearer => \A v \in Workers : ~Updates(v, t.b)
        /\ IF Granted(t.row, H)
           THEN /\ held' = H
                /\ bearer' = IF t.old # NoBearer /\ bearer[t.b] = NoBearer THEN bearer
                             ELSE [bearer EXCEPT ![t.b] = t.row]
           ELSE UNCHANGED <<held, bearer>>
        /\ End(w)
        /\ UNCHANGED <<account, owned>>

AccessNext ==
    \/ \E p \in People :
          \/ DeleteUser(p)
          \/ \E s \in {"active", "inactive"} : SetStatus(p, s)
          \/ \E w \in Workers : OnboardRead(w, p) \/ \E r \in Roles : GrantRead(w, p, r)
    \/ \E a \in held : EndRole(a)
    \/ \E w \in Workers, b \in Bearers, row \in Rows : BearerRead(w, b, row)
    \/ \E w \in Workers :
          \/ OnboardUpdate(w) \/ OnboardEmployer(w) \/ GrantTriggers(w) \/ GrantInsert(w)
          \/ BearerFind(w) \/ BearerWrite(w)

\* The access to the portal alone.
AccessSpec == RequestsInit /\ AccessInit /\ [][AccessNext]_<<requests, access>>

-----------------------------------------------------------------------------
(* Properties.                                                             *)

AccessTypeOK ==
    /\ account \in [People -> AccountStatuses]
    /\ owned \in [People -> Nat]
    /\ held \subseteq [who : People, role : Roles, from : {"earlier", "today"}]
    /\ bearer \in [Bearers -> Rows]

\* "double-submission can't create duplicates": the employer is looked up
\* after the account's row is locked, so a person never owns two employers,
\* however many submissions of the form overlap.
OneEmployerEach == \A p \in People : owned[p] <= 1

\* What the triggers, or the change of a bearer's row, relied on is still so.
AccessStale(w) ==
    LET t == txn[w]
    IN  \/ /\ t.pc = "grant_insert"
           /\ <<Holders(t.role), Holds(t.p, "mcm")>> # <<t.holders, t.mcm>>
        \/ /\ t.pc = "bearer_write"
           /\ bearer[t.b] # t.old \/ t.a \notin Found(t.old, t.row)

AccessFresh == \A w \in Workers : Steps(w) => ~AccessStale(w)

\* A role "already has an active holder for this scope": a second holder, and
\* a committee chairman without mcm, come only from a grant whose triggers
\* read before another change was committed, or from ending the mcm role.  The
\* list and the access stay aligned: when the last visible row that lists a
\* person in a role is hidden, changed or deleted, the person loses the role,
\* unless the row, or the assignment the edit found, was changed in the middle
\* of the edit, or the role had been granted more than once.
Seats(r) == r \in Singleton => Cardinality(Holders(r)) <= 1

Listed(p, r) == \E b \in Bearers : bearer[b].who = p /\ bearer[b].role = r /\ ~bearer[b].hidden

OnlyStaleWritesMisassign ==
    [][<<held, bearer>>' # <<held, bearer>> /\ AccessFresh =>
         /\ \A r \in Roles : Seats(r) => Seats(r)'
         /\ \A p \in People :
               /\ ~Holds(p, "committee_chairman") /\ Holds(p, "committee_chairman")'
               => Holds(p, "mcm")'
         /\ \A p \in People, r \in Mapped :
               /\ Listed(p, r) /\ ~Listed(p, r)'
               /\ Cardinality({a \in held : a.who = p /\ a.role = r}) <= 1
               => ~Holds(p, r)']_<<held, bearer>>
=============================================================================
