----------------------------- MODULE Branch_proofs -----------------------------
(***************************************************************************)
(* Proofs about the access to the portal and about the templates of        *)
(* checklists, each under its own specification.                           *)
(*                                                                         *)
(* Access, for any number of people, bearers' rows and requests:           *)
(* onboarding is safe by the account's row lock: two requests of a person  *)
(* are never both between the lookup of the employer and its insertion, so *)
(* what the lookup found is still so (LookupHolds).  The role assignments  *)
(* have no lock; what the triggers let pass is safe as long as it is still *)
(* so when it is written (TriggersPassed).                                 *)
(*                                                                         *)
(* ChecklistTemplates, for any number of versions, questions, checklists   *)
(* and requests: an edit whose triggers saw the version published has      *)
(* nothing to write (EditTxn), and a deletion without the cascade has read *)
(* that no checklist is live (DropTxn).                                    *)
(***************************************************************************)
EXTENDS Access, ChecklistTemplates, FiniteSetTheorems, WellFoundedInduction, TLAPS

-----------------------------------------------------------------------------
(* Access.                                                                 *)

Assignments == [who : People, role : Roles, from : {"earlier", "today"}]

\* What a request holds between its statements.
AccessTxn ==
    {Idle} \cup [pc : {"onboard"}, p : People]
           \cup [pc : {"onboard_employer"}, p : People, has : Nat]
           \cup [pc : {"grant"}, p : People, role : Roles]
           \cup [pc : {"grant_insert"}, p : People, role : Roles,
                 holders : SUBSET People, mcm : BOOLEAN]
           \cup [pc : {"bearer"}, b : Bearers, old : Rows, row : Rows]
           \cup [pc : {"bearer_write"}, b : Bearers, old : Rows, row : Rows,
                 a : Assignments \cup {None}]

LookupHolds ==
    /\ \A w \in Workers : At(w, "onboard_employer") => txn[w].has = owned[txn[w].p]
    /\ \A v, w \in Workers :
          At(v, "onboard_employer") /\ At(w, "onboard_employer") /\ v # w
          => txn[v].p # txn[w].p

TriggersPassed ==
    \A w \in Workers : At(w, "grant_insert") =>
        /\ txn[w].role \in Singleton => txn[w].holders = {}
        /\ txn[w].role = "committee_chairman" => txn[w].mcm

IInv ==
    /\ AccessTypeOK
    /\ txn \in [Workers -> AccessTxn]
    /\ LookupHolds
    /\ TriggersPassed
    /\ OneEmployerEach

-----------------------------------------------------------------------------
(* Requests.                                                               *)

LEMMA Shapes ==
    /\ \A t \in AccessTxn : t.pc \in {"onboard", "onboard_employer", "grant", "grant_insert"} =>
          t.p \in People
    /\ \A t \in AccessTxn : t.pc = "onboard_employer" => t.has \in Nat
    /\ \A t \in AccessTxn : t.pc \in {"grant", "grant_insert"} => t.role \in Roles
    /\ \A t \in AccessTxn : t.pc = "grant_insert" => t.holders \in SUBSET People /\ t.mcm \in BOOLEAN
    /\ \A t \in AccessTxn : t.pc \in {"bearer", "bearer_write"} => t.b \in Bearers /\ t.old \in Rows /\ t.row \in Rows
    /\ Idle \in AccessTxn /\ Idle.pc = "idle"
BY DEF AccessTxn, Idle

LEMMA HoldMoves ==
    ASSUME IInv, NEW w \in Workers, NEW t \in AccessTxn, txn' = [txn EXCEPT ![w] = t]
    PROVE  /\ txn' \in [Workers -> AccessTxn] /\ txn'[w] = t
           /\ \A v \in Workers \ {w} : txn'[v] = txn[v]
BY DEF IInv

LEMMA EndMoves ==
    ASSUME IInv, NEW w \in Workers, End(w)
    PROVE  /\ txn' \in [Workers -> AccessTxn] /\ txn'[w] = Idle
           /\ \A v \in Workers \ {w} : txn'[v] = txn[v]
BY Shapes, HoldMoves DEF End

\* A step of w that leaves the employers alone and does not begin a lookup.
LEMMA Assemble ==
    ASSUME IInv, AccessTypeOK', txn' \in [Workers -> AccessTxn], owned' = owned,
           NEW w \in Workers, \A v \in Workers \ {w} : txn'[v] = txn[v],
           txn'[w].pc # "onboard_employer",
           txn'[w].pc = "grant_insert" =>
              /\ txn'[w].role \in Singleton => txn'[w].holders = {}
              /\ txn'[w].role = "committee_chairman" => txn'[w].mcm
    PROVE  IInv'
<1>1. LookupHolds'
  BY DEF IInv, LookupHolds, At
<1>2. TriggersPassed'
  BY DEF IInv, TriggersPassed, At
<1>3. QED
  BY <1>1, <1>2 DEF IInv, OneEmployerEach

-----------------------------------------------------------------------------
(* The invariant.                                                          *)

LEMMA InitIInv == ASSUME RequestsInit, AccessInit PROVE IInv
<1>1. held \subseteq [who : People, role : Roles, from : {"earlier", "today"}]
  BY AccessAssumption DEF AccessInit
<1>2. AccessTypeOK
  BY <1>1 DEF AccessInit, AccessTypeOK, AccountStatuses, Rows
<1>3. txn \in [Workers -> AccessTxn] /\ \A w \in Workers : txn[w].pc = "idle"
  BY Shapes DEF RequestsInit
<1>4. QED
  BY <1>2, <1>3 DEF IInv, LookupHolds, TriggersPassed, At, AccessInit, OneEmployerEach

\* Steps of one statement.
LEMMA SingleStep ==
    ASSUME IInv,
           \/ \E p \in People : DeleteUser(p) \/ \E s \in {"active", "inactive"} : SetStatus(p, s)
           \/ \E a \in held : EndRole(a)
    PROVE  IInv'
<1>1. UNCHANGED <<txn, owned, bearer>>
  BY DEF DeleteUser, SetStatus, EndRole, Serves, requests
<1>2. account' \in [People -> AccountStatuses] /\ held' \subseteq held
  BY DEF DeleteUser, SetStatus, EndRole, IInv, AccessTypeOK, AccountStatuses
<1>3. AccessTypeOK'
  BY <1>1, <1>2 DEF IInv, AccessTypeOK
<1>4. QED
  BY <1>1, <1>3 DEF IInv, LookupHolds, TriggersPassed, At, OneEmployerEach

LEMMA ReadStep ==
    ASSUME IInv, NEW w \in Workers,
           \/ \E p \in People : OnboardRead(w, p) \/ \E r \in Roles : GrantRead(w, p, r)
           \/ \E b \in Bearers, row \in Rows : BearerRead(w, b, row)
    PROVE  IInv'
<1>1. UNCHANGED access /\ AccessTypeOK'
  BY DEF OnboardRead, GrantRead, BearerRead, access, IInv, AccessTypeOK
<1>2. PICK t \in AccessTxn : t.pc \notin {"onboard_employer", "grant_insert"} /\ Hold(w, t)
  <2>1. \A p \in People, r \in Roles : /\ [pc |-> "onboard", p |-> p] \in AccessTxn
                                       /\ [pc |-> "grant", p |-> p, role |-> r] \in AccessTxn
    BY DEF AccessTxn
  <2>2. ASSUME NEW b \in Bearers, NEW row \in Rows
        PROVE  [pc |-> "bearer", b |-> b, old |-> bearer[b], row |-> row] \in AccessTxn
    BY DEF AccessTxn, IInv, AccessTypeOK
  <2>3. CASE \E p \in People : OnboardRead(w, p)
    <3>1. PICK p \in People : Hold(w, [pc |-> "onboard", p |-> p])
      BY <2>3 DEF OnboardRead
    <3> DEFINE t == [pc |-> "onboard", p |-> p]
    <3>2. t \in AccessTxn /\ t.pc = "onboard" /\ Hold(w, t)
      BY <3>1 DEF AccessTxn
    <3> HIDE DEF t
    <3>3. QED
      BY <3>2
  <2>4. CASE \E p \in People, r \in Roles : GrantRead(w, p, r)
    BY <2>1, <2>4 DEF GrantRead
  <2>5. CASE \E b \in Bearers, row \in Rows : BearerRead(w, b, row)
    BY <2>2, <2>5 DEF BearerRead
  <2>6. QED
    BY <2>3, <2>4, <2>5
<1>3. QED
  BY <1>1, <1>2, HoldMoves, Assemble DEF access, Hold

\* The account's row is locked, and the employer looked up.
LEMMA LookupStep ==
    ASSUME IInv, NEW w \in Workers, OnboardUpdate(w)
    PROVE  IInv'
<1>1. PICK p \in People : p = txn[w].p
  BY Shapes DEF OnboardUpdate, At, IInv
<1> DEFINE t == [pc |-> "onboard_employer", p |-> p, has |-> owned[p]]
<1>2. t \in AccessTxn /\ txn' = [txn EXCEPT ![w] = t] /\ UNCHANGED access
  BY <1>1 DEF OnboardUpdate, AccessTxn, IInv, AccessTypeOK
<1>3. /\ txn' \in [Workers -> AccessTxn] /\ txn'[w] = t
      /\ \A v \in Workers \ {w} : txn'[v] = txn[v]
  BY <1>2, HoldMoves
<1>4. LookupHolds'
  BY <1>1, <1>2, <1>3 DEF OnboardUpdate, At, IInv, LookupHolds, access
<1>5. TriggersPassed'
  BY <1>3 DEF IInv, TriggersPassed, At
<1>6. QED
  BY <1>2, <1>3, <1>4, <1>5 DEF IInv, AccessTypeOK, OneEmployerEach, access

\* The insertion of the employer: the lookup still holds.
LEMMA EmployerStep ==
    ASSUME IInv, NEW w \in Workers, OnboardEmployer(w)
    PROVE  IInv'
<1>1. PICK p \in People : p = txn[w].p /\ txn[w].has = owned[p]
  BY Shapes DEF OnboardEmployer, At, IInv, LookupHolds
<1>2. owned \in [People -> Nat] /\ \A q \in People : owned[q] <= 1
  BY DEF IInv, AccessTypeOK, OneEmployerEach
<1>3. /\ owned' \in [People -> Nat] /\ \A q \in People : owned'[q] <= 1
      /\ \A q \in People \ {p} : owned'[q] = owned[q]
  BY <1>1, <1>2 DEF OnboardEmployer
<1>4. /\ txn' \in [Workers -> AccessTxn] /\ txn'[w] = Idle
      /\ \A v \in Workers \ {w} : txn'[v] = txn[v]
  BY EndMoves DEF OnboardEmployer
<1>5. AccessTypeOK'
  BY <1>3 DEF OnboardEmployer, IInv, AccessTypeOK
<1>6. LookupHolds'
  <2>1. ASSUME NEW v \in Workers, At(v, "onboard_employer")'
        PROVE  v # w /\ At(v, "onboard_employer") /\ txn'[v] = txn[v] /\ txn[v].p \in People \ {p}
    BY <1>1, <1>4, <2>1, Shapes DEF At, IInv, LookupHolds, OnboardEmployer
  <2>2. QED
    BY <1>3, <2>1 DEF IInv, LookupHolds
<1>7. TriggersPassed'
  BY <1>4, Shapes DEF IInv, TriggersPassed, At
<1>8. QED
  BY <1>3, <1>4, <1>5, <1>6, <1>7 DEF IInv, OneEmployerEach

LEMMA TriggersStep ==
    ASSUME IInv, NEW w \in Workers, GrantTriggers(w)
    PROVE  IInv'
<1>1. UNCHANGED access /\ AccessTypeOK'
  BY DEF GrantTriggers, access, IInv, AccessTypeOK
<1>2. CASE End(w)
  BY <1>1, <1>2, EndMoves, Shapes, Assemble DEF access
<1>3. CASE ~(Taken(txn[w].p, txn[w].role) \/ LacksMcm(txn[w].p, txn[w].role))
  <2>1. PICK p \in People, r \in Roles : p = txn[w].p /\ r = txn[w].role
    BY Shapes DEF GrantTriggers, At, IInv
  <2> DEFINE mcm == Holds(p, "mcm")
             t == [pc |-> "grant_insert", p |-> p, role |-> r, holders |-> Holders(r), mcm |-> mcm]
  <2>2. Holders(r) \in SUBSET People
    BY DEF Holders, IInv, AccessTypeOK
  <2>3. mcm \in BOOLEAN
    BY DEF Holds
  <2>4. t \in AccessTxn
    <3> HIDE DEF mcm
    <3>1. QED
      BY <2>2, <2>3 DEF AccessTxn
  <2>5. /\ r \in Singleton => Holders(r) = {}
        /\ r = "committee_chairman" => mcm
    BY <1>3, <2>1 DEF Taken, LacksMcm
  <2>6. txn' = [txn EXCEPT ![w] = t]
    BY <1>3, <2>1 DEF GrantTriggers
  <2>7. t.pc = "grant_insert" /\ t.role = r /\ t.holders = Holders(r) /\ t.mcm = mcm
    OBVIOUS
  <2> HIDE DEF t, mcm
  <2>8. QED
    BY <1>1, <2>4, <2>5, <2>6, <2>7, HoldMoves, Assemble DEF access
<1>4. QED
  BY <1>2, <1>3 DEF GrantTriggers

LEMMA FindStep ==
    ASSUME IInv, NEW w \in Workers, BearerFind(w)
    PROVE  IInv'
<1>1. UNCHANGED access /\ AccessTypeOK'
  BY DEF BearerFind, access, IInv, AccessTypeOK
<1>2. PICK b \in Bearers, old \in Rows, new \in Rows :
         b = txn[w].b /\ old = txn[w].old /\ new = txn[w].row
  BY Shapes DEF BearerFind, At, IInv
<1>3. PICK a \in Found(old, new) :
         Hold(w, [pc |-> "bearer_write", b |-> b, old |-> old, row |-> new, a |-> a])
  BY <1>2 DEF BearerFind
<1>4. a \in Assignments \cup {None}
  BY DEF Found, Assignments, IInv, AccessTypeOK
<1> DEFINE t == [pc |-> "bearer_write", b |-> b, old |-> old, row |-> new, a |-> a]
<1>5. t \in AccessTxn /\ t.pc = "bearer_write" /\ Hold(w, t)
  BY <1>3, <1>4 DEF AccessTxn
<1> HIDE DEF t
<1>6. QED
  BY <1>1, <1>5, HoldMoves, Assemble DEF access, Hold

LEMMA AssignStep ==
    ASSUME IInv, NEW w \in Workers, GrantInsert(w) \/ BearerWrite(w)
    PROVE  IInv'
<1>1. End(w) /\ UNCHANGED <<account, owned>>
  BY DEF GrantInsert, BearerWrite
<1>2. AccessTypeOK'
  <2>1. CASE GrantInsert(w)
    <3>1. txn[w].p \in People /\ txn[w].role \in Roles
      BY <2>1, Shapes DEF GrantInsert, At, IInv
    <3>2. QED
      BY <1>1, <2>1, <3>1 DEF GrantInsert, IInv, AccessTypeOK
  <2>2. CASE BearerWrite(w)
    <3>1. txn[w].b \in Bearers /\ txn[w].row \in Rows
      BY <2>2, Shapes DEF BearerWrite, At, IInv
    <3>2. QED
      BY <1>1, <2>2, <3>1 DEF BearerWrite, IInv, AccessTypeOK
  <2>3. QED
    BY <2>1, <2>2
<1>3. QED
  BY <1>1, <1>2, EndMoves, Shapes, Assemble

LEMMA NextIInv == IInv /\ [AccessNext]_<<requests, access>> => IInv'
<1> SUFFICES ASSUME IInv, [AccessNext]_<<requests, access>> PROVE IInv'
  OBVIOUS
<1>1. CASE UNCHANGED <<requests, access>>
  BY <1>1 DEF requests, access, IInv, AccessTypeOK, LookupHolds, TriggersPassed, At, OneEmployerEach
<1>2. QED
  BY <1>1, SingleStep, ReadStep, LookupStep, EmployerStep, TriggersStep, FindStep, AssignStep DEF AccessNext

LEMMA Invariance == AccessSpec => []IInv
BY InitIInv, NextIInv, PTL DEF AccessSpec

\* The account's row lock is enough: however many submissions of the onboarding
\* form overlap, for any number of people and requests, nobody comes to own a
\* second employer.
THEOREM OneEmployer == AccessSpec => []OneEmployerEach
<1>1. IInv => OneEmployerEach
  BY DEF IInv
<1>2. QED
  BY <1>1, Invariance, PTL
-----------------------------------------------------------------------------
(* What only a stale write misassigns.                                     *)

LEMMA HoldersFinite == ASSUME IInv, NEW r PROVE IsFiniteSet(Holders(r))
<1>1. Holders(r) \subseteq People
  BY DEF Holders, IInv, AccessTypeOK
<1>2. QED
  BY <1>1, AccessAssumption, FS_Subset

\* Assignments that only end leave no role with more holders.
LEMMA FewerHolders ==
    ASSUME IInv, held' \subseteq held, NEW r, Seats(r)
    PROVE  Seats(r)'
<1>1. Holders(r)' \subseteq Holders(r)
  BY DEF Holders
<1>2. /\ Cardinality(Holders(r)') <= Cardinality(Holders(r))
      /\ Cardinality(Holders(r)') \in Nat /\ Cardinality(Holders(r)) \in Nat
  BY <1>1, HoldersFinite, FS_Subset, FS_CardinalityType
<1>3. QED
  BY <1>2 DEF Seats

\* The assignments of one person in one role are at most two.
Grants(p, r) == {a \in held : a.who = p /\ a.role = r}

LEMMA OneGrant ==
    ASSUME IInv, NEW p \in People, NEW r, Cardinality(Grants(p, r)) <= 1,
           NEW a \in Grants(p, r), NEW b \in Grants(p, r)
    PROVE  a = b
<1> DEFINE S == Grants(p, r)
           both == {[who |-> p, role |-> r, from |-> "earlier"], [who |-> p, role |-> r, from |-> "today"]}
<1>1. S \subseteq both
  BY DEF Grants, IInv, AccessTypeOK
<1>2. IsFiniteSet(both)
  <2>1. ASSUME NEW x, NEW y PROVE IsFiniteSet({x, y})
    <3>1. IsFiniteSet({x}) /\ IsFiniteSet({y}) /\ {x, y} = {x} \cup {y}
      BY FS_Singleton
    <3>2. QED
      BY <3>1, FS_Union
  <2>2. QED
    BY <2>1
<1> HIDE DEF both
<1>3. IsFiniteSet(S) /\ Cardinality(S) \in Nat
  BY <1>1, <1>2, FS_Subset, FS_CardinalityType
<1> HIDE DEF S
<1>4. a \in S /\ b \in S /\ Cardinality(S) <= 1
  BY DEF S
<1>5. IsFiniteSet(S \ {a}) /\ Cardinality(S \ {a}) = Cardinality(S) - 1
  BY <1>3, <1>4, FS_RemoveElement
<1>6. Cardinality(S \ {a}) = 0
  BY <1>3, <1>4, <1>5, FS_CardinalityType
<1>7. S \ {a} = {}
  BY <1>5, <1>6, FS_EmptySet
<1>8. QED
  BY <1>4, <1>7

\* What one step does to the assignments and the list.
Assigned ==
    /\ \A r \in Roles : Seats(r) => Seats(r)'
    /\ \A p \in People :
          ~Holds(p, "committee_chairman") /\ Holds(p, "committee_chairman")' => Holds(p, "mcm")'
    /\ \A p \in People, r \in Mapped :
          /\ Listed(p, r) /\ ~Listed(p, r)'
          /\ Cardinality({a \in held : a.who = p /\ a.role = r}) <= 1
          => ~Holds(p, r)'

LEMMA EndAssigned ==
    ASSUME IInv, held' \subseteq held, UNCHANGED bearer
    PROVE  Assigned
<1>1. \A r \in Roles : Seats(r) => Seats(r)'
  BY FewerHolders
<1>2. \A p, r : Holds(p, r)' => Holds(p, r)
  BY DEF Holds
<1>3. \A p, r : Listed(p, r)' <=> Listed(p, r)
  BY DEF Listed
<1>4. QED
  BY <1>1, <1>2, <1>3 DEF Assigned

LEMMA GrantAssigned ==
    ASSUME IInv, NEW w \in Workers, GrantInsert(w), ~AccessStale(w)
    PROVE  Assigned
<1>1. PICK p \in People, r \in Roles : p = txn[w].p /\ r = txn[w].role
  BY Shapes DEF GrantInsert, At, IInv
<1>2. /\ held' = held \cup {[who |-> p, role |-> r, from |-> "today"]} /\ bearer' = bearer
      /\ r \in Singleton => Holders(r) = {}
      /\ r = "committee_chairman" => Holds(p, "mcm")
  BY <1>1 DEF GrantInsert, At, AccessStale, IInv, TriggersPassed
<1>3. ASSUME NEW x \in Roles, Seats(x) PROVE Seats(x)'
  <2>1. CASE x = r /\ x \in Singleton
    <3>1. \A a \in held : a.role # x
      BY <1>2, <2>1 DEF Holders
    <3>2. {a \in held' : a.role = x} = {[who |-> p, role |-> x, from |-> "today"]}
      BY <1>2, <2>1, <3>1
    <3>3. Holders(x)' = {p}
      <4> DEFINE b == [who |-> p, role |-> x, from |-> "today"]
      <4>1. Holders(x)' = {a.who : a \in {b}}
        BY <3>2, Zenon DEF Holders
      <4>2. QED
        BY <4>1
    <3>4. QED
      BY <3>3, FS_Singleton DEF Seats
  <2>2. CASE x # r
    <3>1. Holders(x)' = Holders(x)
      BY <1>2, <2>2 DEF Holders
    <3>2. QED
      BY <1>3, <3>1 DEF Seats
  <2>3. CASE x \notin Singleton
    BY <2>3 DEF Seats
  <2>4. QED
    BY <2>1, <2>2, <2>3
<1>4. ASSUME NEW q \in People, ~Holds(q, "committee_chairman"), Holds(q, "committee_chairman")'
      PROVE  Holds(q, "mcm")'
  <2>1. q = p /\ r = "committee_chairman"
    BY <1>2, <1>4 DEF Holds
  <2>2. QED
    BY <1>2, <2>1 DEF Holds
<1>5. \A q, x : Listed(q, x)' <=> Listed(q, x)
  BY <1>2 DEF Listed
<1>6. QED
  BY <1>3, <1>4, <1>5 DEF Assigned

\* The change of a bearer's row takes the access it gave.
LEMMA BearerAssigned ==
    ASSUME IInv, NEW w \in Workers, BearerWrite(w), ~AccessStale(w)
    PROVE  Assigned
<1>1. PICK b \in Bearers, old \in Rows, new \in Rows :
         b = txn[w].b /\ old = txn[w].old /\ new = txn[w].row /\ bearer[b] = old
  BY Shapes DEF BearerWrite, At, IInv, AccessStale
<1>2. CASE UNCHANGED <<held, bearer>>
  BY <1>2, EndAssigned
<1>3. ASSUME NEW a \in Found(old, new), held' = held \ {a}, bearer' = [bearer EXCEPT ![b] = new]
      PROVE  Assigned
  <2>1. held' \subseteq held
    BY <1>3
  <2>2. \A r \in Roles : Seats(r) => Seats(r)'
    BY <2>1, FewerHolders
  <2>3. \A p, r : Holds(p, r)' => Holds(p, r)
    BY <2>1 DEF Holds
  <2>4. ASSUME NEW p \in People, NEW r \in Mapped, Listed(p, r), ~Listed(p, r)',
               Cardinality({x \in held : x.who = p /\ x.role = r}) <= 1
        PROVE  ~Holds(p, r)'
    <3>1. PICK c \in Bearers : bearer[c].who = p /\ bearer[c].role = r /\ ~bearer[c].hidden
      BY <2>4 DEF Listed
    <3>2. c = b
      BY <1>3, <2>4, <3>1 DEF Listed, IInv, AccessTypeOK
    <3>3. old.who = p /\ old.role = r /\ Linked(old)
      BY <1>1, <3>1, <3>2, AccessAssumption DEF Linked
    <3>4. ~(new.who = p /\ new.role = r /\ ~new.hidden)
      BY <1>3, <2>4 DEF Listed, IInv, AccessTypeOK
    <3>5. Ends(old, new)
      BY <3>3, <3>4 DEF Ends
    <3>6. CASE Grants(p, r) = {}
      BY <2>1, <3>6 DEF Grants, Holds
    <3>7. CASE Grants(p, r) # {}
      <4>1. a \in Grants(p, r)
        BY <3>3, <3>5, <3>7 DEF Found, Grants
      <4>2. \A x \in Grants(p, r) : x = a
        BY <2>4, <4>1, OneGrant DEF Grants
      <4>3. QED
        BY <1>3, <4>1, <4>2 DEF Grants, Holds
    <3>8. QED
      BY <3>6, <3>7
  <2>5. QED
    BY <2>2, <2>3, <2>4 DEF Assigned
<1>4. ASSUME NEW a, held' = held \ {a}, bearer' = bearer PROVE Assigned
  BY <1>4, EndAssigned
<1>5. txn[w].a \in Found(old, new)
  BY <1>1 DEF BearerWrite, At, AccessStale
<1>6. QED
  BY <1>1, <1>2, <1>3, <1>4, <1>5 DEF BearerWrite

LEMMA StepAssigned ==
    ASSUME IInv, AccessNext, AccessFresh
    PROVE  Assigned
<1>1. ASSUME NEW w \in Workers, GrantInsert(w) \/ BearerWrite(w) PROVE ~AccessStale(w)
  <2>1. Steps(w)
    BY <1>1, EndMoves, Shapes DEF GrantInsert, BearerWrite, At, Steps
  <2>2. QED
    BY <2>1 DEF AccessFresh
<1>2. CASE held' \subseteq held /\ UNCHANGED bearer
  BY <1>2, EndAssigned
<1>3. QED
  BY <1>1, <1>2, GrantAssigned, BearerAssigned
     DEF AccessNext, DeleteUser, SetStatus, EndRole, OnboardRead, GrantRead, BearerRead,
         OnboardUpdate, OnboardEmployer, GrantTriggers, BearerFind, access

\* A second holder of a singleton role, a committee chairman without mcm, and a
\* person who keeps the role of a row that no longer lists them come only from
\* a grant or an edit that another change has overtaken, from ending mcm or
\* from a role granted more than once.
THEOREM AccessAligned == AccessSpec => OnlyStaleWritesMisassign
<1>1. ASSUME IInv, [AccessNext]_<<requests, access>>
      PROVE  [<<held, bearer>>' # <<held, bearer>> /\ AccessFresh =>
                /\ \A r \in Roles : Seats(r) => Seats(r)'
                /\ \A p \in People :
                      /\ ~Holds(p, "committee_chairman") /\ Holds(p, "committee_chairman")'
                      => Holds(p, "mcm")'
                /\ \A p \in People, r \in Mapped :
                      /\ Listed(p, r) /\ ~Listed(p, r)'
                      /\ Cardinality({a \in held : a.who = p /\ a.role = r}) <= 1
                      => ~Holds(p, r)']_<<held, bearer>>
  <2>1. CASE AccessNext /\ AccessFresh
    BY <1>1, <2>1, StepAssigned DEF Assigned
  <2>2. CASE UNCHANGED <<requests, access>>
    BY <2>2 DEF access
  <2>3. QED
    BY <1>1, <2>1, <2>2
<1>2. QED
  BY <1>1, Invariance, PTL DEF AccessSpec, OnlyStaleWritesMisassign

-----------------------------------------------------------------------------
(* Checklist templates.                                                    *)

\* Rows of the two tables.
IsVersion(r) ==
    /\ r = [family |-> r.family, version |-> r.version, starter |-> r.starter,
            published |-> r.published, deleted |-> r.deleted, asks |-> r.asks]
    /\ r.published \in BOOLEAN /\ r.deleted \in BOOLEAN

IsChecklist(r) == r = [t |-> r.t, asks |-> r.asks, state |-> r.state]

\* What an edit's triggers saw of a published version let nothing be changed.
EditTxn(t) ==
    /\ t = [pc |-> t.pc, t |-> t.t, new |-> t.new, meta |-> t.meta, gone |-> t.gone, saw |-> t.saw]
    /\ t.pc \in {"edit_delete", "edit_insert", "edit_commit"}
    /\ t.pc = "edit_insert" /\ t.saw => t.gone = {}
    /\ t.pc = "edit_commit" /\ t.saw => t.gone = {} /\ t.new = {}

DropTxn(t) ==
    /\ t = [pc |-> "drop", t |-> t.t, cascade |-> t.cascade, live |-> t.live]
    /\ t.cascade \/ t.live = {}

\* What a request holds between its statements.
TemplatesTxn(t) ==
    \/ t = Idle
    \/ /\ t.t \in Templates /\ IsVersion(template[t.t])
       /\ \/ EditTxn(t) \/ DropTxn(t)
          \/ t = [pc |-> t.pc, t |-> t.t] /\ t.pc \in {"publish_count", "publish_version", "use"}
          \/ t = [pc |-> "clone", t |-> t.t, own |-> t.own, version |-> t.version]

TemplatesInv ==
    /\ template = [t \in Templates |-> template[t]]
    /\ \A t \in Templates : template[t] = None \/ IsVersion(template[t])
    /\ instance = [i \in Instances |-> instance[i]]
    /\ \A i \in Instances : instance[i] = None \/ IsChecklist(instance[i])
    /\ txn = [w \in Workers |-> txn[w]]
    /\ \A w \in Workers : TemplatesTxn(txn[w])

\* Versions stay versions.
Evolves ==
    /\ template' = [t \in Templates |-> template'[t]]
    /\ \A t \in Templates : template'[t] = None \/ IsVersion(template'[t])
    /\ \A t \in Templates : IsVersion(template[t]) => IsVersion(template'[t])
    /\ instance' = [i \in Instances |-> instance'[i]]
    /\ \A i \in Instances : instance'[i] = None \/ IsChecklist(instance'[i])

\* One request goes on with r, the others keep what they hold.
LEMMA TemplatesStep ==
    ASSUME TemplatesInv, Evolves,
           NEW w \in Workers, NEW r, txn' = [txn EXCEPT ![w] = r], TemplatesTxn(r)'
    PROVE  TemplatesInv'
<1>1. \A v \in Workers : txn'[v] = IF v = w THEN r ELSE txn[v]
  BY DEF TemplatesInv
<1>2. \A v \in Workers : TemplatesTxn(txn[v]) => TemplatesTxn(txn[v])'
  BY <1>1 DEF TemplatesTxn, Evolves
<1>3. txn' = [v \in Workers |-> txn'[v]]
  BY DEF TemplatesInv
<1>4. QED
  BY <1>1, <1>2, <1>3 DEF TemplatesInv, Evolves

LEMMA TemplatesQuiet ==
    ASSUME TemplatesInv, Evolves, UNCHANGED txn
    PROVE  TemplatesInv'
BY DEF TemplatesInv, Evolves, TemplatesTxn

LEMMA StillEvolves ==
    ASSUME TemplatesInv, UNCHANGED templates
    PROVE  Evolves
BY DEF TemplatesInv, Evolves, templates

LEMMA WriteEvolves ==
    ASSUME TemplatesInv, NEW t \in Templates, NEW row, IsVersion(row),
           template' = [template EXCEPT ![t] = row], UNCHANGED instance
    PROVE  Evolves /\ \A s \in Templates : template'[s] = IF s = t THEN row ELSE template[s]
<1>1. \A s \in Templates : template'[s] = IF s = t THEN row ELSE template[s]
  BY DEF TemplatesInv
<1>2. QED
  BY <1>1 DEF TemplatesInv, Evolves

LEMMA MinIn ==
    ASSUME NEW S \in SUBSET Nat, S # {}
    PROVE  Min(S) \in S
<1>1. IsWellFoundedOn(OpToRel(<, Nat), Nat)
  BY NatLessThanWellFounded
<1>2. PICK x \in S : \A y \in S : ~(<<y, x>> \in OpToRel(<, Nat))
  BY <1>1, WFMin
<1>3. \A y \in S : x <= y
  <2>1. ASSUME NEW y \in S PROVE x <= y
    <3>1. x \in Nat /\ y \in Nat
      OBVIOUS
    <3>2. ~(y < x)
      BY <1>2, <3>1 DEF OpToRel
    <3>3. QED
      BY <3>1, <3>2
  <2>2. QED
    BY <2>1
<1>4. QED
  BY <1>3 DEF Min

LEMMA FreeIsFree ==
    ASSUME NEW t \in FreeTemplates
    PROVE  t \in Templates /\ ~There(t)
<1>1. {s \in Templates : ~There(s)} \in SUBSET Nat
  BY TemplatesAssumption
<1>2. {s \in Templates : ~There(s)} # {} /\ t = Min({s \in Templates : ~There(s)})
  BY DEF FreeTemplates
<1>3. QED
  BY <1>1, <1>2, MinIn

\* Requests that only read.
LEMMA ReadsKeep ==
    ASSUME TemplatesInv, NEW w \in Workers, NEW t \in Templates,
           \/ \E Q \in QuestionSets, meta \in BOOLEAN : EditRead(w, t, Q, meta)
           \/ PublishRead(w, t) \/ UseRead(w, t)
           \/ \E yes \in BOOLEAN : CloneRead(w, t, yes) \/ DropRead(w, t, yes)
    PROVE  TemplatesInv'
<1>1. UNCHANGED templates /\ There(t)
  BY DEF EditRead, PublishRead, UseRead, CloneRead, DropRead
<1>2. IsVersion(template[t]) /\ Evolves
  BY <1>1, StillEvolves DEF TemplatesInv, There
<1>3. CASE \E Q \in QuestionSets, meta \in BOOLEAN : EditRead(w, t, Q, meta)
  <2>1. PICK Q \in QuestionSets, meta \in BOOLEAN : EditRead(w, t, Q, meta)
    BY <1>3
  <2>2. PICK r : r = [pc |-> "edit_delete", t |-> t, new |-> Q, meta |-> meta, gone |-> {}, saw |-> FALSE]
    OBVIOUS
  <2>3. txn' = [txn EXCEPT ![w] = r]
    BY <2>1, <2>2 DEF EditRead, Serve, Hold
  <2>4. TemplatesTxn(r)'
    BY <1>1, <1>2, <2>2 DEF TemplatesTxn, EditTxn, templates
  <2>5. QED
    BY <1>2, <2>3, <2>4, TemplatesStep
<1>4. CASE PublishRead(w, t) \/ UseRead(w, t)
  <2>1. PICK r : /\ txn' = [txn EXCEPT ![w] = r]
                 /\ r = [pc |-> "publish_count", t |-> t] \/ r = [pc |-> "use", t |-> t]
    BY <1>4 DEF PublishRead, UseRead, Serve, Hold
  <2>2. TemplatesTxn(r)'
    BY <1>1, <1>2, <2>1 DEF TemplatesTxn, templates
  <2>3. QED
    BY <1>2, <2>1, <2>2, TemplatesStep
<1>5. CASE \E yes \in BOOLEAN : CloneRead(w, t, yes)
  <2>1. PICK own, version :
           txn' = [txn EXCEPT ![w] = [pc |-> "clone", t |-> t, own |-> own, version |-> version]]
    BY <1>5 DEF CloneRead, Serve, Hold
  <2>2. PICK r : r = [pc |-> "clone", t |-> t, own |-> own, version |-> version]
    OBVIOUS
  <2>3. TemplatesTxn(r)'
    BY <1>1, <1>2, <2>2 DEF TemplatesTxn, templates
  <2>4. QED
    BY <1>2, <2>1, <2>2, <2>3, TemplatesStep
<1>6. CASE \E yes \in BOOLEAN : DropRead(w, t, yes)
  <2>0. PICK live : live = LiveUses(t)
    OBVIOUS
  <2>1. PICK cascade \in BOOLEAN :
           /\ txn' = [txn EXCEPT ![w] = [pc |-> "drop", t |-> t, cascade |-> cascade, live |-> live]]
           /\ cascade \/ live = {}
    BY <1>6, <2>0 DEF DropRead, Serve, Hold
  <2>2. PICK r : r = [pc |-> "drop", t |-> t, cascade |-> cascade, live |-> live]
    OBVIOUS
  <2>3. TemplatesTxn(r)'
    BY <1>1, <1>2, <2>1, <2>2 DEF TemplatesTxn, DropTxn, templates
  <2>4. QED
    BY <1>2, <2>1, <2>2, <2>3, TemplatesStep
<1>7. QED
  BY <1>3, <1>4, <1>5, <1>6

\* What no step of the templates' handlers does.
Unlocks(t) ==
    \/ template[t].published /\ template'[t].asks # template[t].asks
    \/ /\ ~template[t].published /\ template'[t].published
       /\ template[t].asks = {} \/ template[t].deleted
    \/ LiveUses(t)' # {} /\ template'[t].deleted # template[t].deleted

Unlocked == \A t \in Templates : There(t) => ~Unlocks(t)

LEMMA SameUnlocked ==
    ASSUME UNCHANGED template
    PROVE  Unlocked
BY DEF Unlocked, Unlocks

LEMMA InitTemplates == RequestsInit /\ TemplatesInit => TemplatesInv
<1>1. ASSUME RequestsInit, TemplatesInit PROVE TemplatesInv
  <2>1. PICK first : /\ first = None \/ IsVersion(first)
                     /\ template = [t \in Templates |-> IF t = 1 THEN first ELSE None]
    <3>1. PICK first \in {None} \cup {Version(1, 1, TRUE, {q}) : q \in Questions} :
             template = [t \in Templates |-> IF t = 1 THEN first ELSE None]
      BY <1>1 DEF TemplatesInit
    <3>2. \A q \in Questions : IsVersion(Version(1, 1, TRUE, {q}))
      BY DEF IsVersion, Version
    <3>3. QED
      BY <3>1, <3>2
  <2>2. QED
    BY <1>1, <2>1 DEF TemplatesInv, RequestsInit, TemplatesInit, TemplatesTxn
<1>2. QED
  BY <1>1

LEMMA NewVersion ==
    ASSUME TemplatesInv, NEW n \in FreeTemplates,
           NEW family, NEW version, NEW asks,
           template' = [template EXCEPT ![n] = Version(family, version, FALSE, asks)],
           UNCHANGED instance
    PROVE  Evolves /\ Unlocked
<1>1. PICK row : row = Version(family, version, FALSE, asks)
  OBVIOUS
<1>2. IsVersion(row)
  BY <1>1 DEF IsVersion, Version
<1>3. n \in Templates /\ ~There(n)
  BY FreeIsFree
<1>4. Evolves /\ \A s \in Templates : template'[s] = IF s = n THEN row ELSE template[s]
  <2>1. template' = [template EXCEPT ![n] = row]
    BY <1>1
  <2>2. QED
    BY <1>2, <1>3, <2>1, WriteEvolves
<1>5. QED
  BY <1>3, <1>4 DEF Unlocked, Unlocks

LEMMA CreateKeeps ==
    ASSUME TemplatesInv, NEW t \in Templates, NEW Q \in QuestionSets, CreateTemplate(t, Q)
    PROVE  TemplatesInv' /\ Unlocked
BY NewVersion, TemplatesQuiet DEF CreateTemplate, SetTemplate, Serves, requests

LEMMA CloneKeeps ==
    ASSUME TemplatesInv, NEW w \in Workers, NEW n \in Templates, CloneInsert(w, n)
    PROVE  TemplatesInv' /\ Unlocked
<1>1. Evolves /\ Unlocked
  BY NewVersion, StillEvolves, SameUnlocked DEF CloneInsert, SetTemplate, templates
<1>2. TemplatesTxn(Idle)' /\ txn' = [txn EXCEPT ![w] = Idle]
  BY DEF CloneInsert, End, TemplatesTxn
<1>3. QED
  BY <1>1, <1>2, TemplatesStep

\* A request that is turned away, or that has nothing left to do.
LEMMA TurnedAway ==
    ASSUME TemplatesInv, NEW w \in Workers, End(w), UNCHANGED templates
    PROVE  TemplatesInv'
BY StillEvolves, TemplatesStep DEF End, TemplatesTxn

LEMMA EditKeeps ==
    ASSUME TemplatesInv, NEW w \in Workers, EditDelete(w) \/ EditInsert(w)
    PROVE  TemplatesInv'
<1>1. PICK t : t = txn[w]
  OBVIOUS
<1>2. /\ EditTxn(t) /\ t.pc \in {"edit_delete", "edit_insert"}
      /\ t.t \in Templates /\ IsVersion(template[t.t])
  BY <1>1 DEF TemplatesInv, TemplatesTxn, EditTxn, DropTxn, EditDelete, EditInsert, At, Idle
<1>3. UNCHANGED templates /\ Evolves
  BY StillEvolves DEF EditDelete, EditInsert
<1>4. CASE End(w)
  BY <1>3, <1>4, TurnedAway
<1>5. CASE EditDelete(w) /\ ~End(w)
  <2>1. PICK gone, saw : gone = template[t.t].asks /\ saw = template[t.t].published
    OBVIOUS
  <2>2. PICK r : r = [t EXCEPT !.pc = "edit_insert", !.gone = gone, !.saw = saw]
    OBVIOUS
  <2>3. txn' = [txn EXCEPT ![w] = r] /\ ~Locked(t.t, gone)
    BY <1>1, <1>5, <2>1, <2>2 DEF EditDelete, Hold
  <2>4. EditTxn(r) /\ r.t = t.t
    BY <1>2, <2>1, <2>2, <2>3 DEF EditTxn, Locked
  <2>5. TemplatesTxn(r)'
    BY <1>2, <1>3, <2>4 DEF TemplatesTxn, templates, EditTxn
  <2>6. QED
    BY <1>3, <2>3, <2>5, TemplatesStep
<1>6. CASE EditInsert(w) /\ ~End(w)
  <2>1. PICK saw : saw = IF t.new = {} THEN t.saw ELSE template[t.t].published
    OBVIOUS
  <2>2. PICK r : r = [t EXCEPT !.pc = "edit_commit", !.saw = saw]
    OBVIOUS
  <2>3. txn' = [txn EXCEPT ![w] = r] /\ ~Locked(t.t, t.new) /\ t.pc = "edit_insert"
    BY <1>1, <1>2, <1>6, <2>1, <2>2 DEF EditInsert, Hold, EditTxn, At
  <2>4. EditTxn(r) /\ r.t = t.t
    BY <1>2, <2>1, <2>2, <2>3 DEF EditTxn, Locked
  <2>5. TemplatesTxn(r)'
    BY <1>2, <1>3, <2>4 DEF TemplatesTxn, templates, EditTxn
  <2>6. QED
    BY <1>3, <2>3, <2>5, TemplatesStep
<1>7. QED
  BY <1>4, <1>5, <1>6

LEMMA CommitKeeps ==
    ASSUME TemplatesInv, NEW w \in Workers, EditCommit(w), ~TemplatesStale(w)
    PROVE  Unlocked
<1>1. PICK t : t = txn[w]
  OBVIOUS
<1>2. /\ EditTxn(t) /\ t.pc = "edit_commit"
      /\ t.t \in Templates /\ IsVersion(template[t.t])
  BY <1>1 DEF TemplatesInv, TemplatesTxn, EditTxn, DropTxn, EditCommit, At, Idle
<1>3. PICK old : old = template[t.t]
  OBVIOUS
<1>4. PICK row : row = [old EXCEPT !.asks = (@ \ t.gone) \cup t.new]
  OBVIOUS
<1>5. \A s \in Templates : template'[s] = IF s = t.t THEN row ELSE template[s]
  BY <1>1, <1>3, <1>4 DEF EditCommit, SetTemplate, TemplatesInv
<1>6. /\ row.published = old.published /\ row.deleted = old.deleted
      /\ row.asks = (old.asks \ t.gone) \cup t.new
  BY <1>2, <1>3, <1>4 DEF IsVersion
<1>7. old.published => t.saw
  BY <1>1, <1>2, <1>3 DEF TemplatesStale
<1>8. old.published => row.asks = old.asks
  BY <1>2, <1>6, <1>7 DEF EditTxn
<1>9. QED
  BY <1>3, <1>5, <1>6, <1>8 DEF Unlocked, Unlocks

LEMMA CommitInv ==
    ASSUME TemplatesInv, NEW w \in Workers, EditCommit(w)
    PROVE  TemplatesInv'
<1>1. PICK t : t = txn[w]
  OBVIOUS
<1>2. t.t \in Templates /\ IsVersion(template[t.t])
  BY <1>1 DEF TemplatesInv, TemplatesTxn, EditCommit, At, Idle
<1>3. PICK old : old = template[t.t]
  OBVIOUS
<1>4. PICK row : row = [old EXCEPT !.asks = (@ \ t.gone) \cup t.new]
  OBVIOUS
<1>5. IsVersion(row)
  BY <1>2, <1>3, <1>4 DEF IsVersion
<1>6. template' = [template EXCEPT ![t.t] = row] /\ UNCHANGED instance
  BY <1>1, <1>3, <1>4 DEF EditCommit, SetTemplate
<1>7. QED
  BY <1>2, <1>5, <1>6, WriteEvolves, TemplatesStep DEF EditCommit, End, TemplatesTxn

LEMMA PublishKeeps ==
    ASSUME TemplatesInv, NEW w \in Workers, PublishVersion(w)
    PROVE  TemplatesInv' /\ (~TemplatesStale(w) => Unlocked)
<1>1. PICK t : t = txn[w].t
  OBVIOUS
<1>2. t \in Templates /\ IsVersion(template[t])
  BY <1>1 DEF TemplatesInv, TemplatesTxn, PublishVersion, At, Idle
<1>3. PICK old : old = template[t]
  OBVIOUS
<1>4. PICK row : row = [old EXCEPT !.published = TRUE]
  OBVIOUS
<1>5. IsVersion(row) /\ row.deleted = old.deleted /\ row.asks = old.asks
  BY <1>2, <1>3, <1>4 DEF IsVersion
<1>6. template' = [template EXCEPT ![t] = row] /\ UNCHANGED instance
  BY <1>1, <1>3, <1>4 DEF PublishVersion, SetTemplate
<1>7. Evolves /\ \A s \in Templates : template'[s] = IF s = t THEN row ELSE template[s]
  BY <1>2, <1>5, <1>6, WriteEvolves
<1>8. TemplatesInv'
  BY <1>7, TemplatesStep DEF PublishVersion, End, TemplatesTxn
<1>9. ~TemplatesStale(w) => old.asks # {} /\ ~old.deleted
  BY <1>1, <1>3 DEF TemplatesStale, PublishVersion, At
<1>10. QED
  BY <1>3, <1>5, <1>7, <1>8, <1>9 DEF Unlocked, Unlocks

LEMMA CountKeeps ==
    ASSUME TemplatesInv, NEW w \in Workers, PublishCount(w)
    PROVE  TemplatesInv'
<1>1. UNCHANGED templates
  BY DEF PublishCount
<1>2. CASE End(w)
  BY <1>1, <1>2, TurnedAway
<1>3. CASE Goto(w, "publish_version")
  <2>1. PICK t : t = txn[w]
    OBVIOUS
  <2>2. t = [pc |-> "publish_count", t |-> t.t] /\ t.t \in Templates /\ IsVersion(template[t.t])
    BY <2>1 DEF TemplatesInv, TemplatesTxn, EditTxn, DropTxn, PublishCount, At, Idle
  <2>3. PICK r : r = [t EXCEPT !.pc = "publish_version"]
    OBVIOUS
  <2>4. txn' = [txn EXCEPT ![w] = r]
    BY <1>3, <2>1, <2>3 DEF Goto
  <2>5. r = [pc |-> "publish_version", t |-> t.t]
    BY <2>2, <2>3
  <2>6. TemplatesTxn(r)'
    BY <1>1, <2>2, <2>5 DEF TemplatesTxn, templates
  <2>7. QED
    BY <1>1, <2>4, <2>6, StillEvolves, TemplatesStep
<1>4. QED
  BY <1>2, <1>3 DEF PublishCount

\* The checklists of templates: created, decided, submitted again.
LEMMA ChecklistsKeep ==
    ASSUME TemplatesInv, NEW i \in Instances,
           Finish(i) \/ Resubmit(i) \/ \E w \in Workers : UseInsert(w, i)
    PROVE  TemplatesInv' /\ Unlocked
<1>1. UNCHANGED template /\ Unlocked
  BY SameUnlocked DEF Finish, Resubmit, UseInsert
<1>2. ASSUME NEW row, IsChecklist(row), instance' = [instance EXCEPT ![i] = row] PROVE Evolves
  BY <1>1, <1>2 DEF TemplatesInv, Evolves
<1>3. CASE Finish(i) \/ Resubmit(i)
  <2>1. PICK old : old = instance[i]
    OBVIOUS
  <2>2. IsChecklist(old)
    BY <1>3, <2>1 DEF TemplatesInv, Finish, Resubmit
  <2>3. PICK state \in {"approved", "rejected", "live"} : instance' = [instance EXCEPT ![i].state = state]
    BY <1>3 DEF Finish, Resubmit
  <2>4. PICK row : row = [old EXCEPT !.state = state]
    OBVIOUS
  <2>5. IsChecklist(row)
    BY <2>2, <2>4 DEF IsChecklist
  <2>6. instance' = [instance EXCEPT ![i] = row]
    BY <2>1, <2>3, <2>4
  <2>7. Evolves /\ UNCHANGED txn
    BY <1>2, <1>3, <2>5, <2>6 DEF Finish, Resubmit, Serves, requests
  <2>8. QED
    BY <1>1, <2>7, TemplatesQuiet
<1>4. CASE \E w \in Workers : UseInsert(w, i)
  <2>1. PICK w \in Workers : UseInsert(w, i)
    BY <1>4
  <2>2. PICK t, asks : instance' = [instance EXCEPT ![i] = [t |-> t, asks |-> asks, state |-> "live"]]
    BY <2>1 DEF UseInsert
  <2>3. PICK row : row = [t |-> t, asks |-> asks, state |-> "live"]
    OBVIOUS
  <2>4. IsChecklist(row) /\ instance' = [instance EXCEPT ![i] = row]
    BY <2>2, <2>3 DEF IsChecklist
  <2>5. Evolves
    BY <1>2, <2>4
  <2>6. QED
    BY <1>1, <2>1, <2>5, TemplatesStep DEF UseInsert, End, TemplatesTxn
<1>5. QED
  BY <1>3, <1>4

LEMMA DropKeeps ==
    ASSUME TemplatesInv, NEW w \in Workers, DropWrite(w)
    PROVE  TemplatesInv' /\ (~TemplatesStale(w) => Unlocked)
<1>1. PICK t : t = txn[w]
  OBVIOUS
<1>2. DropTxn(t) /\ t.pc = "drop" /\ t.t \in Templates /\ IsVersion(template[t.t])
  BY <1>1 DEF TemplatesInv, TemplatesTxn, EditTxn, DropTxn, DropWrite, At, Idle
<1>3. PICK old : old = template[t.t]
  OBVIOUS
<1>4. PICK row : row = [old EXCEPT !.deleted = TRUE]
  OBVIOUS
<1>5. IsVersion(row) /\ row.published = old.published /\ row.asks = old.asks
  BY <1>2, <1>3, <1>4 DEF IsVersion
<1>6. template' = [template EXCEPT ![t.t] = row]
  BY <1>1, <1>3, <1>4 DEF DropWrite
<1>7. PICK used : used = Uses(t.t)
  OBVIOUS
<1>8. instance' = [i \in Instances |-> IF t.cascade /\ i \in used
                                       THEN [instance[i] EXCEPT !.state = "deleted"] ELSE instance[i]]
  BY <1>1, <1>7 DEF DropWrite
<1>9. \A i \in Instances : instance[i] = None \/ IsChecklist(instance[i])
  BY DEF TemplatesInv
<1>10. \A i \in used : i \in Instances /\ IsChecklist(instance[i]) /\ instance[i].t = t.t
  BY <1>7, <1>9 DEF Uses
<1>11. \A i \in used : t.cascade => IsChecklist(instance'[i]) /\ instance'[i].state = "deleted"
  <2>1. ASSUME NEW i \in used, t.cascade PROVE IsChecklist(instance'[i]) /\ instance'[i].state = "deleted"
    <3>1. PICK one : one = instance[i]
      OBVIOUS
    <3>2. instance'[i] = [one EXCEPT !.state = "deleted"]
      BY <1>8, <1>10, <2>1, <3>1
    <3>3. QED
      BY <1>10, <2>1, <3>1, <3>2 DEF IsChecklist
  <2>2. QED
    BY <2>1
<1>12. \A i \in Instances : instance'[i] = None \/ IsChecklist(instance'[i])
  BY <1>8, <1>9, <1>11
<1>13. /\ \A s \in Templates : template'[s] = IF s = t.t THEN row ELSE template[s]
       /\ template' = [s \in Templates |-> template'[s]]
  BY <1>6 DEF TemplatesInv
<1>14. Evolves
  BY <1>5, <1>8, <1>12, <1>13 DEF Evolves, TemplatesInv
<1>15. TemplatesInv'
  BY <1>14, TemplatesStep DEF DropWrite, End, TemplatesTxn
<1>16. ASSUME ~TemplatesStale(w) PROVE LiveUses(t.t)' = {}
  <2>1. LiveUses(t.t) = t.live
    BY <1>1, <1>2, <1>16 DEF TemplatesStale
  <2>2. SUFFICES ASSUME NEW i \in Instances, instance'[i] # None, instance'[i].t = t.t,
                        instance'[i].state = "live"
                 PROVE  FALSE
    BY DEF LiveUses, Uses
  <2>3. CASE t.cascade /\ i \in used
    BY <1>11, <2>2, <2>3
  <2>4. CASE ~(t.cascade /\ i \in used)
    <3>1. instance'[i] = instance[i]
      BY <1>8, <2>4
    <3>2. i \in LiveUses(t.t) /\ i \in used
      BY <1>7, <2>2, <3>1 DEF LiveUses, Uses
    <3>3. QED
      BY <1>2, <2>1, <2>4, <3>2 DEF DropTxn
  <2>5. QED
    BY <2>3, <2>4
<1>17. QED
  BY <1>3, <1>5, <1>13, <1>15, <1>16 DEF Unlocked, Unlocks

LEMMA TemplatesInvariance == TemplatesSpec => []TemplatesInv
<1>1. ASSUME TemplatesInv, [TemplatesNext]_<<requests, templates>> PROVE TemplatesInv'
  <2>1. CASE UNCHANGED <<requests, templates>>
    BY <1>1, <2>1, StillEvolves, TemplatesQuiet DEF requests
  <2>2. CASE TemplatesNext
    BY <1>1, <2>2, CreateKeeps, ReadsKeep, EditKeeps, CommitInv, CloneKeeps, CountKeeps,
       PublishKeeps, DropKeeps, ChecklistsKeep DEF TemplatesNext
  <2>3. QED
    BY <1>1, <2>1, <2>2
<1>2. QED
  BY <1>1, InitTemplates, PTL DEF TemplatesSpec

\* A request that ends has taken a step.
LEMMA EndSteps ==
    ASSUME TemplatesInv, NEW w \in Workers, End(w), txn[w].pc # "idle"
    PROVE  Steps(w)
BY DEF TemplatesInv, End, Steps, Idle

\* A published version's questions are never changed, a version is published
\* with questions and not after its deletion, and a deleted one leaves no
\* checklist open, but by requests that another has overtaken.
THEOREM VersionsLocked == TemplatesSpec => OnlyStaleWritesUnlock
<1>1. ASSUME TemplatesInv, [TemplatesNext]_<<requests, templates>>,
             \A w \in Workers : Steps(w) => ~TemplatesStale(w)
      PROVE  Unlocked
  <2>1. CASE UNCHANGED template
    BY <2>1, SameUnlocked
  <2>2. CASE \E w \in Workers : EditCommit(w) \/ PublishVersion(w) \/ DropWrite(w)
    <3>1. PICK w \in Workers : EditCommit(w) \/ PublishVersion(w) \/ DropWrite(w)
      BY <2>2
    <3>2. ~TemplatesStale(w)
      BY <1>1, <3>1, EndSteps DEF EditCommit, PublishVersion, DropWrite, At
    <3>3. QED
      BY <1>1, <3>1, <3>2, CommitKeeps, PublishKeeps, DropKeeps
  <2>3. CASE TemplatesNext /\ ~(\E w \in Workers : EditCommit(w) \/ PublishVersion(w) \/ DropWrite(w))
    <3>1. ASSUME NEW w \in Workers, NEW t \in Templates,
                 \/ \E Q \in QuestionSets, meta \in BOOLEAN : EditRead(w, t, Q, meta)
                 \/ PublishRead(w, t) \/ UseRead(w, t)
                 \/ \E yes \in BOOLEAN : CloneRead(w, t, yes) \/ DropRead(w, t, yes)
          PROVE  UNCHANGED template
      BY <3>1 DEF EditRead, PublishRead, UseRead, CloneRead, DropRead, templates
    <3>2. ASSUME NEW w \in Workers, EditDelete(w) \/ EditInsert(w) \/ PublishCount(w)
          PROVE  UNCHANGED template
      BY <3>2 DEF EditDelete, EditInsert, PublishCount, templates
    <3>3. QED
      BY <1>1, <2>1, <2>3, <3>1, <3>2, CreateKeeps, CloneKeeps, ChecklistsKeep DEF TemplatesNext
  <2>4. QED
    BY <1>1, <2>1, <2>2, <2>3 DEF templates
<1>2. ASSUME TemplatesInv, [TemplatesNext]_<<requests, templates>>
      PROVE  [(\A w \in Workers : Steps(w) => ~TemplatesStale(w)) =>
                \A t \in Templates : There(t) =>
                   /\ template[t].published => template'[t].asks = template[t].asks
                   /\ ~template[t].published /\ template'[t].published =>
                         template[t].asks # {} /\ ~template[t].deleted
                   /\ LiveUses(t)' # {} => template'[t].deleted = template[t].deleted]_templates
  BY <1>1, <1>2 DEF Unlocked, Unlocks
<1>3. QED
  BY <1>2, TemplatesInvariance, PTL DEF TemplatesSpec, OnlyStaleWritesUnlock
=============================================================================
