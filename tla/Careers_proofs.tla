---------------------------- MODULE Careers_proofs ----------------------------
(***************************************************************************)
(* Proofs about JobAlerts, JobPostings and MockTests, for any number of    *)
(* postings, applicants, students, questions and requests in flight, and   *)
(* any length of time.                                                     *)
(*                                                                         *)
(* Digests: a posting is delivered at the first tick of a day after its    *)
(* insertion, due(p): it is still recent then, nobody has had the digest   *)
(* of that day, and the clock does not pass the tick before a machine has  *)
(* swept.  While it is due, each user has it or is on the list of a sweep  *)
(* that carries it (Delivery).                                             *)
(*                                                                         *)
(* Postings: PostingsInv says what a request holds that has read them: a   *)
(* bill keeps its posting, an activation has not met a closed one, and an  *)
(* application is not taken out.                                           *)
(*                                                                         *)
(* Digests once: of the machines that sweep, each has one digest in hand   *)
(* that it has not stamped; a user without today's stamp has had no more   *)
(* of them than sweeps lost and stamps to come (MailsInv, Counted).        *)
(*                                                                         *)
(* Mock tests: ExamsInv says what a request has checked; AsPromised is the *)
(* grader's promise, for every question and answer.  Totals are compared   *)
(* by sums that do not depend on the order of the questions (SumAny,       *)
(* SumSplit), by induction over subsets (BySubsets).                       *)
(***************************************************************************)
EXTENDS MockTests, JobAlerts, SequenceTheorems, FiniteSetTheorems, WellFoundedInduction, TLAPS

NextDay(t) == Day * (t \div Day + 1)

due(p) == NextDay(created[p])

Row == [frequency : {"daily"}, confirmed : {TRUE}, unsubscribed : {FALSE}, last : Nat \cup {None}]
Subs == [Users -> [Kinds -> Row]]
Active == [status |-> "active", deleted |-> FALSE]

\* Requests that digests do not meet.
QuietTxn ==
    {Idle} \cup [pc : {"dispatch"}, posting : Postings]
           \cup [pc : {"apply"}, posting : Postings, old : {NoPosting, Active}]
           \cup [pc : {"review", "tell"}, posting : Postings, to : ApplicationStatuses,
                 prev : ApplicationStatuses \cup {None}]

SweepTxn ==
    [pc : {"sweep"}, list : SUBSET Users, rows : Subs, digest : [Users -> SUBSET Postings]]
    \cup [pc : {"sweep_stamp"}, u : Users, list : SUBSET Users, rows : Subs,
          digest : [Users -> SUBSET Postings]]

InSweep(t) == t.pc \in {"sweep", "sweep_stamp"}

Typed ==
    /\ txn \in [Workers -> QuietTxn \cup SweepTxn]
    /\ now \in Nat
    /\ posting \in [Postings -> {NoPosting, Active}]
    /\ application \in [Postings -> ApplicationStatuses \cup {None}]
    /\ created \in [Postings -> Nat \cup {None}]
    /\ sub \in Subs
    /\ digested \in [Users -> SUBSET Postings]

\* A posting's time of insertion is known and past.
Inserted ==
    \A p \in Postings : /\ created[p] = None <=> posting[p] = NoPosting
                        /\ created[p] # None => created[p] <= now

\* All rows of a user are stamped together, on dates that have begun, and in
\* the hours of the sweep.
Stamped ==
    /\ \A u \in Users, j, k \in Kinds : sub[u][j].last = sub[u][k].last
    /\ \A u \in Users, k \in Kinds :
          sub[u][k].last # None =>
             /\ sub[u][k].last <= date(now)
             /\ sub[u][k].last = date(now) => now % Day \in Ticks
    /\ \A w \in Workers : InSweep(txn[w]) => now % Day \in Ticks

Delivery(p, u) ==
    /\ sub[u][KindOf[p]].last = date(now) => p \in digested[u]
    /\ \A w \in Workers : InSweep(txn[w]) =>
          /\ u \in txn[w].list => p \in txn[w].digest[u]
          /\ txn[w].pc = "sweep_stamp" /\ txn[w].u = u => p \in digested[u]
    /\ ticked # {} => \/ p \in digested[u]
                      \/ \E w \in Workers : InSweep(txn[w]) /\ u \in txn[w].list

Delivered ==
    \A p \in Postings, u \in Users : created[p] # None =>
        /\ now > due(p) => p \in digested[u]
        /\ now = due(p) => Delivery(p, u)

DInv == Typed /\ Inserted /\ Stamped /\ Delivered

IInv == Digesting => DInv

-----------------------------------------------------------------------------
(* Time and requests.                                                      *)

LEMMA Time ==
    /\ \A t \in Nat : /\ date(t) \in Nat /\ date(t) <= date(t + 1)
                      /\ (t + 1) % Day \notin Ticks => date(t) < date(t + 1)
                      /\ NextDay(t) \in Nat /\ t < NextDay(t) /\ NextDay(t) <= t + Day
                      /\ NextDay(t) % Day \in Ticks
    /\ \A t, c \in Nat : t + 1 = NextDay(c) => t % Day \notin Ticks /\ date(t + 1) = date(t)
BY DEF date, NextDay, Day, Ticks

LEMMA Shapes ==
    /\ Idle \in QuietTxn
    /\ \A t \in QuietTxn :
          /\ t.pc \in {"idle", "dispatch", "apply", "review", "tell"} /\ ~InSweep(t)
          /\ t.pc # "idle" => t.posting \in Postings
          /\ t.pc \in {"review", "tell"} =>
                t.to \in ApplicationStatuses /\ t.prev \in ApplicationStatuses \cup {None}
    /\ \A t \in SweepTxn :
          /\ InSweep(t) /\ t.list \in SUBSET Users /\ t.rows \in Subs /\ t.digest \in [Users -> SUBSET Postings]
          /\ t.pc = "sweep_stamp" => t.u \in Users
BY DEF QuietTxn, SweepTxn, InSweep, Idle

LEMMA Rows ==
    ASSUME Typed, NEW u \in Users, NEW k \in Kinds
    PROVE  /\ sub[u][k].frequency = "daily" /\ sub[u][k].confirmed = TRUE /\ sub[u][k].unsubscribed = FALSE
           /\ sub[u][k].last \in Nat \cup {None} /\ sub[u][k] \in Row
<1>1. sub[u][k] \in Row
  BY DEF Typed, Subs
<1>2. QED
  BY <1>1 DEF Row

\* What a sweep finds for a user: with nothing stamped today, all that is recent.
LEMMA Finds ==
    ASSUME DInv, NEW u \in Users
    PROVE  /\ Due(u) = {k \in Kinds : sub[u][k].last # date(now)}
           /\ Recent = {p \in Postings : created[p] # None /\ created[p] + Day >= now}
<1>1. Due(u) = {k \in Kinds : sub[u][k].last # date(now)}
  BY Rows DEF Due, Wanted, DInv
<1>2. ASSUME NEW p \in Postings
      PROVE  posting[p].status = "active" /\ ~posting[p].deleted <=> created[p] # None
  BY JobAlertsAssumption, JobPostingsAssumption DEF DInv, Inserted, Typed, NoPosting, Active, PostingStatuses
<1>3. QED
  BY <1>1, <1>2 DEF Recent

-----------------------------------------------------------------------------
(* Steps that digests do not meet.                                         *)

LEMMA QuietKeeps ==
    ASSUME Digesting, DInv, UNCHANGED <<mix, now, sub, ticked, digested>>,
           txn' \in [Workers -> QuietTxn \cup SweepTxn],
           \A w \in Workers : InSweep(txn[w]) \/ InSweep(txn'[w]) => txn'[w] = txn[w],
           posting' \in [Postings -> {NoPosting, Active}],
           application' \in [Postings -> ApplicationStatuses \cup {None}],
           created' \in [Postings -> Nat \cup {None}],
           \A p \in Postings : /\ created'[p] = created[p] \/ created'[p] = now
                               /\ created'[p] = None <=> posting'[p] = NoPosting
    PROVE  IInv'
<1>1. Typed' /\ now \in Nat
  BY DEF DInv, Typed
<1>2. Inserted'
  BY <1>1 DEF DInv, Inserted
<1>3. Stamped'
  BY DEF DInv, Stamped
<1>4. ASSUME NEW p \in Postings, NEW u \in Users, created'[p] # None
      PROVE  /\ now' > due(p)' => p \in digested'[u]
             /\ now' = due(p)' => Delivery(p, u)'
  <2>1. CASE created'[p] = now
    <3>1. due(p)' = NextDay(now)
      BY <2>1 DEF due
    <3>2. NextDay(now) \in Nat /\ now < NextDay(now) /\ now' = now
      BY <1>1, Time
    <3>3. ~(now' > due(p)') /\ now' # due(p)'
      BY <1>1, <3>1, <3>2
    <3>4. QED
      BY <3>3
  <2>2. CASE created'[p] = created[p]
    <3>1. /\ now > due(p) => p \in digested[u]
          /\ now = due(p) => Delivery(p, u)
      BY <1>4, <2>2 DEF DInv, Delivered
    <3>2. Delivery(p, u) => Delivery(p, u)'
      BY DEF Delivery
    <3>3. QED
      BY <2>2, <3>1, <3>2 DEF due
  <2>3. QED
    BY <1>4, <2>1, <2>2
<1>5. QED
  BY <1>1, <1>2, <1>3, <1>4 DEF IInv, DInv, Delivered

\* A step of one request that stays quiet and leaves the postings alone.
LEMMA QuietStep ==
    ASSUME Digesting, DInv, UNCHANGED <<mix, now, sub, ticked, digested, posting, created>>,
           application' \in [Postings -> ApplicationStatuses \cup {None}],
           NEW w \in Workers, txn[w] \in QuietTxn, NEW t \in QuietTxn,
           txn' = [txn EXCEPT ![w] = t] \/ txn' = txn
    PROVE  IInv'
<1>1. txn \in [Workers -> QuietTxn \cup SweepTxn]
  BY DEF DInv, Typed
<1>2. /\ txn' \in [Workers -> QuietTxn \cup SweepTxn]
      /\ \A v \in Workers : InSweep(txn[v]) \/ InSweep(txn'[v]) => txn'[v] = txn[v]
  BY <1>1, Shapes
<1>3. QED
  BY <1>2, QuietKeeps DEF DInv, Typed, Inserted

\* The handlers that are not in use change nothing.
LEMMA NotInUse ==
    ASSUME Digesting, DInv, JobsNext
    PROVE  \/ \E w \in Workers, p \in Postings : AdminCreate(w, p)
           \/ ApplicationStep
<1>1. \A w \in Workers : txn[w].pc \notin {"retry", "confirm", "patch", "activate"}
  BY Shapes DEF DInv, Typed, InSweep
<1>2. \A h \in {"pay", "desk", "close", "delete"} : h \notin mix
  BY DEF Digesting
<1>3. QED
  BY <1>1, <1>2 DEF JobsNext, EmployerStep, DeskStep, CreatePosting, RetryRead, RetryInsert, Close,
     DeletePosting, ConfirmRead, ConfirmCommit, ActivateRead, PatchRead, DeskWrite, Serves, Ready, At

\* A posting of the desk is active from its insertion.
LEMMA CreateStep ==
    ASSUME Digesting, DInv, Created, NEW w \in Workers, NEW p \in Postings, AdminCreate(w, p)
    PROVE  IInv'
<1> DEFINE t == [pc |-> "dispatch", posting |-> p]
<1>1. t \in QuietTxn /\ txn[w] \in QuietTxn /\ txn' = [txn EXCEPT ![w] = t] /\ mix' = mix
  BY Shapes DEF AdminCreate, Ready, Hold, QuietTxn
<1> HIDE DEF t
<1>2. txn \in [Workers -> QuietTxn \cup SweepTxn] /\ posting \in [Postings -> {NoPosting, Active}]
  BY DEF DInv, Typed
<1>3. /\ txn' \in [Workers -> QuietTxn \cup SweepTxn]
      /\ \A v \in Workers : InSweep(txn[v]) \/ InSweep(txn'[v]) => txn'[v] = txn[v]
  BY <1>1, <1>2, Shapes
<1>4. posting[p] = NoPosting /\ posting' = [posting EXCEPT ![p] = Active]
  <2>1. posting[p].status = None /\ posting[p] \in {NoPosting, Active}
    BY <1>2 DEF AdminCreate, NewPosting
  <2>2. posting[p] = NoPosting
    BY <2>1, JobAlertsAssumption, JobPostingsAssumption DEF Active, PostingStatuses
  <2>3. [posting[p] EXCEPT !.status = "active"] = Active
    <3>1. PICK no : no = FALSE
      OBVIOUS
    <3>2. NoPosting = [status |-> None, deleted |-> no] /\ Active = [status |-> "active", deleted |-> no]
      BY <3>1, Zenon DEF NoPosting, Active
    <3>3. QED
      BY <2>2, <3>2
  <2>4. QED
    BY <2>2, <2>3 DEF AdminCreate
<1>5. NoPosting.status = None /\ Active.status = "active" /\ None # "active"
  BY JobAlertsAssumption, JobPostingsAssumption DEF NoPosting, Active, PostingStatuses
<1>6. /\ created' = [created EXCEPT ![p] = now]
      /\ UNCHANGED <<now, sub, ticked, digested, application>>
  <2>1. created \in [Postings -> Nat \cup {None}]
    BY DEF DInv, Typed
  <2>2. created' = [q \in Postings |-> IF posting[q].status = None /\ posting'[q].status # None
                                       THEN now ELSE created[q]]
    BY DEF Created
  <2>3. \A q \in Postings : posting[q].status = None /\ posting'[q].status # None <=> q = p
    BY <1>2, <1>4, <1>5
  <2>4. QED
    BY <2>1, <2>2, <2>3 DEF Created, AdminCreate
<1>7. now \in Nat /\ None \notin Nat /\ NoPosting # Active
  BY <1>5, JobAlertsAssumption, JobPostingsAssumption DEF DInv, Typed
<1>8. /\ posting' \in [Postings -> {NoPosting, Active}] /\ created' \in [Postings -> Nat \cup {None}]
      /\ \A q \in Postings : /\ created'[q] = created[q] \/ created'[q] = now
                             /\ created'[q] = None <=> posting'[q] = NoPosting
  BY <1>2, <1>4, <1>6, <1>7 DEF DInv, Typed, Inserted
<1>9. QED
  BY <1>1, <1>3, <1>6, <1>8, QuietKeeps DEF DInv, Typed

LEMMA ApplicationKeeps ==
    ASSUME Digesting, DInv, Created, ApplicationStep
    PROVE  IInv'
<1>1. /\ posting \in [Postings -> {NoPosting, Active}] /\ created \in [Postings -> Nat \cup {None}]
      /\ application \in [Postings -> ApplicationStatuses \cup {None}]
      /\ txn \in [Workers -> QuietTxn \cup SweepTxn]
  BY DEF DInv, Typed
<1>2. posting' = posting
  BY DEF ApplicationStep, ApplyRead, ApplyInsert, Withdraw, ReviewRead, ReviewWrite, ReviewTell, jobs
<1>3. UNCHANGED <<now, sub, ticked, digested, created>>
  <2>1. created' = created
    BY <1>1, <1>2 DEF Created
  <2>2. QED
    BY <2>1 DEF Created
<1>4. ASSUME NEW p \in Postings, Withdraw(p) PROVE IInv'
  <2>1. txn' = txn /\ mix' = mix /\ application' \in [Postings -> ApplicationStatuses \cup {None}]
    BY <1>1, <1>4 DEF Withdraw, Serves, requests, ApplicationStatuses
  <2>2. QED
    BY <1>1, <1>2, <1>3, <2>1, QuietKeeps DEF DInv, Typed, Inserted
<1>5. ASSUME NEW w \in Workers,
             \/ \E p \in Postings : ApplyRead(w, p) \/ \E s \in ApplicationStatuses : ReviewRead(w, p, s)
             \/ ApplyInsert(w) \/ ReviewWrite(w) \/ ReviewTell(w)
      PROVE  IInv'
  <2>1. txn[w] \in QuietTxn
    BY <1>1, <1>5, Shapes DEF ApplyRead, ReviewRead, ApplyInsert, ReviewWrite, ReviewTell, Ready, At, InSweep
  <2>2. application' \in [Postings -> ApplicationStatuses \cup {None}] /\ mix' = mix
    <3>1. ApplyInsert(w) => txn[w].posting \in Postings
      BY <2>1, Shapes DEF ApplyInsert, At
    <3>2. ReviewWrite(w) => txn[w].to \in ApplicationStatuses
      BY <2>1, Shapes DEF ReviewWrite, At
    <3>3. QED
      BY <1>1, <1>5, <3>1, <3>2
         DEF ApplyRead, ReviewRead, ApplyInsert, ReviewWrite, ReviewTell, Hold, End, Goto, jobs, ApplicationStatuses
  <2>3. PICK t \in QuietTxn : txn' = [txn EXCEPT ![w] = t]
    <3>1. ASSUME NEW p \in Postings, ApplyRead(w, p)
          PROVE  \E t \in QuietTxn : txn' = [txn EXCEPT ![w] = t]
      <4>1. [pc |-> "apply", posting |-> p, old |-> posting[p]] \in QuietTxn
        BY <1>1 DEF QuietTxn
      <4>2. QED
        BY <3>1, <4>1 DEF ApplyRead, Hold
    <3>2. ASSUME NEW p \in Postings, NEW s \in ApplicationStatuses, ReviewRead(w, p, s)
          PROVE  \E t \in QuietTxn : txn' = [txn EXCEPT ![w] = t]
      <4>1. [pc |-> "review", posting |-> p, to |-> s, prev |-> application[p]] \in QuietTxn
        BY <1>1 DEF QuietTxn
      <4>2. QED
        BY <3>2, <4>1 DEF ReviewRead, Hold
    <3>3. ASSUME ReviewWrite(w), txn' = [txn EXCEPT ![w].pc = "tell"]
          PROVE  \E t \in QuietTxn : txn' = [txn EXCEPT ![w] = t]
      <4>1. txn[w] \in [pc : {"review", "tell"}, posting : Postings, to : ApplicationStatuses,
                        prev : ApplicationStatuses \cup {None}]
        BY <2>1, <3>3 DEF ReviewWrite, At, QuietTxn, Idle
      <4>2. [txn[w] EXCEPT !.pc = "tell"] \in QuietTxn
        BY <4>1 DEF QuietTxn
      <4>3. QED
        BY <3>3, <4>2
    <3>4. End(w) => \E t \in QuietTxn : txn' = [txn EXCEPT ![w] = t]
      BY Shapes DEF End
    <3>5. QED
      BY <1>5, <3>1, <3>2, <3>3, <3>4 DEF ApplyInsert, ReviewWrite, ReviewTell, Goto
  <2>4. QED
    BY <1>2, <1>3, <2>1, <2>2, <2>3, QuietStep
<1>6. QED
  BY <1>4, <1>5 DEF ApplicationStep
-----------------------------------------------------------------------------
(* The digest.                                                             *)

LEMMA AlertsInUse ==
    ASSUME Digesting, DInv, AlertsStep
    PROVE  \/ \E w \in Workers : \/ DispatchRead(w) \/ SweepRead(w) \/ SweepStamp(w)
                                 \/ \E u \in Users : SweepMail(w, u)
           \/ Clock
<1>1. \A w \in Workers : txn[w].pc \notin {"subscribe", "alert", "alert_stamp"}
  BY Shapes DEF DInv, Typed, InSweep
<1>2. \A h \in {"subscribe", "unsubscribe", "crash"} : h \notin mix
  BY DEF Digesting
<1>3. QED
  BY <1>1, <1>2 DEF AlertsStep, SubscribeUpsert, SubscribeConfirm, FollowLink, Unsubscribe, AlertMail,
     AlertStamp, LoseSweep, Serve, Serves, Ready, At

\* Nobody takes instant alerts.
LEMMA DispatchKeeps ==
    ASSUME Digesting, DInv, UNCHANGED jobs, NEW w \in Workers, DispatchRead(w)
    PROVE  IInv'
<1>1. txn[w] \in QuietTxn /\ txn[w].posting \in Postings
  BY Shapes DEF DispatchRead, At, DInv, Typed, InSweep
<1>2. InstantList(txn[w].posting) = {}
  <2>1. KindOf[txn[w].posting] \in Kinds
    BY <1>1, JobAlertsAssumption, JobPostingsAssumption
  <2>2. QED
    BY <2>1, Rows DEF InstantList, Wanted, DInv
<1>3. End(w) /\ UNCHANGED alerts
  BY <1>2 DEF DispatchRead
<1>4. QED
  BY <1>1, <1>3, Shapes, QuietStep DEF End, alerts, jobs, DInv, Typed

\* A sweep at the tick when p is due lists the users who do not have it, with it.
LEMMA ReadKeeps ==
    ASSUME Digesting, DInv, UNCHANGED jobs, NEW w \in Workers, SweepRead(w)
    PROVE  IInv'
<1> DEFINE list == {u \in Users : Digest(u) # {}}
           t == [pc |-> "sweep", list |-> list, rows |-> sub, digest |-> [u \in Users |-> Digest(u)]]
<1>1. /\ UNCHANGED <<mix, now, posting, application, created, sub, digested>>
      /\ now % Day \in Ticks /\ txn[w] = Idle
      /\ txn' = [txn EXCEPT ![w] = IF list = {} THEN Idle ELSE t]
  BY DEF SweepRead, Serve, Ready, Hold, jobs
<1>2. txn \in [Workers -> QuietTxn \cup SweepTxn] /\ sub \in Subs
  BY DEF DInv, Typed
<1>3. /\ t \in SweepTxn /\ t.pc = "sweep" /\ t.list = list
      /\ \A u \in Users : t.digest[u] = Digest(u)
  <2>1. \A u \in Users : Digest(u) \in SUBSET Postings
    BY DEF Digest, Recent
  <2>2. [u \in Users |-> Digest(u)] \in [Users -> SUBSET Postings]
    BY <2>1
  <2>3. list \in SUBSET Users
    OBVIOUS
  <2> HIDE DEF list
  <2>4. QED
    BY <1>2, <2>2, <2>3 DEF SweepTxn
<1> HIDE DEF t
<1>4. /\ txn' \in [Workers -> QuietTxn \cup SweepTxn]
      /\ txn'[w] = IF list = {} THEN Idle ELSE t
      /\ \A v \in Workers \ {w} : txn'[v] = txn[v]
  BY <1>1, <1>2, <1>3, Shapes
<1>5. ASSUME NEW p \in Postings, NEW u \in Users, created[p] # None, now = due(p)
      PROVE  /\ p \in Digest(u) <=> sub[u][KindOf[p]].last # date(now)
             /\ Digest(u) # {} => p \in Digest(u)
  <2>1. p \in Recent
    <3>1. created[p] \in Nat
      BY <1>5 DEF DInv, Typed
    <3>2. created[p] + Day >= now
      BY <1>5, <3>1, Time DEF due
    <3>3. QED
      BY <1>5, <3>2, Finds
  <2>2. \A q \in Postings : KindOf[q] \in Kinds
    BY JobAlertsAssumption, JobPostingsAssumption
  <2>3. \A j, k \in Kinds : sub[u][j].last = sub[u][k].last
    BY DEF DInv, Stamped
  <2>4. Due(u) = {k \in Kinds : sub[u][k].last # date(now)}
    BY Finds
  <2>5. p \in Digest(u) <=> sub[u][KindOf[p]].last # date(now)
    BY <2>1, <2>2, <2>4 DEF Digest
  <2>6. Digest(u) # {} => sub[u][KindOf[p]].last # date(now)
    BY <2>2, <2>3, <2>4 DEF Digest, Recent
  <2>7. QED
    BY <2>5, <2>6
<1>6. ASSUME NEW p \in Postings, NEW u \in Users, created[p] # None, now = due(p)
      PROVE  Delivery(p, u)'
  <2>1. Delivery(p, u)
    BY <1>6 DEF DInv, Delivered
  <2>2. (sub[u][KindOf[p]].last = date(now) => p \in digested[u])'
    BY <1>1, <2>1 DEF Delivery, date
  <2>3. ASSUME NEW v \in Workers, InSweep(txn'[v])
        PROVE  /\ u \in txn'[v].list => p \in txn'[v].digest[u]
               /\ txn'[v].pc = "sweep_stamp" /\ txn'[v].u = u => p \in digested'[u]
    <3>1. CASE v # w
      BY <1>1, <1>4, <2>1, <2>3, <3>1 DEF Delivery
    <3>2. CASE v = w
      <4>1. txn'[v] = t
        BY <1>4, <2>3, <3>2, Shapes
      <4>2. QED
        BY <1>3, <1>5, <1>6, <4>1
    <3>3. QED
      BY <3>1, <3>2
  <2>4. p \in digested'[u] \/ \E v \in Workers : InSweep(txn'[v]) /\ u \in txn'[v].list
    <3>1. CASE sub[u][KindOf[p]].last = date(now)
      BY <1>1, <2>1, <3>1 DEF Delivery
    <3>2. CASE sub[u][KindOf[p]].last # date(now)
      <4>1. u \in list
        BY <1>5, <1>6, <3>2
      <4>2. txn'[w] = t
        BY <1>4, <4>1
      <4>3. InSweep(txn'[w]) /\ u \in txn'[w].list
        BY <1>3, <4>1, <4>2, Shapes
      <4>4. QED
        BY <4>3
    <3>3. QED
      BY <3>1, <3>2
  <2>5. QED
    BY <2>2, <2>3, <2>4 DEF Delivery
<1>7. Typed' /\ Inserted' /\ Stamped'
  BY <1>1, <1>4 DEF DInv, Typed, Inserted, Stamped, date
<1>8. Delivered'
  BY <1>1, <1>6 DEF DInv, Delivered, due
<1>9. QED
  BY <1>7, <1>8 DEF IInv, DInv

\* A step of a sweep that was read before.
LEMMA MailKeeps ==
    ASSUME Digesting, DInv, UNCHANGED jobs, NEW w \in Workers, NEW u \in Users, SweepMail(w, u)
    PROVE  IInv'
<1>1. PICK old \in SweepTxn : old = txn[w] /\ old.pc = "sweep"
  BY Shapes DEF SweepMail, At, DInv, Typed, InSweep
<1> DEFINE t == [pc |-> "sweep_stamp", u |-> u, list |-> old.list, rows |-> old.rows, digest |-> old.digest]
<1>2. /\ u \in old.list /\ txn' = [txn EXCEPT ![w] = t]
      /\ digested' = [digested EXCEPT ![u] = @ \cup old.digest[u]]
      /\ UNCHANGED <<mix, now, posting, application, created, sub, ticked>>
  BY <1>1 DEF SweepMail, jobs
<1>3. /\ t \in SweepTxn /\ t.pc = "sweep_stamp" /\ t.u = u
      /\ t.list = old.list /\ t.digest = old.digest
  BY <1>1, Shapes DEF SweepTxn
<1> HIDE DEF t
<1>4. /\ txn' \in [Workers -> QuietTxn \cup SweepTxn] /\ txn'[w] = t
      /\ \A v \in Workers \ {w} : txn'[v] = txn[v]
  BY <1>2, <1>3 DEF DInv, Typed
<1>5. /\ digested' \in [Users -> SUBSET Postings]
      /\ digested'[u] = digested[u] \cup old.digest[u]
      /\ \A x \in Users : digested[x] \subseteq digested'[x]
  BY <1>1, <1>2, Shapes DEF DInv, Typed
<1>6. ASSUME NEW p \in Postings, NEW x \in Users, Delivery(p, x)
      PROVE  Delivery(p, x)'
  <2>1. (sub[x][KindOf[p]].last = date(now) => p \in digested[x])'
    BY <1>2, <1>5, <1>6 DEF Delivery, date
  <2>2. ASSUME NEW v \in Workers, InSweep(txn'[v])
        PROVE  /\ x \in txn'[v].list => p \in txn'[v].digest[x]
               /\ txn'[v].pc = "sweep_stamp" /\ txn'[v].u = x => p \in digested'[x]
    <3>1. CASE v # w
      BY <1>4, <1>5, <1>6, <2>2, <3>1 DEF Delivery
    <3>2. CASE v = w
      <4>1. x \in old.list => p \in old.digest[x]
        BY <1>1, <1>6, Shapes DEF Delivery
      <4>2. QED
        BY <1>2, <1>3, <1>4, <1>5, <3>2, <4>1
    <3>3. QED
      BY <3>1, <3>2
  <2>3. (ticked # {} => \/ p \in digested[x]
                        \/ \E v \in Workers : InSweep(txn[v]) /\ x \in txn[v].list)'
    <3>1. ASSUME NEW v \in Workers, InSweep(txn[v]), x \in txn[v].list
          PROVE  InSweep(txn'[v]) /\ x \in txn'[v].list
      BY <1>1, <1>3, <1>4, <3>1, Shapes
    <3>2. QED
      BY <1>2, <1>5, <1>6, <3>1 DEF Delivery
  <2>4. QED
    BY <2>1, <2>2, <2>3 DEF Delivery
<1>7. Typed' /\ Inserted'
  BY <1>2, <1>4, <1>5 DEF DInv, Typed, Inserted
<1>8. Stamped'
  <2>1. now % Day \in Ticks
    BY <1>1, Shapes DEF DInv, Stamped
  <2>2. QED
    BY <1>2, <2>1 DEF DInv, Stamped, date
<1>9. Delivered'
  <2>1. ASSUME NEW p \in Postings, NEW x \in Users, created'[p] # None
        PROVE  /\ now' > due(p)' => p \in digested'[x]
               /\ now' = due(p)' => Delivery(p, x)'
    BY <1>2, <1>5, <1>6, <2>1 DEF DInv, Delivered, due
  <2>2. QED
    BY <2>1 DEF Delivered
<1>10. QED
  BY <1>7, <1>8, <1>9 DEF IInv, DInv

LEMMA StampKeeps ==
    ASSUME Digesting, DInv, UNCHANGED jobs, NEW w \in Workers, SweepStamp(w)
    PROVE  IInv'
<1>1. PICK old \in SweepTxn : old = txn[w] /\ old.pc = "sweep_stamp" /\ old.u \in Users
  BY Shapes DEF SweepStamp, At, DInv, Typed, InSweep
<1>2. PICK u \in Users : u = old.u
  BY <1>1
<1> DEFINE rest == old.list \ {u}
           t == [pc |-> "sweep", list |-> rest, rows |-> old.rows, digest |-> old.digest]
<1>3. /\ txn' = [txn EXCEPT ![w] = IF rest = {} THEN Idle ELSE t]
      /\ sub' = [sub EXCEPT ![u] = [k \in Kinds |->
                    IF @[k].frequency = "daily" THEN [@[k] EXCEPT !.last = date(now)] ELSE @[k]]]
      /\ UNCHANGED <<mix, now, posting, application, created, ticked, digested>>
  BY <1>1, <1>2 DEF SweepStamp, End, jobs
<1>4. t \in SweepTxn /\ t.pc = "sweep" /\ t.list = rest /\ t.digest = old.digest
  BY <1>1, Shapes DEF SweepTxn
<1> HIDE DEF t
<1>5. /\ txn' \in [Workers -> QuietTxn \cup SweepTxn]
      /\ txn'[w] = IF rest = {} THEN Idle ELSE t
      /\ \A v \in Workers \ {w} : txn'[v] = txn[v]
  BY <1>3, <1>4, Shapes DEF DInv, Typed
<1>6. now \in Nat /\ date(now) \in Nat /\ now % Day \in Ticks
  BY <1>1, Shapes, Time DEF DInv, Typed, Stamped
<1>7. /\ sub' \in Subs
      /\ \A x \in Users, k \in Kinds :
            sub'[x][k].last = IF x = u THEN date(now) ELSE sub[x][k].last
  <2>1. sub \in [Users -> [Kinds -> Row]]
    BY DEF DInv, Typed, Subs
  <2>2. \A r \in Row : [r EXCEPT !.last = date(now)] \in Row /\ [r EXCEPT !.last = date(now)].last = date(now)
    BY <1>6 DEF Row
  <2>3. \A k \in Kinds : sub[u][k] \in Row /\ sub[u][k].frequency = "daily"
    BY Rows DEF DInv
  <2>4. sub' = [sub EXCEPT ![u] = [k \in Kinds |-> [sub[u][k] EXCEPT !.last = date(now)]]]
    BY <1>3, <2>1, <2>3
  <2>5. QED
    BY <2>1, <2>2, <2>3, <2>4 DEF Subs
<1>8. Typed' /\ Inserted'
  BY <1>3, <1>5, <1>7 DEF DInv, Typed, Inserted
<1>9. Stamped'
  <2>1. \A x \in Users, j, k \in Kinds : sub'[x][j].last = sub'[x][k].last
    BY <1>7 DEF DInv, Stamped
  <2>2. date(now)' = date(now) /\ now' = now
    BY <1>3 DEF date
  <2>3. ASSUME NEW x \in Users, NEW k \in Kinds, sub'[x][k].last # None
        PROVE  /\ sub'[x][k].last <= date(now)
               /\ sub'[x][k].last = date(now) => now % Day \in Ticks
    BY <1>6, <1>7, <2>3 DEF DInv, Stamped
  <2>4. QED
    BY <1>6, <2>1, <2>2, <2>3 DEF Stamped
<1>10. ASSUME NEW p \in Postings, NEW x \in Users, Delivery(p, x)
       PROVE  Delivery(p, x)'
  <2>1. /\ x \in old.list => p \in old.digest[x]
        /\ x = u => p \in digested[x]
    BY <1>1, <1>2, <1>10, Shapes DEF Delivery
  <2>2. KindOf[p] \in Kinds /\ date(now)' = date(now)
    BY <1>3, JobAlertsAssumption, JobPostingsAssumption DEF date
  <2>3. sub'[x][KindOf[p]].last = date(now)' => p \in digested'[x]
    BY <1>3, <1>7, <1>10, <2>1, <2>2 DEF Delivery
  <2>4. ASSUME NEW v \in Workers, InSweep(txn'[v])
        PROVE  /\ x \in txn'[v].list => p \in txn'[v].digest[x]
               /\ txn'[v].pc = "sweep_stamp" /\ txn'[v].u = x => p \in digested'[x]
    <3>1. CASE v # w
      BY <1>3, <1>5, <1>10, <2>4, <3>1 DEF Delivery
    <3>2. CASE v = w
      <4>1. txn'[v] = t
        BY <1>5, <2>4, <3>2, Shapes
      <4>2. QED
        BY <1>4, <2>1, <4>1
    <3>3. QED
      BY <3>1, <3>2
  <2>5. (ticked # {} => \/ p \in digested[x]
                        \/ \E v \in Workers : InSweep(txn[v]) /\ x \in txn[v].list)'
    <3>1. ASSUME NEW v \in Workers, InSweep(txn[v]), x \in txn[v].list, x # u
          PROVE  InSweep(txn'[v]) /\ x \in txn'[v].list
      <4>1. CASE v # w
        BY <1>5, <3>1, <4>1
      <4>2. CASE v = w
        <5>1. x \in rest
          BY <1>1, <3>1, <4>2
        <5>2. txn'[v] = t
          BY <1>5, <4>2, <5>1
        <5>3. QED
          BY <1>4, <5>1, <5>2, Shapes
      <4>3. QED
        BY <4>1, <4>2
    <3>2. QED
      BY <1>3, <1>10, <2>1, <3>1 DEF Delivery
  <2>6. QED
    BY <2>3, <2>4, <2>5 DEF Delivery
<1>11. Delivered'
  <2>1. ASSUME NEW p \in Postings, NEW x \in Users, created'[p] # None
        PROVE  /\ now' > due(p)' => p \in digested'[x]
               /\ now' = due(p)' => Delivery(p, x)'
    BY <1>3, <1>10, <2>1 DEF DInv, Delivered, due
  <2>2. QED
    BY <2>1 DEF Delivered
<1>12. QED
  BY <1>8, <1>9, <1>11 DEF IInv, DInv

\* The clock reaches the tick with nobody stamped and no sweep under way, and
\* leaves it when a machine has swept.
LEMMA ClockKeeps ==
    ASSUME Digesting, DInv, UNCHANGED jobs, Clock
    PROVE  IInv'
<1>1. /\ now \in Nat /\ now' = now + 1 /\ ticked' = {}
      /\ \A w \in Workers : ~InSweep(txn[w])
      /\ now % Day \in Ticks => ticked # {}
      /\ UNCHANGED <<mix, txn, posting, application, created, sub, digested>>
  BY DEF Clock, Digesting, Sweeping, InSweep, Serves, requests, jobs, DInv, Typed
<1>2. \A p \in Postings : created[p] \in Nat \cup {None}
  BY DEF DInv, Typed
<1>3. Typed' /\ Inserted'
  BY <1>1, <1>2 DEF DInv, Typed, Inserted
<1>4. Stamped'
  <2>1. date(now)' = date(now + 1)
    BY <1>1 DEF date
  <2>2. ASSUME NEW u \in Users, NEW k \in Kinds, sub[u][k].last # None
        PROVE  /\ sub[u][k].last <= date(now + 1)
               /\ sub[u][k].last = date(now + 1) => (now + 1) % Day \in Ticks
    <3>1. sub[u][k].last \in Nat /\ sub[u][k].last <= date(now)
      BY <2>2, Rows DEF DInv, Stamped
    <3>2. /\ date(now) \in Nat /\ date(now + 1) \in Nat /\ date(now) <= date(now + 1)
          /\ (now + 1) % Day \notin Ticks => date(now) < date(now + 1)
      <4>1. now \in Nat
        BY <1>1
      <4>2. QED
        BY <4>1 DEF date, Day, Ticks
    <3>3. QED
      BY <3>1, <3>2
  <2>3. QED
    BY <1>1, <2>1, <2>2 DEF DInv, Stamped
<1>5. ASSUME NEW p \in Postings, NEW u \in Users, created[p] # None
      PROVE  /\ now + 1 > due(p) => p \in digested[u]
             /\ now + 1 = due(p) => Delivery(p, u)'
  <2>1. created[p] \in Nat /\ due(p) \in Nat /\ due(p) % Day \in Ticks
    BY <1>2, <1>5, Time DEF due
  <2>2. /\ now > due(p) => p \in digested[u]
        /\ now = due(p) => Delivery(p, u)
    BY <1>5 DEF DInv, Delivered
  <2>3. now = due(p) => p \in digested[u]
    BY <1>1, <2>1, <2>2 DEF Delivery
  <2>4. ASSUME now + 1 = due(p) PROVE Delivery(p, u)'
    <3>1. now % Day \notin Ticks /\ date(now + 1) = date(now)
      BY <1>1, <2>1, <2>4, Time DEF due
    <3>2. KindOf[p] \in Kinds
      BY JobAlertsAssumption, JobPostingsAssumption
    <3>3. sub[u][KindOf[p]].last # date(now)
      <4>1. date(now) # None
        BY <1>1, Time, JobAlertsAssumption, JobPostingsAssumption
      <4>2. QED
        BY <3>1, <3>2, <4>1 DEF DInv, Stamped
    <3>4. sub'[u][KindOf[p]].last # date(now)'
      BY <1>1, <3>1, <3>3 DEF date
    <3>5. QED
      BY <1>1, <3>4 DEF Delivery
  <2>5. QED
    BY <1>1, <2>1, <2>2, <2>3, <2>4
<1>6. Delivered'
  BY <1>1, <1>5 DEF Delivered, due
<1>7. QED
  BY <1>3, <1>4, <1>6 DEF IInv, DInv

-----------------------------------------------------------------------------
(* The invariant.                                                          *)

LEMMA InitIInv == ASSUME RequestsInit, JobsInit, AlertsInit PROVE IInv
<1> SUFFICES ASSUME Digesting PROVE DInv
  BY DEF IInv
<1>1. \A w \in Workers : txn[w] = Idle
  BY DEF RequestsInit
<1>2. \A p \in Postings : posting[p] \in {NoPosting, Active} /\ (posting[p].status = None <=> posting[p] = NoPosting)
  <2>1. NoPosting.status = None /\ Active.status = "active" /\ None # "active"
    BY JobAlertsAssumption, JobPostingsAssumption DEF NoPosting, Active, PostingStatuses
  <2>2. [NoPosting EXCEPT !.status = "active"] = Active
    <3>1. PICK no : no = FALSE
      OBVIOUS
    <3>2. NoPosting = [status |-> None, deleted |-> no] /\ Active = [status |-> "active", deleted |-> no]
      BY <3>1, Zenon DEF NoPosting, Active
    <3>3. QED
      BY <3>2
  <2>3. QED
    BY <2>1, <2>2 DEF JobsInit
<1>3. sub \in Subs /\ \A u \in Users, k \in Kinds : sub[u][k].last = None
  <2> DEFINE row == [NoSub EXCEPT !.frequency = "daily", !.confirmed = TRUE]
  <2>1. row \in Row /\ row.last = None
    BY DEF NoSub, Row
  <2>2. sub = [u \in Users |-> [k \in Kinds |-> row]]
    BY DEF AlertsInit, Digesting
  <2> HIDE DEF row
  <2>3. QED
    BY <2>1, <2>2 DEF Subs
<1>4. Typed
  BY <1>1, <1>2, <1>3, Shapes DEF Typed, RequestsInit, JobsInit, AlertsInit
<1>5. Inserted
  BY <1>2, JobAlertsAssumption, JobPostingsAssumption DEF Inserted, AlertsInit
<1>6. Stamped
  BY <1>1, <1>3, Shapes DEF Stamped
<1>7. Delivered
  <2>1. ASSUME NEW p \in Postings, created[p] # None
        PROVE  ~(now > due(p)) /\ now # due(p)
    <3>1. created[p] = 0 /\ now = 0
      BY <2>1 DEF AlertsInit
    <3>2. NextDay(0) \in Nat /\ 0 < NextDay(0)
      BY Time
    <3>3. QED
      BY <3>1, <3>2 DEF due
  <2>2. QED
    BY <2>1 DEF Delivered
<1>8. QED
  BY <1>4, <1>5, <1>6, <1>7 DEF DInv

\* The handlers in use do not change.
LEMMA MixKept == [JobStep]_jobVars => mix' = mix
<1> SUFFICES ASSUME [JobStep]_jobVars PROVE mix' = mix
  OBVIOUS
<1>1. JobsNext => mix' = mix
  <2>1. EmployerStep => mix' = mix
    BY DEF EmployerStep, CreatePosting, RetryRead, RetryInsert, Close, DeletePosting, ConfirmRead,
       ConfirmCommit, Dispatch, Serves, Hold, End, requests
  <2>2. DeskStep => mix' = mix
    BY DEF DeskStep, AdminCreate, PatchRead, ActivateRead, DeskWrite, Dispatch, Hold, End
  <2>3. ApplicationStep => mix' = mix
    BY DEF ApplicationStep, ApplyRead, ApplyInsert, Withdraw, ReviewRead, ReviewWrite, ReviewTell,
       Goto, Serves, Hold, End, requests
  <2>4. QED
    BY <2>1, <2>2, <2>3 DEF JobsNext
<1>2. ASSUME AlertsStep PROVE mix' = mix
  <2>1. ASSUME NEW w \in Workers,
               \/ \E u \in Users : \/ AlertMail(w, u) \/ SweepMail(w, u)
                                 \/ \E k \in Kinds, f \in {"instant", "daily"} : SubscribeUpsert(w, u, k, f)
               \/ SubscribeConfirm(w) \/ LoseSweep(w)
        PROVE  mix' = mix
    BY <2>1 DEF AlertMail, SweepMail, SubscribeUpsert, SubscribeConfirm, LoseSweep, Serve, Hold, End
  <2>2. ASSUME NEW w \in Workers, DispatchRead(w) \/ AlertStamp(w) PROVE mix' = mix
    BY <2>2 DEF DispatchRead, AlertStamp, End
  <2>3. ASSUME NEW w \in Workers, SweepRead(w) \/ SweepStamp(w) PROVE mix' = mix
    BY <2>3 DEF SweepRead, SweepStamp, Serve, Hold, End
  <2>4. ASSUME Clock \/ \E u \in Users : FollowLink(u) \/ \E S \in SUBSET Kinds : Unsubscribe(u, S)
        PROVE  mix' = mix
    BY <2>4 DEF Clock, FollowLink, Unsubscribe, Serves, requests
  <2>5. QED
    BY <1>2, <2>1, <2>2, <2>3, <2>4 DEF AlertsStep
<1>3. QED
  BY <1>1, <1>2 DEF JobStep, jobVars, requests

LEMMA NextIInv == IInv /\ [JobStep]_jobVars => IInv'
<1> SUFFICES ASSUME IInv, [JobStep]_jobVars PROVE IInv'
  OBVIOUS
<1>1. CASE ~Digesting
  <2>1. mix' = mix
    BY MixKept
  <2>2. QED
    BY <1>1, <2>1 DEF IInv, Digesting
<1>2. CASE Digesting /\ DInv
  <2>1. CASE UNCHANGED jobVars
    <3>1. UNCHANGED <<mix, txn, posting, application, now, created, sub, ticked, digested>>
      BY <2>1 DEF jobVars, requests, jobs, alerts
    <3>2. QED
      BY <1>2, <3>1, QuietKeeps DEF DInv, Typed, Inserted
  <2>2. CASE JobsNext /\ Created
    BY <1>2, <2>2, NotInUse, CreateStep, ApplicationKeeps
  <2>3. CASE AlertsStep /\ UNCHANGED jobs
    BY <1>2, <2>3, AlertsInUse, DispatchKeeps, ReadKeeps, MailKeeps, StampKeeps, ClockKeeps
  <2>4. QED
    BY <2>1, <2>2, <2>3 DEF JobStep
<1>3. QED
  BY <1>1, <1>2 DEF IInv

LEMMA Invariance == AlertsSpec => []IInv
BY InitIInv, NextIInv, PTL DEF AlertsSpec

\* However many machines sweep, and whatever else is posted and applied for,
\* every posting that stays active is in a digest of every user whose daily
\* subscription stands, within a day and a tick of its insertion.
THEOREM PostingsDelivered == AlertsSpec => []EveryPostingDigested
<1>1. IInv => EveryPostingDigested
  <2> SUFFICES ASSUME Digesting, DInv, NEW p \in Postings, NEW u \in Users,
                      created[p] # None, now > created[p] + Day
               PROVE  p \in digested[u]
    BY DEF IInv, EveryPostingDigested
  <2>1. created[p] \in Nat /\ now \in Nat
    BY DEF DInv, Typed
  <2>2. now > due(p)
    <3>1. NextDay(created[p]) \in Nat /\ NextDay(created[p]) <= created[p] + Day /\ Day \in Nat
      BY <2>1, Time DEF Day
    <3>2. QED
      BY <2>1, <3>1 DEF due
  <2>3. QED
    BY <2>2 DEF DInv, Delivered
<1>2. QED
  BY <1>1, Invariance, PTL

-----------------------------------------------------------------------------
(* Postings and applications.                                              *)

IsPosting(r) == r = [status |-> r.status, deleted |-> r.deleted] /\ r.deleted \in BOOLEAN

IsBill(r) == r = [posting |-> r.posting, order |-> r.order, paid |-> r.paid, flagged |-> r.flagged]

PostingRows ==
    /\ posting = [p \in Postings |-> posting[p]] /\ \A p \in Postings : IsPosting(posting[p])
    /\ bill = [k \in Bills |-> bill[k]] /\ \A k \in Bills : IsBill(bill[k])
    /\ \A k \in Bills : bill[k].order => bill[k].posting \in Postings
    /\ application = [p \in Postings |-> application[p]]
    /\ told = [p \in Postings |-> told[p]]
    /\ \A p \in Postings : application[p] = None => told[p] = "applied"

\* What a request has read, as long as it stands: an activation has not met a
\* closed posting, a confirmation knows whether there was one.
PostingTxn(t) ==
    /\ t.pc = "retry" => t.posting \in Postings
    /\ t.pc = "confirm" =>
          /\ t.bill \in Bills /\ t.posting \in Postings /\ bill[t.bill].posting = t.posting
          /\ ~t.gone => t.old.deleted = FALSE
    /\ t.pc \in {"patch", "activate"} => t.posting \in Postings /\ (t.pc = "activate" => t.old.status # "closed" /\ t.to = "active")
    /\ t.pc = "apply" => t.posting \in Postings
    /\ t.pc \in {"review", "tell"} =>
          /\ t = [pc |-> t.pc, posting |-> t.posting, to |-> t.to, prev |-> t.prev]
          /\ t.posting \in Postings /\ application[t.posting] # None /\ t.to \in ApplicationStatuses

PostingsInv ==
    /\ PostingRows
    /\ txn = [w \in Workers |-> txn[w]]
    /\ \A w \in Workers : PostingTxn(txn[w])

Quiet(t) == t.pc \notin {"retry", "confirm", "patch", "activate", "apply", "review", "tell"}

\* What requests rely on stays: a bill keeps its posting, an application is
\* not taken out.
PostingsKeep ==
    /\ \A k \in Bills : bill[k].posting # None => bill'[k].posting = bill[k].posting
    /\ \A p \in Postings : application[p] # None => application'[p] # None

LEMMA DeletedPosting ==
    ASSUME NEW r, r = [status |-> r.status, deleted |-> r.deleted], NEW x
    PROVE  [r EXCEPT !.deleted = x] = [status |-> r.status, deleted |-> x]
OBVIOUS

LEMMA PostingStep ==
    ASSUME PostingsInv, PostingRows',
           PostingsKeep,
           NEW w \in Workers, NEW t, PostingTxn(t)', txn' = [txn EXCEPT ![w] = t]
    PROVE  PostingsInv'
<1>1. ASSUME NEW v \in Workers PROVE PostingTxn(txn[v])'
  <2>1. CASE v = w
    <3>1. txn'[v] = t
      BY <2>1 DEF PostingsInv
    <3>2. QED
      BY <3>1
  <2>2. CASE v # w
    <3>1. txn'[v] = txn[v] /\ PostingTxn(txn[v])
      BY <2>2 DEF PostingsInv
    <3>2. QED
      BY <3>1, JobPostingsAssumption DEF PostingTxn, PostingsKeep
  <2>3. QED
    BY <2>1, <2>2
<1>2. QED
  BY <1>1 DEF PostingsInv

\* A step that no request takes.
LEMMA PostingStays ==
    ASSUME PostingsInv, PostingRows', PostingsKeep, UNCHANGED txn
    PROVE  PostingsInv'
<1>1. ASSUME NEW v \in Workers PROVE PostingTxn(txn[v])'
  <2>1. PostingTxn(txn[v])
    BY DEF PostingsInv
  <2>2. QED
    BY <2>1, JobPostingsAssumption DEF PostingTxn, PostingsKeep
<1>2. QED
  BY <1>1 DEF PostingsInv

LEMMA PostingEnds ==
    ASSUME PostingsInv, PostingRows', PostingsKeep, NEW w \in Workers, End(w)
    PROVE  PostingsInv'
<1>1. PostingTxn(Idle)'
  BY DEF PostingTxn, Idle
<1>2. QED
  BY <1>1, PostingStep DEF End

\* A request reads, and nothing is written.
LEMMA PostingReads ==
    ASSUME PostingsInv, UNCHANGED jobs, NEW w \in Workers, NEW t, PostingTxn(t),
           txn' = [txn EXCEPT ![w] = t]
    PROVE  PostingsInv'
<1>1. PostingRows' /\ PostingsKeep /\ PostingTxn(t)'
  BY DEF jobs, PostingsInv, PostingRows, PostingsKeep, PostingTxn
<1>2. QED
  BY <1>1, PostingStep

\* One row of a table changes.
LEMMA OnePosting ==
    ASSUME PostingsInv, UNCHANGED <<bill, application, told>>, NEW p \in Postings, NEW row, IsPosting(row),
           posting' = [posting EXCEPT ![p] = row]
    PROVE  PostingRows' /\ PostingsKeep
BY DEF PostingsInv, PostingRows, PostingsKeep

LEMMA PostingStatus ==
    ASSUME PostingsInv, NEW p \in Postings, NEW s
    PROVE  /\ IsPosting([posting[p] EXCEPT !.status = s]) /\ IsPosting([posting[p] EXCEPT !.deleted = TRUE])
           /\ [posting[p] EXCEPT !.status = s] = [status |-> s, deleted |-> posting[p].deleted]
<1>1. PICK r : r = posting[p] /\ IsPosting(r)
  BY DEF PostingsInv, PostingRows
<1>2. [r EXCEPT !.status = s] = [status |-> s, deleted |-> r.deleted]
  BY <1>1 DEF IsPosting
<1>3. [r EXCEPT !.deleted = TRUE] = [status |-> r.status, deleted |-> TRUE]
  BY <1>1, DeletedPosting DEF IsPosting
<1>4. QED
  BY <1>1, <1>2, <1>3 DEF IsPosting

LEMMA OneApplication ==
    ASSUME PostingsInv, UNCHANGED <<posting, bill, told>>, NEW p \in Postings, NEW s, s # None,
           application' = [application EXCEPT ![p] = s]
    PROVE  PostingRows' /\ PostingsKeep
BY DEF PostingsInv, PostingRows, PostingsKeep

LEMMA PaidFields ==
    ASSUME NEW r, IsBill(r), NEW x, NEW y
    PROVE  [r EXCEPT !.paid = x, !.flagged = y]
             = [posting |-> r.posting, order |-> r.order, paid |-> x, flagged |-> y]
<1>1. PICK q : q = [r EXCEPT !.paid = x]
  OBVIOUS
<1>2. q = [posting |-> r.posting, order |-> r.order, paid |-> x, flagged |-> r.flagged]
  BY <1>1 DEF IsBill
<1>3. [q EXCEPT !.flagged = y] = [posting |-> r.posting, order |-> r.order, paid |-> x, flagged |-> y]
  BY <1>2
<1>4. QED
  BY <1>1, <1>3

LEMMA NewBillFields ==
    ASSUME NEW p, NEW o
    PROVE  [NoBill EXCEPT !.posting = p, !.order = o]
             = [posting |-> p, order |-> o, paid |-> NoBill.paid, flagged |-> NoBill.flagged]
<1>1. PICK r : r = NoBill
  OBVIOUS
<1>2. PICK q : q = [r EXCEPT !.posting = p]
  OBVIOUS
<1>3. q = [posting |-> p, order |-> r.order, paid |-> r.paid, flagged |-> r.flagged]
  BY <1>1, <1>2 DEF NoBill
<1>4. [q EXCEPT !.order = o] = [posting |-> p, order |-> o, paid |-> r.paid, flagged |-> r.flagged]
  BY <1>3
<1>5. QED
  BY <1>1, <1>2, <1>4

LEMMA NewBillRow ==
    ASSUME PostingsInv, UNCHANGED <<application, told>>, posting' = [p \in Postings |-> posting'[p]],
           \A p \in Postings : IsPosting(posting'[p]), NEW k \in Bills, NEW p \in Postings, NewBill(k),
           \E order \in BOOLEAN : bill' = [bill EXCEPT ![k] = [NoBill EXCEPT !.posting = p, !.order = order]]
    PROVE  PostingRows' /\ PostingsKeep
<1>1. PICK order \in BOOLEAN : bill' = [bill EXCEPT ![k] = [NoBill EXCEPT !.posting = p, !.order = order]]
  OBVIOUS
<1>2. [NoBill EXCEPT !.posting = p, !.order = order] = [posting |-> p, order |-> order, paid |-> NoBill.paid, flagged |-> NoBill.flagged]
  BY NewBillFields, Zenon
<1>3. bill' = [j \in Bills |-> bill'[j]] /\ \A j \in Bills : IsBill(bill'[j])
  BY <1>1, <1>2 DEF PostingsInv, PostingRows, IsBill
<1>4. \A j \in Bills : bill'[j].order => bill'[j].posting \in Postings
  BY <1>1, <1>2 DEF PostingsInv, PostingRows
<1>5. PostingsKeep
  BY <1>1, <1>2 DEF PostingsInv, PostingRows, PostingsKeep, NewBill
<1>6. QED
  BY <1>3, <1>4, <1>5 DEF PostingsInv, PostingRows

LEMMA EmployerKeeps == ASSUME PostingsInv, EmployerStep PROVE PostingsInv'
<1>1. ASSUME NEW p \in Postings, NEW k \in Bills, CreatePosting(p, k) PROVE PostingsInv'
  <2>1. posting' = [posting EXCEPT ![p] = [posting[p] EXCEPT !.status = "pending_payment"]]
    BY <1>1 DEF CreatePosting
  <2>2. posting' = [q \in Postings |-> posting'[q]] /\ \A q \in Postings : IsPosting(posting'[q])
    BY <2>1, PostingStatus DEF PostingsInv, PostingRows
  <2>3. QED
    BY <1>1, <2>2, NewBillRow, PostingStays DEF CreatePosting, Serves, requests
<1>2. ASSUME NEW w \in Workers, NEW p \in Postings, RetryRead(w, p) PROVE PostingsInv'
  <2>1. PostingTxn([pc |-> "retry", posting |-> p, old |-> posting[p]])
    BY DEF PostingTxn
  <2>2. QED
    BY <1>2, <2>1, PostingReads DEF RetryRead, Hold
<1>3. ASSUME NEW w \in Workers, NEW k \in Bills, RetryInsert(w, k) PROVE PostingsInv'
  <2>1. txn[w].posting \in Postings
    BY <1>3 DEF RetryInsert, At, PostingsInv, PostingTxn
  <2>2. QED
    BY <1>3, <2>1, NewBillRow, PostingEnds DEF RetryInsert, PostingsInv, PostingRows
<1>4. ASSUME NEW w \in Workers, NEW k \in Bills, ConfirmRead(w, k) PROVE PostingsInv'
  <2>1. PostingTxn([pc |-> "confirm", bill |-> k, posting |-> bill[k].posting,
                    old |-> posting[bill[k].posting], gone |-> ~Exists(bill[k].posting)])
    BY <1>4 DEF PostingTxn, ConfirmRead, Exists, PostingsInv, PostingRows, IsPosting
  <2>2. QED
    BY <1>4, <2>1, PostingReads DEF ConfirmRead, Hold
<1>5. ASSUME NEW p \in Postings, Close(p) \/ DeletePosting(p) PROVE PostingsInv'
  <2>1. PICK row : IsPosting(row) /\ posting' = [posting EXCEPT ![p] = row]
    BY <1>5, PostingStatus DEF Close, DeletePosting
  <2>2. QED
    BY <1>5, <2>1, OnePosting, PostingStays DEF Close, DeletePosting, Serves, requests
<1>6. ASSUME NEW w \in Workers, ConfirmCommit(w) PROVE PostingsInv'
  <2> DEFINE t == txn[w]
  <2>1. t.bill \in Bills /\ t.posting \in Postings
    BY <1>6 DEF ConfirmCommit, At, PostingsInv, PostingTxn
  <2>2. posting' = [q \in Postings |-> posting'[q]] /\ \A q \in Postings : IsPosting(posting'[q])
    <3>1. CASE t.gone \/ t.old.status = "active"
      BY <1>6, <3>1 DEF ConfirmCommit, PostingsInv, PostingRows
    <3>2. CASE ~(t.gone \/ t.old.status = "active")
      <4>1. posting' = [posting EXCEPT ![t.posting] = [posting[t.posting] EXCEPT !.status = "active"]]
        BY <1>6, <3>2 DEF ConfirmCommit
      <4>2. QED
        BY <2>1, <4>1, PostingStatus DEF PostingsInv, PostingRows
    <3>3. QED
      BY <3>1, <3>2
  <2>3. PICK b : b = bill[t.bill]
    OBVIOUS
  <2>4. PICK x : bill' = [bill EXCEPT ![t.bill] = [b EXCEPT !.paid = TRUE, !.flagged = x]]
    BY <1>6, <2>1, <2>3 DEF ConfirmCommit, PostingsInv, PostingRows
  <2>5. [b EXCEPT !.paid = TRUE, !.flagged = x] = [posting |-> b.posting, order |-> b.order, paid |-> TRUE, flagged |-> x]
    <3>1. IsBill(b)
      BY <2>1, <2>3 DEF PostingsInv, PostingRows
    <3>2. QED
      BY <3>1, PaidFields, Zenon
  <2>6. PostingRows' /\ PostingsKeep
    <3>1. bill' = [j \in Bills |-> bill'[j]]
      BY <2>4 DEF PostingsInv, PostingRows
    <3>2. \A j \in Bills : /\ IsBill(bill'[j]) /\ bill'[j].posting = bill[j].posting
                           /\ bill'[j].order = bill[j].order
      BY <2>1, <2>3, <2>4, <2>5 DEF PostingsInv, PostingRows, IsBill
    <3>3. QED
      BY <1>6, <2>2, <3>1, <3>2 DEF ConfirmCommit, PostingsInv, PostingRows, PostingsKeep
  <2>7. PostingTxn([pc |-> "dispatch", posting |-> t.posting])'
    BY DEF PostingTxn
  <2>8. QED
    BY <1>6, <2>6, <2>7, PostingEnds, PostingStep DEF ConfirmCommit, Dispatch
<1>7. QED
  BY <1>1, <1>2, <1>3, <1>4, <1>5, <1>6 DEF EmployerStep

LEMMA DeskKeeps == ASSUME PostingsInv, DeskStep PROVE PostingsInv'
<1>1. ASSUME NEW w \in Workers, NEW p \in Postings, AdminCreate(w, p) PROVE PostingsInv'
  <2>1. posting' = [posting EXCEPT ![p] = [posting[p] EXCEPT !.status = "active"]]
    BY <1>1 DEF AdminCreate
  <2>2. PostingTxn([pc |-> "dispatch", posting |-> p])'
    BY DEF PostingTxn
  <2>3. QED
    BY <1>1, <2>1, <2>2, PostingStatus, OnePosting, PostingStep DEF AdminCreate, Hold
<1>2. ASSUME NEW w \in Workers, NEW p \in Postings, ActivateRead(w, p) PROVE PostingsInv'
  <2>1. PostingTxn([pc |-> "activate", posting |-> p, to |-> "active", old |-> posting[p]])
    BY <1>2 DEF PostingTxn, ActivateRead
  <2>2. QED
    BY <1>2, <2>1, PostingReads DEF ActivateRead, Hold
<1>3. ASSUME NEW w \in Workers, NEW p \in Postings, NEW s \in PostingStatuses \cup {None}, PatchRead(w, p, s)
      PROVE  PostingsInv'
  <2>1. PostingTxn([pc |-> "patch", posting |-> p, to |-> s, old |-> posting[p]])
    BY DEF PostingTxn
  <2>2. QED
    BY <1>3, <2>1, PostingReads DEF PatchRead, Hold
<1>4. ASSUME NEW w \in Workers, DeskWrite(w) PROVE PostingsInv'
  <2>1. txn[w].posting \in Postings
    BY <1>4 DEF DeskWrite, At, PostingsInv, PostingTxn
  <2>2. PICK s : posting' = [posting EXCEPT ![txn[w].posting] = [posting[txn[w].posting] EXCEPT !.status = s]]
    BY <1>4 DEF DeskWrite
  <2>3. PostingRows' /\ PostingsKeep
    <3>1. IsPosting([posting[txn[w].posting] EXCEPT !.status = s])
      BY <2>1, PostingStatus
    <3>2. UNCHANGED <<bill, application, told>>
      BY <1>4 DEF DeskWrite
    <3>3. QED
      BY <2>1, <2>2, <3>1, <3>2, OnePosting
  <2>4. PostingTxn([pc |-> "dispatch", posting |-> txn[w].posting])'
    BY DEF PostingTxn
  <2>5. QED
    BY <1>4, <2>3, <2>4, PostingEnds, PostingStep DEF DeskWrite, Dispatch
<1>5. QED
  BY <1>1, <1>2, <1>3, <1>4 DEF DeskStep

LEMMA ApplicantKeeps == ASSUME PostingsInv, ApplicationStep PROVE PostingsInv'
<1>1. ASSUME NEW w \in Workers, NEW p \in Postings, ApplyRead(w, p) PROVE PostingsInv'
  <2>1. PostingTxn([pc |-> "apply", posting |-> p, old |-> posting[p]])
    BY DEF PostingTxn
  <2>2. QED
    BY <1>1, <2>1, PostingReads DEF ApplyRead, Hold
<1>2. ASSUME NEW w \in Workers, ApplyInsert(w) PROVE PostingsInv'
  <2>1. PICK p \in Postings : p = txn[w].posting
    BY <1>2 DEF ApplyInsert, At, PostingsInv, PostingTxn
  <2>2. CASE application[p] = None
    <3>1. application' = [application EXCEPT ![p] = "applied"]
      BY <1>2, <2>1, <2>2 DEF ApplyInsert
    <3>2. PostingRows' /\ PostingsKeep
      BY <1>2, <2>2, <3>1 DEF PostingsInv, PostingRows, PostingsKeep, ApplyInsert
    <3>3. QED
      BY <1>2, <3>2, PostingEnds DEF ApplyInsert
  <2>3. CASE application[p] # None
    <3>1. application' = [application EXCEPT ![p] = application[p]]
      BY <1>2, <2>1, <2>3 DEF ApplyInsert
    <3>2. QED
      BY <1>2, <2>3, <3>1, OneApplication, PostingEnds DEF ApplyInsert
  <2>4. QED
    BY <2>2, <2>3
<1>3. ASSUME NEW w \in Workers, ReviewWrite(w) PROVE PostingsInv'
  <2> DEFINE t == txn[w]
  <2>1. t.posting \in Postings /\ application[t.posting] # None /\ t.to \in ApplicationStatuses
        /\ t = [pc |-> "review", posting |-> t.posting, to |-> t.to, prev |-> t.prev]
    BY <1>3 DEF ReviewWrite, At, PostingsInv, PostingTxn
  <2>2. PostingRows' /\ PostingsKeep
    <3>1. t.to # None /\ application' = [application EXCEPT ![t.posting] = t.to]
      BY <1>3, <2>1, JobPostingsAssumption DEF ReviewWrite
    <3>2. QED
      BY <1>3, <2>1, <3>1, OneApplication DEF ReviewWrite
  <2>3. CASE End(w)
    BY <2>2, <2>3, PostingEnds
  <2>4. CASE Goto(w, "tell") /\ ~End(w)
    <3>1. PICK x : x = [t EXCEPT !.pc = "tell"]
      OBVIOUS
    <3>2. x = [pc |-> "tell", posting |-> t.posting, to |-> t.to, prev |-> t.prev]
      BY <2>1, <3>1
    <3>3. PostingTxn(x)'
      BY <2>1, <2>2, <3>2 DEF PostingTxn, PostingsKeep
    <3>4. txn' = [txn EXCEPT ![w] = x]
      BY <2>4, <3>1 DEF Goto, PostingsInv
    <3>5. QED
      BY <2>2, <3>3, <3>4, PostingStep
  <2>5. QED
    BY <1>3, <2>3, <2>4 DEF ReviewWrite
<1>4. ASSUME NEW w \in Workers, ReviewTell(w) PROVE PostingsInv'
  <2>1. txn[w].posting \in Postings /\ application[txn[w].posting] # None
    BY <1>4 DEF ReviewTell, At, PostingsInv, PostingTxn
  <2>2. PostingRows' /\ PostingsKeep
    BY <1>4, <2>1 DEF ReviewTell, PostingsInv, PostingRows, PostingsKeep
  <2>3. QED
    BY <1>4, <2>2, PostingEnds DEF ReviewTell
<1>5. ASSUME NEW p \in Postings, Withdraw(p) PROVE PostingsInv'
  <2>1. PostingRows' /\ PostingsKeep
    BY <1>5, OneApplication, JobPostingsAssumption DEF Withdraw, ApplicationStatuses
  <2>2. QED
    BY <1>5, <2>1, PostingStays DEF Withdraw, Serves, requests
<1>6. ASSUME NEW w \in Workers, NEW p \in Postings, NEW s \in ApplicationStatuses, ReviewRead(w, p, s)
      PROVE  PostingsInv'
  <2>1. PostingTxn([pc |-> "review", posting |-> p, to |-> s, prev |-> application[p]])
    BY <1>6 DEF PostingTxn, ReviewRead
  <2>2. QED
    BY <1>6, <2>1, PostingReads DEF ReviewRead, Hold
<1>7. QED
  BY <1>1, <1>2, <1>3, <1>4, <1>5, <1>6 DEF ApplicationStep

\* A step of subscribers, digests or the clock takes no request on postings.
AlertPcs == {"idle", "dispatch", "subscribe", "alert", "alert_stamp", "sweep", "sweep_stamp"}

LEMMA AlertsQuiet ==
    ASSUME PostingsInv, AlertsStep
    PROVE  UNCHANGED txn \/ \E w \in Workers : \E t :
             txn' = [txn EXCEPT ![w] = t] /\ txn[w].pc \in AlertPcs /\ t.pc \in AlertPcs
<1>1. ASSUME NEW w \in Workers, NEW u \in Users, \/ AlertMail(w, u) \/ SweepMail(w, u)
               \/ \E k \in Kinds, f \in {"instant", "daily"} : SubscribeUpsert(w, u, k, f)
      PROVE  \E t : txn' = [txn EXCEPT ![w] = t] /\ txn[w].pc \in AlertPcs /\ t.pc \in AlertPcs
  <2>1. CASE AlertMail(w, u)
    <3>1. PICK x : x = [pc |-> "alert_stamp", u |-> u, posting |-> txn[w].posting,
                        list |-> txn[w].list, rows |-> txn[w].rows]
      OBVIOUS
    <3>2. txn' = [txn EXCEPT ![w] = x]
      BY <2>1, <3>1 DEF AlertMail, PostingsInv
    <3>3. QED
      BY <2>1, <3>1, <3>2 DEF AlertMail, At, AlertPcs
  <2>2. CASE SweepMail(w, u)
    <3>1. PICK x : x = [pc |-> "sweep_stamp", u |-> u, list |-> txn[w].list, rows |-> txn[w].rows,
                        digest |-> txn[w].digest]
      OBVIOUS
    <3>2. txn' = [txn EXCEPT ![w] = x]
      BY <2>2, <3>1 DEF SweepMail
    <3>3. QED
      BY <2>2, <3>1, <3>2 DEF SweepMail, At, AlertPcs
  <2>3. ASSUME NEW k \in Kinds, NEW f \in {"instant", "daily"}, SubscribeUpsert(w, u, k, f)
        PROVE  \E t : txn' = [txn EXCEPT ![w] = t] /\ txn[w].pc \in AlertPcs /\ t.pc \in AlertPcs
    <3>1. PICK x : x = [pc |-> "subscribe", u |-> u]
      OBVIOUS
    <3>2. txn' = [txn EXCEPT ![w] = x] /\ txn[w] = Idle
      BY <2>3, <3>1 DEF SubscribeUpsert, Serve, Ready, Hold
    <3>3. QED
      <4>1. txn[w].pc = "idle" /\ x.pc = "subscribe"
        BY <3>1, <3>2 DEF Idle
      <4>2. QED
        BY <3>2, <4>1 DEF AlertPcs
  <2>4. QED
    BY <1>1, <2>1, <2>2, <2>3
<1>2. ASSUME NEW w \in Workers, SubscribeConfirm(w) \/ DispatchRead(w) \/ AlertStamp(w) \/ SweepStamp(w) \/ LoseSweep(w)
      PROVE  \E t : txn' = [txn EXCEPT ![w] = t] /\ txn[w].pc \in AlertPcs /\ t.pc \in AlertPcs
  <2>1. Idle.pc = "idle"
    BY DEF Idle
  <2>2. CASE SubscribeConfirm(w) \/ DispatchRead(w) \/ LoseSweep(w)
    BY <2>1, <2>2 DEF SubscribeConfirm, DispatchRead, LoseSweep, End, At, AlertPcs
  <2>3. CASE AlertStamp(w)
    BY <2>1, <2>3 DEF AlertStamp, End, At, AlertPcs
  <2>4. CASE SweepStamp(w)
    BY <2>1, <2>4 DEF SweepStamp, End, At, AlertPcs
  <2>5. QED
    BY <1>2, <2>2, <2>3, <2>4
<1>3. ASSUME NEW w \in Workers, SweepRead(w)
      PROVE  \E t : txn' = [txn EXCEPT ![w] = t] /\ txn[w].pc \in AlertPcs /\ t.pc \in AlertPcs
  BY <1>3 DEF SweepRead, Serve, Ready, Hold, AlertPcs, Idle
<1>4. ASSUME Clock \/ \E u \in Users : FollowLink(u) \/ \E S \in SUBSET Kinds : Unsubscribe(u, S)
      PROVE  UNCHANGED txn
  BY <1>4 DEF Clock, FollowLink, Unsubscribe, Serves, requests
<1>5. QED
  BY <1>1, <1>2, <1>3, <1>4 DEF AlertsStep

LEMMA PostingsInit == ASSUME RequestsInit, JobsInit PROVE PostingsInv
<1>1. \A p \in Postings : IsPosting(posting[p])
  <2>1. IsPosting(NoPosting)
    BY DEF NoPosting, IsPosting
  <2>2. PICK x : x = [NoPosting EXCEPT !.status = "active"]
    OBVIOUS
  <2>3. IsPosting(x)
    BY <2>2 DEF NoPosting, IsPosting
  <2>4. QED
    BY <2>1, <2>2, <2>3 DEF JobsInit
<1>2. IsBill(NoBill) /\ ~NoBill.order
  BY DEF NoBill, IsBill
<1>3. PostingRows
  BY <1>1, <1>2 DEF JobsInit, PostingRows
<1>4. PostingTxn(Idle)
  BY DEF PostingTxn, Idle
<1>5. QED
  BY <1>3, <1>4 DEF RequestsInit, PostingsInv

LEMMA PostingsNext == PostingsInv /\ [JobStep]_jobVars => PostingsInv'
<1> SUFFICES ASSUME PostingsInv, [JobStep]_jobVars PROVE PostingsInv'
  OBVIOUS
<1>1. ASSUME UNCHANGED jobs PROVE PostingRows' /\ PostingsKeep
  BY <1>1 DEF PostingsInv, PostingRows, PostingsKeep, jobs
<1>2. CASE UNCHANGED jobVars
  BY <1>1, <1>2, PostingStays DEF jobVars, requests
<1>3. CASE JobsNext
  BY <1>3, EmployerKeeps, DeskKeeps, ApplicantKeeps DEF JobsNext
<1>4. CASE AlertsStep /\ UNCHANGED jobs
  <2>1. ASSUME NEW w \in Workers, NEW t, txn' = [txn EXCEPT ![w] = t], t.pc \in AlertPcs PROVE PostingsInv'
    BY <1>1, <1>4, <2>1, PostingStep DEF PostingTxn, AlertPcs
  <2>2. QED
    BY <1>1, <1>4, <2>1, AlertsQuiet, PostingStays
<1>5. QED
  BY <1>2, <1>3, <1>4 DEF JobStep

LEMMA PostingsInvariance == AlertsSpec => []PostingsInv
<1>1. RequestsInit /\ JobsInit => PostingsInv
  BY PostingsInit
<1>2. QED
  BY <1>1, PostingsNext, PTL DEF AlertsSpec

\* A fee collected publishes the posting or is flagged, and what is closed
\* stays closed, unless a request wrote what it had read before a change.
THEOREM ClosedPostingsStay == AlertsSpec => OnlyStaleWritesUndo
<1>1. PostingsInv /\ [JobStep]_jobVars =>
        [/\ \A k \in Bills :
              ~bill[k].paid /\ bill'[k].paid =>
                 \/ bill'[k].flagged
                 \/ posting'[bill[k].posting] = [status |-> "active", deleted |-> FALSE]
                 \/ ~JobsFresh
         /\ \A p \in Postings :
              posting[p].status = "closed" /\ posting'[p].status = "active" =>
                 \/ \E w \in Workers : Steps(w) /\ (At(w, "patch") \/ At(w, "confirm"))
                 \/ ~JobsFresh]_<<bill, posting>>
  <2> SUFFICES ASSUME PostingsInv, [JobStep]_jobVars, ~UNCHANGED <<bill, posting>>
               PROVE  /\ \A k \in Bills :
                            ~bill[k].paid /\ bill'[k].paid =>
                               \/ bill'[k].flagged
                               \/ posting'[bill[k].posting] = [status |-> "active", deleted |-> FALSE]
                               \/ ~JobsFresh
                      /\ \A p \in Postings :
                            posting[p].status = "closed" /\ posting'[p].status = "active" =>
                               \/ \E w \in Workers : Steps(w) /\ (At(w, "patch") \/ At(w, "confirm"))
                               \/ ~JobsFresh
    OBVIOUS
  <2>1. JobsNext
    BY DEF JobStep, jobVars, jobs
  <2>2. ASSUME NEW w \in Workers, ConfirmCommit(w)
        PROVE  /\ Steps(w) /\ At(w, "confirm")
               /\ \A k \in Bills : ~bill[k].paid /\ bill'[k].paid =>
                     \/ bill'[k].flagged
                     \/ posting'[bill[k].posting] = [status |-> "active", deleted |-> FALSE]
                     \/ ~JobsFresh
    <3> DEFINE t == txn[w]
    <3>1. /\ t.pc = "confirm" /\ t.bill \in Bills /\ t.posting \in Postings /\ bill[t.bill].posting = t.posting
          /\ ~t.gone => t.old.deleted = FALSE
      BY <2>2 DEF ConfirmCommit, At, PostingsInv, PostingTxn
    <3>2. Steps(w)
      <4>1. Idle.pc = "idle"
        BY DEF Idle
      <4>2. txn'[w].pc \in {"idle", "dispatch"}
        BY <2>2, <4>1 DEF ConfirmCommit, End, Dispatch, PostingsInv
      <4>3. QED
        BY <3>1, <4>2 DEF Steps
    <3>3. SUFFICES ASSUME NEW k \in Bills, ~bill[k].paid, bill'[k].paid, ~bill'[k].flagged, JobsFresh
                   PROVE  posting'[bill[k].posting] = [status |-> "active", deleted |-> FALSE]
      BY <2>2, <3>2 DEF ConfirmCommit
    <3>4. k = t.bill /\ ~t.gone
      <4>1. PICK x : x = (bill[t.bill].flagged \/ t.gone)
        OBVIOUS
      <4>2. bill' = [bill EXCEPT ![t.bill] = [bill[t.bill] EXCEPT !.paid = TRUE, !.flagged = x]]
        BY <2>2, <3>1, <4>1 DEF ConfirmCommit, PostingsInv, PostingRows
      <4>3. bill'[t.bill].flagged = x
        <5>1. IsBill(bill[t.bill])
          BY <3>1 DEF PostingsInv, PostingRows
        <5>2. [bill[t.bill] EXCEPT !.paid = TRUE, !.flagged = x]
                = [posting |-> bill[t.bill].posting, order |-> bill[t.bill].order, paid |-> TRUE, flagged |-> x]
          BY <5>1, PaidFields, Zenon
        <5>3. bill'[t.bill] = [posting |-> bill[t.bill].posting, order |-> bill[t.bill].order, paid |-> TRUE, flagged |-> x]
          BY <3>1, <4>2, <5>2 DEF PostingsInv, PostingRows
        <5>4. QED
          BY <5>3
      <4>4. k = t.bill
        BY <3>1, <3>3, <4>2 DEF PostingsInv, PostingRows
      <4>5. QED
        BY <3>3, <4>1, <4>3, <4>4, Zenon
    <3>5. posting[t.posting] = t.old
      BY <3>1, <3>2, <3>3 DEF JobsFresh, JobsStale
    <3>6. posting[t.posting].deleted = FALSE
      BY <3>1, <3>4, <3>5
    <3>7. CASE t.old.status = "active"
      <4>1. posting' = posting
        BY <2>2, <3>7 DEF ConfirmCommit
      <4>2. QED
        BY <3>1, <3>4, <3>5, <3>6, <3>7, <4>1 DEF PostingsInv, PostingRows, IsPosting
    <3>8. CASE t.old.status # "active"
      <4>1. posting' = [posting EXCEPT ![t.posting] = [posting[t.posting] EXCEPT !.status = "active"]]
        BY <2>2, <3>4, <3>8 DEF ConfirmCommit
      <4>2. posting'[t.posting] = [status |-> "active", deleted |-> posting[t.posting].deleted]
        BY <3>1, <4>1, PostingStatus DEF PostingsInv, PostingRows
      <4>3. QED
        BY <3>1, <3>4, <3>6, <4>2
    <3>9. QED
      BY <3>7, <3>8
  <2>3. ASSUME NEW w \in Workers, DeskWrite(w)
        PROVE  /\ bill' = bill
               /\ \A p \in Postings : posting[p].status = "closed" /\ posting'[p].status = "active" =>
                     \/ Steps(w) /\ At(w, "patch")
                     \/ ~JobsFresh
    <3> DEFINE t == txn[w]
    <3>1. Steps(w)
      <4>1. Idle.pc = "idle"
        BY DEF Idle
      <4>2. txn'[w].pc \in {"idle", "dispatch"} /\ t.pc \in {"patch", "activate"}
        BY <2>3, <4>1 DEF DeskWrite, End, Dispatch, PostingsInv, At
      <4>3. QED
        BY <4>2 DEF Steps
    <3>2. SUFFICES ASSUME At(w, "activate"), JobsFresh, NEW p \in Postings, posting[p].status = "closed"
                   PROVE  posting'[p].status # "active"
      BY <2>3, <3>1 DEF DeskWrite
    <3>3. t.posting \in Postings /\ t.old.status # "closed" /\ t.pc = "activate"
      BY <3>2 DEF At, PostingsInv, PostingTxn
    <3>4. posting[t.posting] = t.old
      BY <3>1, <3>2, <3>3 DEF JobsFresh, JobsStale
    <3>5. posting'[p] = posting[p]
      BY <2>3, <3>2, <3>3, <3>4 DEF DeskWrite, PostingsInv, PostingRows
    <3>6. QED
      BY <3>2, <3>5
  <2>4. ASSUME \/ \E p \in Postings, k \in Bills : CreatePosting(p, k)
               \/ \E w \in Workers, p \in Postings : RetryRead(w, p)
               \/ \E w \in Workers, k \in Bills : RetryInsert(w, k) \/ ConfirmRead(w, k)
        PROVE  /\ \A k \in Bills : ~bill[k].paid => ~bill'[k].paid
               /\ \A p \in Postings : posting[p].status = "closed" => posting'[p].status # "active"
    <3>1. \A q \in Postings : posting'[q] = posting[q] \/ posting'[q].status = "pending_payment"
      <4>1. ASSUME NEW p \in Postings, NEW k \in Bills, CreatePosting(p, k)
            PROVE  \A q \in Postings : posting'[q] = posting[q] \/ posting'[q].status = "pending_payment"
        <5>1. posting' = [posting EXCEPT ![p] = [status |-> "pending_payment", deleted |-> posting[p].deleted]]
          BY <4>1, PostingStatus DEF CreatePosting
        <5>2. QED
          BY <5>1 DEF PostingsInv, PostingRows
      <4>2. QED
        BY <2>4, <4>1 DEF RetryRead, RetryInsert, ConfirmRead, jobs
    <3>2. \A k \in Bills : ~bill[k].paid => ~bill'[k].paid
      <4>1. ASSUME NEW p, NEW k \in Bills,
                   \E order \in BOOLEAN : bill' = [bill EXCEPT ![k] = [NoBill EXCEPT !.posting = p, !.order = order]]
            PROVE  \A j \in Bills : ~bill[j].paid => ~bill'[j].paid
        <5>1. PICK order \in BOOLEAN : bill' = [bill EXCEPT ![k] = [NoBill EXCEPT !.posting = p, !.order = order]]
          BY <4>1
        <5>2. [NoBill EXCEPT !.posting = p, !.order = order] = [posting |-> p, order |-> order, paid |-> NoBill.paid, flagged |-> NoBill.flagged]
          BY NewBillFields, Zenon
        <5>3. bill' = [bill EXCEPT ![k] = [posting |-> p, order |-> order, paid |-> NoBill.paid, flagged |-> NoBill.flagged]]
          BY <5>1, <5>2, Zenon
        <5>4. NoBill.paid = FALSE
          BY DEF NoBill
        <5>5. QED
          BY <5>3, <5>4 DEF PostingsInv, PostingRows
      <4>2. QED
        BY <2>4, <4>1 DEF CreatePosting, RetryRead, RetryInsert, ConfirmRead, jobs
    <3>3. QED
      BY <3>1, <3>2
  <2>5. ASSUME \/ \E p \in Postings : Close(p) \/ DeletePosting(p)
               \/ \E w \in Workers, p \in Postings : AdminCreate(w, p)
        PROVE  /\ bill' = bill
               /\ \A p \in Postings : posting[p].status = "closed" => posting'[p].status # "active"
    <3>1. ASSUME NEW p \in Postings, Close(p) \/ DeletePosting(p)
          PROVE  /\ bill' = bill
                 /\ \A q \in Postings : posting[q].status = "closed" => posting'[q].status # "active"
      <4>1. PICK r : r = posting[p] /\ IsPosting(r)
        BY DEF PostingsInv, PostingRows
      <4>2. [r EXCEPT !.deleted = TRUE].status = r.status /\ [r EXCEPT !.status = "closed"].status = "closed"
        BY <4>1 DEF IsPosting
      <4>3. \/ posting' = [posting EXCEPT ![p] = [r EXCEPT !.deleted = TRUE]]
            \/ posting' = [posting EXCEPT ![p] = [r EXCEPT !.status = "closed"]]
        BY <3>1, <4>1 DEF Close, DeletePosting
      <4>4. QED
        BY <3>1, <4>1, <4>2, <4>3 DEF Close, DeletePosting, PostingsInv, PostingRows
    <3>2. ASSUME NEW w \in Workers, NEW p \in Postings, AdminCreate(w, p)
          PROVE  /\ bill' = bill
                 /\ \A q \in Postings : posting[q].status = "closed" => posting'[q].status # "active"
      BY <3>2, JobPostingsAssumption DEF AdminCreate, NewPosting, PostingsInv, PostingRows, PostingStatuses
    <3>3. QED
      BY <2>5, <3>1, <3>2
  <2>6. ASSUME ApplicationStep \/ \E w \in Workers, p \in Postings :
                  ActivateRead(w, p) \/ \E s \in PostingStatuses \cup {None} : PatchRead(w, p, s)
        PROVE  UNCHANGED <<bill, posting>>
    BY <2>6 DEF ApplicationStep, ActivateRead, PatchRead, ApplyRead, ApplyInsert, ReviewWrite, ReviewTell,
       Withdraw, ReviewRead, jobs
  <2>7. QED
    BY <2>1, <2>2, <2>3, <2>4, <2>5, <2>6 DEF JobsNext, EmployerStep, DeskStep
<1>2. QED
  BY <1>1, PostingsInvariance, PTL DEF AlertsSpec, OnlyStaleWritesUndo

\* An applicant is told the status of the application, or is about to be,
\* unless two reviews of it overlap.
THEOREM ApplicantsInformed == AlertsSpec => OnlyOverlappingReviewsMisinform
<1>1. PostingsInv /\ [JobStep]_jobVars =>
        [\A p \in Postings : Informed(p) /\ ~Informed(p)' => ~JobsFresh]_<<requests, jobs>>
  <2> SUFFICES ASSUME PostingsInv, [JobStep]_jobVars, ~UNCHANGED <<requests, jobs>>,
                      NEW p \in Postings, Informed(p), JobsFresh
               PROVE  Informed(p)'
    OBVIOUS
  <2>1. ASSUME NEW v \in Workers, At(v, "tell"), txn[v].posting = p, txn[v].to = application[p],
               txn'[v] = txn[v], application'[p] = application[p]
        PROVE  Informed(p)'
    BY <2>1 DEF Informed, At
  <2>2. ASSUME NEW w \in Workers, NEW t, txn' = [txn EXCEPT ![w] = t], ~At(w, "tell"),
               application'[p] = application[p], told'[p] = told[p]
        PROVE  Informed(p)'
    <3>1. ASSUME NEW v \in Workers, At(v, "tell") PROVE txn'[v] = txn[v]
      BY <2>2, <3>1 DEF PostingsInv
    <3>2. QED
      BY <2>1, <2>2, <3>1 DEF Informed
  <2>3. ASSUME UNCHANGED txn, application'[p] = application[p], told'[p] = told[p]
        PROVE  Informed(p)'
    BY <2>3 DEF Informed, At
  <2>4. ASSUME NEW w \in Workers, ReviewWrite(w) PROVE Informed(p)'
    <3> DEFINE t == txn[w]
    <3>1. t = [pc |-> "review", posting |-> t.posting, to |-> t.to, prev |-> t.prev] /\ t.posting \in Postings
      BY <2>4 DEF ReviewWrite, At, PostingsInv, PostingTxn
    <3>2. CASE t.prev = t.to
      <4>1. End(w)
        BY <2>4, <3>2 DEF ReviewWrite
      <4>2. Steps(w)
        BY <3>1, <4>1 DEF End, Steps, PostingsInv, Idle
      <4>3. application[t.posting] = t.to
        BY <3>1, <3>2, <4>2 DEF JobsFresh, JobsStale
      <4>4. application'[p] = application[p] /\ told'[p] = told[p]
        BY <2>4, <3>1, <4>3 DEF ReviewWrite, PostingsInv, PostingRows
      <4>5. ~At(w, "tell")
        BY <3>1 DEF At
      <4>6. QED
        BY <2>2, <4>1, <4>4, <4>5 DEF End
    <3>3. CASE t.prev # t.to
      <4>1. txn' = [txn EXCEPT ![w].pc = "tell"] /\ application' = [application EXCEPT ![t.posting] = t.to]
            /\ told' = told
        BY <2>4, <3>3 DEF ReviewWrite, Goto
      <4>2. PICK x : x = [t EXCEPT !.pc = "tell"]
        OBVIOUS
      <4>3. x = [pc |-> "tell", posting |-> t.posting, to |-> t.to, prev |-> t.prev]
        BY <3>1, <4>2
      <4>4. txn' = [txn EXCEPT ![w] = x]
        BY <4>1, <4>2 DEF PostingsInv
      <4>5. CASE t.posting = p
        <5>1. txn'[w].pc = "tell" /\ txn'[w].posting = p /\ txn'[w].to = application'[p]
          BY <3>1, <4>1, <4>3, <4>4, <4>5 DEF PostingsInv, PostingRows
        <5>2. QED
          BY <5>1 DEF Informed, At
      <4>6. CASE t.posting # p
        BY <2>2, <3>1, <4>1, <4>4, <4>6 DEF At, PostingsInv, PostingRows
      <4>7. QED
        BY <4>5, <4>6
    <3>4. QED
      BY <3>2, <3>3
  <2>5. ASSUME NEW w \in Workers, ReviewTell(w) PROVE Informed(p)'
    <3> DEFINE t == txn[w]
    <3>1. t.pc = "tell" /\ t.posting \in Postings
      BY <2>5 DEF ReviewTell, At, PostingsInv, PostingTxn
    <3>2. Steps(w)
      BY <2>5, <3>1 DEF ReviewTell, End, Steps, PostingsInv, Idle
    <3>3. application[t.posting] = t.to
      BY <3>1, <3>2 DEF JobsFresh, JobsStale
    <3>4. CASE t.posting = p
      BY <2>5, <3>1, <3>3, <3>4 DEF ReviewTell, Informed, PostingsInv, PostingRows
    <3>5. CASE t.posting # p
      <4>1. application' = application /\ told'[p] = told[p]
        BY <2>5, <3>1, <3>5 DEF ReviewTell, PostingsInv, PostingRows
      <4>2. ASSUME NEW v \in Workers, At(v, "tell"), txn[v].posting = p PROVE txn'[v] = txn[v]
        BY <2>5, <3>5, <4>2 DEF ReviewTell, End, PostingsInv
      <4>3. QED
        BY <2>1, <4>1, <4>2 DEF Informed
    <3>6. QED
      BY <3>4, <3>5
  <2>6. ASSUME NEW w \in Workers, ApplyInsert(w) PROVE Informed(p)'
    <3>1. PICK q \in Postings : q = txn[w].posting
      BY <2>6 DEF ApplyInsert, At, PostingsInv, PostingTxn
    <3>2. CASE q = p /\ application[p] = None
      BY <2>6, <3>1, <3>2 DEF ApplyInsert, Informed, PostingsInv, PostingRows
    <3>3. CASE ~(q = p /\ application[p] = None)
      BY <2>2, <2>6, <3>1, <3>3 DEF ApplyInsert, End, At, PostingsInv, PostingRows
    <3>4. QED
      BY <3>2, <3>3
  <2>7. ASSUME NEW q \in Postings, Withdraw(q) PROVE Informed(p)'
    <3>1. CASE p = q
      BY <2>7, <3>1 DEF Withdraw, Informed, PostingsInv, PostingRows
    <3>2. CASE p # q
      BY <2>3, <2>7, <3>2 DEF Withdraw, Serves, requests, PostingsInv, PostingRows
    <3>3. QED
      BY <3>1, <3>2
  <2>8. ASSUME EmployerStep \/ DeskStep \/ (\E w \in Workers, q \in Postings : ApplyRead(w, q))
               \/ \E w \in Workers, q \in Postings, s \in ApplicationStatuses : ReviewRead(w, q, s)
        PROVE  Informed(p)'
    <3>1. application' = application /\ told' = told
      BY <2>8 DEF EmployerStep, DeskStep, CreatePosting, RetryRead, RetryInsert, Close, DeletePosting, ConfirmRead,
         ConfirmCommit, AdminCreate, PatchRead, ActivateRead, DeskWrite, ApplyRead, ReviewRead, jobs
    <3>2. UNCHANGED txn \/ \E w \in Workers : \E t : txn' = [txn EXCEPT ![w] = t] /\ ~At(w, "tell")
      <4>1. Idle.pc # "tell"
        BY DEF Idle
      <4>2. ASSUME NEW w \in Workers, NEW q \in Postings,
                   \/ RetryRead(w, q) \/ AdminCreate(w, q) \/ ActivateRead(w, q) \/ ApplyRead(w, q)
                   \/ \E s \in PostingStatuses \cup {None} : PatchRead(w, q, s)
                   \/ \E s \in ApplicationStatuses : ReviewRead(w, q, s)
            PROVE  \E v \in Workers : \E t : txn' = [txn EXCEPT ![v] = t] /\ ~At(v, "tell")
        BY <4>1, <4>2 DEF RetryRead, AdminCreate, ActivateRead, PatchRead, ApplyRead, ReviewRead,
           Hold, Ready, At
      <4>3. ASSUME NEW w \in Workers, (\E k \in Bills : RetryInsert(w, k) \/ ConfirmRead(w, k))
                   \/ ConfirmCommit(w) \/ DeskWrite(w)
            PROVE  \E v \in Workers : \E t : txn' = [txn EXCEPT ![v] = t] /\ ~At(v, "tell")
        BY <4>1, <4>3 DEF RetryInsert, ConfirmRead, Hold, Ready, ConfirmCommit, DeskWrite, Dispatch, End, At
      <4>4. ASSUME NEW q \in Postings, \/ \E k \in Bills : CreatePosting(q, k)
                                       \/ Close(q) \/ DeletePosting(q)
            PROVE  UNCHANGED txn
        BY <4>4 DEF CreatePosting, Close, DeletePosting, Serves, requests
      <4>5. QED
        BY <2>8, <4>2, <4>3, <4>4 DEF EmployerStep, DeskStep
    <3>3. QED
      BY <2>2, <2>3, <3>1, <3>2
  <2>9. ASSUME AlertsStep, UNCHANGED jobs PROVE Informed(p)'
    <3>1. application' = application /\ told' = told
      BY <2>9 DEF jobs
    <3>2. ASSUME NEW w \in Workers, txn[w].pc \in AlertPcs PROVE ~At(w, "tell")
      BY <3>2 DEF At, AlertPcs
    <3>3. QED
      BY <2>2, <2>3, <2>9, <3>1, <3>2, AlertsQuiet
  <2>10. QED
    BY <2>4, <2>5, <2>6, <2>7, <2>8, <2>9 DEF JobStep, jobVars, JobsNext, ApplicationStep
<1>2. QED
  BY <1>1, PostingsInvariance, PTL DEF AlertsSpec, OnlyOverlappingReviewsMisinform

-----------------------------------------------------------------------------
(* Digests that are mailed twice.                                          *)

IsRow(r) == r = [frequency |-> r.frequency, confirmed |-> r.confirmed,
                 unsubscribed |-> r.unsubscribed, last |-> r.last]

\* A row that asks for a digest and has had none today.
Undated(r) == r.frequency = "daily" /\ r.last # date(now)

\* A sweep lists users with such a row.
SweepHeld(t) ==
    InSweep(t) => /\ t.list \subseteq Users
                  /\ \A u \in t.list : \E k \in Kinds : Undated(t.rows[u][k])
                  /\ t.pc = "sweep_stamp" => t.u \in t.list

Mailing(u) == {v \in Workers : txn[v].pc = "sweep_stamp" /\ txn[v].u = u}

MailRows ==
    /\ now \in Nat /\ lost \in Nat /\ digests \in [Users -> Nat]
    /\ sub = [u \in Users |-> [k \in Kinds |-> sub[u][k]]]
    /\ \A u \in Users, k \in Kinds : IsRow(sub[u][k])

\* Who is not stamped has had no more digests today than sweeps were lost, and
\* those whose stamp is to come.
Counted(u) == (\E k \in Kinds : Undated(sub[u][k])) => digests[u] <= lost + Cardinality(Mailing(u))

MailsInv ==
    /\ MailRows
    /\ \A w \in Workers : SweepHeld(txn[w])
    /\ "subscribe" \notin mix => \A u \in Users : Counted(u)

\* Without subscriptions, rows are only stamped.
RowsStay ==
    /\ MailRows'
    /\ "subscribe" \notin mix =>
          \A u \in Users, k \in Kinds : /\ sub'[u][k].frequency = sub[u][k].frequency
                                        /\ sub'[u][k].last \in {sub[u][k].last, date(now)}

LEMMA MailingIs ==
    ASSUME NEW u PROVE IsFiniteSet(Mailing(u)) /\ Cardinality(Mailing(u)) \in Nat
BY FS_Subset, FS_CardinalityType, JobAlertsAssumption DEF Mailing

LEMMA StaysUndated ==
    ASSUME RowsStay, "subscribe" \notin mix, UNCHANGED now, NEW u \in Users
    PROVE  (\E k \in Kinds : Undated(sub[u][k])') => \E k \in Kinds : Undated(sub[u][k])
BY DEF RowsStay, Undated, date

LEMMA Uncounted ==
    ASSUME MailsInv, RowsStay, UNCHANGED <<mix, now, digests>>, lost <= lost',
           \A v \in Workers : txn'[v] = txn[v] \/ (~InSweep(txn[v]) /\ ~InSweep(txn'[v]))
    PROVE  MailsInv'
<1>1. ASSUME NEW v \in Workers PROVE SweepHeld(txn[v])'
  BY DEF MailsInv, SweepHeld, Undated, date
<1>2. ASSUME NEW u \in Users, "subscribe" \notin mix PROVE Counted(u)'
  <2>1. Mailing(u)' = Mailing(u)
    BY DEF Mailing, InSweep
  <2>2. Counted(u)
    BY <1>2 DEF MailsInv
  <2>3. Cardinality(Mailing(u)) \in Nat /\ lost \in Nat /\ lost' \in Nat /\ digests[u] \in Nat
    BY MailingIs DEF MailsInv, MailRows, RowsStay
  <2>4. (\E k \in Kinds : Undated(sub[u][k])') => \E k \in Kinds : Undated(sub[u][k])
    BY <1>2, StaysUndated
  <2>5. digests'[u] = digests[u]
    OBVIOUS
  <2>6. QED
    BY <2>1, <2>2, <2>3, <2>4, <2>5 DEF Counted
<1>3. QED
  BY <1>1, <1>2 DEF MailsInv, RowsStay

\* A statement of a request that is no sweep.
LEMMA Elsewhere ==
    ASSUME MailsInv, PostingsInv, RowsStay, UNCHANGED <<mix, now, digests, lost>>,
           NEW w \in Workers, NEW t, ~InSweep(txn[w]), ~InSweep(t), txn' = [txn EXCEPT ![w] = t]
    PROVE  MailsInv'
<1>1. \A v \in Workers : txn'[v] = txn[v] \/ (~InSweep(txn[v]) /\ ~InSweep(txn'[v]))
  <2>1. txn = [v \in Workers |-> txn[v]]
    BY DEF PostingsInv
  <2>2. QED
    BY <2>1
<1>2. lost <= lost'
  BY DEF MailsInv, MailRows
<1>3. QED
  BY <1>1, <1>2, Uncounted

LEMMA Nowhere ==
    ASSUME MailsInv, RowsStay, UNCHANGED <<mix, now, digests, lost, txn>>
    PROVE  MailsInv'
<1>1. lost <= lost' /\ \A v \in Workers : txn'[v] = txn[v]
  BY DEF MailsInv, MailRows
<1>2. QED
  BY <1>1, Uncounted

LEMMA SameRows == ASSUME MailsInv, UNCHANGED <<now, lost, digests, sub>> PROVE RowsStay
BY DEF MailsInv, MailRows, RowsStay

LEMMA IdleSweeps == ~InSweep(Idle)
BY DEF Idle, InSweep

\* The requests of the other handlers.
LEMMA JobsElsewhere ==
    ASSUME PostingsInv, JobsNext
    PROVE  UNCHANGED txn \/ \E w \in Workers : \E t : txn' = [txn EXCEPT ![w] = t] /\ ~InSweep(txn[w]) /\ ~InSweep(t)
<1>1. CASE EmployerStep
  <2>1. ASSUME NEW w \in Workers, NEW p \in Postings, RetryRead(w, p)
        PROVE  \E t : txn' = [txn EXCEPT ![w] = t] /\ ~InSweep(txn[w]) /\ ~InSweep(t)
    <3>1. PICK x : x = [pc |-> "retry", posting |-> p, old |-> posting[p]]
      OBVIOUS
    <3>2. txn' = [txn EXCEPT ![w] = x] /\ txn[w] = Idle
      BY <2>1, <3>1 DEF RetryRead, Ready, Hold
    <3>3. ~InSweep(x)
      BY <3>1 DEF InSweep
    <3>4. QED
      BY <3>2, <3>3, IdleSweeps
  <2>2. ASSUME NEW w \in Workers, NEW k \in Bills, RetryInsert(w, k) \/ ConfirmRead(w, k)
        PROVE  \E t : txn' = [txn EXCEPT ![w] = t] /\ ~InSweep(txn[w]) /\ ~InSweep(t)
    BY <2>2, IdleSweeps DEF RetryInsert, ConfirmRead, Ready, Hold, End, At, InSweep
  <2>3. ASSUME NEW w \in Workers, ConfirmCommit(w)
        PROVE  \E t : txn' = [txn EXCEPT ![w] = t] /\ ~InSweep(txn[w]) /\ ~InSweep(t)
    BY <2>3, IdleSweeps DEF ConfirmCommit, Dispatch, End, At, InSweep
  <2>4. ASSUME NEW p, (\E k : CreatePosting(p, k)) \/ Close(p) \/ DeletePosting(p) PROVE UNCHANGED txn
    BY <2>4 DEF CreatePosting, Close, DeletePosting, Serves, requests
  <2>5. QED
    BY <1>1, <2>1, <2>2, <2>3, <2>4 DEF EmployerStep
<1>2. CASE DeskStep
  <2>1. ASSUME NEW w \in Workers, NEW p \in Postings, AdminCreate(w, p) \/ ActivateRead(w, p)
        PROVE  \E t : txn' = [txn EXCEPT ![w] = t] /\ ~InSweep(txn[w]) /\ ~InSweep(t)
    BY <2>1, IdleSweeps DEF AdminCreate, ActivateRead, Ready, Hold, InSweep
  <2>2. ASSUME NEW w \in Workers, NEW p \in Postings, NEW s, PatchRead(w, p, s)
        PROVE  \E t : txn' = [txn EXCEPT ![w] = t] /\ ~InSweep(txn[w]) /\ ~InSweep(t)
    <3>1. PICK x : x = [pc |-> "patch", posting |-> p, to |-> s, old |-> posting[p]]
      OBVIOUS
    <3>2. txn' = [txn EXCEPT ![w] = x] /\ txn[w] = Idle
      BY <2>2, <3>1 DEF PatchRead, Ready, Hold
    <3>3. ~InSweep(x)
      BY <3>1 DEF InSweep
    <3>4. QED
      BY <3>2, <3>3, IdleSweeps
  <2>3. ASSUME NEW w \in Workers, DeskWrite(w)
        PROVE  \E t : txn' = [txn EXCEPT ![w] = t] /\ ~InSweep(txn[w]) /\ ~InSweep(t)
    BY <2>3, IdleSweeps DEF DeskWrite, Dispatch, End, At, InSweep
  <2>4. QED
    BY <1>2, <2>1, <2>2, <2>3 DEF DeskStep
<1>3. CASE ApplicationStep
  <2>1. ASSUME NEW w \in Workers, NEW p \in Postings, ApplyRead(w, p)
        PROVE  \E t : txn' = [txn EXCEPT ![w] = t] /\ ~InSweep(txn[w]) /\ ~InSweep(t)
    <3>1. PICK x : x = [pc |-> "apply", posting |-> p, old |-> posting[p]]
      OBVIOUS
    <3>2. txn' = [txn EXCEPT ![w] = x] /\ txn[w] = Idle
      BY <2>1, <3>1 DEF ApplyRead, Ready, Hold
    <3>3. ~InSweep(x)
      BY <3>1 DEF InSweep
    <3>4. QED
      BY <3>2, <3>3, IdleSweeps
  <2>2. ASSUME NEW w \in Workers, NEW p \in Postings, NEW s, ReviewRead(w, p, s)
        PROVE  \E t : txn' = [txn EXCEPT ![w] = t] /\ ~InSweep(txn[w]) /\ ~InSweep(t)
    <3>1. PICK x : x = [pc |-> "review", posting |-> p, to |-> s, prev |-> application[p]]
      OBVIOUS
    <3>2. txn' = [txn EXCEPT ![w] = x] /\ txn[w] = Idle
      BY <2>2, <3>1 DEF ReviewRead, Ready, Hold
    <3>3. ~InSweep(x)
      BY <3>1 DEF InSweep
    <3>4. QED
      BY <3>2, <3>3, IdleSweeps
  <2>3. ASSUME NEW w \in Workers, ApplyInsert(w) \/ ReviewTell(w)
        PROVE  \E t : txn' = [txn EXCEPT ![w] = t] /\ ~InSweep(txn[w]) /\ ~InSweep(t)
    BY <2>3, IdleSweeps DEF ApplyInsert, ReviewTell, End, At, InSweep
  <2>4. ASSUME NEW w \in Workers, ReviewWrite(w)
        PROVE  \E t : txn' = [txn EXCEPT ![w] = t] /\ ~InSweep(txn[w]) /\ ~InSweep(t)
    <3>1. CASE End(w)
      BY <2>4, <3>1, IdleSweeps DEF ReviewWrite, End, At, InSweep
    <3>2. CASE Goto(w, "tell")
      <4>1. txn[w].pc = "review"
        BY <2>4 DEF ReviewWrite, At
      <4>2. PICK t : t = txn[w] /\ t = [pc |-> "review", posting |-> t.posting, to |-> t.to, prev |-> t.prev]
        BY <4>1 DEF PostingsInv, PostingTxn
      <4>3. PICK x : x = [t EXCEPT !.pc = "tell"]
        OBVIOUS
      <4>4. x.pc = "tell" /\ txn' = [txn EXCEPT ![w] = x]
        BY <3>2, <4>2, <4>3 DEF Goto
      <4>5. QED
        BY <4>1, <4>4 DEF InSweep
    <3>3. QED
      BY <2>4, <3>1, <3>2 DEF ReviewWrite
  <2>5. ASSUME NEW p, Withdraw(p) PROVE UNCHANGED txn
    BY <2>5 DEF Withdraw, Serves, requests
  <2>6. QED
    BY <1>3, <2>1, <2>2, <2>3, <2>4, <2>5 DEF ApplicationStep
<1>4. QED
  BY <1>1, <1>2, <1>3 DEF JobsNext

\* A sweep lists who has had no digest today; its mails and stamps.
LEMMA SweepReads ==
    ASSUME MailsInv, PostingsInv, NEW w \in Workers, SweepRead(w), UNCHANGED mix
    PROVE  MailsInv' /\ UNCHANGED <<digests, lost>>
<1>1. PICK t : t = [pc |-> "sweep", list |-> {u \in Users : Digest(u) # {}}, rows |-> sub,
                    digest |-> [u \in Users |-> Digest(u)]]
  OBVIOUS
<1>2. txn[w] = Idle /\ (txn' = [txn EXCEPT ![w] = Idle] \/ txn' = [txn EXCEPT ![w] = t])
  BY <1>1 DEF SweepRead, Serve, Ready, Hold
<1>3. UNCHANGED <<now, sub, digests, lost>>
  BY DEF SweepRead
<1>4. SweepHeld(t)
  <2>1. ASSUME NEW u \in Users, Digest(u) # {} PROVE \E k \in Kinds : Undated(sub[u][k])
    <3>1. PICK p \in Postings : KindOf[p] \in Due(u)
      BY <2>1 DEF Digest, Recent
    <3>2. QED
      BY <3>1 DEF Due, Wanted, Undated
  <2>2. QED
    BY <1>1, <2>1 DEF SweepHeld
<1>5. ASSUME NEW v \in Workers PROVE SweepHeld(txn[v])'
  <2>1. txn'[v] \in {txn[v], Idle, t}
    BY <1>2 DEF PostingsInv
  <2>2. SweepHeld(txn'[v])
    BY <1>4, <2>1, IdleSweeps DEF MailsInv, SweepHeld
  <2>3. QED
    BY <1>3, <2>2 DEF SweepHeld, Undated, date
<1>6. ASSUME NEW u \in Users PROVE Mailing(u)' = Mailing(u)
  <2>1. Idle.pc # "sweep_stamp" /\ t.pc # "sweep_stamp"
    BY <1>1 DEF Idle
  <2>2. QED
    BY <1>2, <2>1 DEF Mailing, PostingsInv
<1>7. ASSUME NEW u \in Users, "subscribe" \notin mix PROVE Counted(u)'
  <2>1. Counted(u)
    BY <1>7 DEF MailsInv
  <2>2. QED
    BY <1>3, <1>6, <2>1 DEF Counted, Undated, date
<1>8. QED
  BY <1>3, <1>5, <1>7 DEF MailsInv, MailRows

LEMMA OthersHeld ==
    ASSUME MailsInv, PostingsInv, UNCHANGED now, NEW w \in Workers, NEW t, SweepHeld(t),
           txn' = [txn EXCEPT ![w] = t]
    PROVE  \A v \in Workers : SweepHeld(txn[v])'
<1> TAKE v \in Workers
<1>1. SweepHeld(txn'[v])
  BY DEF MailsInv, PostingsInv
<1>2. QED
  BY <1>1 DEF SweepHeld, Undated, date

LEMMA NowMailing ==
    ASSUME PostingsInv, NEW w \in Workers, NEW u, txn[w].pc = "sweep", NEW t, t.pc = "sweep_stamp", t.u = u,
           txn' = [txn EXCEPT ![w] = t]
    PROVE  /\ Cardinality(Mailing(u))' = Cardinality(Mailing(u)) + 1
           /\ \A x : x # u => Mailing(x)' = Mailing(x)
<1>1. Mailing(u)' = Mailing(u) \cup {w} /\ w \notin Mailing(u)
  BY DEF Mailing, PostingsInv
<1>2. Cardinality(Mailing(u) \cup {w}) = Cardinality(Mailing(u)) + 1
  BY <1>1, MailingIs, FS_AddElement
<1>3. \A x : x # u => Mailing(x)' = Mailing(x)
  BY DEF Mailing, PostingsInv
<1>4. QED
  BY <1>1, <1>2, <1>3

LEMMA NoMoreMailing ==
    ASSUME PostingsInv, NEW w \in Workers, NEW u, txn[w].pc = "sweep_stamp" => txn[w].u = u,
           NEW t, t.pc # "sweep_stamp", txn' = [txn EXCEPT ![w] = t]
    PROVE  /\ Cardinality(Mailing(u)) <= Cardinality(Mailing(u))' + 1
           /\ \A x : x # u => Mailing(x)' = Mailing(x)
<1>1. Mailing(u)' = Mailing(u) \ {w}
  BY DEF Mailing, PostingsInv
<1>2. Cardinality(Mailing(u)) <= Cardinality(Mailing(u) \ {w}) + 1
  <2>1. CASE w \in Mailing(u)
    <3>1. Cardinality(Mailing(u) \ {w}) = Cardinality(Mailing(u)) - 1
      BY <2>1, MailingIs, FS_RemoveElement
    <3>2. Cardinality(Mailing(u)) \in Nat
      BY MailingIs
    <3>3. PICK n \in Nat : n = Cardinality(Mailing(u))
      BY <3>2
    <3>4. QED
      BY <3>1, <3>3
  <2>2. CASE w \notin Mailing(u)
    <3>1. Mailing(u) \ {w} = Mailing(u)
      BY <2>2
    <3>2. QED
      BY <3>1, MailingIs
  <2>3. QED
    BY <2>1, <2>2
<1>3. \A x : x # u => Mailing(x)' = Mailing(x)
  BY DEF Mailing, PostingsInv
<1>4. QED
  BY <1>1, <1>2, <1>3

LEMMA SweepMails ==
    ASSUME MailsInv, PostingsInv, NEW w \in Workers, NEW u \in Users, SweepMail(w, u), UNCHANGED mix
    PROVE  MailsInv' /\ UNCHANGED lost
<1>1. PICK t : t = [pc |-> "sweep_stamp", u |-> u, list |-> txn[w].list, rows |-> txn[w].rows,
                    digest |-> txn[w].digest]
  OBVIOUS
<1>2. /\ txn' = [txn EXCEPT ![w] = t] /\ txn[w].pc = "sweep" /\ u \in txn[w].list
      /\ digests' = [digests EXCEPT ![u] = @ + 1] /\ UNCHANGED <<now, sub, lost>>
  BY <1>1 DEF SweepMail, At
<1>3. SweepHeld(t)
  BY <1>1, <1>2 DEF MailsInv, SweepHeld, InSweep
<1>4. MailRows'
  BY <1>2 DEF MailsInv, MailRows
<1>5. ASSUME NEW x \in Users, "subscribe" \notin mix PROVE Counted(x)'
  <2>1. Counted(x) /\ digests[x] \in Nat /\ lost \in Nat /\ Cardinality(Mailing(x)) \in Nat
    BY <1>5, MailingIs DEF MailsInv, MailRows
  <2>2. (\E k \in Kinds : Undated(sub[x][k]))' <=> \E k \in Kinds : Undated(sub[x][k])
    BY <1>2 DEF Undated, date
  <2>3. IF x = u THEN digests'[x] = digests[x] + 1 /\ Cardinality(Mailing(x))' = Cardinality(Mailing(x)) + 1
        ELSE digests'[x] = digests[x] /\ Mailing(x)' = Mailing(x)
    BY <1>1, <1>2, NowMailing DEF MailsInv, MailRows
  <2>4. CASE x = u
    BY <1>2, <2>1, <2>2, <2>3, <2>4 DEF Counted
  <2>5. CASE x # u
    BY <1>2, <2>1, <2>2, <2>3, <2>5 DEF Counted
  <2>6. QED
    BY <2>4, <2>5
<1>6. QED
  BY <1>2, <1>3, <1>4, <1>5, OthersHeld DEF MailsInv

\* The stamp reaches every row of the user that asks for a digest.
LEMMA StampedRow ==
    ASSUME NEW r, IsRow(r), NEW d
    PROVE  [r EXCEPT !.last = d] = [frequency |-> r.frequency, confirmed |-> r.confirmed,
                                    unsubscribed |-> r.unsubscribed, last |-> d]
BY DEF IsRow

LEMMA SweepStamps ==
    ASSUME MailsInv, PostingsInv, NEW w \in Workers, SweepStamp(w), UNCHANGED mix
    PROVE  MailsInv' /\ UNCHANGED <<digests, lost>>
<1>1. PICK u : u = txn[w].u
  OBVIOUS
<1>2. /\ txn[w].pc = "sweep_stamp" /\ u \in Users /\ UNCHANGED <<now, digests, lost>>
      /\ sub' = [sub EXCEPT ![u] = [k \in Kinds |->
                  IF sub[u][k].frequency = "daily" THEN [sub[u][k] EXCEPT !.last = date(now)] ELSE sub[u][k]]]
  <2>1. txn[w].pc = "sweep_stamp" /\ UNCHANGED <<now, digests, lost>>
    BY DEF SweepStamp, At
  <2>2. u \in Users
    BY <1>1, <2>1 DEF MailsInv, SweepHeld, InSweep
  <2>3. u \in DOMAIN sub
    BY <2>2 DEF MailsInv, MailRows
  <2>4. QED
    BY <1>1, <2>1, <2>2, <2>3 DEF SweepStamp
<1>3. PICK t : t = [pc |-> "sweep", list |-> txn[w].list \ {u}, rows |-> txn[w].rows, digest |-> txn[w].digest]
  OBVIOUS
<1>4. PICK x : x \in {t, Idle} /\ txn' = [txn EXCEPT ![w] = x]
  BY <1>1, <1>3 DEF SweepStamp, End
<1>5. SweepHeld(x) /\ x.pc # "sweep_stamp"
  BY <1>2, <1>3, <1>4, IdleSweeps DEF MailsInv, SweepHeld, InSweep, Idle
<1>6. ASSUME NEW v \in Users, NEW k \in Kinds
      PROVE  sub'[v][k] = IF v = u /\ sub[v][k].frequency = "daily"
                          THEN [frequency |-> sub[v][k].frequency, confirmed |-> sub[v][k].confirmed,
                                unsubscribed |-> sub[v][k].unsubscribed, last |-> date(now)]
                          ELSE sub[v][k]
  <2>1. IsRow(sub[v][k])
    BY DEF MailsInv, MailRows
  <2>2. CASE v = u
    BY <1>2, <2>1, <2>2, StampedRow DEF MailsInv, MailRows
  <2>3. CASE v # u
    BY <1>2, <2>3 DEF MailsInv, MailRows
  <2>4. QED
    BY <2>2, <2>3
<1>7. MailRows'
  <2>1. sub' = [v \in Users |-> [k \in Kinds |-> sub'[v][k]]]
    BY <1>2 DEF MailsInv, MailRows
  <2>2. \A v \in Users, k \in Kinds : IsRow(sub'[v][k])
    <3> TAKE v \in Users, k \in Kinds
    <3>1. PICK r : r = sub[v][k] /\ IsRow(r)
      BY DEF MailsInv, MailRows
    <3>2. PICK d : d = date(now)
      OBVIOUS
    <3>3. sub'[v][k] \in {r, [frequency |-> r.frequency, confirmed |-> r.confirmed,
                             unsubscribed |-> r.unsubscribed, last |-> d]}
      BY <1>6, <3>1, <3>2
    <3>4. QED
      BY <3>1, <3>3 DEF IsRow
  <2>3. QED
    BY <1>2, <2>1, <2>2 DEF MailsInv, MailRows
<1>8. ASSUME NEW v \in Users, "subscribe" \notin mix PROVE Counted(v)'
  <2>1. CASE v = u
    <3>1. \A k \in Kinds : ~Undated(sub'[v][k])
      <4> TAKE k \in Kinds
      <4>1. CASE sub[v][k].frequency = "daily"
        <5>1. PICK d : d = date(now)
          OBVIOUS
        <5>2. PICK r : r = sub[v][k]
          OBVIOUS
        <5>3. sub'[v][k] = [frequency |-> r.frequency, confirmed |-> r.confirmed,
                            unsubscribed |-> r.unsubscribed, last |-> d]
          BY <1>6, <2>1, <4>1, <5>1, <5>2
        <5>4. sub'[v][k].last = d
          BY <5>3
        <5>5. QED
          BY <5>1, <5>4 DEF Undated
      <4>2. CASE sub[v][k].frequency # "daily"
        BY <1>6, <2>1, <4>2 DEF Undated
      <4>3. QED
        BY <4>1, <4>2
    <3>2. \A k \in Kinds : ~Undated(sub[v][k])'
      BY <1>2, <3>1 DEF Undated, date
    <3>3. QED
      BY <3>2 DEF Counted
  <2>2. CASE v # u
    <3>1. \A k \in Kinds : Undated(sub[v][k])' <=> Undated(sub[v][k])
      BY <1>2, <1>6, <2>2 DEF Undated, date
    <3>2. Mailing(v)' = Mailing(v)
      BY <1>1, <1>4, <1>5, <2>2, NoMoreMailing
    <3>3. Counted(v)
      BY <1>8 DEF MailsInv
    <3>4. QED
      BY <1>2, <3>1, <3>2, <3>3 DEF Counted
  <2>3. QED
    BY <2>1, <2>2
<1>9. \A v \in Workers : SweepHeld(txn[v])'
  BY <1>2, <1>4, <1>5, OthersHeld
<1>10. QED
  BY <1>2, <1>7, <1>8, <1>9 DEF MailsInv

\* A sweep is lost: one mail more may be repeated.
LEMMA SweepLost ==
    ASSUME MailsInv, PostingsInv, NEW w \in Workers, LoseSweep(w), UNCHANGED mix
    PROVE  MailsInv' /\ UNCHANGED digests /\ lost <= lost'
<1>1. UNCHANGED <<now, sub, digests>> /\ lost' = lost + 1 /\ txn' = [txn EXCEPT ![w] = Idle]
  BY DEF LoseSweep, End
<1>2. Idle.pc # "sweep_stamp" /\ SweepHeld(Idle)
  BY IdleSweeps DEF Idle, SweepHeld
<1>3. MailRows' /\ lost <= lost'
  BY <1>1 DEF MailsInv, MailRows
<1>4. ASSUME NEW u \in Users, "subscribe" \notin mix PROVE Counted(u)'
  <2>1. Counted(u) /\ digests[u] \in Nat /\ lost \in Nat
        /\ Cardinality(Mailing(u)) \in Nat
    BY <1>4, MailingIs DEF MailsInv, MailRows
  <2>2. Cardinality(Mailing(u))' \in Nat
    <3>1. Mailing(u)' \subseteq Workers
      BY DEF Mailing
    <3>2. QED
      BY <3>1, FS_Subset, FS_CardinalityType, JobAlertsAssumption
  <2>3. Cardinality(Mailing(u)) <= Cardinality(Mailing(u))' + 1
    <3>1. CASE txn[w].pc = "sweep_stamp" /\ txn[w].u = u
      BY <1>1, <1>2, <3>1, NoMoreMailing
    <3>2. CASE ~(txn[w].pc = "sweep_stamp" /\ txn[w].u = u)
      <4>1. Mailing(u)' = Mailing(u)
        BY <1>1, <1>2, <3>2 DEF Mailing, PostingsInv
      <4>2. QED
        BY <2>1, <4>1
    <3>3. QED
      BY <3>1, <3>2
  <2>4. (\E k \in Kinds : Undated(sub[u][k]))' <=> \E k \in Kinds : Undated(sub[u][k])
    BY <1>1 DEF Undated, date
  <2>5. digests'[u] = digests[u] /\ lost' = lost + 1
    BY <1>1
  <2>6. PICK m \in Nat, n \in Nat : m = Cardinality(Mailing(u)) /\ n = Cardinality(Mailing(u))'
    BY <2>1, <2>2
  <2>7. digests[u] <= lost + m => digests'[u] <= lost' + n
    BY <2>1, <2>3, <2>5, <2>6
  <2>8. QED
    BY <2>1, <2>4, <2>6, <2>7 DEF Counted
<1>5. QED
  BY <1>1, <1>2, <1>3, <1>4, OthersHeld DEF MailsInv

\* The clock moves with no sweep under way; a new date has no digests yet.
LEMMA ClockMails ==
    ASSUME MailsInv, Clock
    PROVE  MailsInv' /\ UNCHANGED lost /\ \A u \in Users : digests'[u] \in {digests[u], 0}
<1>1. /\ now' = now + 1 /\ UNCHANGED <<mix, txn, sub, lost>>
      /\ \A w \in Workers : ~InSweep(txn[w])
      /\ digests' = IF date(now)' = date(now) THEN digests ELSE [u \in Users |-> 0]
  BY DEF Clock, Serves, requests, Sweeping, InSweep, date
<1>2. MailRows'
  BY <1>1 DEF MailsInv, MailRows
<1>3. ASSUME NEW u \in Users, "subscribe" \notin mix PROVE Counted(u)'
  <2>1. Mailing(u)' = Mailing(u) /\ Cardinality(Mailing(u)) \in Nat /\ lost \in Nat
    BY <1>1, MailingIs DEF Mailing, MailsInv, MailRows
  <2>2. CASE date(now)' = date(now)
    <3>1. (\E k \in Kinds : Undated(sub[u][k]))' <=> \E k \in Kinds : Undated(sub[u][k])
      BY <1>1, <2>2 DEF Undated
    <3>2. Counted(u)
      BY <1>3 DEF MailsInv
    <3>3. QED
      BY <1>1, <2>1, <2>2, <3>1, <3>2 DEF Counted
  <2>3. CASE date(now)' # date(now)
    BY <1>1, <2>1, <2>3 DEF Counted
  <2>4. QED
    BY <2>2, <2>3
<1>4. \A w \in Workers : SweepHeld(txn[w])'
  BY <1>1 DEF SweepHeld, InSweep
<1>5. QED
  BY <1>1, <1>2, <1>3, <1>4 DEF MailsInv

\* Statements on subscriptions and instant alerts.
LEMMA RowsKept ==
    ASSUME MailsInv, UNCHANGED <<now, lost, digests>>, sub' = [u \in Users |-> [k \in Kinds |-> sub'[u][k]]],
           \A u \in Users, k \in Kinds : /\ IsRow(sub'[u][k])
                                         /\ "subscribe" \in mix \/ sub'[u][k].frequency = sub[u][k].frequency
                                         /\ "subscribe" \in mix \/ sub'[u][k].last \in {sub[u][k].last, date(now)}
    PROVE  RowsStay
BY DEF MailsInv, MailRows, RowsStay

LEMMA ConfirmedRow ==
    ASSUME NEW r, IsRow(r), NEW x
    PROVE  /\ [r EXCEPT !.confirmed = x] = [frequency |-> r.frequency, confirmed |-> x,
                                            unsubscribed |-> r.unsubscribed, last |-> r.last]
           /\ [r EXCEPT !.unsubscribed = x] = [frequency |-> r.frequency, confirmed |-> r.confirmed,
                                               unsubscribed |-> x, last |-> r.last]
           /\ [r EXCEPT !.frequency = x] = [frequency |-> x, confirmed |-> r.confirmed,
                                            unsubscribed |-> r.unsubscribed, last |-> r.last]
BY DEF IsRow

LEMMA ConfirmsRows ==
    ASSUME MailsInv, UNCHANGED <<now, lost, digests>>, NEW u \in Users,
           sub' = [sub EXCEPT ![u] = [k \in Kinds |->
                      [sub[u][k] EXCEPT !.confirmed = @ \/ sub[u][k].frequency # None]]]
    PROVE  RowsStay
<1>1. ASSUME NEW v \in Users, NEW k \in Kinds
      PROVE  /\ IsRow(sub'[v][k]) /\ sub'[v][k].frequency = sub[v][k].frequency
             /\ sub'[v][k].last = sub[v][k].last
  <2>1. PICK r : r = sub[v][k] /\ IsRow(r)
    BY DEF MailsInv, MailRows
  <2>2. PICK x : x = (r.confirmed \/ r.frequency # None)
    OBVIOUS
  <2>3. CASE v = u
    <3>1. sub'[v][k] = [r EXCEPT !.confirmed = r.confirmed \/ r.frequency # None]
      BY <2>1, <2>3 DEF MailsInv, MailRows
    <3>2. sub'[v][k] = [frequency |-> r.frequency, confirmed |-> x,
                        unsubscribed |-> r.unsubscribed, last |-> r.last]
      BY <2>1, <2>2, <3>1, ConfirmedRow
    <3>3. QED
      BY <2>1, <3>2 DEF IsRow
  <2>4. CASE v # u
    BY <2>1, <2>4 DEF MailsInv, MailRows
  <2>5. QED
    BY <2>3, <2>4
<1>2. sub' = [v \in Users |-> [k \in Kinds |-> sub'[v][k]]]
  BY DEF MailsInv, MailRows
<1>3. QED
  BY <1>1, <1>2, RowsKept

LEMMA SubscribersRows ==
    ASSUME MailsInv, NEW u \in Users,
           \/ FollowLink(u)
           \/ \E S \in SUBSET Kinds : Unsubscribe(u, S)
           \/ \E w \in Workers, k \in Kinds, f \in {"instant", "daily"} : SubscribeUpsert(w, u, k, f)
    PROVE  RowsStay /\ UNCHANGED <<now, lost, digests>>
<1>1. CASE FollowLink(u)
  <2>1. /\ UNCHANGED <<now, lost, digests>>
        /\ sub' = [sub EXCEPT ![u] = [k \in Kinds |->
                      [sub[u][k] EXCEPT !.confirmed = @ \/ sub[u][k].frequency # None]]]
    BY <1>1, Zenon DEF FollowLink
  <2>2. QED
    BY <2>1, ConfirmsRows
<1>2. ASSUME NEW S \in SUBSET Kinds, Unsubscribe(u, S) PROVE RowsStay /\ UNCHANGED <<now, lost, digests>>
  <2>1. UNCHANGED <<now, lost, digests>>
        /\ sub' = [sub EXCEPT ![u] = [k \in Kinds |-> IF k \in S THEN [sub[u][k] EXCEPT !.unsubscribed = TRUE] ELSE sub[u][k]]]
    BY <1>2 DEF Unsubscribe, MailsInv, MailRows
  <2>2. ASSUME NEW v \in Users, NEW k \in Kinds
        PROVE  /\ IsRow(sub'[v][k]) /\ sub'[v][k].frequency = sub[v][k].frequency
               /\ sub'[v][k].last = sub[v][k].last
    <3>1. PICK r : r = sub[v][k] /\ IsRow(r)
      BY DEF MailsInv, MailRows
    <3>2. sub'[v][k] \in {r, [r EXCEPT !.unsubscribed = TRUE]}
      BY <2>1, <3>1 DEF MailsInv, MailRows
    <3>3. PICK x : x = TRUE
      OBVIOUS
    <3>4. sub'[v][k] \in {r, [frequency |-> r.frequency, confirmed |-> r.confirmed,
                              unsubscribed |-> x, last |-> r.last]}
      BY <3>1, <3>2, <3>3, ConfirmedRow
    <3>5. QED
      BY <3>1, <3>4 DEF IsRow
  <2>3. sub' = [v \in Users |-> [k \in Kinds |-> sub'[v][k]]]
    BY <2>1 DEF MailsInv, MailRows
  <2>4. QED
    BY <2>1, <2>2, <2>3, RowsKept
<1>3. ASSUME NEW w \in Workers, NEW j \in Kinds, NEW f \in {"instant", "daily"}, SubscribeUpsert(w, u, j, f)
      PROVE  RowsStay /\ UNCHANGED <<now, lost, digests>>
  <2>1. UNCHANGED <<now, lost, digests>> /\ "subscribe" \in mix
    BY <1>3 DEF SubscribeUpsert, Serve, Ready
  <2>2. PICK r : r = sub[u][j] /\ IsRow(r)
    BY DEF MailsInv, MailRows
  <2>3. PICK q : q = [r EXCEPT !.frequency = f]
    OBVIOUS
  <2>4. IsRow(q)
    BY <2>2, <2>3, ConfirmedRow DEF IsRow
  <2>5. PICK s : s = [q EXCEPT !.unsubscribed = FALSE]
    OBVIOUS
  <2>6. IsRow(s)
    BY <2>4, <2>5, ConfirmedRow DEF IsRow
  <2>7. sub' = [sub EXCEPT ![u] = [sub[u] EXCEPT ![j] = s]]
    <3>1. sub' = [sub EXCEPT ![u][j].frequency = f, ![u][j].unsubscribed = FALSE]
      BY <1>3 DEF SubscribeUpsert
    <3>2. PICK g : g = [sub EXCEPT ![u][j].frequency = f]
      OBVIOUS
    <3>3. g = [sub EXCEPT ![u] = [sub[u] EXCEPT ![j] = q]]
      BY <2>2, <2>3, <3>2
    <3>4. g[u][j] = q
      BY <3>3 DEF MailsInv, MailRows
    <3>5. sub' = [g EXCEPT ![u][j].unsubscribed = FALSE]
      BY <3>1, <3>2
    <3>6. sub' = [g EXCEPT ![u] = [g[u] EXCEPT ![j] = s]]
      BY <2>5, <3>4, <3>5
    <3>7. QED
      BY <3>3, <3>6 DEF MailsInv, MailRows
  <2>8. \A v \in Users, k \in Kinds : IsRow(sub'[v][k])
    BY <2>6, <2>7 DEF MailsInv, MailRows
  <2>9. sub' = [v \in Users |-> [k \in Kinds |-> sub'[v][k]]]
    BY <2>7 DEF MailsInv, MailRows
  <2>10. QED
    BY <2>1, <2>8, <2>9, RowsKept
<1>4. QED
  BY <1>1, <1>2, <1>3

LEMMA AlertsElsewhere ==
    ASSUME MailsInv, PostingsInv, UNCHANGED mix, NEW w \in Workers,
           \/ SubscribeConfirm(w) \/ DispatchRead(w) \/ AlertStamp(w)
           \/ \E u \in Users : AlertMail(w, u)
    PROVE  MailsInv' /\ UNCHANGED <<digests, lost>>
<1>1. CASE SubscribeConfirm(w)
  <2>1. PICK u : u = txn[w].u
    OBVIOUS
  <2>2. /\ ~InSweep(txn[w]) /\ txn' = [txn EXCEPT ![w] = Idle] /\ UNCHANGED <<now, digests, lost>>
        /\ \/ sub' = sub
           \/ sub' = [sub EXCEPT ![u] = [k \in Kinds |->
                          [sub[u][k] EXCEPT !.confirmed = @ \/ sub[u][k].frequency # None]]]
    BY <1>1, <2>1, Zenon DEF SubscribeConfirm, At, End, InSweep
  <2>3. RowsStay
    <3>1. CASE u \in Users
      BY <2>2, <3>1, ConfirmsRows, SameRows
    <3>2. CASE u \notin Users
      <4>1. sub' = sub
        BY <2>2, <3>2 DEF MailsInv, MailRows
      <4>2. QED
        BY <2>2, <4>1, SameRows
    <3>3. QED
      BY <3>1, <3>2
  <2>4. QED
    BY <2>2, <2>3, IdleSweeps, Elsewhere
<1>2. CASE DispatchRead(w)
  <2>1. PICK t : t = [pc |-> "alert", posting |-> txn[w].posting, list |-> InstantList(txn[w].posting), rows |-> sub]
    OBVIOUS
  <2>2. /\ ~InSweep(txn[w]) /\ UNCHANGED alerts
        /\ txn' = [txn EXCEPT ![w] = Idle] \/ txn' = [txn EXCEPT ![w] = t]
    BY <1>2, <2>1 DEF DispatchRead, At, End, InSweep
  <2>3. ~InSweep(t) /\ UNCHANGED <<now, sub, digests, lost>>
    BY <2>1, <2>2 DEF InSweep, alerts
  <2>4. QED
    BY <2>2, <2>3, IdleSweeps, SameRows, Elsewhere
<1>3. ASSUME NEW u \in Users, AlertMail(w, u) PROVE MailsInv' /\ UNCHANGED <<digests, lost>>
  <2>1. PICK t : t = [pc |-> "alert_stamp", u |-> u, posting |-> txn[w].posting, list |-> txn[w].list, rows |-> txn[w].rows]
    OBVIOUS
  <2>2. ~InSweep(txn[w]) /\ UNCHANGED alerts /\ txn' = [txn EXCEPT ![w] = t]
    BY <1>3, <2>1 DEF AlertMail, At, InSweep, PostingsInv
  <2>3. ~InSweep(t) /\ UNCHANGED <<now, sub, digests, lost>>
    BY <2>1, <2>2 DEF InSweep, alerts
  <2>4. QED
    BY <2>2, <2>3, SameRows, Elsewhere
<1>4. CASE AlertStamp(w)
  <2>1. PICK t, u, j, d, x : /\ t = txn[w] /\ u = t.u /\ j = KindOf[t.posting] /\ d = date(now)
                             /\ x = [pc |-> "alert", posting |-> t.posting, list |-> t.list \ {t.u}, rows |-> t.rows]
    OBVIOUS
  <2>2. /\ ~InSweep(txn[w]) /\ UNCHANGED <<now, digests, lost>>
        /\ txn' = [txn EXCEPT ![w] = Idle] \/ txn' = [txn EXCEPT ![w] = x]
        /\ sub' = [sub EXCEPT ![u][j].last = d]
    BY <1>4, <2>1 DEF AlertStamp, At, End, InSweep
  <2>3. ASSUME NEW v \in Users, NEW k \in Kinds
        PROVE  /\ IsRow(sub'[v][k]) /\ sub'[v][k].frequency = sub[v][k].frequency
               /\ sub'[v][k].last \in {sub[v][k].last, d}
    <3>1. PICK r : r = sub[v][k] /\ IsRow(r)
      BY DEF MailsInv, MailRows
    <3>2. sub'[v][k] \in {r, [r EXCEPT !.last = d]}
      BY <2>2, <3>1 DEF MailsInv, MailRows
    <3>3. sub'[v][k] \in {r, [frequency |-> r.frequency, confirmed |-> r.confirmed,
                              unsubscribed |-> r.unsubscribed, last |-> d]}
      BY <3>1, <3>2, StampedRow
    <3>4. QED
      BY <3>1, <3>3 DEF IsRow
  <2>4. sub' = [v \in Users |-> [k \in Kinds |-> sub'[v][k]]]
    BY <2>2 DEF MailsInv, MailRows
  <2>5. RowsStay
    BY <2>1, <2>2, <2>3, <2>4, RowsKept
  <2>6. ~InSweep(x)
    BY <2>1 DEF InSweep
  <2>7. QED
    BY <2>2, <2>5, <2>6, IdleSweeps, Elsewhere
<1>5. QED
  BY <1>1, <1>2, <1>3, <1>4

\* What a step of subscribers, digests or the clock does to the digests.
LEMMA AlertsMail ==
    ASSUME MailsInv, PostingsInv, AlertsStep, UNCHANGED <<jobs, mix>>
    PROVE  /\ MailsInv' /\ lost \in Nat /\ lost' \in Nat /\ lost <= lost'
           /\ \/ \A u \in Users : digests'[u] \in {digests[u], 0}
              \/ \E w \in Workers, u \in Users : SweepMail(w, u)
<1>1. ASSUME MailsInv', UNCHANGED lost \/ lost <= lost'
      PROVE  lost \in Nat /\ lost' \in Nat /\ lost <= lost'
  BY <1>1 DEF MailsInv, MailRows
<1>2. ASSUME NEW u \in Users, NEW w \in Workers, SweepMail(w, u)
      PROVE  MailsInv' /\ UNCHANGED lost
  BY <1>2, SweepMails
<1>3. ASSUME NEW w \in Workers, SweepRead(w) \/ SweepStamp(w) \/ LoseSweep(w)
      PROVE  MailsInv' /\ UNCHANGED digests /\ (UNCHANGED lost \/ lost <= lost')
  BY <1>3, SweepReads, SweepStamps, SweepLost
<1>4. ASSUME NEW w \in Workers, \/ SubscribeConfirm(w) \/ DispatchRead(w) \/ AlertStamp(w)
                                \/ \E u \in Users : AlertMail(w, u)
      PROVE  MailsInv' /\ UNCHANGED <<digests, lost>>
  BY <1>4, AlertsElsewhere
<1>5. CASE Clock
  BY <1>1, <1>5, ClockMails
<1>6. ASSUME NEW u \in Users, FollowLink(u) \/ \E S \in SUBSET Kinds : Unsubscribe(u, S)
      PROVE  MailsInv' /\ UNCHANGED <<digests, lost>>
  <2>1. RowsStay /\ UNCHANGED <<now, lost, digests>>
    BY <1>6, SubscribersRows
  <2>2. UNCHANGED txn
    BY <1>6 DEF FollowLink, Unsubscribe, Serves, requests
  <2>3. QED
    BY <2>1, <2>2, Nowhere
<1>7. ASSUME NEW w \in Workers, NEW u \in Users, NEW k \in Kinds, NEW f \in {"instant", "daily"},
             SubscribeUpsert(w, u, k, f)
      PROVE  MailsInv' /\ UNCHANGED <<digests, lost>>
  <2>1. RowsStay /\ UNCHANGED <<now, lost, digests>>
    BY <1>7, SubscribersRows
  <2>2. PICK t : t = [pc |-> "subscribe", u |-> u]
    OBVIOUS
  <2>3. txn[w] = Idle /\ txn' = [txn EXCEPT ![w] = t]
    BY <1>7, <2>2 DEF SubscribeUpsert, Serve, Ready, Hold
  <2>4. ~InSweep(t) /\ ~InSweep(txn[w])
    BY <2>2, <2>3, IdleSweeps DEF InSweep
  <2>5. QED
    BY <2>1, <2>3, <2>4, Elsewhere
<1>8. QED
  BY <1>1, <1>2, <1>3, <1>4, <1>5, <1>6, <1>7 DEF AlertsStep

LEMMA MailsBegin == ASSUME RequestsInit, JobsInit, AlertsInit PROVE MailsInv
<1>1. PICK r : r = [NoSub EXCEPT !.frequency = "daily", !.confirmed = TRUE]
  OBVIOUS
<1>2. IsRow(NoSub) /\ IsRow(r)
  <2>1. IsRow(NoSub)
    BY DEF NoSub, IsRow
  <2>2. PICK q : q = [NoSub EXCEPT !.frequency = "daily"]
    OBVIOUS
  <2>3. IsRow(q)
    BY <2>1, <2>2, ConfirmedRow DEF IsRow
  <2>4. PICK yes : yes = TRUE
    OBVIOUS
  <2>5. r = [q EXCEPT !.confirmed = yes]
    BY <1>1, <2>2, <2>4
  <2>6. IsRow(r)
    BY <2>3, <2>5, ConfirmedRow DEF IsRow
  <2>7. QED
    BY <2>1, <2>6
<1>3. \E x \in {NoSub, r} : sub = [u \in Users |-> [k \in Kinds |-> x]]
  BY <1>1, Zenon DEF AlertsInit
<1>4. MailRows
  BY <1>2, <1>3 DEF AlertsInit, MailRows
<1>5. \A w \in Workers : SweepHeld(txn[w])
  BY IdleSweeps DEF RequestsInit, SweepHeld
<1>6. \A u \in Users : Counted(u)
  <2> TAKE u \in Users
  <2>1. digests[u] = 0 /\ lost = 0 /\ Cardinality(Mailing(u)) \in Nat
    BY MailingIs DEF AlertsInit
  <2>2. QED
    BY <2>1 DEF Counted
<1>7. QED
  BY <1>4, <1>5, <1>6 DEF MailsInv

LEMMA MailsKeep ==
    PostingsInv /\ MailsInv /\ [JobStep]_jobVars =>
        /\ MailsInv' /\ lost \in Nat /\ lost' \in Nat /\ lost <= lost'
        /\ \/ \A u \in Users : digests'[u] \in {digests[u], 0}
           \/ \E w \in Workers, u \in Users : SweepMail(w, u)
<1> SUFFICES ASSUME PostingsInv, MailsInv, [JobStep]_jobVars
             PROVE  /\ MailsInv' /\ lost \in Nat /\ lost' \in Nat /\ lost <= lost'
                    /\ \/ \A u \in Users : digests'[u] \in {digests[u], 0}
                       \/ \E w \in Workers, u \in Users : SweepMail(w, u)
  OBVIOUS
<1>1. UNCHANGED mix
  BY MixKept
<1>2. lost \in Nat
  BY DEF MailsInv, MailRows
<1>3. ASSUME UNCHANGED <<now, sub, digests, lost>>,
             UNCHANGED txn \/ \E w \in Workers : \E t : txn' = [txn EXCEPT ![w] = t] /\ ~InSweep(txn[w]) /\ ~InSweep(t)
      PROVE  MailsInv' /\ lost' \in Nat /\ lost <= lost' /\ \A u \in Users : digests'[u] \in {digests[u], 0}
  BY <1>1, <1>2, <1>3, SameRows, Nowhere, Elsewhere
<1>4. CASE UNCHANGED jobVars
  BY <1>2, <1>3, <1>4 DEF jobVars, requests, alerts
<1>5. CASE JobsNext /\ Created
  BY <1>2, <1>3, <1>5, JobsElsewhere DEF Created
<1>6. CASE AlertsStep /\ UNCHANGED jobs
  BY <1>1, <1>6, AlertsMail
<1>7. QED
  BY <1>4, <1>5, <1>6 DEF JobStep

LEMMA MailsInvariance == AlertsSpec => [](PostingsInv /\ MailsInv)
<1>1. RequestsInit /\ JobsInit /\ AlertsInit => MailsInv
  BY MailsBegin
<1>2. QED
  BY <1>1, MailsKeep, PostingsInvariance, PTL DEF AlertsSpec

\* A user has a second digest on one day only from a list read before the
\* first was stamped, from rows changed between the mail and its stamp, or,
\* once each, after a sweep was lost, on any number of machines.
THEOREM DigestsOnce == AlertsSpec => OnlyStaleSweepsRepeat
<1>1. PostingsInv /\ MailsInv /\ [JobStep]_jobVars =>
        ["subscribe" \notin mix /\ (\A w \in Workers : Steps(w) => ~SweepStale(w))
           => \A u \in Users : Repeats(u) <= lost => (Repeats(u) <= lost)']_jobVars
  <2> SUFFICES ASSUME PostingsInv, MailsInv, [JobStep]_jobVars, "subscribe" \notin mix,
                      \A w \in Workers : Steps(w) => ~SweepStale(w),
                      NEW u \in Users, Repeats(u) <= lost
               PROVE  (Repeats(u) <= lost)'
    OBVIOUS
  <2>1. /\ lost \in Nat /\ lost' \in Nat /\ lost <= lost' /\ digests[u] \in Nat
        /\ \/ digests'[u] \in {digests[u], 0}
           \/ \E w \in Workers, v \in Users : SweepMail(w, v)
    BY MailsKeep DEF MailsInv, MailRows
  <2>2. CASE digests'[u] \in {digests[u], 0}
    BY <2>1, <2>2 DEF Repeats
  <2>3. ASSUME NEW w \in Workers, NEW v \in Users, SweepMail(w, v), digests'[u] # digests[u]
        PROVE  digests'[u] = digests[u] + 1 /\ digests[u] <= lost /\ lost' = lost
    <3>1. /\ v = u /\ digests'[u] = digests[u] + 1 /\ lost' = lost /\ At(w, "sweep") /\ u \in txn[w].list
      BY <2>3 DEF SweepMail, MailsInv, MailRows
    <3>2. Steps(w)
      <4>1. txn'[w].pc = "sweep_stamp"
        BY <2>3 DEF SweepMail, PostingsInv
      <4>2. QED
        BY <3>1, <4>1 DEF Steps, At
    <3>3. txn[w].rows[u] = sub[u] /\ Mailing(u) = {}
      BY <2>3, <3>1, <3>2 DEF SweepStale, ListStale, At, Mailing
    <3>4. \E k \in Kinds : Undated(sub[u][k])
      BY <3>1, <3>3 DEF MailsInv, SweepHeld, InSweep, At
    <3>5. Counted(u) /\ Cardinality(Mailing(u)) = 0
      BY <3>3, FS_EmptySet DEF MailsInv
    <3>6. QED
      BY <2>1, <3>1, <3>4, <3>5 DEF Counted
  <2>4. CASE digests'[u] \notin {digests[u], 0}
    <3>1. digests'[u] = digests[u] + 1 /\ digests[u] <= lost /\ lost' = lost
      BY <2>1, <2>3, <2>4
    <3>2. QED
      BY <2>1, <3>1 DEF Repeats
  <2>5. QED
    BY <2>2, <2>4
<1>2. QED
  BY <1>1, MailsInvariance, PTL DEF AlertsSpec, OnlyStaleSweepsRepeat

-----------------------------------------------------------------------------
(* The grader.                                                             *)

IsArray(s) == Len(s) \in Nat /\ s = [n \in 1 .. Len(s) |-> s[n]]

LEMMA ElementsOf ==
    ASSUME NEW s, IsArray(s)
    PROVE  /\ IsFiniteSet(Elements(s)) /\ Cardinality(Elements(s)) \in Nat
           /\ (\A m, n \in DOMAIN s : s[m] = s[n] => m = n) => Cardinality(Elements(s)) = Len(s)
<1>1. s \in Surjection(1 .. Len(s), Elements(s))
  BY DEF IsArray, Elements, Surjection
<1>2. IsFiniteSet(1 .. Len(s)) /\ Cardinality(1 .. Len(s)) = Len(s)
  BY FS_Interval DEF IsArray
<1>3. /\ IsFiniteSet(Elements(s)) 
      /\ Cardinality(Elements(s)) = Cardinality(1 .. Len(s)) <=> s \in Injection(1 .. Len(s), Elements(s))
  BY <1>1, <1>2, FS_Surjection
<1>4. ASSUME \A m, n \in DOMAIN s : s[m] = s[n] => m = n
      PROVE  s \in Injection(1 .. Len(s), Elements(s))
  BY <1>4 DEF IsArray, Elements, Injection, IsInjective
<1>5. QED
  BY <1>2, <1>3, <1>4, FS_CardinalityType

LEMMA Exact ==
    ASSUME NEW a, IsArray(a), Cardinality(Elements(a)) = Len(a),
           NEW b, IsArray(b), \A m, n \in DOMAIN b : b[m] = b[n] => m = n
    PROVE  SetEq(a, b) <=> Elements(a) = Elements(b)
<1>1. Cardinality(Elements(b)) = Len(b) /\ IsFiniteSet(Elements(a)) /\ IsFiniteSet(Elements(b))
  BY ElementsOf
<1>2. ASSUME SetEq(a, b) PROVE Elements(a) = Elements(b)
  BY <1>1, <1>2, FS_Subset DEF SetEq
<1>3. QED
  BY <1>1, <1>2 DEF SetEq

\* The grader's marks are those it promises, unless an option is named twice.
LEMMA AsPromised ==
    ASSUME NEW q, WellPosed(q), Objective(q), NEW a, Readable(q.kind, a)
    PROVE  /\ Awarded(q, a) \in Int
           /\ Cardinality(Elements(a)) = Len(a) => Awarded(q, a) = Promised(q, a)
<1>1. Awarded(q, a) \in Int
  BY DEF Awarded, WellPosed
<1>2. ASSUME Cardinality(Elements(a)) = Len(a) PROVE Awarded(q, a) = Promised(q, a)
  <2>1. CASE a = <<>>
    BY <2>1 DEF Awarded, Promised
  <2>2. CASE a # <<>> /\ q.kind = "mcq"
    <3>1. SetEq(a, q.key) <=> Elements(a) = Elements(q.key)
      BY <1>2, <2>2, Exact DEF WellPosed, Readable, IsArray
    <3>2. CASE Elements(a) = Elements(q.key)
      BY <2>2, <3>1, <3>2 DEF Awarded, Promised, Right
    <3>3. CASE Elements(a) # Elements(q.key)
      BY <2>2, <3>1, <3>3 DEF Awarded, Promised, Right
    <3>4. QED
      BY <3>2, <3>3
  <2>3. CASE a # <<>> /\ q.kind = "numerical"
    <3>1. a[1] \in Int /\ q.key[1] \in Int /\ q.tolerance \in Int
      BY <2>3 DEF WellPosed, Readable
    <3>2. a[1] - q.key[1] \in -q.tolerance .. q.tolerance <=> a[1] \in q.key[1] - q.tolerance .. q.key[1] + q.tolerance
      BY <3>1
    <3>3. CASE a[1] \in q.key[1] - q.tolerance .. q.key[1] + q.tolerance
      BY <2>3, <3>2, <3>3 DEF Awarded, Promised, Right
    <3>4. CASE a[1] \notin q.key[1] - q.tolerance .. q.key[1] + q.tolerance
      BY <2>3, <3>2, <3>4 DEF Awarded, Promised, Right
    <3>5. QED
      BY <3>3, <3>4
  <2>4. QED
    BY <2>1, <2>2, <2>3 DEF Objective
<1>3. QED
  BY <1>1, <1>2

\* A new version of the options makes no difference.
LEMMA RestampKeeps ==
    ASSUME NEW s, IsArray(s), NEW v
    PROVE  /\ Len(Stamp(s, v)) = Len(s) /\ IsArray(Stamp(s, v)) /\ DOMAIN Stamp(s, v) = DOMAIN s
           /\ (\A m, n \in DOMAIN s : s[m] = s[n] => m = n) =>
                 \A m, n \in DOMAIN s : Stamp(s, v)[m] = Stamp(s, v)[n] => m = n
<1>1. PICK t : t = [n \in 1 .. Len(s) |-> <<s[n], v>>]
  OBVIOUS
<1>2. t = Stamp(s, v) /\ DOMAIN s = 1 .. Len(s)
  BY <1>1 DEF IsArray, Stamp
<1>3. Len(t) = Len(s)
  <2>1. t \in [1 .. Len(s) -> {<<s[n], v>> : n \in 1 .. Len(s)}]
    BY <1>1
  <2>2. t \in Seq({<<s[n], v>> : n \in 1 .. Len(s)})
    BY <2>1 DEF IsArray
  <2>3. DOMAIN t = 1 .. Len(t) /\ Len(t) \in Nat
    BY <2>2, LenProperties
  <2>4. QED
    BY <1>1, <2>3 DEF IsArray
<1>4. QED
  BY <1>1, <1>2, <1>3 DEF IsArray

LEMMA AskedIsPosed ==
    ASSUME NEW q \in Questions, paper \in Papers
    PROVE  WellPosed(Asked(q)) /\ Asked(q).kind = paper[q].kind
<1>1. PICK r : r = paper[q] /\ WellPosed(r)
  BY MockTestsAssumption
<1>2. CASE r.kind = "mcq"
  <2>1. PICK k : k = Stamp(r.key, version[q])
    OBVIOUS
  <2>2. Asked(q) = [r EXCEPT !.key = k]
    BY <1>1, <1>2, <2>1 DEF Asked
  <2>3. Asked(q) = [kind |-> r.kind, marks |-> r.marks, negative |-> r.negative, key |-> k, tolerance |-> r.tolerance]
    BY <1>1, <2>2 DEF WellPosed
  <2>4. IsArray(r.key) /\ \A m, n \in DOMAIN r.key : r.key[m] = r.key[n] => m = n
    BY <1>1, <1>2 DEF WellPosed, IsArray
  <2>5. IsArray(k) /\ \A m, n \in DOMAIN k : k[m] = k[n] => m = n
    BY <2>1, <2>4, RestampKeeps
  <2>6. QED
    BY <1>1, <1>2, <2>3, <2>5 DEF WellPosed, IsArray
<1>3. CASE r.kind # "mcq"
  BY <1>1, <1>3 DEF Asked
<1>4. QED
  BY <1>2, <1>3

-----------------------------------------------------------------------------
(* Sums of marks.                                                          *)

\* What holds of a set whenever it holds of its proper subsets.
LEMMA BySubsets ==
    ASSUME NEW S, IsFiniteSet(S), NEW F,
           \A s \in SUBSET S : (\A r \in SUBSET s : r # s => r \in F) => s \in F
    PROVE  \A s \in SUBSET S : s \in F
<1> SUFFICES ASSUME (SUBSET S) \ F # {} PROVE FALSE
  OBVIOUS
<1>1. PICK R, P, T : R = StrictSubsetOrdering(S) /\ P = SUBSET S /\ T = P \ F
  OBVIOUS
<1>2. IsWellFoundedOn(R, P)
  <2>1. FiniteSubsetsOf(S) = SUBSET S
    BY FS_FiniteSubsetsOfFinite
  <2>2. IsWellFoundedOn(StrictSubsetOrdering(S), FiniteSubsetsOf(S))
    BY FS_StrictSubsetOrderingWellFounded
  <2>3. QED
    BY <1>1, <2>1, <2>2
<1>3. PICK s \in T : \A r \in T : ~(<<r, s>> \in R)
  <2>1. T \subseteq P /\ T # {}
    BY <1>1
  <2>2. QED
    BY <1>2, <2>1, WFMin
<1>4. \A r \in SUBSET s : r # s => r \in F
  <2>1. ASSUME NEW r \in SUBSET s, r # s PROVE r \in F
    <3>1. r \in P /\ s \in P
      BY <1>1, <1>3, <2>1
    <3>2. <<r, s>> \in R
      BY <1>1, <2>1, <3>1 DEF StrictSubsetOrdering
    <3>3. QED
      BY <1>1, <1>3, <3>1, <3>2
  <2>2. QED
    BY <2>1
<1>5. QED
  BY <1>1, <1>3, <1>4

Value(marks, q) == IF marks[q] = None THEN 0 ELSE marks[q]

Pick(s) == CHOOSE x \in s : TRUE

IsSum(g, marks, S) ==
    g = [s \in SUBSET S |-> IF s = {} THEN 0 ELSE Value(marks, Pick(s)) + g[s \ {Pick(s)}]]

Sum(marks, S) == CHOOSE g : IsSum(g, marks, S)

LEMMA MarksAre == ASSUME NEW marks, NEW S PROVE MarksOf(marks, S) = Sum(marks, S)[S]
BY DEF MarksOf, MapThenSumSet, MapThenFoldSet, Sum, IsSum, Value, Pick

LEMMA Picked == ASSUME NEW s, s # {} PROVE Pick(s) \in s /\ s \ {Pick(s)} \in SUBSET s /\ s \ {Pick(s)} # s
BY DEF Pick

LEMMA SumsAgree ==
    ASSUME NEW marks, NEW S, NEW R \in SUBSET S, IsFiniteSet(R), NEW g, NEW h,
           IsSum(g, marks, S), IsSum(h, marks, R)
    PROVE  \A s \in SUBSET R : g[s] = h[s]
<1> DEFINE F == {s \in SUBSET R : g[s] = h[s]}
<1>1. ASSUME NEW s \in SUBSET R, \A r \in SUBSET s : r # s => r \in F PROVE s \in F
  <2>1. /\ g[s] = IF s = {} THEN 0 ELSE Value(marks, Pick(s)) + g[s \ {Pick(s)}]
        /\ h[s] = IF s = {} THEN 0 ELSE Value(marks, Pick(s)) + h[s \ {Pick(s)}]
    <3>1. s \in SUBSET S
      OBVIOUS
    <3>2. QED
      BY <3>1, Zenon DEF IsSum
  <2>2. s # {} => g[s \ {Pick(s)}] = h[s \ {Pick(s)}]
    BY <1>1, Picked
  <2>3. g[s] = h[s]
    BY <2>1, <2>2
  <2>4. QED
    BY <2>3
<1>2. \A s \in SUBSET R : s \in F
  <2> HIDE DEF F
  <2>1. QED
    BY <1>1, BySubsets
<1>3. QED
  BY <1>2

LEMMA SumsExist ==
    ASSUME NEW marks, NEW S, IsFiniteSet(S)
    PROVE  \A s \in SUBSET S : IsSum(Sum(marks, s), marks, s)
<1> DEFINE F == {s \in SUBSET S : IsSum(Sum(marks, s), marks, s)}
<1>1. ASSUME NEW s \in SUBSET S, \A r \in SUBSET s : r # s => r \in F PROVE s \in F
  <2> DEFINE Rest(r) == r \ {Pick(r)}
             g == [r \in SUBSET s |-> IF r = {} THEN 0 ELSE Value(marks, Pick(r)) + Sum(marks, Rest(r))[Rest(r)]]
  <2>1. ASSUME NEW r \in SUBSET s, r # {}
        PROVE  Rest(r) \in SUBSET s /\ Rest(r) # s /\ IsSum(Sum(marks, Rest(r)), marks, Rest(r))
    BY <1>1, <2>1, Picked
  <2>2. ASSUME NEW r \in SUBSET s, r # {} PROVE g[Rest(r)] = Sum(marks, Rest(r))[Rest(r)]
    <3>1. PICK p : p = Rest(r)
      OBVIOUS
    <3>2. p \in SUBSET s /\ IsSum(Sum(marks, p), marks, p)
      BY <2>1, <2>2, <3>1
    <3>3. Sum(marks, p)[p] = IF p = {} THEN 0 ELSE Value(marks, Pick(p)) + Sum(marks, p)[p \ {Pick(p)}]
      <4>1. p \in SUBSET p
        OBVIOUS
      <4>2. PICK h : h = Sum(marks, p)
        OBVIOUS
      <4>3. h[p] = IF p = {} THEN 0 ELSE Value(marks, Pick(p)) + h[p \ {Pick(p)}]
        BY <3>2, <4>1, <4>2, Zenon DEF IsSum
      <4>4. QED
        BY <4>2, <4>3
    <3>4. ASSUME p # {} PROVE Sum(marks, p)[p \ {Pick(p)}] = Sum(marks, p \ {Pick(p)})[p \ {Pick(p)}]
      <4>1. p \ {Pick(p)} \in SUBSET p /\ IsSum(Sum(marks, p \ {Pick(p)}), marks, p \ {Pick(p)})
        BY <2>1, <3>2, <3>4, Picked
      <4>2. IsFiniteSet(p \ {Pick(p)})
        BY <3>2, FS_Subset
      <4>3. QED
        BY <3>2, <4>1, <4>2, SumsAgree
    <3>5. g[p] = IF p = {} THEN 0 ELSE Value(marks, Pick(p)) + Sum(marks, p \ {Pick(p)})[p \ {Pick(p)}]
      BY <3>2
    <3>6. g[p] = Sum(marks, p)[p]
      BY <3>3, <3>4, <3>5
    <3>7. QED
      BY <3>1, <3>6
  <2>3. \A r \in SUBSET s : (IF r = {} THEN 0 ELSE Value(marks, Pick(r)) + Sum(marks, Rest(r))[Rest(r)])
                          = IF r = {} THEN 0 ELSE Value(marks, Pick(r)) + g[Rest(r)]
    BY <2>2
  <2>4. g = [r \in SUBSET s |-> IF r = {} THEN 0 ELSE Value(marks, Pick(r)) + g[Rest(r)]]
    BY <2>3
  <2>5. IsSum(g, marks, s)
    BY <2>4 DEF IsSum
  <2>6. IsSum(Sum(marks, s), marks, s)
    <3> HIDE DEF g
    <3>1. QED
      BY <2>5 DEF Sum
  <2>7. QED
    BY <2>6
<1>2. \A s \in SUBSET S : s \in F
  <2> HIDE DEF F
  <2>1. QED
    BY <1>1, BySubsets
<1>3. QED
  BY <1>2

LEMMA SumStep ==
    ASSUME NEW marks, NEW S, IsFiniteSet(S)
    PROVE  /\ MarksOf(marks, {}) = 0
           /\ S # {} => MarksOf(marks, S) = Value(marks, Pick(S)) + MarksOf(marks, S \ {Pick(S)})
<1>1. ASSUME NEW s, IsFiniteSet(s)
      PROVE  Sum(marks, s)[s] = IF s = {} THEN 0 ELSE Value(marks, Pick(s)) + Sum(marks, s)[s \ {Pick(s)}]
  <2>1. s \in SUBSET s /\ IsSum(Sum(marks, s), marks, s)
    BY <1>1, SumsExist
  <2>2. PICK h : h = Sum(marks, s)
    OBVIOUS
  <2>3. h[s] = IF s = {} THEN 0 ELSE Value(marks, Pick(s)) + h[s \ {Pick(s)}]
    BY <2>1, <2>2, Zenon DEF IsSum
  <2>4. QED
    BY <2>2, <2>3
<1>2. MarksOf(marks, {}) = 0
  BY <1>1, MarksAre, FS_EmptySet
<1>3. ASSUME S # {} PROVE Sum(marks, S)[S \ {Pick(S)}] = Sum(marks, S \ {Pick(S)})[S \ {Pick(S)}]
  <2>1. PICK r : r = S \ {Pick(S)}
    OBVIOUS
  <2>2. r \in SUBSET S /\ IsFiniteSet(r)
    BY <2>1, FS_Subset
  <2>3. IsSum(Sum(marks, r), marks, r) /\ IsSum(Sum(marks, S), marks, S)
    BY <2>2, SumsExist
  <2>4. Sum(marks, S)[r] = Sum(marks, r)[r]
    BY <2>2, <2>3, SumsAgree
  <2>5. QED
    BY <2>1, <2>4
<1>4. QED
  BY <1>1, <1>2, <1>3, MarksAre

MarkMaps == [Questions -> Int \cup {None}]

LEMMA SumType ==
    ASSUME NEW marks \in MarkMaps
    PROVE  \A s \in SUBSET Questions : MarksOf(marks, s) \in Int
<1> DEFINE F == {s \in SUBSET Questions : MarksOf(marks, s) \in Int}
<1>1. ASSUME NEW s \in SUBSET Questions, \A r \in SUBSET s : r # s => r \in F PROVE s \in F
  <2>1. IsFiniteSet(s)
    BY FS_Subset, MockTestsAssumption
  <2>2. CASE s = {}
    <3>1. MarksOf(marks, {}) = 0
      BY FS_EmptySet, SumStep
    <3>2. QED
      BY <2>2, <3>1
  <2>3. CASE s # {}
    <3>1. MarksOf(marks, s) = Value(marks, Pick(s)) + MarksOf(marks, s \ {Pick(s)})
      BY <2>1, <2>3, SumStep
    <3>2. MarksOf(marks, s \ {Pick(s)}) \in Int
      BY <1>1, <2>3, Picked
    <3>3. Value(marks, Pick(s)) \in Int
      BY <2>3, Picked DEF Value, MarkMaps
    <3>4. QED
      BY <3>1, <3>2, <3>3
  <2>4. QED
    BY <2>2, <2>3
<1>2. \A s \in SUBSET Questions : s \in F
  <2> HIDE DEF F
  <2>1. QED
    BY <1>1, BySubsets, MockTestsAssumption
<1>3. QED
  BY <1>2

\* The order in which the questions are added makes no difference.
LEMMA SumAny ==
    ASSUME NEW marks \in MarkMaps
    PROVE  \A s \in SUBSET Questions : \A x \in s : MarksOf(marks, s) = Value(marks, x) + MarksOf(marks, s \ {x})
<1> DEFINE F == {s \in SUBSET Questions : \A x \in s : MarksOf(marks, s) = Value(marks, x) + MarksOf(marks, s \ {x})}
<1>1. ASSUME NEW s \in SUBSET Questions, \A r \in SUBSET s : r # s => r \in F PROVE s \in F
  <2>1. ASSUME NEW x \in s PROVE MarksOf(marks, s) = Value(marks, x) + MarksOf(marks, s \ {x})
    <3>1. PICK p : p = Pick(s)
      OBVIOUS
    <3>2. p \in s
      BY <3>1, Picked
    <3>3. MarksOf(marks, s) = Value(marks, p) + MarksOf(marks, s \ {p})
      BY <3>1, FS_Subset, MockTestsAssumption, SumStep
    <3>4. CASE p = x
      BY <3>3, <3>4
    <3>5. CASE p # x
      <4>1. MarksOf(marks, s \ {p}) = Value(marks, x) + MarksOf(marks, (s \ {p}) \ {x})
        <5>1. s \ {p} \in F /\ x \in s \ {p}
          BY <1>1, <3>2, <3>5
        <5>2. QED
          BY <5>1
      <4>2. MarksOf(marks, s \ {x}) = Value(marks, p) + MarksOf(marks, (s \ {x}) \ {p})
        <5>1. s \ {x} \in F /\ p \in s \ {x}
          BY <1>1, <3>2, <3>5
        <5>2. QED
          BY <5>1
      <4>3. PICK r : r = (s \ {p}) \ {x} /\ r = (s \ {x}) \ {p}
        OBVIOUS
      <4>4. MarksOf(marks, r) \in Int
        BY <4>3, SumType
      <4>5. Value(marks, p) \in Int /\ Value(marks, x) \in Int
        BY <3>2 DEF Value, MarkMaps
      <4>6. MarksOf(marks, s \ {p}) = Value(marks, x) + MarksOf(marks, r)
            /\ MarksOf(marks, s \ {x}) = Value(marks, p) + MarksOf(marks, r)
        BY <4>1, <4>2, <4>3
      <4>7. ASSUME NEW v \in Int, NEW z \in Int, NEW m \in Int PROVE v + (z + m) = z + (v + m)
        OBVIOUS
      <4>8. Value(marks, p) + (Value(marks, x) + MarksOf(marks, r)) = Value(marks, x) + (Value(marks, p) + MarksOf(marks, r))
        BY <4>4, <4>5, <4>7
      <4>9. QED
        BY <3>3, <4>6, <4>8, Zenon
    <3>6. QED
      BY <3>4, <3>5
  <2>2. QED
    BY <2>1
<1>2. \A s \in SUBSET Questions : s \in F
  <2> HIDE DEF F
  <2>1. QED
    BY <1>1, BySubsets, MockTestsAssumption
<1>3. QED
  BY <1>2

\* The questions of one sort and the others add up to all.
LEMMA SumSplit ==
    ASSUME NEW marks \in MarkMaps
    PROVE  \A s \in SUBSET Questions : \A A \in SUBSET s :
              MarksOf(marks, s) = MarksOf(marks, A) + MarksOf(marks, s \ A)
<1> DEFINE F == {s \in SUBSET Questions : \A A \in SUBSET s : MarksOf(marks, s) = MarksOf(marks, A) + MarksOf(marks, s \ A)}
<1>1. ASSUME NEW s \in SUBSET Questions, \A r \in SUBSET s : r # s => r \in F PROVE s \in F
  <2>1. ASSUME NEW A \in SUBSET s PROVE MarksOf(marks, s) = MarksOf(marks, A) + MarksOf(marks, s \ A)
    <3>1. CASE s = {}
      <4>1. A = {} /\ s \ A = {}
        BY <3>1
      <4>2. MarksOf(marks, {}) = 0
        BY FS_EmptySet, SumStep
      <4>3. QED
        BY <3>1, <4>1, <4>2
    <3>2. CASE s # {}
      <4>1. PICK p : p \in s
        BY <3>2
      <4>2. MarksOf(marks, s) = Value(marks, p) + MarksOf(marks, s \ {p})
        BY <4>1, SumAny
      <4>3. Value(marks, p) \in Int
        BY <4>1 DEF Value, MarkMaps
      <4>4. CASE p \in A
        <5>1. MarksOf(marks, A) = Value(marks, p) + MarksOf(marks, A \ {p})
          BY <4>4, SumAny
        <5>2. (s \ {p}) \ (A \ {p}) = s \ A
          BY <4>4
        <5>3. MarksOf(marks, s \ {p}) = MarksOf(marks, A \ {p}) + MarksOf(marks, (s \ {p}) \ (A \ {p}))
          <6>1. s \ {p} \in F /\ A \ {p} \in SUBSET (s \ {p})
            BY <1>1, <4>1
          <6>2. QED
            BY <6>1
        <5>4. MarksOf(marks, A \ {p}) \in Int /\ MarksOf(marks, s \ A) \in Int
          BY SumType
        <5>5. PICK v, k, l : v = Value(marks, p) /\ k = MarksOf(marks, A \ {p}) /\ l = MarksOf(marks, s \ A)
          OBVIOUS
        <5>6. v \in Int /\ k \in Int /\ l \in Int
          BY <4>3, <5>4, <5>5
        <5>7. MarksOf(marks, s) = v + (k + l) /\ MarksOf(marks, A) = v + k
          BY <4>2, <5>1, <5>2, <5>3, <5>5
        <5>8. v + (k + l) = (v + k) + l
          BY <5>6
        <5>9. QED
          BY <5>5, <5>7, <5>8
      <4>5. CASE p \notin A
        <5>1. MarksOf(marks, s \ A) = Value(marks, p) + MarksOf(marks, (s \ A) \ {p})
          BY <4>1, <4>5, SumAny
        <5>2. (s \ {p}) \ A = (s \ A) \ {p}
          OBVIOUS
        <5>3. MarksOf(marks, s \ {p}) = MarksOf(marks, A) + MarksOf(marks, (s \ {p}) \ A)
          <6>1. s \ {p} \in F /\ A \in SUBSET (s \ {p})
            BY <1>1, <4>1, <4>5
          <6>2. QED
            BY <6>1
        <5>4. MarksOf(marks, A) \in Int /\ MarksOf(marks, (s \ A) \ {p}) \in Int
          BY SumType
        <5>5. PICK v, k, l : v = Value(marks, p) /\ k = MarksOf(marks, A) /\ l = MarksOf(marks, (s \ A) \ {p})
          OBVIOUS
        <5>6. v \in Int /\ k \in Int /\ l \in Int
          BY <4>3, <5>4, <5>5
        <5>7. MarksOf(marks, s) = v + (k + l) /\ MarksOf(marks, s \ A) = v + l
          BY <4>2, <5>1, <5>2, <5>3, <5>5
        <5>8. v + (k + l) = k + (v + l)
          BY <5>6
        <5>9. QED
          BY <5>5, <5>7, <5>8
      <4>6. QED
        BY <4>4, <4>5
    <3>3. QED
      BY <3>1, <3>2
  <2>2. QED
    BY <2>1
<1>2. \A s \in SUBSET Questions : s \in F
  <2> HIDE DEF F
  <2>1. QED
    BY <1>1, BySubsets, MockTestsAssumption
<1>3. QED
  BY <1>2

LEMMA SumZero ==
    ASSUME NEW marks
    PROVE  \A s \in SUBSET Questions : (\A q \in s : marks[q] = None) => MarksOf(marks, s) = 0
<1> DEFINE F == {s \in SUBSET Questions : (\A q \in s : marks[q] = None) => MarksOf(marks, s) = 0}
<1>1. ASSUME NEW s \in SUBSET Questions, \A r \in SUBSET s : r # s => r \in F PROVE s \in F
  <2>1. ASSUME \A q \in s : marks[q] = None PROVE MarksOf(marks, s) = 0
    <3>1. IsFiniteSet(s)
      BY FS_Subset, MockTestsAssumption
    <3>2. CASE s # {}
      <4>1. MarksOf(marks, s) = Value(marks, Pick(s)) + MarksOf(marks, s \ {Pick(s)})
        BY <3>1, <3>2, SumStep
      <4>2. Pick(s) \in s /\ Value(marks, Pick(s)) = 0
        BY <2>1, <3>2, Picked DEF Value
      <4>3. s \ {Pick(s)} \in F
        BY <1>1, <3>2, Picked
      <4>4. MarksOf(marks, s \ {Pick(s)}) = 0
        BY <2>1, <4>3
      <4>5. QED
        BY <4>1, <4>2, <4>4
    <3>3. CASE s = {}
      BY <3>1, <3>3, SumStep
    <3>4. QED
      BY <3>2, <3>3
  <2>2. QED
    BY <2>1
<1>2. \A s \in SUBSET Questions : s \in F
  <2> HIDE DEF F
  <2>1. QED
    BY <1>1, BySubsets, MockTestsAssumption
<1>3. QED
  BY <1>2

-----------------------------------------------------------------------------
(* Attempts.                                                               *)

IsLog(s) == \E S : s \in Seq(S)

IsAttempt(a) ==
    /\ a = [status |-> a.status, expired |-> a.expired, answer |-> a.answer, marks |-> a.marks,
            auto |-> a.auto, manual |-> a.manual, total |-> a.total]
    /\ a.expired \in BOOLEAN
    /\ a.answer = [q \in Questions |-> a.answer[q]]
    /\ \A q \in Questions : Readable(paper[q].kind, a.answer[q])
    /\ a.marks \in MarkMaps

AttemptRows ==
    /\ paper \in Papers
    /\ reg = [u \in Students |-> reg[u]]
    /\ attempts = [u \in Students |-> attempts[u]]
    /\ \A u \in Students : IsLog(attempts[u]) /\ \A i \in DOMAIN attempts[u] : IsAttempt(attempts[u][i])

OfAttempt(t) == t.u \in Takers /\ t.i \in DOMAIN attempts[t.u]

\* What a request has checked.
ExamTxn(t) ==
    /\ t.pc = "reg_write" => t.u \in Students /\ t.count \in Nat /\ t.count < Capacity
    /\ t.pc = "start_insert" => t.u \in Takers /\ t.count = 0
    /\ t.pc \in {"save_write", "grade_read", "grade_write", "mark_commit"} => OfAttempt(t)
    /\ t.pc = "save_write" => t.q \in Questions /\ Readable(paper[t.q].kind, t.answer)
    /\ t.pc \in {"save_write", "grade_write"} => t.seen.status = "in_progress"
    /\ t.pc = "grade_write" =>
          /\ t.marks \in MarkMaps
          /\ \A q \in DOMAIN t.asked \cap Objectives : t.marks[q] = Awarded(t.asked[q], t.seen.answer[q])
    /\ t.pc = "mark_commit" => /\ t.q \in Questions /\ t.count \in Int /\ t.seen.marks \in MarkMaps
                               /\ t.marks = [t.seen.marks EXCEPT ![t.q] = t.count]
    /\ t.pc = "grade_read" =>
          t = [pc |-> t.pc, u |-> t.u, i |-> t.i, q |-> t.q, old |-> t.old, count |-> t.count,
               answer |-> t.answer, seen |-> t.seen, asked |-> t.asked, marks |-> t.marks]

ExamsInv ==
    /\ AttemptRows
    /\ txn = [w \in Workers |-> txn[w]]
    /\ \A w \in Workers : ExamTxn(txn[w])

\* What requests rely on: the paper stays, and attempts are not taken out.
ExamsKeep == paper' = paper /\ \A u \in Takers : DOMAIN attempts[u] \subseteq DOMAIN attempts'[u]

LEMMA HeldKept == ASSUME NEW t, ExamTxn(t), ExamsKeep PROVE ExamTxn(t)'
BY DEF ExamTxn, ExamsKeep, OfAttempt, Objectives

LEMMA ExamStep ==
    ASSUME ExamsInv, AttemptRows', ExamsKeep, NEW w \in Workers, NEW t, ExamTxn(t)',
           txn' = [txn EXCEPT ![w] = t]
    PROVE  ExamsInv'
<1>1. ASSUME NEW v \in Workers PROVE ExamTxn(txn[v])'
  <2>1. CASE v = w
    <3>1. txn'[v] = t
      BY <2>1 DEF ExamsInv
    <3>2. QED
      BY <3>1
  <2>2. CASE v # w
    <3>1. txn'[v] = txn[v]
      BY <2>2 DEF ExamsInv
    <3>2. PICK x : x = txn[v]
      OBVIOUS
    <3>3. ExamTxn(x)'
      BY <3>2, HeldKept DEF ExamsInv
    <3>4. QED
      BY <3>1, <3>2, <3>3
  <2>3. QED
    BY <2>1, <2>2
<1>2. QED
  BY <1>1 DEF ExamsInv

LEMMA ExamStays == ASSUME ExamsInv, AttemptRows', ExamsKeep, UNCHANGED txn PROVE ExamsInv'
<1>1. ASSUME NEW v \in Workers PROVE ExamTxn(txn[v])'
  <2>1. PICK x : x = txn[v]
    OBVIOUS
  <2>2. ExamTxn(x)'
    BY <2>1, HeldKept DEF ExamsInv
  <2>3. QED
    BY <2>1, <2>2
<1>2. QED
  BY <1>1 DEF ExamsInv

LEMMA ExamEnds == ASSUME ExamsInv, AttemptRows', ExamsKeep, NEW w \in Workers, End(w) PROVE ExamsInv'
<1>1. ExamTxn(Idle)'
  BY DEF ExamTxn, Idle
<1>2. QED
  BY <1>1, ExamStep DEF End

\* Nothing of the test's attempts changes.
LEMMA RowsSame ==
    ASSUME ExamsInv, UNCHANGED <<paper, attempts>>, reg' = [u \in Students |-> reg'[u]]
    PROVE  AttemptRows' /\ ExamsKeep
<1>1. ASSUME NEW u \in Students, NEW i \in DOMAIN attempts[u] PROVE IsAttempt(attempts[u][i])'
  BY DEF ExamsInv, AttemptRows, IsAttempt
<1>2. QED
  BY <1>1 DEF ExamsInv, AttemptRows, ExamsKeep, IsLog

LEMMA ExamReads ==
    ASSUME ExamsInv, UNCHANGED <<bank, reg, attempts>>, NEW w \in Workers, NEW t, ExamTxn(t),
           txn' = [txn EXCEPT ![w] = t]
    PROVE  ExamsInv'
<1>1. AttemptRows' /\ ExamsKeep
  BY RowsSame DEF bank, ExamsInv, AttemptRows
<1>2. QED
  BY <1>1, HeldKept, ExamStep

\* One attempt changes.
LEMMA LogExcept ==
    ASSUME NEW s, IsLog(s), NEW i \in DOMAIN s, NEW e
    PROVE  LET r == [s EXCEPT ![i] = e]
           IN  /\ IsLog(r) /\ Len(r) = Len(s) /\ DOMAIN r = DOMAIN s
               /\ \A j \in DOMAIN s : r[j] = IF j = i THEN e ELSE s[j]
<1>1. PICK S : s \in Seq(S)
  BY DEF IsLog
<1>2. s \in Seq(S \cup {e}) /\ i \in 1 .. Len(s) /\ DOMAIN s = 1 .. Len(s)
  BY <1>1, LenProperties
<1>3. /\ [s EXCEPT ![i] = e] \in Seq(S \cup {e}) /\ Len([s EXCEPT ![i] = e]) = Len(s)
      /\ \A j \in 1 .. Len(s) : [s EXCEPT ![i] = e][j] = IF j=i THEN e ELSE s[j]
  BY <1>2, ExceptSeq
<1>4. QED
  BY <1>2, <1>3 DEF IsLog

LEMMA LogValues ==
    ASSUME NEW n \in Nat, NEW s, DOMAIN s = 1 .. n, NEW r, DOMAIN r = 1 .. n + 1, NEW e,
           \A j \in 1 .. n : r[j] = s[j], r[n + 1] = e
    PROVE  \A j \in DOMAIN r : (j \in DOMAIN s /\ r[j] = s[j]) \/ (j \notin DOMAIN s /\ r[j] = e)
<1>1. \A j \in DOMAIN s : r[j] = s[j]
  OBVIOUS
<1> SUFFICES ASSUME NEW j \in DOMAIN r, j \notin DOMAIN s PROVE r[j] = e
  BY <1>1
<1>2. j \in 1 .. n + 1 /\ j \notin 1 .. n
  OBVIOUS
<1>3. j = n + 1
  BY <1>2
<1>4. QED
  BY <1>3

LEMMA LogAppend ==
    ASSUME NEW s, IsLog(s), NEW e, NEW r, r = Append(s, e)
    PROVE  /\ IsLog(r) /\ DOMAIN s \subseteq DOMAIN r
           /\ \A j \in DOMAIN r : (j \in DOMAIN s /\ r[j] = s[j]) \/ (j \notin DOMAIN s /\ r[j] = e)
<1>1. PICK S : s \in Seq(S)
  BY DEF IsLog
<1>2. s \in Seq(S \cup {e}) /\ DOMAIN s = 1 .. Len(s) /\ Len(s) \in Nat
  BY <1>1, LenProperties
<1>3. r \in Seq(S \cup {e}) /\ DOMAIN r = 1 .. Len(s) + 1
  BY <1>2, AppendProperties, LenProperties
<1>4. (\A j \in 1 .. Len(s) : r[j] = s[j]) /\ r[Len(s) + 1] = e
  <2>1. e \in S \cup {e}
    OBVIOUS
  <2>2. QED
    BY <1>2, <2>1, AppendProperties
<1>5. \A j \in DOMAIN r : (j \in DOMAIN s /\ r[j] = s[j]) \/ (j \notin DOMAIN s /\ r[j] = e)
  BY <1>2, <1>3, <1>4, LogValues
<1>6. DOMAIN s \subseteq DOMAIN r
  BY <1>2, <1>3
<1>7. QED
  BY <1>3, <1>5, <1>6 DEF IsLog

LEMMA OneChange ==
    ASSUME ExamsInv, NEW u \in Takers, NEW i \in DOMAIN attempts[u], NEW b,
           attempts' = [attempts EXCEPT ![u] = [attempts[u] EXCEPT ![i] = b]]
    PROVE  /\ attempts' = [v \in Students |-> attempts'[v]]
           /\ \A v \in Students : /\ IsLog(attempts'[v]) /\ Len(attempts'[v]) = Len(attempts[v])
                                  /\ DOMAIN attempts'[v] = DOMAIN attempts[v]
                                  /\ \A j \in DOMAIN attempts[v] :
                                        attempts'[v][j] = IF v = u /\ j = i THEN b ELSE attempts[v][j]
<1>1. u \in Students
  BY MockTestsAssumption
<1>2. PICK s : s = attempts[u] /\ IsLog(s) /\ i \in DOMAIN s
  BY <1>1 DEF ExamsInv, AttemptRows
<1>3. PICK r : r = [s EXCEPT ![i] = b]
  OBVIOUS
<1>4. IsLog(r) /\ Len(r) = Len(s) /\ DOMAIN r = DOMAIN s /\ \A j \in DOMAIN s : r[j] = IF j = i THEN b ELSE s[j]
  BY <1>2, <1>3, LogExcept
<1>5. attempts' = [attempts EXCEPT ![u] = r]
  BY <1>2, <1>3
<1>6. \A v \in Students : attempts'[v] = IF v = u THEN r ELSE attempts[v]
  BY <1>1, <1>5 DEF ExamsInv, AttemptRows
<1>7. \A v \in Students : /\ Len(attempts'[v]) = Len(attempts[v]) /\ DOMAIN attempts'[v] = DOMAIN attempts[v]
                          /\ \A j \in DOMAIN attempts[v] :
                                attempts'[v][j] = IF v = u /\ j = i THEN b ELSE attempts[v][j]
  BY <1>2, <1>4, <1>6
<1>8. \A v \in Students : IsLog(attempts'[v])
  BY <1>4, <1>6 DEF ExamsInv, AttemptRows
<1>9. attempts' = [v \in Students |-> attempts'[v]]
  BY <1>5 DEF ExamsInv, AttemptRows
<1>10. QED
  BY <1>7, <1>8, <1>9

LEMMA OneAttempt ==
    ASSUME ExamsInv, NEW u \in Takers, NEW i \in DOMAIN attempts[u], NEW b, IsAttempt(b),
           attempts' = [attempts EXCEPT ![u] = [attempts[u] EXCEPT ![i] = b]], paper' = paper,
           reg' = [v \in Students |-> reg'[v]]
    PROVE  AttemptRows' /\ ExamsKeep
<1>1. /\ attempts' = [v \in Students |-> attempts'[v]]
      /\ \A v \in Students : /\ IsLog(attempts'[v]) /\ DOMAIN attempts'[v] = DOMAIN attempts[v]
                             /\ \A j \in DOMAIN attempts[v] :
                                   attempts'[v][j] = IF v = u /\ j = i THEN b ELSE attempts[v][j]
  BY OneChange
<1>2. ASSUME NEW v \in Students, NEW j \in DOMAIN attempts'[v] PROVE IsAttempt(attempts[v][j])'
  <2>1. IsAttempt(attempts'[v][j])
    BY <1>1 DEF ExamsInv, AttemptRows
  <2>2. QED
    BY <2>1 DEF IsAttempt
<1>3. AttemptRows'
  BY <1>1, <1>2 DEF ExamsInv, AttemptRows, IsLog
<1>4. ExamsKeep
  BY <1>1, MockTestsAssumption DEF ExamsKeep
<1>5. QED
  BY <1>3, <1>4

\* What the requests hold that begin.
LEMMA RegHeld ==
    ASSUME NEW u \in Students, NEW o, NEW c \in Nat, c < Capacity
    PROVE  ExamTxn([Request("reg_write", u, 0) EXCEPT !.old = o, !.count = c])
<1>1. PICK r : r = Request("reg_write", u, 0)
  OBVIOUS
<1>2. PICK s : s = [r EXCEPT !.old = o]
  OBVIOUS
<1>3. s.pc = "reg_write" /\ s.u = u /\ "count" \in DOMAIN s /\ "u" \in DOMAIN s /\ "pc" \in DOMAIN s
  BY <1>1, <1>2 DEF Request
<1>4. PICK t : t = [s EXCEPT !.count = c]
  OBVIOUS
<1>5. t.pc = "reg_write" /\ t.u = u /\ t.count = c
  BY <1>3, <1>4
<1>6. ExamTxn(t)
  BY <1>5 DEF ExamTxn
<1>7. QED
  BY <1>1, <1>2, <1>4, <1>6

LEMMA StartHeld ==
    ASSUME NEW u \in Takers, NEW i, NEW c, c = 0
    PROVE  ExamTxn([Request("start_insert", u, i) EXCEPT !.count = c])
BY DEF ExamTxn, Request

LEMMA SaveHeld ==
    ASSUME NEW u \in Takers, NEW i \in DOMAIN attempts[u], NEW q \in Questions,
           NEW a, Readable(paper[q].kind, a), NEW x, x.status = "in_progress"
    PROVE  ExamTxn([Request("save_write", u, i) EXCEPT !.q = q, !.answer = a, !.seen = x])
<1>1. PICK r : r = Request("save_write", u, i)
  OBVIOUS
<1>2. PICK s : s = [r EXCEPT !.q = q]
  OBVIOUS
<1>3. s.pc = "save_write" /\ s.u = u /\ s.i = i /\ s.q = q
      /\ {"pc", "u", "i", "q", "answer", "seen"} \subseteq DOMAIN s
  BY <1>1, <1>2 DEF Request
<1>4. PICK t : t = [s EXCEPT !.answer = a]
  OBVIOUS
<1>5. t.pc = "save_write" /\ t.u = u /\ t.i = i /\ t.q = q /\ t.answer = a
      /\ {"pc", "u", "i", "q", "answer", "seen"} \subseteq DOMAIN t
  BY <1>3, <1>4
<1>6. PICK v : v = [t EXCEPT !.seen = x]
  OBVIOUS
<1>7. v.pc = "save_write" /\ v.u = u /\ v.i = i /\ v.q = q /\ v.answer = a /\ v.seen = x
  BY <1>5, <1>6
<1>8. ExamTxn(v)
  BY <1>7 DEF ExamTxn, OfAttempt
<1>9. QED
  BY <1>1, <1>2, <1>4, <1>6, <1>8

LEMMA MarkHeld ==
    ASSUME NEW u \in Takers, NEW i \in DOMAIN attempts[u], NEW q \in Questions, NEW c \in Int,
           NEW x, x.marks \in MarkMaps, NEW m, m = [x.marks EXCEPT ![q] = c]
    PROVE  ExamTxn([Request("mark_commit", u, i) EXCEPT !.q = q, !.count = c, !.seen = x, !.marks = m])
<1>1. PICK r : r = Request("mark_commit", u, i)
  OBVIOUS
<1>2. PICK s : s = [r EXCEPT !.q = q]
  OBVIOUS
<1>3. s.pc = "mark_commit" /\ s.u = u /\ s.i = i /\ s.q = q
      /\ {"pc", "u", "i", "q", "count", "seen", "marks"} \subseteq DOMAIN s
  BY <1>1, <1>2 DEF Request
<1>4. PICK t : t = [s EXCEPT !.count = c]
  OBVIOUS
<1>5. t.pc = "mark_commit" /\ t.u = u /\ t.i = i /\ t.q = q /\ t.count = c
      /\ {"pc", "u", "i", "q", "count", "seen", "marks"} \subseteq DOMAIN t
  BY <1>3, <1>4
<1>6. PICK v : v = [t EXCEPT !.seen = x]
  OBVIOUS
<1>7. v.pc = "mark_commit" /\ v.u = u /\ v.i = i /\ v.q = q /\ v.count = c /\ v.seen = x
      /\ {"pc", "u", "i", "q", "count", "seen", "marks"} \subseteq DOMAIN v
  BY <1>5, <1>6
<1>8. PICK y : y = [v EXCEPT !.marks = m]
  OBVIOUS
<1>9. y.pc = "mark_commit" /\ y.u = u /\ y.i = i /\ y.q = q /\ y.count = c /\ y.seen = x /\ y.marks = m
  BY <1>7, <1>8
<1>10. ExamTxn(y)
  BY <1>9 DEF ExamTxn, OfAttempt
<1>11. QED
  BY <1>1, <1>2, <1>4, <1>6, <1>8, <1>10

\* Attempts as the handlers rewrite them.
LEMMA SavedAttempt ==
    ASSUME NEW a, IsAttempt(a), NEW q \in Questions, NEW x, Readable(paper[q].kind, x)
    PROVE  LET b == [a EXCEPT !.answer = [a.answer EXCEPT ![q] = x]]
           IN  IsAttempt(b) /\ b.status = a.status
<1>1. PICK s : s = [a.answer EXCEPT ![q] = x]
  OBVIOUS
<1>2. s = [p \in Questions |-> s[p]] /\ \A p \in Questions : Readable(paper[p].kind, s[p])
  BY <1>1 DEF IsAttempt
<1>3. PICK b : b = [a EXCEPT !.answer = s]
  OBVIOUS
<1>4. b = [status |-> a.status, expired |-> a.expired, answer |-> s, marks |-> a.marks,
           auto |-> a.auto, manual |-> a.manual, total |-> a.total]
  BY <1>3 DEF IsAttempt
<1>5. IsAttempt(b) /\ b.status = a.status
  BY <1>2, <1>4 DEF IsAttempt
<1>6. QED
  BY <1>1, <1>3, <1>5

LEMMA ExpiredAttempt ==
    ASSUME NEW a, IsAttempt(a), NEW x \in BOOLEAN
    PROVE  LET b == [a EXCEPT !.expired = x]
           IN  IsAttempt(b) /\ b.status = a.status /\ b.answer = a.answer /\ b.marks = a.marks /\ b.expired = x
<1>1. PICK b : b = [a EXCEPT !.expired = x]
  OBVIOUS
<1>2. b = [status |-> a.status, expired |-> x, answer |-> a.answer, marks |-> a.marks,
           auto |-> a.auto, manual |-> a.manual, total |-> a.total]
  BY <1>1 DEF IsAttempt
<1>3. IsAttempt(b) /\ b.status = a.status /\ b.answer = a.answer /\ b.marks = a.marks /\ b.expired = x
  BY <1>2 DEF IsAttempt
<1>4. QED
  BY <1>1, <1>3

\* Each handler keeps the invariant, and says what it does to one attempt.
Changes(u, i, b) ==
    /\ u \in Takers /\ i \in DOMAIN attempts[u] /\ IsAttempt(b)
    /\ attempts' = [attempts EXCEPT ![u] = [attempts[u] EXCEPT ![i] = b]]

LEMMA Registers == ASSUME ExamsInv, NEW w \in Workers, NEW u \in Students, RegisterRead(w, u) PROVE ExamsInv'
<1>1. Cardinality(Taken) \in Nat
  BY FS_Subset, FS_CardinalityType, MockTestsAssumption DEF Taken
<1>2. ExamTxn([Request("reg_write", u, 0) EXCEPT !.old = reg[u], !.count = Cardinality(Taken)])
  BY <1>1, RegHeld DEF RegisterRead
<1>3. PICK t : t = [Request("reg_write", u, 0) EXCEPT !.old = reg[u], !.count = Cardinality(Taken)]
  OBVIOUS
<1>4. QED
  BY <1>2, <1>3, ExamReads DEF RegisterRead, Hold

LEMMA RegWrites ==
    ASSUME ExamsInv, NEW w \in Workers, RegisterWrite(w)
    PROVE  ExamsInv' /\ attempts' = attempts
<1>1. reg' = [v \in Students |-> reg'[v]]
  BY DEF RegisterWrite, ExamsInv, AttemptRows
<1>2. QED
  BY <1>1, RowsSame, ExamEnds DEF RegisterWrite, bank

LEMMA Starts == ASSUME ExamsInv, NEW w \in Workers, NEW u \in Takers, StartRead(w, u) PROVE ExamsInv'
<1>1. Cardinality(Completed(u)) = 0
  BY FS_EmptySet DEF StartRead
<1>2. PICK t : t = [Request("start_insert", u, Len(attempts[u]) + 1) EXCEPT !.count = Cardinality(Completed(u))]
  OBVIOUS
<1>3. ExamTxn(t)
  BY <1>1, <1>2, StartHeld
<1>4. QED
  BY <1>2, <1>3, ExamReads DEF StartRead, Hold

LEMMA IsNew == paper \in Papers => IsAttempt(NewAttempt)
<1>1. \A q \in Questions : Readable(paper[q].kind, <<>>)
  <2>1. Len(<<>>) = 0 /\ Len(<<>>) \in Nat /\ <<>> = [n \in 1 .. Len(<<>>) |-> <<>>[n]]
    <3>1. <<>> \in Seq({})
      BY EmptySeq
    <3>2. QED
      BY <3>1, LenProperties, EmptySeq
  <2>2. QED
    BY <2>1 DEF Readable
<1>2. QED
  BY <1>1 DEF IsAttempt, NewAttempt, MarkMaps

LEMMA Inserts ==
    ASSUME ExamsInv, NEW w \in Workers, StartInsert(w)
    PROVE  /\ ExamsInv'
           /\ \A u \in Takers : \A i \in DOMAIN attempts[u] :
                 attempts'[u][i] = attempts[u][i] /\ (u # txn[w].u => attempts'[u] = attempts[u])
           /\ \A u \in Takers : \A i \in DOMAIN attempts'[u] :
                 attempts'[u][i] = attempts[u][i] \/ attempts'[u][i].status = "in_progress"
<1>1. PICK u \in Takers : u = txn[w].u
  BY DEF StartInsert, At, ExamsInv, ExamTxn
<1>2. u \in Students
  BY MockTestsAssumption
<1>3. CASE attempts' = attempts
  <2>1. ExamsInv'
    BY <1>3, RowsSame, ExamEnds DEF StartInsert, bank, ExamsInv, AttemptRows
  <2>2. QED
    BY <1>3, <2>1
<1>4. CASE attempts' # attempts
  <2>1. attempts' = [attempts EXCEPT ![u] = Append(attempts[u], NewAttempt)]
    BY <1>1, <1>2, <1>4 DEF StartInsert, ExamsInv, AttemptRows
  <2>2. PICK s, r : s = attempts[u] /\ r = Append(s, NewAttempt)
    OBVIOUS
  <2>3. IsLog(s)
    BY <1>2, <2>2 DEF ExamsInv, AttemptRows
  <2>4. /\ IsLog(r) /\ DOMAIN s \subseteq DOMAIN r
        /\ \A j \in DOMAIN r : (j \in DOMAIN s /\ r[j] = s[j]) \/ (j \notin DOMAIN s /\ r[j] = NewAttempt)
    <3>1. PICK e : e = NewAttempt
      OBVIOUS
    <3>2. r = Append(s, e)
      BY <2>2, <3>1
    <3>3. IsLog(r) /\ DOMAIN s \subseteq DOMAIN r
      BY <2>3, <3>2, LogAppend
    <3>4. \A j \in DOMAIN r : (j \in DOMAIN s /\ r[j] = s[j]) \/ (j \notin DOMAIN s /\ r[j] = e)
      BY <2>3, <3>2, LogAppend
    <3>5. QED
      BY <3>1, <3>3, <3>4
  <2>5. attempts' = [attempts EXCEPT ![u] = r]
    BY <2>1, <2>2
  <2>6. /\ attempts' = [v \in Students |-> attempts'[v]]
        /\ \A v \in Students : attempts'[v] = IF v = u THEN r ELSE attempts[v]
    BY <1>2, <2>5 DEF ExamsInv, AttemptRows
  <2>7. paper' = paper /\ reg' = reg
    BY DEF StartInsert, bank
  <2>8. \A j \in DOMAIN r : IsAttempt(r[j])
    BY <1>2, <2>2, <2>4, IsNew DEF ExamsInv, AttemptRows
  <2>9. ASSUME NEW v \in Students, NEW j \in DOMAIN attempts'[v] PROVE IsAttempt(attempts[v][j])'
    <3>1. IsAttempt(attempts'[v][j])
      BY <2>6, <2>8 DEF ExamsInv, AttemptRows
    <3>2. QED
      BY <2>7, <3>1 DEF IsAttempt
  <2>10. \A v \in Students : IsLog(attempts'[v])
    BY <2>4, <2>6 DEF ExamsInv, AttemptRows
  <2>11. AttemptRows'
    BY <2>6, <2>7, <2>9, <2>10 DEF ExamsInv, AttemptRows, IsLog
  <2>12. ExamsKeep
    BY <2>2, <2>4, <2>6, <2>7, MockTestsAssumption DEF ExamsKeep
  <2>13. ExamsInv'
    BY <2>11, <2>12, ExamEnds DEF StartInsert
  <2>14. ASSUME NEW v \in Takers, NEW i \in DOMAIN attempts[v]
         PROVE  attempts'[v][i] = attempts[v][i] /\ (v # txn[w].u => attempts'[v] = attempts[v])
    <3>1. v \in Students
      BY MockTestsAssumption
    <3>2. QED
      BY <1>1, <2>2, <2>4, <2>6, <3>1
  <2>15. NewAttempt.status = "in_progress"
    BY DEF NewAttempt
  <2>16. ASSUME NEW v \in Takers, NEW i \in DOMAIN attempts'[v]
         PROVE  attempts'[v][i] = attempts[v][i] \/ attempts'[v][i].status = "in_progress"
    <3>1. v \in Students
      BY MockTestsAssumption
    <3>2. QED
      BY <2>2, <2>4, <2>6, <2>15, <3>1
  <2>17. QED
    BY <2>13, <2>14, <2>16
<1>5. QED
  BY <1>3, <1>4

LEMMA Expires ==
    ASSUME ExamsInv, NEW u \in Takers, NEW i, Expire(u, i)
    PROVE  ExamsInv' /\ \E b : /\ Changes(u, i, b) /\ b.status = attempts[u][i].status
                              /\ b.answer = attempts[u][i].answer /\ b.marks = attempts[u][i].marks
                              /\ b.expired # attempts[u][i].expired
<1>1. u \in Students /\ i \in DOMAIN attempts[u]
  BY MockTestsAssumption DEF Expire
<1>2. PICK a : a = attempts[u][i] /\ IsAttempt(a)
  BY <1>1 DEF ExamsInv, AttemptRows
<1>3. PICK b : b = [a EXCEPT !.expired = TRUE]
  OBVIOUS
<1>4. IsAttempt(b) /\ b.status = a.status /\ b.answer = a.answer /\ b.marks = a.marks /\ b.expired # a.expired
  BY <1>1, <1>2, <1>3, ExpiredAttempt DEF Expire
<1>5. attempts' = [attempts EXCEPT ![u] = [attempts[u] EXCEPT ![i] = b]]
  BY <1>1, <1>2, <1>3 DEF Expire
<1>6. paper' = paper /\ reg' = [v \in Students |-> reg'[v]] /\ UNCHANGED txn
  BY DEF Expire, bank, Serves, requests, ExamsInv, AttemptRows
<1>7. ExamsInv'
  BY <1>1, <1>4, <1>5, <1>6, OneAttempt, ExamStays
<1>8. QED
  BY <1>1, <1>2, <1>4, <1>5, <1>7 DEF Changes

LEMMA Saves ==
    ASSUME ExamsInv, NEW w \in Workers, SaveWrite(w)
    PROVE  ExamsInv' /\ \E b : LET a == attempts[txn[w].u][txn[w].i]
                              IN  /\ Changes(txn[w].u, txn[w].i, b) /\ b.status = a.status
                                  /\ b.answer = a.answer => b = a
                                  /\ b.marks = a.marks
                                  /\ \A q \in Questions \ {txn[w].q} : b.answer[q] = a.answer[q]
<1>1. PICK t : t = txn[w]
  OBVIOUS
<1>2. t.u \in Takers /\ t.u \in Students /\ t.i \in DOMAIN attempts[t.u]
      /\ t.q \in Questions /\ Readable(paper[t.q].kind, t.answer)
  BY <1>1, MockTestsAssumption DEF SaveWrite, At, ExamsInv, ExamTxn, OfAttempt
<1>3. PICK a : a = attempts[t.u][t.i] /\ IsAttempt(a)
  BY <1>2 DEF ExamsInv, AttemptRows
<1>4. PICK b : b = [a EXCEPT !.answer = [a.answer EXCEPT ![t.q] = t.answer]]
  OBVIOUS
<1>5. IsAttempt(b) /\ b.status = a.status
  BY <1>2, <1>3, <1>4, SavedAttempt
<1>6. attempts' = [attempts EXCEPT ![t.u] = [attempts[t.u] EXCEPT ![t.i] = b]]
  BY <1>1, <1>2, <1>3, <1>4 DEF SaveWrite
<1>7. paper' = paper /\ reg' = [v \in Students |-> reg'[v]] /\ End(w)
  BY DEF SaveWrite, bank, ExamsInv, AttemptRows
<1>8. ExamsInv'
  BY <1>2, <1>5, <1>6, <1>7, OneAttempt, ExamEnds
<1>9. /\ b.answer = a.answer => b = a
      /\ b.marks = a.marks
      /\ \A q \in Questions \ {t.q} : b.answer[q] = a.answer[q]
  <2>1. PICK x : x = [a.answer EXCEPT ![t.q] = t.answer]
    OBVIOUS
  <2>2. b = [a EXCEPT !.answer = x]
    BY <1>4, <2>1
  <2>3. b = [status |-> a.status, expired |-> a.expired, answer |-> x, marks |-> a.marks,
             auto |-> a.auto, manual |-> a.manual, total |-> a.total]
    BY <1>3, <2>2 DEF IsAttempt
  <2>4. \A q \in Questions \ {t.q} : x[q] = a.answer[q]
    BY <1>3, <2>1 DEF IsAttempt
  <2>5. QED
    BY <1>3, <2>3, <2>4 DEF IsAttempt
<1>10. Changes(t.u, t.i, b)
  BY <1>2, <1>5, <1>6 DEF Changes
<1>11. QED
  BY <1>1, <1>3, <1>5, <1>8, <1>9, <1>10

LEMMA Submits ==
    ASSUME ExamsInv, NEW w \in Workers, NEW u \in Takers, NEW i \in DOMAIN attempts[u],
           Submit(w, u, i) \/ Coerce(w, u, i)
    PROVE  ExamsInv'
<1>1. PICK t : t = Request("grade_read", u, i)
  OBVIOUS
<1>2. ExamTxn(t)
  BY <1>1 DEF ExamTxn, Request, OfAttempt
<1>3. txn' = [txn EXCEPT ![w] = t] /\ UNCHANGED <<bank, reg, attempts>>
  BY <1>1 DEF Submit, Coerce, Hold
<1>4. QED
  BY <1>2, <1>3, ExamReads

\* The marks the grader awards are marks.
LEMMA ResultMarks == ASSUME ExamsInv, NEW a, IsAttempt(a) PROVE Result(a) \in MarkMaps
<1>1. ASSUME NEW q \in live \cap Objectives PROVE Awarded(Asked(q), a.answer[q]) \in Int
  <2>1. q \in Questions /\ Objective(paper[q])
    BY DEF live, Objectives
  <2>2. PICK r : r = Asked(q) /\ WellPosed(r) /\ r.kind = paper[q].kind
    BY <2>1, AskedIsPosed DEF ExamsInv, AttemptRows
  <2>3. Objective(r) /\ Readable(r.kind, a.answer[q])
    BY <2>1, <2>2 DEF Objective, IsAttempt
  <2>4. QED
    BY <2>2, <2>3, AsPromised
<1>2. QED
  BY <1>1 DEF Result, MarkMaps

LEMMA GradeReads == ASSUME ExamsInv, NEW w \in Workers, GradeRead(w) PROVE ExamsInv'
<1>1. PICK t : t = txn[w]
  OBVIOUS
<1>2. /\ t.pc = "grade_read" /\ OfAttempt(t)
      /\ t = [pc |-> t.pc, u |-> t.u, i |-> t.i, q |-> t.q, old |-> t.old, count |-> t.count,
              answer |-> t.answer, seen |-> t.seen, asked |-> t.asked, marks |-> t.marks]
  BY <1>1 DEF GradeRead, At, ExamsInv, ExamTxn
<1>3. AttemptRows' /\ ExamsKeep
  BY RowsSame DEF GradeRead, bank, ExamsInv, AttemptRows
<1>4. PICK a, m, r : a = attempts[t.u][t.i] /\ m = Result(a) /\ r = Sheet
  OBVIOUS
<1>5. CASE a.status = "in_progress"
  <2>1. PICK x : x = [t EXCEPT !.pc = "grade_write"]
    OBVIOUS
  <2>2. x = [pc |-> "grade_write", u |-> t.u, i |-> t.i, q |-> t.q, old |-> t.old, count |-> t.count,
             answer |-> t.answer, seen |-> t.seen, asked |-> t.asked, marks |-> t.marks]
    BY <1>2, <2>1
  <2>3. PICK y : y = [x EXCEPT !.seen = a]
    OBVIOUS
  <2>4. y = [pc |-> "grade_write", u |-> t.u, i |-> t.i, q |-> t.q, old |-> t.old, count |-> t.count,
             answer |-> t.answer, seen |-> a, asked |-> t.asked, marks |-> t.marks]
    BY <2>2, <2>3
  <2>5. PICK e : e = [y EXCEPT !.asked = r]
    OBVIOUS
  <2>6. e = [pc |-> "grade_write", u |-> t.u, i |-> t.i, q |-> t.q, old |-> t.old, count |-> t.count,
             answer |-> t.answer, seen |-> a, asked |-> r, marks |-> t.marks]
    BY <2>4, <2>5
  <2>7. PICK z : z = [e EXCEPT !.marks = m]
    OBVIOUS
  <2>8. z.pc = "grade_write" /\ z.u = t.u /\ z.i = t.i /\ z.seen = a /\ z.asked = r /\ z.marks = m
    BY <2>6, <2>7
  <2>9. ExamTxn(z)
    <3>1. IsAttempt(a)
      BY <1>2, <1>4, MockTestsAssumption DEF OfAttempt, ExamsInv, AttemptRows
    <3>2. m \in MarkMaps
      BY <1>4, <3>1, ResultMarks
    <3>3. ASSUME NEW q \in DOMAIN r \cap Objectives PROVE m[q] = Awarded(r[q], a.answer[q])
      <4>1. q \in live \cap Objectives /\ q \in Questions /\ r[q] = Asked(q)
        BY <1>4 DEF Sheet, live
      <4>2. QED
        BY <1>4, <4>1 DEF Result
    <3>4. QED
      BY <1>2, <1>5, <2>8, <3>2, <3>3 DEF ExamTxn, OfAttempt
  <2>10. txn' = [txn EXCEPT ![w] = z]
    <3>1. txn' = [txn EXCEPT ![w].pc = "grade_write", ![w].seen = a, ![w].asked = r, ![w].marks = m]
      BY <1>1, <1>4, <1>5 DEF GradeRead
    <3>2. PICK f : f = [txn EXCEPT ![w].pc = "grade_write"]
      OBVIOUS
    <3>3. f = [txn EXCEPT ![w] = x]
      BY <1>1, <2>1, <3>2 DEF ExamsInv
    <3>4. PICK g : g = [f EXCEPT ![w].seen = a]
      OBVIOUS
    <3>5. g = [txn EXCEPT ![w] = y]
      BY <2>3, <3>3, <3>4 DEF ExamsInv
    <3>6. PICK h : h = [g EXCEPT ![w].asked = r]
      OBVIOUS
    <3>7. h = [txn EXCEPT ![w] = e]
      BY <2>5, <3>5, <3>6 DEF ExamsInv
    <3>8. [h EXCEPT ![w].marks = m] = [txn EXCEPT ![w] = z]
      BY <2>7, <3>7 DEF ExamsInv
    <3>9. QED
      BY <3>1, <3>2, <3>4, <3>6, <3>8
  <2>11. ExamTxn(z)'
    BY <1>3, <2>9, HeldKept
  <2>12. QED
    BY <1>3, <2>10, <2>11, ExamStep
<1>6. CASE a.status # "in_progress"
  <2>1. End(w)
    BY <1>1, <1>4, <1>6 DEF GradeRead
  <2>2. QED
    BY <1>3, <2>1, ExamEnds
<1>7. QED
  BY <1>5, <1>6

Graded(w) == {q \in Questions : txn[w].marks[q] # None}

LEMMA Grades ==
    ASSUME ExamsInv, NEW w \in Workers, GradeWrite(w)
    PROVE  /\ ExamsInv'
           /\ \E b : LET a == attempts[txn[w].u][txn[w].i]
                     IN  /\ Changes(txn[w].u, txn[w].i, b)
                         /\ b.answer = a.answer /\ b.expired = a.expired
                         /\ b.status = IF a.expired THEN "auto_submitted" ELSE "submitted"
                         /\ b.marks = [q \in Questions |-> IF q \in Graded(w) THEN txn[w].marks[q] ELSE a.marks[q]]
                         /\ b.total = MarksOf(txn[w].marks, Graded(w))
<1>1. PICK t : t = txn[w]
  OBVIOUS
<1>2. t.u \in Takers /\ t.u \in Students /\ t.i \in DOMAIN attempts[t.u] /\ t.marks \in MarkMaps
  BY <1>1, MockTestsAssumption DEF GradeWrite, At, ExamsInv, ExamTxn, OfAttempt
<1>3. PICK a : a = attempts[t.u][t.i] /\ IsAttempt(a)
  BY <1>2 DEF ExamsInv, AttemptRows
<1>4. PICK s, m, x : /\ s = IF a.expired THEN "auto_submitted" ELSE "submitted"
                     /\ m = [q \in Questions |-> IF q \in Graded(w) THEN txn[w].marks[q] ELSE a.marks[q]]
                     /\ x = MarksOf(t.marks, Graded(w))
  OBVIOUS
<1>5. PICK c : c = [a EXCEPT !.status = s]
  OBVIOUS
<1>6. PICK d : d = [c EXCEPT !.marks = m]
  OBVIOUS
<1>7. PICK e : e = [d EXCEPT !.auto = x]
  OBVIOUS
<1>8. PICK b : b = [e EXCEPT !.total = x]
  OBVIOUS
<1>9. b = [a EXCEPT !.status = s, !.marks = m, !.auto = x, !.total = x]
  BY <1>5, <1>6, <1>7, <1>8
<1>10. /\ IsAttempt(b) /\ b.status = s /\ b.expired = a.expired /\ b.answer = a.answer
       /\ b.marks = m /\ b.total = x
  <2>1. c = [status |-> s, expired |-> a.expired, answer |-> a.answer, marks |-> a.marks,
             auto |-> a.auto, manual |-> a.manual, total |-> a.total]
    BY <1>3, <1>5 DEF IsAttempt
  <2>2. d = [status |-> s, expired |-> a.expired, answer |-> a.answer, marks |-> m,
             auto |-> a.auto, manual |-> a.manual, total |-> a.total]
    BY <1>6, <2>1
  <2>3. e = [status |-> s, expired |-> a.expired, answer |-> a.answer, marks |-> m,
             auto |-> x, manual |-> a.manual, total |-> a.total]
    BY <1>7, <2>2
  <2>4. b = [status |-> s, expired |-> a.expired, answer |-> a.answer, marks |-> m,
             auto |-> x, manual |-> a.manual, total |-> x]
    BY <1>8, <2>3
  <2>5. m \in MarkMaps
    BY <1>1, <1>2, <1>3, <1>4 DEF IsAttempt, MarkMaps
  <2>6. QED
    BY <1>3, <2>4, <2>5 DEF IsAttempt
<1>11. attempts' = [attempts EXCEPT ![t.u] = [attempts[t.u] EXCEPT ![t.i] = b]]
  <2>1. attempts' = [attempts EXCEPT ![t.u][t.i] =
          [a EXCEPT !.status = s, !.marks = m, !.auto = x, !.total = x]]
    BY <1>1, <1>3, <1>4, Zenon DEF GradeWrite, Graded
  <2>2. QED
    BY <1>2, <1>9, <2>1, Zenon
<1>12. paper' = paper /\ reg' = [v \in Students |-> reg'[v]] /\ End(w)
  BY DEF GradeWrite, bank, ExamsInv, AttemptRows
<1>13. ExamsInv'
  BY <1>2, <1>10, <1>11, <1>12, OneAttempt, ExamEnds
<1>14. QED
  BY <1>1, <1>2, <1>3, <1>4, <1>10, <1>11, <1>13 DEF Changes

LEMMA MarkReads ==
    ASSUME ExamsInv, NEW w \in Workers, NEW u \in Takers, NEW i \in DOMAIN attempts[u],
           NEW q \in Questions, NEW m \in Int, MarkRead(w, u, i, q, m)
    PROVE  ExamsInv'
<1>1. PICK t : t = [Request("mark_commit", u, i) EXCEPT
          !.q = q, !.count = m, !.seen = attempts[u][i], !.marks = [attempts[u][i].marks EXCEPT ![q] = m]]
  OBVIOUS
<1>2. ExamTxn(t)
  <2>1. attempts[u][i].marks \in MarkMaps
    BY MockTestsAssumption DEF ExamsInv, AttemptRows, IsAttempt
  <2>2. QED
    BY <1>1, <2>1, MarkHeld
<1>3. txn' = [txn EXCEPT ![w] = t]
  BY <1>1, Zenon DEF MarkRead, Hold
<1>4. QED
  BY <1>2, <1>3, ExamReads DEF MarkRead

LEMMA Marked ==
    ASSUME ExamsInv, NEW w \in Workers, MarkCommit(w)
    PROVE  ExamsInv' /\ \E b : LET a == attempts[txn[w].u][txn[w].i]
                               IN  /\ Changes(txn[w].u, txn[w].i, b) /\ b.status = a.status /\ b.answer = a.answer
                                   /\ b.marks = [a.marks EXCEPT ![txn[w].q] = txn[w].count]
                                   /\ b.total = MarksOf(txn[w].marks, Objectives)
                                                + MarksOf(txn[w].marks, Questions \ Objectives)
<1>1. PICK t : t = txn[w]
  OBVIOUS
<1>2. t.u \in Takers /\ t.u \in Students /\ t.i \in DOMAIN attempts[t.u] /\ t.q \in Questions /\ t.count \in Int
  BY <1>1, MockTestsAssumption DEF MarkCommit, At, ExamsInv, ExamTxn, OfAttempt
<1>3. PICK a : a = attempts[t.u][t.i] /\ IsAttempt(a)
  BY <1>2 DEF ExamsInv, AttemptRows
<1>4. PICK m, x, y, z :
          /\ m = [a.marks EXCEPT ![t.q] = t.count]
          /\ x = MarksOf(t.marks, Objectives) /\ y = MarksOf(t.marks, Questions \ Objectives) /\ z = x + y
  OBVIOUS
<1>5. PICK c : c = [a EXCEPT !.marks = m]
  OBVIOUS
<1>6. PICK d : d = [c EXCEPT !.auto = x]
  OBVIOUS
<1>7. PICK e : e = [d EXCEPT !.manual = y]
  OBVIOUS
<1>8. PICK b : b = [e EXCEPT !.total = z]
  OBVIOUS
<1>9. b = [a EXCEPT !.marks = m, !.auto = x, !.manual = y, !.total = z]
  BY <1>5, <1>6, <1>7, <1>8
<1>10. IsAttempt(b) /\ b.status = a.status /\ b.answer = a.answer /\ b.marks = m /\ b.total = z
  <2>1. c = [status |-> a.status, expired |-> a.expired, answer |-> a.answer, marks |-> m,
             auto |-> a.auto, manual |-> a.manual, total |-> a.total]
    BY <1>3, <1>5 DEF IsAttempt
  <2>2. d = [status |-> a.status, expired |-> a.expired, answer |-> a.answer, marks |-> m,
             auto |-> x, manual |-> a.manual, total |-> a.total]
    BY <1>6, <2>1
  <2>3. e = [status |-> a.status, expired |-> a.expired, answer |-> a.answer, marks |-> m,
             auto |-> x, manual |-> y, total |-> a.total]
    BY <1>7, <2>2
  <2>4. b = [status |-> a.status, expired |-> a.expired, answer |-> a.answer, marks |-> m,
             auto |-> x, manual |-> y, total |-> z]
    BY <1>8, <2>3
  <2>5. m \in MarkMaps
    BY <1>2, <1>3, <1>4 DEF IsAttempt, MarkMaps
  <2>6. QED
    BY <1>3, <2>4, <2>5 DEF IsAttempt
<1>11. attempts' = [attempts EXCEPT ![t.u] = [attempts[t.u] EXCEPT ![t.i] = b]]
  <2>1. attempts' = [attempts EXCEPT ![t.u][t.i] =
          [a EXCEPT !.marks = m, !.auto = x, !.manual = y, !.total = z]]
    BY <1>1, <1>3, <1>4, Zenon DEF MarkCommit
  <2>2. QED
    BY <1>2, <1>9, <2>1, Zenon
<1>12. paper' = paper /\ reg' = [v \in Students |-> reg'[v]] /\ End(w)
  BY DEF MarkCommit, bank, ExamsInv, AttemptRows
<1>13. ExamsInv'
  BY <1>2, <1>10, <1>11, <1>12, OneAttempt, ExamEnds
<1>14. QED
  BY <1>1, <1>2, <1>3, <1>4, <1>10, <1>11, <1>13 DEF Changes

LEMMA SaveReads ==
    ASSUME ExamsInv, NEW w \in Workers, NEW u \in Takers, NEW i \in DOMAIN attempts[u], NEW q \in Questions,
           NEW a \in Answers(q), SaveRead(w, u, i, q, a)
    PROVE  ExamsInv'
<1>1. Readable(paper[q].kind, a)
  <2>1. CASE paper[q].kind = "mcq"
    <3>1. PICK b \in Tries["mcq"], v \in 0 .. version[q] : a = Stamp(b, v)
      BY <2>1 DEF Answers
    <3>2. IsArray(b)
      BY <3>1, MockTestsAssumption DEF Readable, IsArray
    <3>3. QED
      BY <2>1, <3>1, <3>2, RestampKeeps DEF Readable, IsArray
  <2>2. CASE paper[q].kind = "numerical"
    BY <2>2, MockTestsAssumption DEF Answers
  <2>3. CASE paper[q].kind \notin {"mcq", "numerical"}
    BY <2>3 DEF Readable
  <2>4. QED
    BY <2>1, <2>2, <2>3
<1>2. attempts[u][i].status = "in_progress"
  BY DEF SaveRead, Open
<1>3. PICK t : t = [Request("save_write", u, i) EXCEPT !.q = q, !.answer = a, !.seen = attempts[u][i]]
  OBVIOUS
<1>4. ExamTxn(t)
  BY <1>1, <1>2, <1>3, SaveHeld
<1>5. txn' = [txn EXCEPT ![w] = t]
  BY <1>3, Zenon DEF SaveRead, Hold
<1>6. QED
  BY <1>4, <1>5, ExamReads DEF SaveRead

LEMMA DeskWorks == ASSUME ExamsInv, ExamDesk PROVE ExamsInv' /\ UNCHANGED <<txn, attempts>>
<1>1. UNCHANGED <<txn, attempts, paper>>
  <2>1. ASSUME NEW s, PatchTest(s) PROVE UNCHANGED <<txn, attempts, paper>>
    BY <2>1 DEF PatchTest, TestDesk, Serves, requests, bank
  <2>2. ASSUME DeleteTest \/ PublishResults \/ UnpublishResults PROVE UNCHANGED <<txn, attempts, paper>>
    BY <2>2 DEF DeleteTest, PublishResults, UnpublishResults, TestDesk, Serves, requests, bank
  <2>3. ASSUME NEW u, NEW s, CancelRegistration(u) \/ EnterMarks(u, s) PROVE UNCHANGED <<txn, attempts, paper>>
    BY <2>3 DEF CancelRegistration, EnterMarks, Serves, requests, bank
  <2>4. ASSUME NEW q, AddQuestion(q) \/ DeleteQuestion(q) \/ ReplaceOptions(q) PROVE UNCHANGED <<txn, attempts, paper>>
    BY <2>4 DEF AddQuestion, DeleteQuestion, ReplaceOptions, Edit, Serves, requests
  <2>5. QED
    BY <2>1, <2>2, <2>3, <2>4 DEF ExamDesk
<1>2. reg' = [u \in Students |-> reg'[u]]
  <2>1. ASSUME NEW s, PatchTest(s) PROVE reg' = reg
    BY <2>1 DEF PatchTest, TestDesk
  <2>2. ASSUME DeleteTest \/ PublishResults \/ UnpublishResults PROVE reg' = reg
    BY <2>2 DEF DeleteTest, PublishResults, UnpublishResults, TestDesk
  <2>3. ASSUME NEW u, NEW s, CancelRegistration(u) \/ EnterMarks(u, s) PROVE reg' = [v \in Students |-> reg'[v]]
    BY <2>3 DEF CancelRegistration, EnterMarks, ExamsInv, AttemptRows
  <2>4. ASSUME NEW q, AddQuestion(q) \/ DeleteQuestion(q) \/ ReplaceOptions(q) PROVE reg' = reg
    BY <2>4 DEF AddQuestion, DeleteQuestion, ReplaceOptions, Edit
  <2>5. QED
    BY <2>1, <2>2, <2>3, <2>4 DEF ExamDesk, ExamsInv, AttemptRows
<1>3. QED
  BY <1>1, <1>2, RowsSame, ExamStays

LEMMA ExamsStart == ASSUME RequestsInit, ExamsInit PROVE ExamsInv
<1>1. paper \in Papers
  BY MockTestsAssumption DEF ExamsInit
<1>2. \A u \in Students : IsLog(attempts[u]) /\ DOMAIN attempts[u] = {}
  <2>1. <<>> \in Seq({}) /\ DOMAIN <<>> = {}
    BY EmptySeq
  <2>2. QED
    BY <2>1 DEF ExamsInit, IsLog
<1>3. AttemptRows
  BY <1>1, <1>2 DEF ExamsInit, AttemptRows
<1>4. ExamTxn(Idle)
  BY DEF ExamTxn, Idle
<1>5. QED
  BY <1>3, <1>4 DEF RequestsInit, ExamsInv

LEMMA ExamsNextInv == ExamsInv /\ [ExamsNext]_<<requests, exams>> => ExamsInv'
<1> SUFFICES ASSUME ExamsInv, [ExamsNext]_<<requests, exams>> PROVE ExamsInv'
  OBVIOUS
<1>1. CASE UNCHANGED <<requests, exams>>
  BY <1>1, RowsSame, ExamStays DEF requests, exams, bank, ExamsInv, AttemptRows
<1>2. ASSUME NEW w \in Workers, ExamRequest(w) PROVE ExamsInv'
  <2>1. \A q \in Questions : paper[q].marks \in Int
    BY MockTestsAssumption DEF ExamsInv, AttemptRows, WellPosed
  <2>2. QED
    BY <1>2, <2>1, Registers, Starts, Submits, SaveReads, MarkReads DEF ExamRequest
<1>3. ASSUME NEW w \in Workers, ExamStatement(w) PROVE ExamsInv'
  BY <1>3, RegWrites, Inserts, Saves, GradeReads, Grades, Marked DEF ExamStatement
<1>4. QED
  BY <1>1, <1>2, <1>3, Expires, DeskWorks DEF ExamsNext

LEMMA ExamsInvariance == ExamsSpec => []ExamsInv
<1>1. RequestsInit /\ ExamsInit => ExamsInv
  BY ExamsStart
<1>2. QED
  BY <1>1, ExamsNextInv, PTL DEF ExamsSpec

-----------------------------------------------------------------------------
(* Who writes over what another has read.                                  *)

LEMMA ExamSteps ==
    ASSUME ExamsInv, NEW w \in Workers, txn[w].pc # "idle", End(w)
    PROVE  Steps(w)
BY DEF ExamsInv, End, Idle, Steps

\* A registration that has met no other takes a place that was free.
LEMMA Booked ==
    ASSUME ExamsInv, NEW w \in Workers, RegisterWrite(w), ExamsFresh
    PROVE  Cardinality(Taken') > Cardinality(Taken) => Cardinality(Taken') <= Capacity
<1>1. PICK t : t = txn[w]
  OBVIOUS
<1>2. t.u \in Students /\ t.count \in Nat /\ t.count < Capacity /\ t.pc = "reg_write"
  BY <1>1 DEF RegisterWrite, At, ExamsInv, ExamTxn
<1>3. Cardinality(Taken) = t.count
  BY <1>1, <1>2, ExamSteps DEF RegisterWrite, ExamsFresh, ExamStale, At
<1>4. IsFiniteSet(Taken) /\ Cardinality(Taken) \in Nat
  BY FS_Subset, FS_CardinalityType, MockTestsAssumption DEF Taken
<1>5. Taken' \subseteq Taken \cup {t.u}
  BY <1>1, <1>2 DEF RegisterWrite, Taken, ExamsInv, AttemptRows
<1>6. /\ IsFiniteSet(Taken \cup {t.u}) /\ Cardinality(Taken \cup {t.u}) <= Cardinality(Taken) + 1
      /\ Cardinality(Taken \cup {t.u}) \in Nat
  <2>1. PICK S, x : S = Taken /\ x = t.u /\ IsFiniteSet(S) /\ Cardinality(S) \in Nat
    BY <1>4
  <2>2. IsFiniteSet(S \cup {x}) /\ Cardinality(S \cup {x}) = IF x \in S THEN Cardinality(S) ELSE Cardinality(S) + 1
    BY <2>1, FS_AddElement
  <2>3. QED
    BY <2>1, <2>2
<1>7. Cardinality(Taken') <= Cardinality(Taken \cup {t.u}) /\ Cardinality(Taken') \in Nat
  BY <1>5, <1>6, FS_Subset, FS_CardinalityType
<1>8. QED
  BY <1>2, <1>3, <1>4, <1>6, <1>7, MockTestsAssumption

LEMMA Bookings ==
    ExamsInv /\ [ExamsNext]_<<requests, exams>> =>
        ((reg' # reg /\ txn' # txn /\ ExamsFresh /\ Cardinality(Taken') > Cardinality(Taken)) =>
            Cardinality(Taken') <= Capacity)
<1> SUFFICES ASSUME ExamsInv, [ExamsNext]_<<requests, exams>>, reg' # reg, txn' # txn, ExamsFresh,
                    Cardinality(Taken') > Cardinality(Taken)
             PROVE  Cardinality(Taken') <= Capacity
  OBVIOUS
<1>1. Cardinality(Taken) \in Nat
  BY FS_Subset, FS_CardinalityType, MockTestsAssumption DEF Taken
<1>2. ASSUME NEW w \in Workers, ExamRequest(w) PROVE FALSE
  BY <1>2 DEF ExamRequest, RegisterRead, StartRead, Submit, Coerce, SaveRead, MarkRead
<1>3. ASSUME NEW w \in Workers, ExamStatement(w) PROVE Cardinality(Taken') <= Capacity
  <2>1. CASE RegisterWrite(w)
    BY <2>1, Booked
  <2>2. CASE StartInsert(w) \/ SaveWrite(w) \/ GradeRead(w) \/ MarkCommit(w)
    BY <2>2 DEF StartInsert, SaveWrite, GradeRead, MarkCommit
  <2>3. CASE GradeWrite(w)
    <3>1. reg' = IF reg[txn[w].u] = "registered" THEN [reg EXCEPT ![txn[w].u] = "attended"] ELSE reg
      BY <2>3 DEF GradeWrite
    <3>2. Taken' = Taken
      BY <3>1 DEF Taken, ExamsInv, AttemptRows
    <3>3. QED
      BY <1>1, <3>2
  <2>4. QED
    BY <1>3, <2>1, <2>2, <2>3 DEF ExamStatement
<1>4. ASSUME NEW u, NEW i, Expire(u, i) PROVE FALSE
  BY <1>4 DEF Expire
<1>5. ~ExamDesk
  BY DeskWorks
<1>6. ~UNCHANGED <<requests, exams>>
  BY DEF exams
<1>7. QED
  BY <1>2, <1>3, <1>4, <1>5, <1>6 DEF ExamsNext

\* A registration takes a place that is free, unless another one was written
\* after it had counted.
THEOREM PlacesKept == ExamsSpec => OnlyStaleWritesOverbook
<1>1. ExamsInv /\ [ExamsNext]_<<requests, exams>> =>
        [(reg' # reg /\ txn' # txn /\ ExamsFresh /\ Cardinality(Taken') > Cardinality(Taken)) =>
            Cardinality(Taken') <= Capacity]_reg
  BY Bookings
<1>2. QED
  BY <1>1, ExamsInvariance, PTL DEF ExamsSpec, OnlyStaleWritesOverbook

-----------------------------------------------------------------------------
(* Attempts that are submitted.                                            *)

Done(u, i) == i \in DOMAIN attempts[u] /\ attempts[u][i].status # "in_progress"

LEMMA DoneIs == ASSUME NEW u PROVE Completed(u) = {i \in DOMAIN attempts[u] : Done(u, i)}
BY DEF Completed, Open, Done

Settled(u) ==
    Completed(u) # {} =>
        /\ Len(attempts'[u]) = Len(attempts[u])
        /\ \A i \in Completed(u) : /\ attempts'[u][i].answer = attempts[u][i].answer
                                   /\ attempts'[u][i].status = attempts[u][i].status

\* A change of an attempt in progress, or of neither status nor answers.
LEMMA Mild ==
    ASSUME ExamsInv, NEW v \in Takers, NEW j, NEW b, Changes(v, j, b),
           \/ attempts[v][j].status = "in_progress"
           \/ b.status = attempts[v][j].status /\ b.answer = attempts[v][j].answer,
           NEW u \in Takers
    PROVE  Settled(u)
<1>1. u \in Students /\ v \in Students
  BY MockTestsAssumption
<1>2. Len(attempts'[u]) = Len(attempts[u])
  BY <1>1, OneChange DEF Changes
<1>3. \A i \in DOMAIN attempts[u] : attempts'[u][i] = IF u = v /\ i = j THEN b ELSE attempts[u][i]
  BY <1>1, OneChange DEF Changes
<1>4. QED
  BY <1>2, <1>3, DoneIs DEF Settled, Done

LEMMA Settles ==
    ASSUME ExamsInv, [ExamsNext]_<<requests, exams>>, attempts' # attempts, ExamsFresh, NEW u \in Takers
    PROVE  Settled(u)
<1>1. ASSUME NEW w \in Workers, ExamRequest(w) PROVE FALSE
  BY <1>1 DEF ExamRequest, RegisterRead, StartRead, Submit, Coerce, SaveRead, MarkRead
<1>2. ASSUME NEW w \in Workers, ExamStatement(w) PROVE Settled(u)
  <2>1. CASE RegisterWrite(w) \/ GradeRead(w)
    BY <2>1 DEF RegisterWrite, GradeRead
  <2>2. CASE StartInsert(w)
    <3>1. PICK t : t = txn[w] /\ t.pc = "start_insert" /\ t.count = 0
      BY <2>2 DEF StartInsert, At, ExamsInv, ExamTxn
    <3>2. Cardinality(Completed(t.u)) = 0
      BY <2>2, <3>1, ExamSteps DEF StartInsert, ExamsFresh, ExamStale, At
    <3>3. ASSUME u = t.u PROVE Completed(u) = {}
      <4>1. IsLog(attempts[u])
        BY MockTestsAssumption DEF ExamsInv, AttemptRows
      <4>2. IsFiniteSet(DOMAIN attempts[u])
        BY <4>1, LenProperties, FS_Interval DEF IsLog
      <4>3. IsFiniteSet(Completed(u))
        BY <4>2, FS_Subset DEF Completed
      <4>4. QED
        BY <3>2, <3>3, <4>3, FS_EmptySet
    <3>4. ASSUME u # t.u PROVE Settled(u)
      <4>1. ASSUME NEW i \in DOMAIN attempts[u] PROVE attempts'[u] = attempts[u]
        BY <2>2, <3>1, <3>4, Inserts
      <4>2. QED
        BY <4>1, DoneIs DEF Settled
    <3>5. QED
      BY <3>3, <3>4 DEF Settled
  <2>3. CASE SaveWrite(w) \/ GradeWrite(w)
    <3>1. PICK t : t = txn[w] /\ t.pc \in {"save_write", "grade_write"} /\ t.seen.status = "in_progress"
      BY <2>3 DEF SaveWrite, GradeWrite, At, ExamsInv, ExamTxn
    <3>2. attempts[t.u][t.i].status = "in_progress"
      <4>1. Steps(w)
        BY <2>3, <3>1, ExamSteps DEF SaveWrite, GradeWrite
      <4>2. ~ExamStale(w)
        BY <4>1 DEF ExamsFresh
      <4>3. CASE t.pc = "save_write"
        BY <3>1, <4>2, <4>3 DEF ExamStale, At
      <4>4. CASE t.pc = "grade_write"
        BY <3>1, <4>2, <4>4 DEF ExamStale, At
      <4>5. QED
        BY <3>1, <4>3, <4>4
    <3>3. PICK b : Changes(t.u, t.i, b)
      BY <2>3, <3>1, Saves, Grades
    <3>4. QED
      BY <3>2, <3>3, Mild DEF Changes
  <2>4. CASE MarkCommit(w)
    <3>1. PICK t : t = txn[w]
      OBVIOUS
    <3>2. PICK b : Changes(t.u, t.i, b) /\ b.status = attempts[t.u][t.i].status /\ b.answer = attempts[t.u][t.i].answer
      BY <2>4, <3>1, Marked
    <3>3. QED
      BY <3>2, Mild DEF Changes
  <2>5. QED
    BY <1>2, <2>1, <2>2, <2>3, <2>4 DEF ExamStatement
<1>3. ASSUME NEW v \in Takers, NEW i, Expire(v, i) PROVE Settled(u)
  BY <1>3, Expires, Mild
<1>4. ~ExamDesk
  BY DeskWorks
<1>5. ~UNCHANGED <<requests, exams>>
  BY DEF exams
<1>6. QED
  BY <1>1, <1>2, <1>3, <1>4, <1>5 DEF ExamsNext

\* With an attempt submitted no other one begins, and neither its answers nor
\* the way it ended change, unless a write comes after it.
THEOREM OneAttemptEach == ExamsSpec => OnlyStaleWritesReattempt
<1>1. ExamsInv /\ [ExamsNext]_<<requests, exams>> =>
        [attempts' # attempts /\ ExamsFresh => \A u \in Takers : Completed(u) # {} =>
          /\ Len(attempts'[u]) = Len(attempts[u])
          /\ \A i \in Completed(u) :
                /\ attempts'[u][i].answer = attempts[u][i].answer
                /\ attempts'[u][i].status = attempts[u][i].status]_attempts
  BY Settles DEF Settled
<1>2. QED
  BY <1>1, ExamsInvariance, PTL DEF ExamsSpec, OnlyStaleWritesReattempt

-----------------------------------------------------------------------------
(* The marks of an attempt that is submitted.                              *)

\* The attempt has the promised marks for one question.
Fair(a, q) ==
    Cardinality(Elements(a.answer[q])) = Len(a.answer[q]) => a.marks[q] = Promised(Asked(q), a.answer[q])

LEMMA FairIs ==
    ASSUME NEW u, NEW i, NEW q, UNCHANGED bank
    PROVE  /\ FairlyMarked(u, i, q) <=> Fair(attempts[u][i], q)
           /\ FairlyMarked(u, i, q)' <=> Fair(attempts'[u][i], q)
<1>1. Asked(q)' = Asked(q)
  BY DEF Asked, bank, Stamp
<1>2. QED
  BY <1>1 DEF FairlyMarked, Fair

\* A row keeps its fair marks when neither they nor the answer change.
LEMMA FairStays ==
    ASSUME NEW a, NEW b, NEW q, b.answer[q] = a.answer[q], b.marks[q] = a.marks[q], Fair(a, q)
    PROVE  Fair(b, q)
BY DEF Fair

\* Marks given to the answer in the row by the question as it is.
LEMMA MarkedFairly ==
    ASSUME ExamsInv, NEW a, IsAttempt(a), NEW q \in live \cap Objectives,
           NEW b, b.answer = a.answer, b.marks[q] = Awarded(Asked(q), a.answer[q])
    PROVE  Fair(b, q) /\ Awarded(Asked(q), a.answer[q]) # None
<1>1. q \in Questions /\ Objective(paper[q])
  BY DEF live, Objectives
<1>2. PICK r : r = Asked(q) /\ WellPosed(r) /\ r.kind = paper[q].kind
  BY <1>1, AskedIsPosed DEF ExamsInv, AttemptRows
<1>3. Objective(r) /\ Readable(r.kind, a.answer[q])
  BY <1>1, <1>2 DEF Objective, IsAttempt
<1>4. Awarded(r, a.answer[q]) \in Int
  BY <1>2, <1>3, AsPromised
<1>5. ASSUME Cardinality(Elements(a.answer[q])) = Len(a.answer[q])
      PROVE  Awarded(r, a.answer[q]) = Promised(r, a.answer[q])
  BY <1>2, <1>3, <1>5, AsPromised
<1>6. QED
  BY <1>2, <1>4, <1>5, MockTestsAssumption DEF Fair

\* Where the followed attempt is after a change of one attempt.
LEMMA Rewritten ==
    ASSUME ExamsInv, NEW v, NEW j, NEW b, Changes(v, j, b), NEW u \in Takers, NEW i \in DOMAIN attempts'[u]
    PROVE  i \in DOMAIN attempts[u] /\ attempts'[u][i] = IF u = v /\ i = j THEN b ELSE attempts[u][i]
<1>1. u \in Students /\ v \in Takers /\ j \in DOMAIN attempts[v]
  BY MockTestsAssumption DEF Changes
<1>2. QED
  BY <1>1, OneChange DEF Changes

\* What a step may do to a submitted attempt.
LeftFair(u, i) ==
    /\ \A q \in live \cap Objectives :
          /\ i \in Open(u) \/ FairlyMarked(u, i, q)
          /\ ~\E w \in Workers : Overtakes(w, u, i, q)
          => FairlyMarked(u, i, q)'
    /\ i \in Open(u) => (attempts'[u][i].status = "auto_submitted" <=> attempts'[u][i].expired)

\* A change that keeps the status, the marks and the answers, but for the
\* question it is about.
LEMMA Spares ==
    ASSUME ExamsInv, UNCHANGED bank, NEW v, NEW j, NEW b, Changes(v, j, b), b.status = attempts[v][j].status,
           NEW P, \A q \in Questions \ P : /\ b.answer[q] = attempts[v][j].answer[q]
                                           /\ b.marks[q] = attempts[v][j].marks[q],
           NEW u \in Takers, NEW i, Done(u, i)',
           u = v /\ i = j => \A q \in P : \E w \in Workers : Overtakes(w, u, i, q)
    PROVE  LeftFair(u, i)
<1>1. /\ i \in DOMAIN attempts[u] /\ attempts'[u][i].status # "in_progress"
      /\ attempts'[u][i] = IF u = v /\ i = j THEN b ELSE attempts[u][i]
  <2>1. i \in DOMAIN attempts'[u] /\ attempts'[u][i].status # "in_progress"
    BY DEF Done
  <2>2. QED
    BY <2>1, Rewritten
<1>2. attempts[u][i].status # "in_progress"
  BY <1>1
<1>3. i \notin Open(u)
  BY <1>2 DEF Open
<1>4. ASSUME NEW q \in live \cap Objectives, FairlyMarked(u, i, q),
             ~\E w \in Workers : Overtakes(w, u, i, q)
      PROVE  FairlyMarked(u, i, q)'
  <2>1. Fair(attempts[u][i], q)
    BY <1>4, FairIs
  <2>2. CASE u = v /\ i = j
    <3>1. q \in Questions \ P
      BY <1>4, <2>2 DEF live
    <3>2. Fair(b, q)
      BY <2>1, <2>2, <3>1, FairStays
    <3>3. QED
      BY <1>1, <2>2, <3>2, FairIs
  <2>3. CASE ~(u = v /\ i = j)
    <3>1. attempts'[u][i] = attempts[u][i]
      BY <1>1, <2>3
    <3>2. QED
      BY <2>1, <3>1, FairIs
  <2>4. QED
    BY <2>2, <2>3
<1>5. QED
  BY <1>3, <1>4 DEF LeftFair

\* The grader: the questions it has not read, and those it has read before
\* they or their answers were changed, are its own; the others get what the
\* answer in the row earns.
LEMMA GradesFairly ==
    ASSUME ExamsInv, NEW w \in Workers, GradeWrite(w), NEW u \in Takers, NEW i, Done(u, i)'
    PROVE  LeftFair(u, i)
<1>1. PICK t : t = txn[w] /\ t.pc = "grade_write"
  BY DEF GradeWrite, At
<1>2. PICK a : a = attempts[t.u][t.i]
  OBVIOUS
<1>3. PICK b : /\ Changes(t.u, t.i, b)
               /\ b.answer = a.answer /\ b.expired = a.expired
               /\ b.status = IF a.expired THEN "auto_submitted" ELSE "submitted"
               /\ b.marks = [q \in Questions |-> IF q \in Graded(w) THEN t.marks[q] ELSE a.marks[q]]
  BY <1>1, <1>2, Grades
<1>4. IsAttempt(a) /\ UNCHANGED bank /\ Steps(w)
  <2>1. t.u \in Students /\ t.i \in DOMAIN attempts[t.u]
    BY <1>3, MockTestsAssumption DEF Changes
  <2>2. Steps(w) /\ UNCHANGED bank
    BY <1>1, ExamSteps DEF GradeWrite
  <2>3. QED
    BY <1>2, <2>1, <2>2 DEF ExamsInv, AttemptRows
<1>5. i \in DOMAIN attempts[u] /\ attempts'[u][i] = IF u = t.u /\ i = t.i THEN b ELSE attempts[u][i]
  <2>1. i \in DOMAIN attempts'[u]
    BY DEF Done
  <2>2. QED
    BY <1>3, <2>1, Rewritten
<1>6. CASE u = t.u /\ i = t.i
  <2>1. ASSUME NEW q \in live \cap Objectives, ~\E x \in Workers : Overtakes(x, u, i, q)
        PROVE  FairlyMarked(u, i, q)'
    <3>1. q \in Questions /\ q \in Objectives
      BY DEF live
    <3>2. q \in DOMAIN t.asked /\ t.asked[q] = Asked(q) /\ t.seen.answer[q] = a.answer[q]
      BY <1>1, <1>2, <1>4, <1>6, <2>1 DEF Overtakes, At
    <3>3. t.marks[q] = Awarded(Asked(q), a.answer[q])
      <4>1. t.marks[q] = Awarded(t.asked[q], t.seen.answer[q])
        BY <1>1, <3>1, <3>2 DEF ExamsInv, ExamTxn
      <4>2. QED
        BY <3>2, <4>1
    <3>4. PICK c : c = [answer |-> a.answer, marks |-> t.marks]
      OBVIOUS
    <3>5. c.answer = a.answer /\ c.marks[q] = Awarded(Asked(q), a.answer[q])
      BY <3>3, <3>4
    <3>6. Fair(c, q) /\ t.marks[q] # None
      BY <1>4, <3>3, <3>5, MarkedFairly
    <3>7. b.marks[q] = t.marks[q]
      BY <1>1, <1>3, <3>1, <3>6 DEF Graded
    <3>8. Fair(b, q)
      BY <1>3, <3>4, <3>6, <3>7, FairStays
    <3>9. QED
      BY <1>4, <1>5, <1>6, <3>8, FairIs
  <2>2. attempts'[u][i].status = "auto_submitted" <=> attempts'[u][i].expired
    BY <1>3, <1>4, <1>5, <1>6 DEF IsAttempt
  <2>3. QED
    BY <2>1, <2>2 DEF LeftFair
<1>7. CASE ~(u = t.u /\ i = t.i)
  <2>1. attempts'[u][i] = attempts[u][i]
    BY <1>5, <1>7
  <2>2. i \notin Open(u)
    BY <2>1 DEF Done, Open
  <2>3. QED
    BY <1>4, <2>1, <2>2, FairIs DEF LeftFair
<1>8. QED
  BY <1>6, <1>7

LEMMA AllFair ==
    ASSUME ExamsInv, [ExamsNext]_<<requests, exams>>, attempts' # attempts,
           NEW u \in Takers, NEW i, Done(u, i)'
    PROVE  LeftFair(u, i)
<1>1. ASSUME NEW w \in Workers, ExamRequest(w) PROVE FALSE
  BY <1>1 DEF ExamRequest, RegisterRead, StartRead, Submit, Coerce, SaveRead, MarkRead
<1>2. ASSUME NEW w \in Workers, ExamStatement(w) PROVE LeftFair(u, i)
  <2>1. CASE RegisterWrite(w) \/ GradeRead(w)
    BY <2>1 DEF RegisterWrite, GradeRead
  <2>2. CASE StartInsert(w)
    <3>1. UNCHANGED bank
      BY <2>2 DEF StartInsert
    <3>2. i \in DOMAIN attempts'[u] /\ attempts'[u][i].status # "in_progress"
      BY DEF Done
    <3>3. attempts'[u][i] = attempts[u][i]
      BY <2>2, <3>2, Inserts
    <3>4. i \notin Open(u)
      BY <3>2, <3>3 DEF Open
    <3>5. QED
      BY <3>1, <3>3, <3>4, FairIs DEF LeftFair
  <2>3. CASE SaveWrite(w)
    <3>1. PICK t : t = txn[w] /\ t.pc = "save_write"
      BY <2>3 DEF SaveWrite, At
    <3>2. PICK b : /\ Changes(t.u, t.i, b) /\ b.status = attempts[t.u][t.i].status
                   /\ b.marks = attempts[t.u][t.i].marks
                   /\ \A q \in Questions \ {t.q} : b.answer[q] = attempts[t.u][t.i].answer[q]
      BY <2>3, <3>1, Saves
    <3>3. UNCHANGED bank /\ Steps(w)
      BY <2>3, <3>1, ExamSteps DEF SaveWrite
    <3>4. u = t.u /\ i = t.i => Overtakes(w, u, i, t.q)
      BY <3>1, <3>3 DEF Overtakes, At
    <3>5. PICK P : P = {t.q}
      OBVIOUS
    <3>6. \A q \in Questions \ P : /\ b.answer[q] = attempts[t.u][t.i].answer[q]
                                   /\ b.marks[q] = attempts[t.u][t.i].marks[q]
      BY <3>2, <3>5
    <3>7. u = t.u /\ i = t.i => \A q \in P : \E x \in Workers : Overtakes(x, u, i, q)
      BY <3>4, <3>5
    <3>8. QED
      BY <3>2, <3>3, <3>6, <3>7, Spares
  <2>4. CASE MarkCommit(w)
    <3>1. PICK t : t = txn[w] /\ t.pc = "mark_commit"
      BY <2>4 DEF MarkCommit, At
    <3>2. PICK b : /\ Changes(t.u, t.i, b) /\ b.status = attempts[t.u][t.i].status
                   /\ b.answer = attempts[t.u][t.i].answer
                   /\ b.marks = [attempts[t.u][t.i].marks EXCEPT ![t.q] = t.count]
      BY <2>4, <3>1, Marked
    <3>3. UNCHANGED bank /\ Steps(w)
      BY <2>4, <3>1, ExamSteps DEF MarkCommit
    <3>4. u = t.u /\ i = t.i => Overtakes(w, u, i, t.q)
      BY <3>1, <3>3 DEF Overtakes, At
    <3>5. \A q \in Questions \ {t.q} : b.marks[q] = attempts[t.u][t.i].marks[q]
      <4>1. t.u \in Students /\ t.i \in DOMAIN attempts[t.u]
        BY <3>2, MockTestsAssumption DEF Changes
      <4>2. attempts[t.u][t.i].marks \in MarkMaps
        BY <4>1 DEF ExamsInv, AttemptRows, IsAttempt
      <4>3. QED
        BY <3>2, <4>2 DEF MarkMaps
    <3>6. PICK P : P = {t.q}
      OBVIOUS
    <3>7. \A q \in Questions \ P : /\ b.answer[q] = attempts[t.u][t.i].answer[q]
                                   /\ b.marks[q] = attempts[t.u][t.i].marks[q]
      BY <3>2, <3>5, <3>6
    <3>8. u = t.u /\ i = t.i => \A q \in P : \E x \in Workers : Overtakes(x, u, i, q)
      BY <3>4, <3>6
    <3>9. Changes(t.u, t.i, b) /\ b.status = attempts[t.u][t.i].status
      BY <3>2
    <3>10. QED
      BY <3>3, <3>7, <3>8, <3>9, Spares
  <2>5. CASE GradeWrite(w)
    BY <2>5, GradesFairly
  <2>6. QED
    BY <1>2, <2>1, <2>2, <2>3, <2>4, <2>5 DEF ExamStatement
<1>3. ASSUME NEW v \in Takers, NEW j, Expire(v, j) PROVE LeftFair(u, i)
  <2>1. PICK b : /\ Changes(v, j, b) /\ b.status = attempts[v][j].status
                 /\ b.answer = attempts[v][j].answer /\ b.marks = attempts[v][j].marks
    BY <1>3, Expires
  <2>2. UNCHANGED bank
    BY <1>3 DEF Expire
  <2>3. PICK P : P = {}
    OBVIOUS
  <2>4. \A q \in Questions \ P : /\ b.answer[q] = attempts[v][j].answer[q]
                                 /\ b.marks[q] = attempts[v][j].marks[q]
    BY <2>1
  <2>5. u = v /\ i = j => \A q \in P : \E x \in Workers : Overtakes(x, u, i, q)
    BY <2>3
  <2>6. QED
    BY <2>1, <2>2, <2>4, <2>5, Spares
<1>4. ~ExamDesk
  BY DeskWorks
<1>5. ~UNCHANGED <<requests, exams>>
  BY DEF exams
<1>6. QED
  BY <1>1, <1>2, <1>3, <1>4, <1>5 DEF ExamsNext

\* From its submission on an attempt has the promised marks for each objective
\* question, whatever happens to the others, unless that very question or its
\* answer changes after the grader has read them, or an examiner marks it; and
\* it is called auto-submitted if it had expired.
THEOREM GradedFairly == ExamsSpec => OnlyStaleWritesMisgrade
<1>1. ExamsInv /\ [ExamsNext]_<<requests, exams>> =>
        [\A u \in Takers : \A i \in Completed(u)' :
          /\ \A q \in live \cap Objectives :
                /\ i \in Open(u) \/ FairlyMarked(u, i, q)
                /\ ~\E w \in Workers : Overtakes(w, u, i, q)
                => FairlyMarked(u, i, q)'
          /\ i \in Open(u) =>
                (attempts'[u][i].status = "auto_submitted" <=> attempts'[u][i].expired)]_attempts
  <2> SUFFICES ASSUME ExamsInv, [ExamsNext]_<<requests, exams>>, attempts' # attempts,
                      NEW u \in Takers, NEW i \in Completed(u)'
               PROVE  LeftFair(u, i)
    BY DEF LeftFair
  <2>1. Done(u, i)'
    BY DEF Completed, Open, Done
  <2>2. QED
    BY <2>1, AllFair
<1>2. QED
  BY <1>1, ExamsInvariance, PTL DEF ExamsSpec, OnlyStaleWritesMisgrade

-----------------------------------------------------------------------------
(* The totals of attempts.                                                 *)

Early(u, i) == i \in Open(u) /\ \E q \in Questions : attempts[u][i].marks[q] # None

\* A sum of both sorts of marks, written over the attempt it was read from.
LEMMA MarkedInFull ==
    ASSUME ExamsInv, NEW w \in Workers, MarkCommit(w), ExamsFresh, NEW b,
           b.marks = [attempts[txn[w].u][txn[w].i].marks EXCEPT ![txn[w].q] = txn[w].count],
           b.total = MarksOf(txn[w].marks, Objectives) + MarksOf(txn[w].marks, Questions \ Objectives)
    PROVE  b.total = MarksOf(b.marks, Questions)
<1>1. PICK t : t = txn[w] /\ t.pc = "mark_commit"
  BY DEF MarkCommit, At
<1>2. attempts[t.u][t.i].marks = t.seen.marks
  BY <1>1, ExamSteps DEF MarkCommit, ExamsFresh, ExamStale, At
<1>3. /\ t.q \in Questions /\ t.count \in Int /\ t.seen.marks \in MarkMaps
      /\ t.marks = [t.seen.marks EXCEPT ![t.q] = t.count]
  BY <1>1 DEF ExamsInv, ExamTxn
<1>4. b.marks = t.marks /\ t.marks \in MarkMaps
  BY <1>1, <1>2, <1>3 DEF MarkMaps
<1>5. Objectives \in SUBSET Questions /\ Questions \in SUBSET Questions
  BY DEF Objectives
<1>6. MarksOf(t.marks, Questions) = MarksOf(t.marks, Objectives) + MarksOf(t.marks, Questions \ Objectives)
  BY <1>4, <1>5, SumSplit
<1>7. QED
  BY <1>1, <1>4, <1>6

\* The grader's sum is over the questions it has marked; the others have none.
LEMMA GradedInFull ==
    ASSUME ExamsInv, NEW w \in Workers, txn[w].pc = "grade_write", NEW b,
           b.marks = txn[w].marks, b.total = MarksOf(txn[w].marks, Graded(w))
    PROVE  b.total = MarksOf(b.marks, Questions)
<1>1. PICK m : m = txn[w].marks /\ m \in MarkMaps
  BY DEF ExamsInv, ExamTxn
<1>2. b.marks = m
  BY <1>1
<1>3. Graded(w) \in SUBSET Questions /\ Questions \ Graded(w) \in SUBSET Questions
  BY DEF Graded
<1>4. MarksOf(m, Questions) = MarksOf(m, Graded(w)) + MarksOf(m, Questions \ Graded(w))
  BY <1>1, <1>3, SumSplit
<1>5. MarksOf(m, Questions \ Graded(w)) = 0
  <2>1. \A q \in Questions \ Graded(w) : m[q] = None
    BY <1>1 DEF Graded
  <2>2. QED
    BY <1>3, <2>1, SumZero
<1>6. MarksOf(m, Graded(w)) \in Int
  BY <1>1, <1>3, SumType
<1>7. QED
  BY <1>1, <1>2, <1>4, <1>5, <1>6

LEMMA Totals ==
    ASSUME ExamsInv, [ExamsNext]_<<requests, exams>>, attempts' # attempts, ExamsFresh,
           NEW u \in Takers, NEW i, Done(u, i)', ~Early(u, i), attempts[u][i] # attempts'[u][i],
           attempts'[u][i].answer = attempts[u][i].answer, attempts'[u][i].expired = attempts[u][i].expired
    PROVE  attempts'[u][i].total = MarksOf(attempts'[u][i].marks, Questions)
<1>1. u \in Students /\ i \in DOMAIN attempts'[u] /\ attempts'[u][i].status # "in_progress"
  BY MockTestsAssumption DEF Done
<1>2. ASSUME NEW v, NEW j, NEW b, Changes(v, j, b)
      PROVE  u = v /\ i = j /\ i \in DOMAIN attempts[u] /\ attempts'[u][i] = b
  <2>1. v \in Takers /\ j \in DOMAIN attempts[v]
    BY <1>2 DEF Changes
  <2>2. i \in DOMAIN attempts[u] /\ attempts'[u][i] = IF u = v /\ i = j THEN b ELSE attempts[u][i]
    BY <1>1, <1>2, <2>1, OneChange DEF Changes
  <2>3. QED
    BY <2>2
<1>3. ASSUME NEW w \in Workers, ExamRequest(w) PROVE FALSE
  BY <1>3 DEF ExamRequest, RegisterRead, StartRead, Submit, Coerce, SaveRead, MarkRead
<1>4. ASSUME NEW w \in Workers, ExamStatement(w)
      PROVE  attempts'[u][i].total = MarksOf(attempts'[u][i].marks, Questions)
  <2> DEFINE a == attempts[txn[w].u][txn[w].i]
  <2>1. CASE RegisterWrite(w) \/ GradeRead(w)
    BY <2>1 DEF RegisterWrite, GradeRead
  <2>2. CASE StartInsert(w)
    BY <1>1, <2>2, Inserts
  <2>3. CASE SaveWrite(w)
    <3>1. PICK b : Changes(txn[w].u, txn[w].i, b) /\ (b.answer = a.answer => b = a)
      BY <2>3, Saves
    <3>2. u = txn[w].u /\ i = txn[w].i /\ attempts'[u][i] = b
      BY <1>2, <3>1
    <3>3. QED
      BY <3>1, <3>2
  <2>4. CASE MarkCommit(w)
    <3>1. PICK b : /\ Changes(txn[w].u, txn[w].i, b)
                   /\ b.marks = [a.marks EXCEPT ![txn[w].q] = txn[w].count]
                   /\ b.total = MarksOf(txn[w].marks, Objectives) + MarksOf(txn[w].marks, Questions \ Objectives)
      BY <2>4, Marked
    <3>2. b.total = MarksOf(b.marks, Questions)
      BY <2>4, <3>1, MarkedInFull
    <3>3. attempts'[u][i] = b
      BY <1>2, <3>1
    <3>4. QED
      BY <3>2, <3>3
  <2>5. CASE GradeWrite(w)
    <3>1. PICK b : /\ Changes(txn[w].u, txn[w].i, b)
                   /\ b.marks = [q \in Questions |-> IF q \in Graded(w) THEN txn[w].marks[q] ELSE a.marks[q]]
                   /\ b.total = MarksOf(txn[w].marks, Graded(w))
      BY <2>5, Grades
    <3>2. u = txn[w].u /\ i = txn[w].i /\ i \in DOMAIN attempts[u] /\ attempts'[u][i] = b
      BY <1>2, <3>1
    <3>3. PICK t : t = txn[w] /\ t.pc = "grade_write" /\ t.seen.status = "in_progress"
      BY <2>5 DEF GradeWrite, At, ExamsInv, ExamTxn
    <3>4. attempts[t.u][t.i] = t.seen
      BY <2>5, <3>3, ExamSteps DEF GradeWrite, ExamsFresh, ExamStale, At
    <3>5. i \in Open(u)
      BY <3>2, <3>3, <3>4 DEF Open
    <3>6. \A q \in Questions : a.marks[q] = None
      BY <3>2, <3>3, <3>5 DEF Early
    <3>7. b.total = MarksOf(b.marks, Questions)
      <4>1. txn[w].pc = "grade_write"
        BY <3>3
      <4>2. txn[w].marks \in MarkMaps
        BY <4>1 DEF ExamsInv, ExamTxn
      <4>3. b.marks = txn[w].marks
        BY <3>1, <3>6, <4>2 DEF Graded, MarkMaps
      <4>4. QED
        BY <3>1, <4>1, <4>3, GradedInFull
    <3>8. QED
      BY <3>2, <3>7
  <2>6. QED
    BY <1>4, <2>1, <2>2, <2>3, <2>4, <2>5 DEF ExamStatement
<1>5. ASSUME NEW v \in Takers, NEW j, Expire(v, j) PROVE FALSE
  <2>1. PICK b : Changes(v, j, b) /\ b.expired # attempts[v][j].expired
    BY <1>5, Expires
  <2>2. QED
    BY <1>2, <2>1
<1>6. ~ExamDesk
  BY DeskWorks
<1>7. ~UNCHANGED <<requests, exams>>
  BY DEF exams
<1>8. QED
  BY <1>3, <1>4, <1>5, <1>6, <1>7 DEF ExamsNext

\* The total of a submitted attempt is the sum of its marks, unless they have
\* changed since they were summed or one was given before the submission.
THEOREM TotalsAreSums == ExamsSpec => OnlyStaleWritesLoseMarks
<1>1. ExamsInv /\ [ExamsNext]_<<requests, exams>> =>
        [attempts' # attempts /\ ExamsFresh => \A u \in Takers : \A i \in Completed(u)' :
          LET a == attempts'[u][i]
              early == i \in Open(u) /\ \E q \in Questions : attempts[u][i].marks[q] # None
              rest == a.answer = attempts[u][i].answer /\ a.expired = attempts[u][i].expired
          IN  (attempts[u][i] # a /\ rest /\ ~early) => a.total = MarksOf(a.marks, Questions)]_attempts
  <2> SUFFICES ASSUME ExamsInv, [ExamsNext]_<<requests, exams>>, attempts' # attempts, ExamsFresh,
                      NEW u \in Takers, NEW i \in Completed(u)', ~Early(u, i),
                      attempts[u][i] # attempts'[u][i],
                      attempts'[u][i].answer = attempts[u][i].answer,
                      attempts'[u][i].expired = attempts[u][i].expired
               PROVE  attempts'[u][i].total = MarksOf(attempts'[u][i].marks, Questions)
    BY DEF Early
  <2>1. Done(u, i)'
    BY DEF Completed, Open, Done
  <2>2. QED
    BY <2>1, Totals
<1>2. QED
  BY <1>1, ExamsInvariance, PTL DEF ExamsSpec, OnlyStaleWritesLoseMarks
=============================================================================
