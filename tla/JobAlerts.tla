------------------------------ MODULE JobAlerts ------------------------------
(***************************************************************************)
(* Job alerts: routes/jobAlerts.ts, lib/jobAlerts.ts, lib/jobAlertsCron.ts *)
(* and routes/admin/jobSubscribers.ts.                                     *)
(*                                                                         *)
(* Users confirm once by a mailed link; instant alerts go out in the       *)
(* request that activates a posting, the daily digest in a timer of every  *)
(* machine.  Both read a list, then mail and stamp one user after another. *)
(*                                                                         *)
(* Time counts the instants of a day: four ticks of the timer in the hour  *)
(* from seven, and midnight UTC.  What happens at `now` happens after that *)
(* instant and before the next.                                            *)
(***************************************************************************)
EXTENDS JobPostings

CONSTANTS
    Users,
    Kinds,      \* of posting: a subscription is for one kind
    KindOf,     \* KindOf[p]: the kind of posting p
    MaxTime,    \* bound: the last instant
    MaxLost     \* bound: sweeps that are cut short

ASSUME JobAlertsAssumption ==
    /\ IsFiniteSet(Workers)
    /\ MaxTime \in Nat /\ MaxLost \in Nat
    /\ KindOf \in [Postings -> Kinds]

Day == 5
Ticks == 0 .. 3                       \* instants of the day at which the timer runs
date(t) == (t + 1) \div Day           \* the date in UTC that isSameDayUTC compares

VARIABLES
    now,
    created,    \* created[p]: the time at which posting p was inserted
    sub,        \* sub[u][k]: frequency (None without a row), flags and last_notified_at
    invited,    \* users who have been mailed a confirmation link
    opted,      \* users who have followed it
    ticked,     \* machines whose timer has run since this instant
    digests,    \* digests[u]: those u has been mailed on the date of `now`
    digested,   \* digested[u]: postings u has been mailed in digests
    lost        \* sweeps that were cut short

alerts == <<now, created, sub, invited, opted, ticked, digests, digested, lost>>
jobVars == <<requests, jobs, alerts>>

NoSub == [frequency |-> None, confirmed |-> FALSE, unsubscribed |-> FALSE, last |-> None]

AlertsTypeOK ==
    /\ JobsTypeOK
    /\ now \in 0 .. MaxTime /\ created \in [Postings -> (0 .. MaxTime) \cup {None}]
    /\ sub \in [Users -> [Kinds -> [frequency : {"instant", "daily", None}, confirmed : BOOLEAN,
                                    unsubscribed : BOOLEAN, last : (0 .. date(MaxTime)) \cup {None}]]]
    /\ invited \in SUBSET Users /\ opted \in SUBSET Users /\ ticked \in SUBSET Workers
    /\ digests \in [Users -> Nat] /\ digested \in [Users -> SUBSET Postings]
    /\ lost \in 0 .. MaxLost

Wanted(s, frequency) == s.frequency = frequency /\ s.confirmed /\ ~s.unsubscribed

AlertsInit ==
    /\ now = 0
    /\ created = [p \in Postings |-> IF posting[p].status = None THEN None ELSE 0]
    /\ sub = [u \in Users |-> [k \in Kinds |->
                IF "subscribe" \in mix THEN NoSub
                ELSE [NoSub EXCEPT !.frequency = "daily", !.confirmed = TRUE]]]
    /\ invited = {} /\ ticked = {}
    /\ opted = IF "subscribe" \in mix THEN {} ELSE Users
    /\ digests = [u \in Users |-> 0]
    /\ digested = [u \in Users |-> {}]
    /\ lost = 0

-----------------------------------------------------------------------------
(* Subscriptions.                                                          *)

\* POST /subscribe upserts the row, which clears unsubscribed_at.
SubscribeUpsert(w, u, k, frequency) ==
    /\ Serve(w, "subscribe", [pc |-> "subscribe", u |-> u])
    /\ sub' = [sub EXCEPT ![u][k].frequency = frequency, ![u][k].unsubscribed = FALSE]
    /\ UNCHANGED <<now, created, invited, opted, ticked, digests, digested, lost>>

\* Then confirms the user's rows if one of them is confirmed, or else mails
\* the link.
SubscribeConfirm(w) ==
    LET u == txn[w].u
    IN  /\ At(w, "subscribe")
        /\ IF \E k \in Kinds : sub[u][k].confirmed
           THEN /\ sub' = [sub EXCEPT ![u] = [k \in Kinds |->
                              [sub[u][k] EXCEPT !.confirmed = @ \/ sub[u][k].frequency # None]]]
                /\ UNCHANGED invited
           ELSE UNCHANGED sub /\ invited' = invited \cup {u}
        /\ End(w)
        /\ UNCHANGED <<now, created, opted, ticked, digests, digested, lost>>

\* GET /confirm with the token of the mail.
FollowLink(u) ==
    /\ Serves("subscribe")
    /\ u \in invited
    /\ opted' = opted \cup {u}
    /\ sub' = [sub EXCEPT ![u] = [k \in Kinds |->
                  [sub[u][k] EXCEPT !.confirmed = @ \/ sub[u][k].frequency # None]]]
    /\ UNCHANGED <<now, created, invited, ticked, digests, digested, lost>>

\* POST /unsubscribe, /unsubscribe-all, /manage-unsubscribe; the desk's DELETE.
Unsubscribe(u, S) ==
    /\ Serves("unsubscribe")
    /\ S # {} /\ \A k \in S : sub[u][k].frequency # None
    /\ sub' = [sub EXCEPT ![u] = [k \in Kinds |-> IF k \in S THEN [@[k] EXCEPT !.unsubscribed = TRUE] ELSE @[k]]]
    /\ UNCHANGED <<now, created, invited, opted, ticked, digests, digested, lost>>

-----------------------------------------------------------------------------
(* Instant alerts: dispatchJobAlerts.                                      *)

InstantList(p) == {u \in Users : Wanted(sub[u][KindOf[p]], "instant")}

DispatchRead(w) ==
    LET p == txn[w].posting
        list == IF posting[p].deleted THEN {} ELSE InstantList(p)
    IN  /\ At(w, "dispatch")
        /\ IF list = {} THEN End(w)
           ELSE /\ txn' = [txn EXCEPT ![w] = [pc |-> "alert", posting |-> p, list |-> list, rows |-> sub]]
                /\ UNCHANGED mix
        /\ UNCHANGED alerts

\* The user who is mailed is kept in the request until the stamp.
AlertMail(w, u) ==
    /\ At(w, "alert") /\ u \in txn[w].list
    /\ txn' = [txn EXCEPT ![w] = [pc |-> "alert_stamp", u |-> u, posting |-> @.posting, list |-> @.list, rows |-> @.rows]]
    /\ UNCHANGED <<mix, alerts>>

AlertStamp(w) ==
    LET t == txn[w]
        rest == t.list \ {t.u}
    IN  /\ At(w, "alert_stamp")
        /\ sub' = [sub EXCEPT ![t.u][KindOf[t.posting]].last = date(now)]
        /\ IF rest = {} THEN End(w)
           ELSE /\ txn' = [txn EXCEPT ![w] = [pc |-> "alert", posting |-> t.posting, list |-> rest, rows |-> t.rows]]
                /\ UNCHANGED mix
        /\ UNCHANGED <<now, created, invited, opted, ticked, digests, digested, lost>>

-----------------------------------------------------------------------------
(* The daily digest: runDigestSweep.                                       *)

\* Mutant: last_notified_at is not looked at.
DueEveryTick(u) == {k \in Kinds : Wanted(sub[u][k], "daily")}

\* Rows whose user may have a digest now.
Due(u) == {k \in Kinds : Wanted(sub[u][k], "daily") /\ sub[u][k].last # date(now)}

\* Mutant: the window is the day of the tick, as its last hour had it.
RecentToday == {p \in Postings : posting[p].status = "active" /\ ~posting[p].deleted /\ created[p] + 1 >= now}

\* Active postings created within 24 hours.
Recent == {p \in Postings : posting[p].status = "active" /\ ~posting[p].deleted /\ created[p] + Day >= now}

Digest(u) == {p \in Recent : KindOf[p] \in Due(u)}

\* A machine ticks once at each instant; the sweep reads all it needs first.
SweepRead(w) ==
    LET list == {u \in Users : Digest(u) # {}}
    IN  /\ now % Day \in Ticks /\ w \notin ticked
        /\ ticked' = ticked \cup {w}
        /\ IF list = {} THEN Serve(w, "digest", Idle)
           ELSE Serve(w, "digest", [pc |-> "sweep", list |-> list, rows |-> sub,
                                    digest |-> [u \in Users |-> Digest(u)]])
        /\ UNCHANGED <<now, created, sub, invited, opted, digests, digested, lost>>

SweepMail(w, u) ==
    LET t == txn[w]
    IN  /\ At(w, "sweep") /\ u \in t.list
        /\ digests' = [digests EXCEPT ![u] = @ + 1]
        /\ digested' = [digested EXCEPT ![u] = @ \cup t.digest[u]]
        /\ txn' = [txn EXCEPT ![w] = [pc |-> "sweep_stamp", u |-> u, list |-> t.list, rows |-> t.rows, digest |-> t.digest]]
        /\ UNCHANGED <<mix, now, created, sub, invited, opted, ticked, lost>>

\* Every daily row of the user is stamped.
SweepStamp(w) ==
    LET t == txn[w]
        rest == t.list \ {t.u}
    IN  /\ At(w, "sweep_stamp")
        /\ sub' = [sub EXCEPT ![t.u] = [k \in Kinds |->
                      IF @[k].frequency = "daily" THEN [@[k] EXCEPT !.last = date(now)] ELSE @[k]]]
        /\ IF rest = {} THEN End(w)
           ELSE /\ txn' = [txn EXCEPT ![w] = [pc |-> "sweep", list |-> rest, rows |-> t.rows, digest |-> t.digest]]
                /\ UNCHANGED mix
        /\ UNCHANGED <<now, created, invited, opted, ticked, digests, digested, lost>>

Sweeping == \E w \in Workers : txn[w].pc \in {"sweep", "sweep_stamp"}

\* The process is lost with the sweep it was in.
LoseSweep(w) ==
    /\ "crash" \in mix
    /\ At(w, "sweep") \/ At(w, "sweep_stamp")
    /\ lost < MaxLost
    /\ lost' = lost + 1
    /\ End(w)
    /\ UNCHANGED <<now, created, sub, invited, opted, ticked, digests, digested>>

\* A quarter of an hour is longer than a sweep, and a machine that is up does
\* not miss a tick; "down" is a machine that may.
Clock ==
    /\ Serves("clock")
    /\ now < MaxTime
    /\ ~Sweeping
    /\ "down" \in mix \/ "digest" \notin mix \/ now % Day \notin Ticks \/ ticked # {}
    /\ now' = now + 1
    /\ ticked' = {}
    /\ digests' = IF date(now') = date(now) THEN digests ELSE [u \in Users |-> 0]
    /\ UNCHANGED <<created, sub, invited, opted, digested, lost>>

AlertsStep ==
    \/ \E w \in Workers, u \in Users :
          \/ \E k \in Kinds, frequency \in {"instant", "daily"} : SubscribeUpsert(w, u, k, frequency)
          \/ AlertMail(w, u) \/ SweepMail(w, u)
    \/ \E w \in Workers :
          \/ SubscribeConfirm(w) \/ DispatchRead(w) \/ AlertStamp(w)
          \/ SweepRead(w) \/ SweepStamp(w) \/ LoseSweep(w)
    \/ \E u \in Users : FollowLink(u) \/ (\E S \in SUBSET Kinds : Unsubscribe(u, S))
    \/ Clock

\* A posting's row carries the time of its insertion.
Created ==
    /\ created' = [p \in Postings |-> IF posting[p].status = None /\ posting'[p].status # None
                                      THEN now ELSE created[p]]
    /\ UNCHANGED <<now, sub, invited, opted, ticked, digests, digested, lost>>

JobStep == (JobsNext /\ Created) \/ (AlertsStep /\ UNCHANGED jobs)

\* Postings and their alerts alone.
AlertsSpec == RequestsInit /\ JobsInit /\ AlertsInit /\ [][JobStep]_jobVars

-----------------------------------------------------------------------------
(* Properties.                                                             *)

\* A list is stale for a user whose rows have changed since it was read.
ListStale(w, u) == txn[w].rows[u] # sub[u]

\* A user has one digest a day: a second one comes only from a list read
\* before the first was stamped, as on two machines, from rows changed between
\* the mail and its stamp, or, once each, after a sweep was lost.  Nobody
\* subscribes meanwhile: what is added after the day's digest has its own.
Repeats(u) == IF digests[u] = 0 THEN 0 ELSE digests[u] - 1

SweepStale(w) ==
    \/ At(w, "sweep") /\ \E u \in Users :
          /\ digests'[u] # digests[u]
          /\ ListStale(w, u) \/ \E v \in Workers : At(v, "sweep_stamp") /\ txn[v].u = u
    \/ At(w, "sweep_stamp") /\ ListStale(w, txn[w].u)

OnlyStaleSweepsRepeat ==
    []["subscribe" \notin mix /\ (\A w \in Workers : Steps(w) => ~SweepStale(w))
       => \A u \in Users : Repeats(u) <= lost => (Repeats(u) <= lost)']_jobVars

\* Mixes in which every user's daily subscription stands, and postings are
\* active from their insertion.
Digesting ==
    /\ {"digest", "post"} \subseteq mix
    /\ mix \cap {"subscribe", "unsubscribe", "pay", "desk", "close", "delete", "crash", "down"} = {}

\* A posting that is active from its insertion is in a digest of every user
\* whose daily subscription stands, within a day and a quarter of an hour.
EveryPostingDigested ==
    Digesting => \A p \in Postings, u \in Users :
                    created[p] # None /\ now > created[p] + Day => p \in digested[u]
=============================================================================
