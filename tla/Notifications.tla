---------------------------- MODULE Notifications ----------------------------
(***************************************************************************)
(* Notifications: lib/notify.ts and lib/webpush.ts, the devices of         *)
(* routes/push.ts, the inbox of routes/notifications.ts and the templates  *)
(* of routes/admin/notificationTemplates.ts.                               *)
(*                                                                         *)
(* notify writes the notification, and then for each channel of its        *)
(* template sends and writes a delivery row, one statement after another.  *)
(* Mail and push services are external: they take a message, fail, or say  *)
(* that a device is gone.  No handler writes notify_email, so it keeps its *)
(* default and the opt-out of mail is left out.                            *)
(***************************************************************************)
EXTENDS Requests, Sequences

CONSTANTS
    Members,     \* users
    Endpoints,   \* push endpoints of devices
    Notices,     \* notifications
    Channels,    \* the channels of the template, in order
    MaxRows      \* bound: rows ever inserted into push_subscriptions

ASSUME NotificationsAssumption ==
    Channels \in Seq({"inapp", "email", "webpush", "sms", "whatsapp"}) /\ MaxRows \in Nat

VARIABLES
    enabled,     \* the template is there and enabled
    wants,       \* members with notify_push
    device,      \* device[e]: owner and row id, or None
    rowsUsed,    \* ids given to rows of push_subscriptions
    notice       \* notice[n]: owner, read_at and delivery rows, or None

notices == <<enabled, wants, device, rowsUsed, notice>>
noticeVars == <<requests, notices>>

NoticesInit ==
    /\ enabled = TRUE
    /\ wants \in SUBSET Members
    /\ "opted" \notin mix => wants = Members
    /\ device = [e \in Endpoints |-> None]
    /\ rowsUsed = 0
    /\ notice = [n \in Notices |-> None]

DevicesOf(u) == {e \in Endpoints : device[e] # None /\ device[e].owner = u}

-----------------------------------------------------------------------------
(* Devices and preferences.                                                *)

SetWants(members) ==
    /\ wants' = members
    /\ UNCHANGED <<enabled, device, rowsUsed, notice>>

\* POST /subscribe: the upsert by endpoint moves a device to its new owner and
\* keeps its row.
Subscribe(w, u, e) ==
    /\ Serve(w, "subscribe", [pc |-> "opt_in", u |-> u])
    /\ IF device[e] = None
       THEN /\ rowsUsed < MaxRows
            /\ rowsUsed' = rowsUsed + 1
            /\ device' = [device EXCEPT ![e] = [owner |-> u, id |-> rowsUsed']]
       ELSE /\ device' = [device EXCEPT ![e].owner = u]
            /\ UNCHANGED rowsUsed
    /\ UNCHANGED <<enabled, wants, notice>>

OptIn(w) ==
    /\ At(w, "opt_in")
    /\ SetWants(wants \cup {txn[w].u})
    /\ End(w)

\* POST /unsubscribe deletes the member's row of this endpoint ...
Unsubscribe(w, u, e) ==
    /\ Serve(w, "unsubscribe", [pc |-> "count", u |-> u])
    /\ device' = IF e \in DevicesOf(u) THEN [device EXCEPT ![e] = None] ELSE device
    /\ UNCHANGED <<enabled, wants, rowsUsed, notice>>

Remaining(w, seen) ==
    /\ txn' = [txn EXCEPT ![w] = [pc |-> "opt_out", u |-> txn[w].u, seen |-> seen]]
    /\ UNCHANGED mix

\* Mutant: the devices are not counted.
CountNone(w) ==
    LET others == DevicesOf(txn[w].u)
    IN  /\ At(w, "count")
        /\ Remaining(w, others)
        /\ UNCHANGED notices

\* ... looks for another one ...
Count(w) ==
    LET others == DevicesOf(txn[w].u)
    IN  /\ At(w, "count")
        /\ IF others = {} THEN Remaining(w, others) ELSE End(w)
        /\ UNCHANGED notices

\* ... and without one switches push off.
OptOut(w) ==
    /\ At(w, "opt_out")
    /\ SetWants(wants \ {txn[w].u})
    /\ End(w)

EnableTemplate ==
    /\ Serves("settings")
    /\ enabled' = ~enabled
    /\ UNCHANGED <<wants, device, rowsUsed, notice>>

-----------------------------------------------------------------------------
(* notify.                                                                 *)

\* A template that is missing or off drops the dispatch before anything is
\* written.
Notify(w, u) ==
    /\ Ready(w, "notify")
    /\ enabled
    /\ Hold(w, [pc |-> "insert", u |-> u, push |-> u \in wants])
    /\ UNCHANGED notices

SetNotice(n, row) ==
    /\ notice' = [notice EXCEPT ![n] = row]
    /\ UNCHANGED <<enabled, wants, device, rowsUsed>>

InsertNotice(w, n) ==
    LET t == txn[w]
    IN  /\ At(w, "insert")
        /\ notice[n] = None
        /\ SetNotice(n, [owner |-> t.u, read |-> FALSE, rows |-> {}])
        /\ txn' = [txn EXCEPT ![w] = [pc |-> "channel", u |-> t.u, push |-> t.push, n |-> n, channels |-> Channels]]
        /\ UNCHANGED mix

Row(channel, recipient, status) == [channel |-> channel, recipient |-> recipient, status |-> status]

\* INSERT INTO notification_deliveries.
Record(n, row) == SetNotice(n, [notice[n] EXCEPT !.rows = @ \cup {row}])

Channel(w) == txn[w].channels[1]

\* The record of a worker that goes on to the next channel.
NextChannel(w) ==
    LET t == txn[w]
    IN  IF Len(t.channels) = 1 THEN Idle
        ELSE [t EXCEPT !.channels = Tail(@)]

GoOn(w) ==
    /\ txn' = [txn EXCEPT ![w] = NextChannel(w)]
    /\ UNCHANGED mix

\* The row of the notification stands for this channel.
InApp(w) ==
    /\ At(w, "channel") /\ Channel(w) = "inapp"
    /\ GoOn(w)
    /\ UNCHANGED notices

\* sms and whatsapp are not implemented; push is skipped when it was off as the
\* dispatch began.
Skips(t, channel) ==
    \/ channel \in {"sms", "whatsapp"}
    \/ channel = "webpush" /\ ~t.push

SkipChannel(w) ==
    /\ At(w, "channel") /\ Skips(txn[w], Channel(w))
    /\ Record(txn[w].n, Row(Channel(w), None, "skipped"))
    /\ GoOn(w)

Email(w, status) ==
    /\ At(w, "channel") /\ Channel(w) = "email"
    /\ Record(txn[w].n, Row("email", None, status))
    /\ GoOn(w)

\* The devices of the member; without one the channel is skipped.
Devices(w) ==
    LET t == txn[w]
    IN  /\ At(w, "channel") /\ Channel(w) = "webpush" /\ ~Skips(t, "webpush")
        /\ IF DevicesOf(t.u) = {}
           THEN Record(t.n, Row("webpush", None, "skipped")) /\ GoOn(w)
           ELSE /\ txn' = [txn EXCEPT ![w] = [pc |-> "push", t |-> t, n |-> t.n,
                              todo |-> [e \in DevicesOf(t.u) |-> device[e].id], told |-> {}]]
                /\ UNCHANGED <<mix, notices>>

\* The service has answered 404 or 410: the row is deleted by its id.
Drop(e, id) ==
    IF device[e] # None /\ device[e].id = id THEN [device EXCEPT ![e] = None] ELSE device

\* sendPush.
Push(w, e, status) ==
    LET t == txn[w]
    IN  /\ At(w, "push") /\ e \in DOMAIN t.todo \ t.told
        /\ device' = IF status = "skipped" THEN Drop(e, t.todo[e]) ELSE device
        /\ txn' = [txn EXCEPT ![w] = [pc |-> "pushed", t |-> t.t, n |-> t.n,
                      todo |-> t.todo, told |-> t.told, e |-> e, status |-> status]]
        /\ UNCHANGED <<mix, enabled, wants, rowsUsed, notice>>

\* Its delivery row, and the next device or the next channel.
Pushed(w) ==
    LET t == txn[w]
        told == t.told \cup {t.e}
    IN  /\ At(w, "pushed")
        /\ Record(t.n, Row("webpush", t.e, t.status))
        /\ txn' = [txn EXCEPT ![w] =
              IF told # DOMAIN t.todo THEN [pc |-> "push", t |-> t.t, n |-> t.n, todo |-> t.todo, told |-> told]
              ELSE IF Len(t.t.channels) = 1 THEN Idle
              ELSE [t.t EXCEPT !.channels = Tail(@)]]
        /\ UNCHANGED mix

\* The inbox: one or all of the member's unread notifications.
ReadNotice(n) ==
    /\ Serves("inbox")
    /\ notice[n] # None /\ ~notice[n].read
    /\ SetNotice(n, [notice[n] EXCEPT !.read = TRUE])

ReadAll(u) ==
    /\ Serves("inbox")
    /\ notice' = [n \in Notices |-> IF notice[n] # None /\ notice[n].owner = u
                                    THEN [notice[n] EXCEPT !.read = TRUE] ELSE notice[n]]
    /\ UNCHANGED <<enabled, wants, device, rowsUsed>>

NoticeStep ==
    \/ EnableTemplate
    \/ \E u \in Members :
          \/ ReadAll(u)
          \/ \E w \in Workers :
                \/ \E e \in Endpoints : Subscribe(w, u, e) \/ Unsubscribe(w, u, e)
                \/ Notify(w, u)
    \/ \E n \in Notices : ReadNotice(n)
    \/ \E w \in Workers :
          \/ OptIn(w) \/ Count(w) \/ OptOut(w) \/ InApp(w) \/ SkipChannel(w) \/ Devices(w) \/ Pushed(w)
          \/ \E n \in Notices : InsertNotice(w, n)
          \/ \E status \in {"sent", "failed", "skipped"} : Email(w, status)
          \/ \E e \in Endpoints, status \in {"sent", "failed", "skipped"} : Push(w, e, status)
          \/ Crash(w) /\ UNCHANGED notices

\* Notifications alone.
NoticesSpec == RequestsInit /\ NoticesInit /\ [][NoticeStep]_noticeVars

-----------------------------------------------------------------------------
(* Properties.                                                             *)

\* No request about devices switches push off for a member who has a device:
\* the one exception is a device that subscribes while the unsubscription of
\* another has counted none.
OnlyStaleCountsMute ==
    [][(\A w \in Workers : (Steps(w) /\ At(w, "opt_out")) => DevicesOf(txn[w].u) \subseteq txn[w].seen)
       => \A u \in wants : DevicesOf(u) # {} => u \in wants']_wants
=============================================================================
