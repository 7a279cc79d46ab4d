------------------------------ MODULE EventChat ------------------------------
(***************************************************************************)
(* The chat of one event: routes/eventChat.ts, lib/eventChatSocket.ts,     *)
(* lib/eventChatRooms.ts and the quota of lib/eventChatHelpers.ts, served  *)
(* by one process.                                                         *)
(*                                                                         *)
(* A request writes its row, and sends a frame to the room's sockets when  *)
(* the database has answered: another request's write, or frame, may come  *)
(* between.  What a socket misses is asked for again, by created_at, when  *)
(* the client reconnects; created_at is taken when the INSERT begins.      *)
(***************************************************************************)
EXTENDS Requests

CONSTANTS
    Members,       \* registered attendees
    Moderators,    \* those who may moderate
    Channels,      \* channel rows, numbers
    DefaultKinds,  \* kinds of DEFAULT_CHANNELS
    Messages,      \* messages by client_id, numbers
    Author,        \* Author[m]: whose client chose the id
    MaxBody,       \* bound: edits of a message
    CatchupLimit,  \* messages of a channel that one catchup returns, 500
    Quota,         \* what a member may store, in attachments
    MaxStored      \* bound: uploads begin below it

\* Rows of forum_posts, and what a client shows of one, reactions included.
Rows == [channel : Channels, by : Members, reply : BOOLEAN, at : Nat, body : 0 .. MaxBody,
         pinned : BOOLEAN, answered : BOOLEAN, deleted : BOOLEAN]
Views == [row : Rows, by : SUBSET Members]

ASSUME EventChatAssumption ==
    /\ Moderators \subseteq Members /\ None \notin Members
    /\ Channels \subseteq Nat /\ Messages \subseteq Nat /\ None \notin Messages
    /\ \A S \in {Workers, Channels, Messages} : IsFiniteSet(S)
    /\ None \notin Rows /\ None \notin Views
    /\ "qa" \in DefaultKinds
    /\ Author \in [Messages -> Members]
    /\ MaxBody \in Nat /\ Quota \in Nat /\ MaxStored \in Nat /\ CatchupLimit \in Nat \ {0}

VARIABLES
    channel,   \* channel[c]: kind, None before it is inserted, and flags
    post,      \* post[m]: the row, None before it is inserted
    liked,     \* forum_post_reactions, of one emoji
    muted,     \* members with an active mute
    view,      \* view[u][m]: what the client of u shows for message m, None if nothing
    socket,    \* socket[u]: the client's connection
    stored,    \* attachments each member has stored
    used       \* chat_bytes_used

chat == <<channel, post, liked, muted, view, socket, stored, used>>
chatVars == <<requests, chat>>

NoChannel == [kind |-> None, extra |-> FALSE, frozen |-> FALSE, archived |-> FALSE, deleted |-> FALSE]

\* "online" since it was opened; "offline"; "behind" once it is back, until
\* the answer to its catchup; "back" from then on.
Connections == {"online", "offline", "behind", "back"}

ChannelRows == [kind : DefaultKinds \cup {"custom", None}, extra : BOOLEAN, frozen : BOOLEAN,
                archived : BOOLEAN, deleted : BOOLEAN]

ChatTypeOK ==
    /\ channel \in [Channels -> ChannelRows]
    /\ post \in [Messages -> Rows \cup {None}]
    /\ liked \in SUBSET (Messages \X Members) /\ muted \in SUBSET Members
    /\ view \in [Members -> [Messages -> Views \cup {None}]]
    /\ socket \in [Members -> [state : Connections, since : Nat]]
    /\ stored \in [Members -> Nat] /\ used \in [Members -> Nat]

Open(c) == channel[c].kind # None /\ ~channel[c].deleted
\* Mutant: the kinds that are there are not looked up.
MissingAlways == DefaultKinds

Missing == {k \in DefaultKinds : ~\E c \in Channels : Open(c) /\ channel[c].kind = k}
Unused == {c \in Channels : channel[c].kind = None}

Exists(m) == post[m] # None
Visible(m) == Exists(m) /\ ~post[m].deleted

Shown(m) == [row |-> post[m], by |-> {u \in Members : <<m, u>> \in liked}]

ChatInit ==
    /\ channel = [c \in Channels |->
                    IF "open" \notin mix /\ c = 1 THEN [NoChannel EXCEPT !.kind = "qa"] ELSE NoChannel]
    /\ post = [m \in Messages |-> None]
    /\ liked = {} /\ muted = {}
    /\ view = [u \in Members |-> [m \in Messages |-> None]]
    /\ socket = [u \in Members |-> [state |-> "online", since |-> 0]]
    /\ stored = [u \in Members |-> 0] /\ used = [u \in Members |-> 0]

-----------------------------------------------------------------------------
(* Channels.                                                               *)

\* ensureChannelsForEvent, on every opening of the chat, reads the kinds
\* that are there ...
EnsureRead(w) ==
    /\ Ready(w, "open")
    /\ Missing # {}
    /\ Hold(w, [pc |-> "ensure", missing |-> Missing])
    /\ UNCHANGED chat

\* ... and inserts the missing ones in one statement.
EnsureInsert(w) ==
    LET missing == txn[w].missing
    IN  /\ At(w, "ensure")
        /\ \E row \in [missing -> Unused] :
              /\ \A j, k \in missing : row[j] = row[k] => j = k
              /\ channel' = [c \in Channels |->
                               IF \E k \in missing : row[k] = c
                               THEN [NoChannel EXCEPT !.kind = CHOOSE k \in missing : row[k] = c]
                               ELSE channel[c]]
        /\ End(w)
        /\ UNCHANGED <<post, liked, muted, view, socket, stored, used>>

\* POST, and DELETE, /channels; a kind may be one of the defaults.
CreateChannel(c, k) ==
    /\ Serves("channels")
    /\ channel[c].kind = None
    /\ channel' = [channel EXCEPT ![c] = [NoChannel EXCEPT !.kind = k, !.extra = TRUE]]
    /\ UNCHANGED <<post, liked, muted, view, socket, stored, used>>

DeleteChannel(c) ==
    /\ Serves("channels")
    /\ channel[c].kind # None
    /\ channel' = [channel EXCEPT ![c].deleted = TRUE]
    /\ UNCHANGED <<post, liked, muted, view, socket, stored, used>>

\* /freeze, /unfreeze and /archive update the row by id; there is no unarchive.
Freeze(c, on) ==
    /\ Serves("moderate")
    /\ Open(c)
    /\ channel' = [channel EXCEPT ![c].frozen = on]
    /\ UNCHANGED <<post, liked, muted, view, socket, stored, used>>

Archive(c) ==
    /\ Serves("moderate")
    /\ Open(c)
    /\ channel' = [channel EXCEPT ![c].archived = TRUE]
    /\ UNCHANGED <<post, liked, muted, view, socket, stored, used>>

\* POST and DELETE /mutes; a mute that runs out is the same step.
Mute(u) ==
    /\ Serves("moderate")
    /\ muted' = muted \cup {u}
    /\ UNCHANGED <<channel, post, liked, view, socket, stored, used>>

Unmute(u) ==
    /\ Serves("moderate")
    /\ muted' = muted \ {u}
    /\ UNCHANGED <<channel, post, liked, view, socket, stored, used>>

-----------------------------------------------------------------------------
(* Messages.                                                               *)

\* Frozen channels, and answers in a Q&A channel, are the moderators'.
MayPost(u, c, parent) ==
    /\ Open(c) /\ ~channel[c].archived
    /\ channel[c].frozen => u \in Moderators
    /\ u \notin muted
    /\ parent # None => Visible(parent) /\ post[parent].channel = c
    /\ (parent # None /\ channel[c].kind = "qa") => u \in Moderators

\* created_at: now() of the INSERT; a retry of what is there has no use for one.
Stamps == {txn[w].at : w \in {v \in Workers : At(v, "send")}} \cup {post[m].at : m \in {n \in Messages : Exists(n)}}
Now(m) == IF Exists(m) THEN post[m].at
          ELSE 1 + (IF Stamps = {} THEN 0 ELSE CHOOSE t \in Stamps : \A s \in Stamps : s <= t)

\* POST /channels/:cid/messages, the first time or again with its client_id.
\* A second message, and a reply, is sent only in some mixes, a bound.
SendRead(w, m, c, parent) ==
    /\ Ready(w, "send")
    /\ m = 1 \/ "second" \in mix
    /\ parent = None \/ "reply" \in mix
    /\ MayPost(Author[m], c, parent)
    /\ Hold(w, [pc |-> "send", m |-> m, at |-> Now(m), by |-> Author[m], channel |-> c, reply |-> parent # None])
    /\ UNCHANGED chat

\* INSERT ... ON CONFLICT (channel_id, client_id) DO NOTHING: a retry gets
\* the row, or an error if it is deleted, and nobody gets a frame.
SendInsert(w) ==
    LET t == txn[w]
    IN  /\ At(w, "send")
        /\ IF Exists(t.m) THEN UNCHANGED post /\ End(w)
           ELSE /\ post' = [post EXCEPT ![t.m] =
                      [channel |-> t.channel, by |-> t.by, reply |-> t.reply, at |-> t.at, body |-> 0,
                       pinned |-> FALSE, answered |-> FALSE, deleted |-> FALSE]]
                /\ txn' = [txn EXCEPT ![w] = [pc |-> "announce", m |-> t.m, row |-> post'[t.m]]]
                /\ UNCHANGED mix
        /\ UNCHANGED <<channel, liked, muted, view, socket, stored, used>>

\* broadcast: every socket of the room.
Connected(u) == socket[u].state # "offline"
CaughtUp(u) == socket[u].state \in {"online", "back"}

Announce(w) ==
    LET t == txn[w]
    IN  /\ At(w, "announce")
        /\ view' = [u \in Members |->
                      IF Connected(u) THEN [view[u] EXCEPT ![t.m] = [row |-> t.row, by |-> {}]] ELSE view[u]]
        /\ End(w)
        /\ UNCHANGED <<channel, post, liked, muted, socket, stored, used>>

\* PATCH, DELETE, /pin and /answered: the message is read, then updated by
\* its id alone.
MayChange(u, m, field) ==
    /\ Visible(m) /\ Open(post[m].channel)
    /\ \/ u \in Moderators
       \/ u = post[m].by /\ field \in {"body", "deleted"}
    /\ field = "answered" => ~post[m].reply /\ channel[post[m].channel].kind = "qa"

Values(m, field) == CASE field = "body" -> {post[m].body + 1}
                      [] field = "deleted" -> {TRUE}
                      [] OTHER -> BOOLEAN

ChangeRead(w, u, m, field) ==
    /\ Exists(m) /\ MayChange(u, m, field)
    /\ field = "body" => post[m].body < MaxBody
    /\ \E value \in Values(m, field) :
          Serve(w, "change", [pc |-> "change", m |-> m, field |-> field, value |-> value, old |-> post[m]])
    /\ UNCHANGED chat

\* Mutant: nobody is told.
ChangeWriteSilently(w) ==
    LET t == txn[w]
    IN  /\ At(w, "change")
        /\ post' = [post EXCEPT ![t.m][t.field] = t.value]
        /\ End(w)
        /\ UNCHANGED <<channel, liked, muted, view, socket, stored, used>>

ChangeWrite(w) ==
    LET t == txn[w]
    IN  /\ At(w, "change")
        /\ post' = [post EXCEPT ![t.m][t.field] = t.value]
        /\ Goto(w, "change_frame")
        /\ UNCHANGED <<channel, liked, muted, view, socket, stored, used>>

ChangeFrame(w) ==
    LET t == txn[w]
    IN  /\ At(w, "change_frame")
        /\ view' = [u \in Members |->
                      IF Connected(u) /\ view[u][t.m] # None
                      THEN [view[u] EXCEPT ![t.m].row[t.field] = t.value] ELSE view[u]]
        /\ End(w)
        /\ UNCHANGED <<channel, post, liked, muted, socket, stored, used>>

\* POST /reactions toggles: the row is looked for ...
ReactRead(w, u, m) ==
    /\ Ready(w, "react")
    /\ Visible(m) /\ Open(post[m].channel)
    /\ Hold(w, [pc |-> "react", m |-> m, by |-> u, on |-> <<m, u>> \notin liked])
    /\ UNCHANGED chat

\* ... then inserted, an error if it is there by now, or deleted.
ReactWrite(w) ==
    LET t == txn[w]
        pair == <<t.m, t.by>>
    IN  /\ At(w, "react")
        /\ liked' = IF t.on THEN liked \cup {pair} ELSE liked \ {pair}
        /\ IF t.on /\ pair \in liked THEN End(w) ELSE Goto(w, "react_frame")
        /\ UNCHANGED <<channel, post, muted, view, socket, stored, used>>

ReactFrame(w) ==
    LET t == txn[w]
    IN  /\ At(w, "react_frame")
        /\ view' = [u \in Members |->
                      IF Connected(u) /\ view[u][t.m] # None
                      THEN [view[u] EXCEPT ![t.m].by = IF t.on THEN @ \cup {t.by} ELSE @ \ {t.by}] ELSE view[u]]
        /\ End(w)
        /\ UNCHANGED <<channel, post, liked, muted, socket, stored, used>>

-----------------------------------------------------------------------------
(* Connections.                                                            *)

\* What a client will ask for: since the newest message it has, unless it has
\* not had the answer to the catchup before.
Newest(u) ==
    LET stamps == {view[u][m].row.at : m \in {n \in Messages : view[u][n] # None}}
    IN  IF stamps = {} THEN 0 ELSE CHOOSE t \in stamps : \A s \in stamps : s <= t

Since(u) == IF CaughtUp(u) THEN Newest(u) ELSE socket[u].since

Disconnect(u) ==
    /\ Serves("connect")
    /\ Connected(u)
    /\ socket' = [socket EXCEPT ![u] = [state |-> "offline", since |-> Since(u)]]
    /\ UNCHANGED <<channel, post, liked, muted, view, stored, used>>

\* The process ends, with its rooms and the requests it was serving.
Restart ==
    /\ "restart" \in mix
    /\ txn' = [w \in Workers |-> Idle]
    /\ socket' = [u \in Members |-> IF Connected(u) THEN [state |-> "offline", since |-> Since(u)] ELSE socket[u]]
    /\ UNCHANGED <<mix, channel, post, liked, muted, view, stored, used>>

\* The upgrade joins the room.
Connect(u) ==
    /\ Serves("connect")
    /\ socket[u].state = "offline"
    /\ socket' = [socket EXCEPT ![u].state = "behind"]
    /\ UNCHANGED <<channel, post, liked, muted, view, stored, used>>

\* Mutant: the time is rounded up.
NewerRounded(m, since) == Exists(m) /\ post[m].at > since + 1

\* GET /catchup?since=: messages after it, deleted ones as tombstones.
Newer(m, since) == Exists(m) /\ post[m].at > since

\* What the answer holds before a message: older ones of its channel.
Ahead(u, m) ==
    {n \in Messages : Newer(n, socket[u].since) /\ post[n].channel = post[m].channel /\ post[n].at < post[m].at}

\* ORDER BY created_at LIMIT: the oldest ones.  Nothing tells the client that
\* there are more, and it does not ask again.
Answered(u, m) == Newer(m, socket[u].since) /\ Cardinality(Ahead(u, m)) < CatchupLimit

Catchup(u) ==
    /\ Serves("connect")
    /\ socket[u].state = "behind"
    /\ view' = [view EXCEPT ![u] = [m \in Messages |-> IF Answered(u, m) THEN Shown(m) ELSE @[m]]]
    /\ socket' = [socket EXCEPT ![u] = [state |-> "back", since |-> 0]]
    /\ UNCHANGED <<channel, post, liked, muted, stored, used>>

-----------------------------------------------------------------------------
(* Attachments.                                                            *)

\* assertQuotaAvailable.
UploadRead(w, u) ==
    /\ Ready(w, "store")
    /\ used[u] + 1 <= Quota
    /\ stored[u] < MaxStored
    /\ Hold(w, [pc |-> "store", by |-> u, used |-> used[u]])
    /\ UNCHANGED chat

UploadStore(w) ==
    /\ At(w, "store")
    /\ stored' = [stored EXCEPT ![txn[w].by] = @ + 1]
    /\ Goto(w, "count")
    /\ UNCHANGED <<channel, post, liked, muted, view, socket, used>>

\* incrementQuotaUsage, that nobody waits for.
UploadCount(w) ==
    /\ At(w, "count")
    /\ used' = [used EXCEPT ![txn[w].by] = @ + 1]
    /\ End(w)
    /\ UNCHANGED <<channel, post, liked, muted, view, socket, stored>>

ChannelStep ==
    \/ \E w \in Workers : EnsureRead(w) \/ EnsureInsert(w)
    \/ \E c \in Channels :
          \/ \E k \in DefaultKinds \cup {"custom"} : CreateChannel(c, k)
          \/ DeleteChannel(c) \/ Archive(c) \/ (\E on \in BOOLEAN : Freeze(c, on))
    \/ \E u \in Members : Mute(u) \/ Unmute(u)

MessageStep ==
    \/ \E w \in Workers, m \in Messages, c \in Channels, parent \in Messages \cup {None} : SendRead(w, m, c, parent)
    \/ \E w \in Workers, u \in Members, m \in Messages :
          \/ \E field \in {"body", "deleted", "pinned", "answered"} : ChangeRead(w, u, m, field)
          \/ ReactRead(w, u, m)
    \/ \E w \in Workers :
          \/ SendInsert(w) \/ Announce(w) \/ ChangeWrite(w) \/ ChangeFrame(w)
          \/ ReactWrite(w) \/ ReactFrame(w) \/ UploadStore(w) \/ UploadCount(w)
    \/ \E w \in Workers, u \in Members : UploadRead(w, u)

ConnectionStep == (\E u \in Members : Disconnect(u) \/ Connect(u) \/ Catchup(u)) \/ Restart

ChatNext == ChannelStep \/ MessageStep \/ ConnectionStep

ChatSpec == RequestsInit /\ ChatInit /\ [][ChatNext]_chatVars

-----------------------------------------------------------------------------
(* Properties.                                                             *)

\* Opening the chat gives an event one channel of each default kind, next to
\* those that moderators add, unless two members open it at once.
OneDefault(k) ==
    Cardinality({c \in Channels : Open(c) /\ channel[c].kind = k /\ ~channel[c].extra}) <= 1

OnlyDoubleOpensDuplicate ==
    [][(\A w \in Workers : (Steps(w) /\ At(w, "ensure")) => txn[w].missing \subseteq Missing)
       => \A k \in DefaultKinds : OneDefault(k) => OneDefault(k)']_chatVars

\* A frame is overtaken when the row it tells of has changed since, or when it
\* is ahead of the message itself.
Announcing(m) == \E w \in Workers : At(w, "announce") /\ txn[w].m = m
FieldTold(m, f) == \E w \in Workers : At(w, "change_frame") /\ txn[w].m = m /\ txn[w].field = f /\ txn[w].value = post[m][f]
LikeTold(m, u) == \E w \in Workers : At(w, "react_frame") /\ txn[w].m = m /\ txn[w].by = u /\ txn[w].on = (<<m, u>> \in liked)

FrameOvertaken(w) ==
    LET t == txn[w]
    IN  \/ t.pc = "announce" /\ Shown(t.m) # [row |-> t.row, by |-> {}]
        \/ t.pc = "change_frame" /\ (post[t.m][t.field] # t.value \/ Announcing(t.m))
        \/ t.pc = "react_frame" /\ ((<<t.m, t.by>> \in liked) # t.on \/ Announcing(t.m))

\* A client that has never lost its connection shows the rows as they are, or
\* the frame with the difference is on the way, unless frames overtake each
\* other.
Mirrored(u, m) ==
    IF view[u][m] = None THEN Exists(m) => Announcing(m)
    ELSE /\ \A f \in {"body", "deleted", "pinned", "answered"} :
               view[u][m].row[f] = post[m][f] \/ FieldTold(m, f)
         /\ \A x \in Members : (x \in view[u][m].by) = (<<m, x>> \in liked) \/ LikeTold(m, x)

OnlyOvertakenFramesMislead ==
    [][(\A w \in Workers : Steps(w) => ~FrameOvertaken(w))
       => \A u \in Members, m \in Messages :
            (socket[u].state = "online" /\ Mirrored(u, m)) =>
               (socket'[u].state # "online" \/ Mirrored(u, m)')]_chatVars

\* A message is overtaken by one with a later created_at, in its commit or in
\* its frame.
MessageOvertaken(w) ==
    LET t == txn[w]
    IN  \/ t.pc = "send" /\ \E m \in Messages : Exists(m) /\ post[m].at > t.at
        \/ t.pc = "announce" /\ \E u \in Members : Newest(u) > t.row.at

\* The message is there for the client: shown, on the way, or to be asked for.
Reaches(u, m) ==
    \/ ~Exists(m)
    \/ view[u][m] # None
    \/ Announcing(m)
    \/ ~CaughtUp(u) /\ post[m].at > socket[u].since

\* It is behind CatchupLimit others in the answer of this step.
CutOff(u, m) ==
    /\ socket[u].state = "behind" /\ socket'[u].state = "back"
    /\ Cardinality(Ahead(u, m)) >= CatchupLimit

\* A message reaches a client, at the latest when it has caught up, whatever
\* connections or processes were lost, but for two cases.  One overtakes
\* another: what is committed, or told, after a later one is not newer than
\* what the client has.  Or the client was away for more messages than one
\* catchup returns: it has the oldest, and the others are lost to it.
OnlyOvertakenMessagesAreMissed ==
    [][(\A w \in Workers : Steps(w) => ~MessageOvertaken(w))
       => \A u \in Members, m \in Messages : Reaches(u, m) => Reaches(u, m)' \/ CutOff(u, m)]_chatVars
=============================================================================
