----------------------------- MODULE Rooms_proofs -----------------------------
(***************************************************************************)
(* Proofs about the two kinds of rooms, each under its own specification.  *)
(*                                                                         *)
(* RoomBookings, for any number of bookings, hours and requests: no two    *)
(* live bookings overlap, so the diary has one holder an hour, and every   *)
(* step of the handlers is a step of Calendar or none.  A request carries  *)
(* what it read into its write.  RoomTxn says what that may be; the row it *)
(* names was inserted and is never removed.                                *)
(*                                                                         *)
(* ReadingRoom, for any students, rooms, capacities and requests: the      *)
(* room's lock keeps the seat a booking has counted, and what a request    *)
(* read of a deposit is what its kind may have read.                       *)
(***************************************************************************)
EXTENDS RoomBookings, ReadingRoom, FiniteSetTheorems, TLAPS

-----------------------------------------------------------------------------
(* Bookable rooms.                                                         *)

\* What a request holds between its statements.
RoomTxn ==
    {Idle} \cup [pc : {"room_insert"}, slot : Slots]
           \cup [pc : {"room_update"}, row : Bookings,
                 to : {"confirmed", "completed", "cancelled"}, old : {"requested", "confirmed"}]

NoOverlap ==
    \A b, c \in Bookings : Live(b) /\ Live(c) /\ b # c => slot[b] \cap slot[c] = {}

\* An inserted booking has hours.
Timed == \A b \in Bookings : booking[b] # None => slot[b] # {}

IInv ==
    /\ RoomsTypeOK
    /\ txn \in [Workers -> RoomTxn]
    /\ \A w \in Workers : At(w, "room_update") => booking[txn[w].row] # None
    /\ NoOverlap
    /\ Timed

-----------------------------------------------------------------------------
(* Requests.                                                               *)

\* A record of one shape is not of another.
LEMMA Shapes ==
    /\ \A t \in RoomTxn : t.pc = "room_insert" => t.slot \in Slots
    /\ \A t \in RoomTxn : t.pc = "room_update" =>
          /\ t.row \in Bookings /\ t.to \in {"confirmed", "completed", "cancelled"}
          /\ t.old \in {"requested", "confirmed"}
    /\ Idle \in RoomTxn /\ Idle.pc = "idle"
BY DEF RoomTxn, Idle

LEMMA HoldMoves ==
    ASSUME IInv, NEW w \in Workers, NEW t \in RoomTxn, Hold(w, t)
    PROVE  /\ txn' \in [Workers -> RoomTxn] /\ txn'[w] = t
           /\ \A v \in Workers \ {w} : txn'[v] = txn[v]
BY DEF IInv, Hold

LEMMA EndMoves ==
    ASSUME IInv, NEW w \in Workers, End(w)
    PROVE  /\ txn' \in [Workers -> RoomTxn] /\ txn'[w] = Idle
           /\ \A v \in Workers \ {w} : txn'[v] = txn[v]
BY Shapes DEF IInv, End

-----------------------------------------------------------------------------
(* The invariant.                                                          *)

LEMMA InitIInv == ASSUME RequestsInit, RoomsInit PROVE IInv
<1>1. 0 \in 0 .. Cardinality(Hours)
  <2>1. Cardinality(Hours) \in Nat
    BY RoomBookingsAssumption, FS_CardinalityType
  <2>2. QED
    BY <2>1
<1>2. RoomsTypeOK
  BY <1>1 DEF RoomsInit, RoomsTypeOK
<1>3. txn \in [Workers -> RoomTxn] /\ \A w \in Workers : ~At(w, "room_update")
  BY Shapes DEF RequestsInit, At
<1>4. QED
  BY <1>2, <1>3 DEF IInv, RoomsInit, NoOverlap, Timed, Live

\* A step that changes no booking, and of requests only that of w.
LEMMA SameBookings ==
    ASSUME IInv, UNCHANGED <<slot, booking>>, RoomsTypeOK',
           txn' \in [Workers -> RoomTxn], NEW w \in Workers,
           \A v \in Workers \ {w} : txn'[v] = txn[v],
           txn'[w].pc = "room_update" => booking[txn'[w].row] # None
    PROVE  IInv'
BY DEF IInv, At, NoOverlap, Timed, Live

LEMMA ReadStep ==
    ASSUME IInv, UNCHANGED rooms, NEW w \in Workers, NEW t \in RoomTxn, Hold(w, t),
           t.pc = "room_update" => booking[t.row] # None
    PROVE  IInv'
<1>1. UNCHANGED <<now, venue, slot, booking>> /\ RoomsTypeOK'
  BY DEF rooms, IInv, RoomsTypeOK
<1>2. QED
  BY <1>1, HoldMoves, SameBookings

\* The handlers that read a row to change its status.
Reads(w, b) == CancelOwn(w, b) \/ Confirm(w, b) \/ CancelByDesk(w, b) \/ Complete(w, b)

LEMMA ReadsHold ==
    ASSUME NEW w \in Workers, NEW b \in Bookings, Reads(w, b)
    PROVE  /\ UNCHANGED rooms /\ booking[b] # None
           /\ \E t \in RoomTxn : t.pc = "room_update" /\ t.row = b /\ Hold(w, t)
<1>1. PICK to \in {"confirmed", "completed", "cancelled"} :
         Change(w, b, to) /\ booking[b] \in {"requested", "confirmed"}
  BY DEF Reads, CancelOwn, Confirm, CancelByDesk, Complete
<1>2. [pc |-> "room_update", row |-> b, to |-> to, old |-> booking[b]] \in RoomTxn
  BY <1>1 DEF RoomTxn
<1>3. QED
  BY <1>1, <1>2, RoomBookingsAssumption DEF Change, Serve, BookingStatuses

LEMMA BookReads ==
    ASSUME NEW w \in Workers, NEW S \in Slots, BookRoomRead(w, S)
    PROVE  UNCHANGED rooms /\ \E t \in RoomTxn : t.pc = "room_insert" /\ Hold(w, t)
<1>1. [pc |-> "room_insert", slot |-> S] \in RoomTxn
  BY DEF RoomTxn
<1>2. QED
  BY <1>1 DEF BookRoomRead

\* What the insertion of a booking does to the rows.
LEMMA InsertMoves ==
    ASSUME IInv, NEW w \in Workers, BookRoomInsert(w)
    PROVE  \/ UNCHANGED <<slot, booking>>
           \/ \E b \in Bookings, S \in Slots :
                 /\ booking[b] = None /\ ~Excluded(b, S)
                 /\ slot' = [slot EXCEPT ![b] = S] /\ booking' = [booking EXCEPT ![b] = "requested"]
<1>1. txn[w].slot \in Slots
  BY Shapes DEF BookRoomInsert, IInv, At
<1>2. QED
  BY <1>1 DEF BookRoomInsert, Unused

\* What the update of a status does.
LEMMA WriteMoves ==
    ASSUME IInv, NEW w \in Workers, ChangeWrite(w)
    PROVE  \/ UNCHANGED <<slot, booking>>
           \/ \E b \in Bookings, to \in {"confirmed", "completed", "cancelled"} :
                 /\ b = txn[w].row /\ booking[b] # None /\ (to # "cancelled" => ~Excluded(b, slot[b]))
                 /\ slot' = slot /\ booking' = [booking EXCEPT ![b] = to]
BY Shapes DEF ChangeWrite, IInv, At

LEMMA WriteStep ==
    ASSUME IInv, NEW w \in Workers, BookRoomInsert(w) \/ ChangeWrite(w)
    PROVE  IInv'
<1>1. End(w) /\ UNCHANGED <<now, venue>>
  BY DEF BookRoomInsert, ChangeWrite
<1>2. /\ txn' \in [Workers -> RoomTxn] /\ txn'[w] = Idle
      /\ \A v \in Workers \ {w} : txn'[v] = txn[v]
  BY <1>1, EndMoves
<1>3. /\ slot \in [Bookings -> SUBSET Hours] /\ booking \in [Bookings -> BookingStatuses \cup {None}]
      /\ \A v \in Workers : txn[v].pc = "room_update" => txn[v].row \in Bookings /\ booking[txn[v].row] # None
  BY Shapes DEF IInv, RoomsTypeOK, At
<1>4. CASE UNCHANGED <<slot, booking>>
  BY <1>1, <1>2, <1>4, Shapes, SameBookings DEF IInv, RoomsTypeOK
<1>5. ASSUME NEW b \in Bookings, NEW S \in Slots, booking[b] = None, ~Excluded(b, S),
             slot' = [slot EXCEPT ![b] = S], booking' = [booking EXCEPT ![b] = "requested"]
      PROVE  IInv'
  <2>1. S \in SUBSET Hours /\ S # {}
    BY RoomBookingsAssumption
  <2>2. RoomsTypeOK'
    BY <1>1, <1>3, <1>5, <2>1 DEF IInv, RoomsTypeOK, BookingStatuses
  <2>3. \A v \in Workers : At(v, "room_update")' => booking'[txn'[v].row] # None
    BY <1>2, <1>3, <1>5, Shapes DEF At
  <2>4. NoOverlap'
    BY <1>3, <1>5 DEF IInv, NoOverlap, Live, Excluded
  <2>5. Timed'
    BY <1>3, <1>5, <2>1 DEF IInv, Timed
  <2>6. QED
    BY <1>2, <2>2, <2>3, <2>4, <2>5 DEF IInv
<1>6. ASSUME NEW b \in Bookings, NEW to \in {"confirmed", "completed", "cancelled"},
             booking[b] # None, to # "cancelled" => ~Excluded(b, slot[b]),
             slot' = slot, booking' = [booking EXCEPT ![b] = to]
      PROVE  IInv'
  <2>1. to \in BookingStatuses /\ to # None
    BY RoomBookingsAssumption DEF BookingStatuses
  <2>2. RoomsTypeOK'
    BY <1>1, <1>3, <1>6, <2>1 DEF IInv, RoomsTypeOK
  <2>3. \A v \in Workers : At(v, "room_update")' => booking'[txn'[v].row] # None
    BY <1>2, <1>3, <1>6, <2>1, Shapes DEF At
  <2>4. NoOverlap'
    BY <1>3, <1>6 DEF IInv, NoOverlap, Live, Excluded
  <2>5. Timed'
    BY <1>3, <1>6 DEF IInv, Timed
  <2>6. QED
    BY <1>2, <2>2, <2>3, <2>4, <2>5 DEF IInv
<1>7. QED
  BY <1>4, <1>5, <1>6, InsertMoves, WriteMoves

\* The room and the clock.
LEMMA VenueStep ==
    ASSUME IInv, SwitchVenue \/ CreateVenue \/ DeleteVenue \/ Clock
    PROVE  IInv'
<1>1. UNCHANGED <<slot, booking, txn>>
  BY DEF SwitchVenue, CreateVenue, DeleteVenue, Clock, Serves, requests
<1>2. venue' \in {"absent", "active", "inactive"}
  BY DEF SwitchVenue, CreateVenue, DeleteVenue, Clock, IInv, RoomsTypeOK
<1>3. now' \in 0 .. Cardinality(Hours)
  <2>1. Cardinality(Hours) \in Nat
    BY RoomBookingsAssumption, FS_CardinalityType
  <2>2. now \in 0 .. Cardinality(Hours)
    BY DEF IInv, RoomsTypeOK
  <2>3. now' = now \/ (now < Cardinality(Hours) /\ now' = now + 1)
    BY DEF SwitchVenue, CreateVenue, DeleteVenue, Clock
  <2>4. QED
    BY <2>1, <2>2, <2>3
<1>4. RoomsTypeOK'
  BY <1>1, <1>2, <1>3 DEF IInv, RoomsTypeOK
<1>5. QED
  BY <1>1, <1>4 DEF IInv, At, NoOverlap, Timed, Live

LEMMA NextIInv == IInv /\ [RoomsNext]_<<requests, rooms>> => IInv'
<1> SUFFICES ASSUME IInv, [RoomsNext]_<<requests, rooms>> PROVE IInv'
  OBVIOUS
<1>1. CASE UNCHANGED <<requests, rooms>>
  BY <1>1 DEF requests, rooms, IInv, RoomsTypeOK, At, NoOverlap, Timed, Live
<1>2. ASSUME NEW w \in Workers, NEW S \in Slots, BookRoomRead(w, S) PROVE IInv'
  BY <1>2, BookReads, ReadStep
<1>3. ASSUME NEW w \in Workers, NEW b \in Bookings, Reads(w, b) PROVE IInv'
  BY <1>3, ReadsHold, ReadStep
<1>4. QED
  BY <1>1, <1>2, <1>3, WriteStep, VenueStep DEF RoomsNext, Reads

\* Types, the constraint's promise and what the requests hold, in every state.
THEOREM Invariant == RoomsSpec => []IInv
BY InitIInv, NextIInv, PTL DEF RoomsSpec

-----------------------------------------------------------------------------
(* What only a stale update brings back.                                   *)

\* A booking that was cancelled or completed changes its status only in an
\* update decided on another status.
THEOREM CancelledStays == RoomsSpec => OnlyStaleWritesRevive
<1> DEFINE Revived(b) == booking[b] \in {"cancelled", "completed"} /\ booking'[b] # booking[b]
<1>1. ASSUME IInv, [RoomsNext]_<<requests, rooms>>, NEW b \in Bookings, Revived(b)
      PROVE  ~RoomFresh
  <2>1. b \in DOMAIN booking /\ booking[b] # None
    BY <1>1, RoomBookingsAssumption DEF IInv, RoomsTypeOK, BookingStatuses
  <2>2. PICK w \in Workers : BookRoomInsert(w) \/ ChangeWrite(w)
    BY <1>1, BookReads, ReadsHold
       DEF RoomsNext, Reads, rooms, SwitchVenue, CreateVenue, DeleteVenue, Clock
  <2>3. CASE BookRoomInsert(w)
    BY <1>1, <2>1, <2>3, InsertMoves DEF IInv, RoomsTypeOK
  <2>4. CASE ChangeWrite(w)
    <3>1. At(w, "room_update") /\ txn[w].row = b
      BY <1>1, <2>1, <2>4, WriteMoves DEF ChangeWrite, IInv, RoomsTypeOK
    <3>2. txn[w].old \in {"requested", "confirmed"}
      BY <3>1, <1>1, Shapes DEF IInv, At
    <3>3. Steps(w)
      BY <1>1, <2>4, <3>1, EndMoves, Shapes DEF ChangeWrite, At, Steps
    <3>4. QED
      BY <1>1, <3>1, <3>2, <3>3 DEF RoomFresh
  <2>5. QED
    BY <2>2, <2>3, <2>4
<1>2. ASSUME IInv, [RoomsNext]_<<requests, rooms>>
      PROVE  [\A b \in Bookings : Revived(b) => ~RoomFresh]_booking
  BY <1>1, <1>2
<1>3. QED
  BY <1>2, Invariant, PTL DEF RoomsSpec, OnlyStaleWritesRevive
-----------------------------------------------------------------------------
(* The bookings implement the calendar.                                    *)

\* The diary, read through the bookings: no two of them answer for an hour.
DiaryReads ==
    /\ Diary = [h \in Hours |-> Diary[h]]
    /\ \A h \in Hours, b \in Bookings : Diary[h] = b <=> Live(b) /\ h \in slot[b]
    /\ \A h \in Hours : Diary[h] = None <=> \A b \in Bookings : ~(Live(b) /\ h \in slot[b])

LEMMA DiaryOK == IInv => DiaryReads
<1> SUFFICES ASSUME IInv PROVE DiaryReads
  OBVIOUS
<1>1. \A b \in Bookings : b # None
  BY RoomBookingsAssumption
<1>2. ASSUME NEW h \in Hours, NEW b \in Bookings, Live(b), h \in slot[b]
      PROVE  Diary[h] = b
  <2>1. \A c \in Bookings : Live(c) /\ h \in slot[c] => c = b
    BY <1>2 DEF IInv, NoOverlap
  <2>2. QED
    BY <1>2, <2>1 DEF Diary
<1>3. ASSUME NEW h \in Hours, \A b \in Bookings : ~(Live(b) /\ h \in slot[b])
      PROVE  Diary[h] = None
  BY <1>3 DEF Diary
<1>4. Diary = [h \in Hours |-> Diary[h]]
  BY DEF Diary
<1>5. QED
  BY <1>1, <1>2, <1>3, <1>4 DEF DiaryReads

LEMMA DiaryOKNext == IInv' => DiaryReads'
BY DiaryOK, PTL

LEMMA SameDiary == ASSUME UNCHANGED <<slot, booking>> PROVE Diary' = Diary
BY DEF Diary, Live

\* A booking that is inserted, or brought back, takes its free hours.
LEMMA Takes ==
    ASSUME IInv, DiaryReads, DiaryReads', NEW b \in Bookings, NEW S \in SUBSET Hours,
           ~Live(b), ~Excluded(b, S), Live(b)', slot'[b] = S,
           \A c \in Bookings \ {b} : Live(c)' = Live(c) /\ slot'[c] = slot[c]
    PROVE  [Promise!Next]_Diary
<1>1. Promise!Held(b) = {}
  BY DEF Promise!Held, DiaryReads
<1>2. \A h \in S : Diary[h] = None
  BY DEF DiaryReads, Excluded, Live
<1>3. Diary' = [h \in Hours |-> IF h \in S THEN b ELSE Diary[h]]
  <2>1. ASSUME NEW h \in Hours PROVE Diary'[h] = IF h \in S THEN b ELSE Diary[h]
    <3>1. CASE h \in S
      BY <3>1 DEF DiaryReads
    <3>2. CASE h \notin S
      <4>1. \A c \in Bookings : (Live(c) /\ h \in slot[c]) <=> (Live(c)' /\ h \in slot'[c])
        BY <3>2
      <4>2. CASE \E c \in Bookings : Live(c) /\ h \in slot[c]
        BY <3>2, <4>1, <4>2 DEF DiaryReads
      <4>3. CASE \A c \in Bookings : ~(Live(c) /\ h \in slot[c])
        BY <3>2, <4>1, <4>3 DEF DiaryReads
      <4>4. QED
        BY <4>2, <4>3
    <3>3. QED
      BY <3>1, <3>2
  <2>2. QED
    BY <2>1 DEF DiaryReads
<1>4. Promise!Take(b, S)
  BY <1>1, <1>2, <1>3 DEF Promise!Take
<1>5. QED
  BY <1>4 DEF Promise!Next

\* A booking that is cancelled gives its hours back.
LEMMA Releases ==
    ASSUME IInv, DiaryReads, DiaryReads', NEW b \in Bookings, Live(b), ~Live(b)', slot' = slot,
           \A c \in Bookings \ {b} : Live(c)' = Live(c)
    PROVE  [Promise!Next]_Diary
<1>1. slot[b] # {} /\ slot[b] \subseteq Hours
  BY DEF IInv, Timed, Live, RoomsTypeOK
<1>2. Promise!Held(b) # {}
  BY <1>1 DEF Promise!Held, DiaryReads
<1>3. Diary' = [h \in Hours |-> IF Diary[h] = b THEN None ELSE Diary[h]]
  <2>1. ASSUME NEW h \in Hours PROVE Diary'[h] = IF Diary[h] = b THEN None ELSE Diary[h]
    <3>1. CASE Diary[h] = b
      <4>1. \A c \in Bookings \ {b} : ~(Live(c) /\ h \in slot[c])
        BY <3>1 DEF DiaryReads
      <4>2. QED
        BY <3>1, <4>1 DEF DiaryReads
    <3>2. CASE Diary[h] # b
      <4>1. \A c \in Bookings : (Live(c) /\ h \in slot[c]) <=> (Live(c)' /\ h \in slot[c])
        BY <3>2 DEF DiaryReads
      <4>2. CASE \E c \in Bookings : Live(c) /\ h \in slot[c]
        BY <3>2, <4>1, <4>2 DEF DiaryReads
      <4>3. CASE \A c \in Bookings : ~(Live(c) /\ h \in slot[c])
        BY <3>2, <4>1, <4>3 DEF DiaryReads
      <4>4. QED
        BY <4>2, <4>3
    <3>3. QED
      BY <3>1, <3>2
  <2>2. QED
    BY <2>1 DEF DiaryReads
<1>4. Promise!Release(b)
  BY <1>2, <1>3 DEF Promise!Release
<1>5. QED
  BY <1>4 DEF Promise!Next

LEMMA InitCalendar == ASSUME RoomsInit PROVE Promise!Init
BY DEF RoomsInit, Promise!Init, Diary, Live

LEMMA StepCalendar ==
    ASSUME IInv, IInv', [RoomsNext]_<<requests, rooms>>
    PROVE  [Promise!Next]_Diary
<1>1. DiaryReads /\ DiaryReads'
  BY DiaryOK, DiaryOKNext
<1>2. booking \in [Bookings -> BookingStatuses \cup {None}] /\ slot \in [Bookings -> SUBSET Hours]
  BY DEF IInv, RoomsTypeOK
<1>3. CASE UNCHANGED <<slot, booking>>
  BY <1>3, SameDiary
<1>4. ASSUME NEW b \in Bookings, NEW S \in Slots, booking[b] = None, ~Excluded(b, S),
             slot' = [slot EXCEPT ![b] = S], booking' = [booking EXCEPT ![b] = "requested"]
      PROVE  [Promise!Next]_Diary
  <2>1. S \in SUBSET Hours /\ ~Live(b) /\ Live(b)' /\ slot'[b] = S
    BY <1>2, <1>4, RoomBookingsAssumption DEF Live, BookingStatuses
  <2>2. \A c \in Bookings \ {b} : Live(c)' = Live(c) /\ slot'[c] = slot[c]
    BY <1>2, <1>4 DEF Live
  <2>3. QED
    BY <1>1, <1>4, <2>1, <2>2, Takes
<1>5. ASSUME NEW b \in Bookings, NEW to \in {"confirmed", "completed", "cancelled"},
             booking[b] # None, to # "cancelled" => ~Excluded(b, slot[b]),
             slot' = slot, booking' = [booking EXCEPT ![b] = to]
      PROVE  [Promise!Next]_Diary
  <2>1. \A c \in Bookings \ {b} : Live(c)' = Live(c)
    BY <1>2, <1>5 DEF Live
  <2>2. Live(b)' <=> to # "cancelled"
    BY <1>2, <1>5, RoomBookingsAssumption DEF Live, BookingStatuses
  <2>3. CASE Live(b) /\ to = "cancelled"
    BY <1>1, <1>5, <2>1, <2>2, <2>3, Releases
  <2>4. CASE ~Live(b) /\ to # "cancelled"
    BY <1>1, <1>2, <1>5, <2>1, <2>2, <2>4, Takes
  <2>5. CASE Live(b) <=> to # "cancelled"
    <3>1. \A c \in Bookings : Live(c)' <=> Live(c)
      BY <2>1, <2>2, <2>5
    <3>2. Diary' = Diary
      BY <1>5, <3>1 DEF Diary
    <3>3. QED
      BY <3>2
  <2>6. QED
    BY <2>3, <2>4, <2>5
<1>6. ASSUME NEW w \in Workers, BookRoomInsert(w) \/ ChangeWrite(w) PROVE [Promise!Next]_Diary
  BY <1>3, <1>4, <1>5, <1>6, InsertMoves, WriteMoves
<1>7. CASE \/ UNCHANGED <<requests, rooms>> \/ SwitchVenue \/ CreateVenue \/ DeleteVenue \/ Clock
           \/ \E w \in Workers, S \in Slots : BookRoomRead(w, S)
           \/ \E w \in Workers, b \in Bookings : Reads(w, b)
  BY <1>3, <1>7, BookReads, ReadsHold
     DEF rooms, SwitchVenue, CreateVenue, DeleteVenue, Clock
<1>8. QED
  BY <1>6, <1>7 DEF RoomsNext, Reads

\* Whatever requests are in flight, an hour has at most one holder, and a
\* booking takes all of its hours when they are free and gives all of them
\* back: the handlers implement Calendar.
THEOREM RoomsKeepCalendar == RoomsSpec => KeepsCalendar
BY InitCalendar, StepCalendar, Invariant, PTL DEF RoomsSpec, KeepsCalendar, Promise!Spec

-----------------------------------------------------------------------------
(* The reading room: what its requests hold.                               *)

Deposits(statuses) == [id : 0 .. MaxDeposits, status : statuses]

ReadingTxn ==
    {Idle} \cup [pc : {"deposit_start"}, u : Students, old : Deposits({"none", "rejected", "refunded"})]
           \cup [pc : {"deposit_utr", "verify"}, u : Students,
                 old : Deposits({"pending_verification", "rejected", "refunded"})]
           \cup [pc : {"refund_seats"}, u : Students, month : 1 .. MaxMonth]
           \cup [pc : {"deposit_delete"}, u : Students, old : Deposits(DepositStatuses)]
           \cup [pc : {"book_lock", "book_insert"}, u : Students, room : ReadingRooms, month : Months,
                 old : Deposits({"verified"})]
           \cup [pc : {"resize"}, room : ReadingRooms, capacity : Capacities, month : 1 .. MaxMonth, count : Nat]

LEMMA ReadingShapes ==
    /\ \A t \in ReadingTxn : t.pc = "deposit_start" =>
          t.u \in Students /\ t.old \in Deposits({"none", "rejected", "refunded"})
    /\ \A t \in ReadingTxn : t.pc \in {"deposit_utr", "verify"} =>
          t.u \in Students /\ t.old \in Deposits({"pending_verification", "rejected", "refunded"})
    /\ \A t \in ReadingTxn : t.pc = "refund_seats" => t.u \in Students /\ t.month \in 1 .. MaxMonth
    /\ \A t \in ReadingTxn : t.pc = "deposit_delete" => t.u \in Students /\ t.old \in Deposits(DepositStatuses)
    /\ \A t \in ReadingTxn : t.pc \in {"book_lock", "book_insert"} =>
          t.u \in Students /\ t.room \in ReadingRooms /\ t.month \in Months /\ t.old \in Deposits({"verified"})
    /\ \A t \in ReadingTxn : t.pc = "resize" =>
          t.room \in ReadingRooms /\ t.capacity \in Capacities /\ t.month \in 1 .. MaxMonth /\ t.count \in Nat
    /\ Idle \in ReadingTxn /\ Idle.pc = "idle"
BY DEF ReadingTxn, Idle

\* A request for a later month than the next one is not let in, a resize keeps
\* the seats it has counted, and a booking about to be inserted holds the lock
\* of a room that has a seat left.
Booking(w) ==
    LET t == txn[w]
    IN  /\ t.pc \in {"book_lock", "book_insert"} => t.month <= month + 1
        /\ t.pc = "refund_seats" => t.month <= month
        /\ t.pc = "resize" => t.count <= t.capacity
        /\ t.pc = "book_insert" =>
              /\ hallLock[t.room] = w /\ hall[t.room].status # "absent"
              /\ Cardinality(Seated(t.room, t.month)) < hall[t.room].capacity

\* Bookings are of rooms that know of them, for no month after the next.
SeatsKnown ==
    /\ \A s \in Students, m \in Months : seat[s][m] # None => hall[seat[s][m]].booked /\ m <= month + 1
    /\ \A r \in ReadingRooms : hall[r].status = "absent" => ~hall[r].booked

ReadingInv ==
    /\ ReadingTypeOK
    /\ txn \in [Workers -> ReadingTxn]
    /\ \A w \in Workers : Booking(w)
    /\ SeatsKnown

LEMMA SeatedFinite ==
  ASSUME NEW r, NEW m
  PROVE IsFiniteSet(Seated(r, m)) /\ Cardinality(Seated(r, m)) \in Nat
BY FS_Subset, FS_CardinalityType, ReadingRoomAssumption DEF Seated

LEMMA SeatedFiniteNext ==
  ASSUME NEW r, NEW m
  PROVE IsFiniteSet(Seated(r, m)') /\ Cardinality(Seated(r, m)') \in Nat
BY FS_Subset, FS_CardinalityType, ReadingRoomAssumption DEF Seated

\* Seats that are only given back leave no room fuller.
LEMMA FewerSeats ==
  ASSUME NEW r \in ReadingRooms, NEW m \in Months,
         \A s \in Students : seat'[s][m] \in {seat[s][m], None}
  PROVE Cardinality(Seated(r, m)') <= Cardinality(Seated(r, m))
<1>1. Seated(r, m)' \subseteq Seated(r, m)
  BY ReadingRoomAssumption DEF Seated
<1>2. QED
  BY <1>1, SeatedFinite, FS_Subset

LEMMA ReadingInitInv == ASSUME RequestsInit, ReadingInit PROVE ReadingInv
<1>1. ReadingTypeOK
  BY ReadingRoomAssumption DEF ReadingInit, ReadingTypeOK, DepositStatuses, Months
<1>2. txn \in [Workers -> ReadingTxn] /\ \A w \in Workers : txn[w].pc = "idle"
  BY ReadingShapes DEF RequestsInit
<1>3. SeatsKnown
  BY ReadingRoomAssumption DEF ReadingInit, SeatsKnown
<1>4. QED
  BY <1>1, <1>2, <1>3 DEF ReadingInv, Booking

-----------------------------------------------------------------------------
(* Steps of the requests' table.                                           *)

LEMMA ReadingHold ==
  ASSUME ReadingInv, NEW w \in Workers, NEW t \in ReadingTxn, Hold(w, t)
  PROVE  /\ txn' \in [Workers -> ReadingTxn] /\ txn'[w] = t
         /\ \A v \in Workers \ {w} : txn'[v] = txn[v]
BY DEF ReadingInv, Hold

LEMMA ReadingEnd ==
  ASSUME ReadingInv, NEW w \in Workers, End(w)
  PROVE  /\ txn' \in [Workers -> ReadingTxn] /\ txn'[w] = Idle
         /\ \A v \in Workers \ {w} : txn'[v] = txn[v]
BY ReadingShapes DEF ReadingInv, End

\* A step that leaves rooms and months alone and gives no seat away.
LEMMA QuietStep ==
  ASSUME ReadingInv, txn' \in [Workers -> ReadingTxn],
         \A v \in Workers : txn'[v] = txn[v] \/ Booking(v)',
         ReadingTypeOK', UNCHANGED <<month, hall, hallLock>>,
         \A s \in Students, m \in Months : seat'[s][m] \in {seat[s][m], None}
  PROVE ReadingInv'
<1>1. SeatsKnown'
  BY DEF ReadingInv, SeatsKnown
<1>2. ASSUME NEW v \in Workers, txn'[v] = txn[v] PROVE Booking(v)'
  <2>1. PICK t \in ReadingTxn : t = txn[v] /\ t = txn'[v]
    BY <1>2 DEF ReadingInv
  <2>2. t.pc = "book_insert" => t.room \in ReadingRooms /\ t.month \in Months
    BY ReadingShapes
  <2>3. t.pc = "book_insert" => Cardinality(Seated(t.room, t.month)') < hall[t.room].capacity
    <3>1. SUFFICES ASSUME t.pc = "book_insert" PROVE Cardinality(Seated(t.room, t.month)') < hall[t.room].capacity
      OBVIOUS
    <3>2. Cardinality(Seated(t.room, t.month)) < hall[t.room].capacity
      BY <2>1, <3>1 DEF ReadingInv, Booking
    <3>3. Cardinality(Seated(t.room, t.month)') <= Cardinality(Seated(t.room, t.month))
      BY <2>2, <3>1, FewerSeats
    <3>4. hall[t.room].capacity \in Nat
      BY <2>2, <3>1, ReadingRoomAssumption DEF ReadingInv, ReadingTypeOK
    <3>5. QED
      BY <3>2, <3>3, <3>4, SeatedFinite, SeatedFiniteNext
  <2>4. Booking(v)
    BY DEF ReadingInv
  <2>5. QED
    BY <2>1, <2>3, <2>4 DEF Booking, Seated
<1>3. QED
  BY <1>1, <1>2 DEF ReadingInv

\* It is taken by a request that goes on with t, or ends.
LEMMA QuietHold ==
  ASSUME ReadingInv, NEW w \in Workers, NEW t \in ReadingTxn, Hold(w, t),
         t.pc # "book_insert", t.pc \in {"book_lock", "book_insert"} => t.month <= month + 1,
         t.pc = "refund_seats" => t.month <= month, t.pc = "resize" => t.count <= t.capacity,
         ReadingTypeOK', UNCHANGED <<month, hall, hallLock>>,
         \A s \in Students, m \in Months : seat'[s][m] \in {seat[s][m], None}
  PROVE ReadingInv'
<1>1. txn' \in [Workers -> ReadingTxn] /\ txn'[w] = t /\ \A v \in Workers \ {w} : txn'[v] = txn[v]
  BY ReadingHold
<1>2. Booking(w)'
  BY <1>1 DEF Booking
<1>3. QED
  BY <1>1, <1>2, QuietStep

LEMMA QuietEnd ==
  ASSUME ReadingInv, NEW w \in Workers, End(w), ReadingTypeOK', UNCHANGED <<month, hall, hallLock>>,
         \A s \in Students, m \in Months : seat'[s][m] \in {seat[s][m], None}
  PROVE ReadingInv'
<1>1. txn' \in [Workers -> ReadingTxn] /\ txn'[w] = Idle /\ \A v \in Workers \ {w} : txn'[v] = txn[v]
  BY ReadingEnd
<1>2. Booking(w)'
  BY <1>1, ReadingShapes DEF Booking
<1>3. QED
  BY <1>1, <1>2, QuietStep

-----------------------------------------------------------------------------
(* Deposits.                                                               *)

LEMMA DepositReads ==
  ASSUME ReadingInv, NEW w \in Workers, NEW s \in Students,
         StartDepositRead(w, s) \/ UtrRead(w, s) \/ VerifyRead(w, s)
  PROVE ReadingInv'
<1>1. deposit[s] \in Deposits(DepositStatuses)
  BY DEF ReadingInv, ReadingTypeOK, Deposits
<1>2. PICK t : /\ Hold(w, t) /\ UNCHANGED reading
               /\ \/ /\ t = [pc |-> "deposit_start", u |-> s, old |-> deposit[s]]
                     /\ deposit[s].status \in {"none", "rejected", "refunded"}
                  \/ /\ t = [pc |-> "deposit_utr", u |-> s, old |-> deposit[s]]
                     /\ deposit[s].status \notin {"none", "verified"}
                  \/ /\ t = [pc |-> "verify", u |-> s, old |-> deposit[s]]
                     /\ deposit[s].status \notin {"none", "verified"}
  BY DEF StartDepositRead, UtrRead, VerifyRead
<1>3. t \in ReadingTxn /\ t.pc \in {"deposit_start", "deposit_utr", "verify"}
  BY <1>1, <1>2 DEF ReadingTxn, Deposits, DepositStatuses
<1>4. ReadingTypeOK'
  BY <1>2 DEF ReadingInv, ReadingTypeOK, reading
<1>5. QED
  BY <1>2, <1>3, <1>4, QuietHold DEF reading

LEMMA SetDepositTyped ==
  ASSUME ReadingInv, NEW s \in Students, NEW id, NEW status \in DepositStatuses, SetDeposit(s, id, status)
  PROVE deposit' \in [Students -> [id : 0 .. MaxDeposits, status : DepositStatuses]]
BY DEF ReadingInv, ReadingTypeOK, SetDeposit

LEMMA DepositWrites ==
  ASSUME ReadingInv, NEW w \in Workers,
         StartDepositWrite(w) \/ UtrWrite(w) \/ VerifyWrite(w) \/ DeleteDeposit(w)
  PROVE ReadingInv'
<1>1. PICK t \in ReadingTxn : t = txn[w]
  BY DEF ReadingInv
<1>2. t.pc \in {"deposit_start", "deposit_utr", "verify", "deposit_delete"} => t.u \in Students
  BY ReadingShapes
<1>3. UNCHANGED <<month, late, booking_open, seat, hall, hallLock>> /\ End(w)
  BY DEF StartDepositWrite, UtrWrite, VerifyWrite, DeleteDeposit
<1>4. deposit' \in [Students -> [id : 0 .. MaxDeposits, status : DepositStatuses]]
  <2>1. CASE StartDepositWrite(w)
    <3>1. t.u \in Students /\ deposit[t.u].id \in 0 .. MaxDeposits
      BY <1>1, <1>2, <2>1 DEF StartDepositWrite, At, ReadingInv, ReadingTypeOK
    <3>2. CASE t.old.status = "none" /\ deposit[t.u].status = "none"
      <4>1. deposit' = [deposit EXCEPT ![t.u] = [id |-> deposit[t.u].id + 1, status |-> "pending_verification"]]
        BY <1>1, <2>1, <3>2 DEF StartDepositWrite
      <4>2. deposit'[t.u].id <= MaxDeposits
        BY <1>1, <2>1 DEF StartDepositWrite
      <4>3. deposit[t.u].id + 1 <= MaxDeposits
        BY <3>1, <4>1, <4>2 DEF ReadingInv, ReadingTypeOK
      <4>4. QED
        BY <3>1, <4>1, <4>3 DEF ReadingInv, ReadingTypeOK, DepositStatuses
    <3>3. CASE ~(t.old.status = "none" /\ deposit[t.u].status = "none")
      BY <1>1, <2>1, <3>1, <3>3 DEF StartDepositWrite, ReadingInv, ReadingTypeOK, DepositStatuses
    <3>4. QED
      BY <3>2, <3>3
  <2>2. CASE UtrWrite(w) \/ VerifyWrite(w) \/ DeleteDeposit(w)
    BY <1>1, <1>2, <2>2, SetDepositTyped DEF UtrWrite, VerifyWrite, DeleteDeposit, At, DepositStatuses
  <2>3. QED
    BY <2>1, <2>2
<1>5. ReadingTypeOK'
  BY <1>3, <1>4 DEF ReadingInv, ReadingTypeOK
<1>6. QED
  BY <1>3, <1>5, QuietEnd

LEMMA RefundSteps ==
  ASSUME ReadingInv, NEW w \in Workers, NEW s \in Students, RefundMark(w, s) \/ DeleteSeats(w, s)
  PROVE ReadingInv'
<1>1. deposit[s] \in Deposits(DepositStatuses) /\ month \in 1 .. MaxMonth
  BY DEF ReadingInv, ReadingTypeOK, Deposits
<1>2. PICK t : /\ Hold(w, t)
               /\ \/ t = [pc |-> "refund_seats", u |-> s, month |-> month]
                  \/ t = [pc |-> "deposit_delete", u |-> s, old |-> deposit[s]]
  BY DEF RefundMark, DeleteSeats
<1>3. t \in ReadingTxn /\ t.pc \in {"refund_seats", "deposit_delete"} /\ (t.pc = "refund_seats" => t.month <= month)
  BY <1>1, <1>2 DEF ReadingTxn, Deposits
<1>4. ReadingTypeOK' /\ UNCHANGED <<month, hall, hallLock>>
      /\ \A x \in Students, m \in Months : seat'[x][m] \in {seat[x][m], None}
  <2>1. CASE RefundMark(w, s)
    BY <2>1 DEF RefundMark, ReadingInv, ReadingTypeOK, DepositStatuses
  <2>2. CASE DeleteSeats(w, s)
    BY <2>2 DEF DeleteSeats, ReadingInv, ReadingTypeOK
  <2>3. QED
    BY <2>1, <2>2
<1>5. QED
  BY <1>2, <1>3, <1>4, QuietHold

LEMMA SeatsGivenBack ==
  /\ \A w \in Workers : ReadingInv /\ RefundSeats(w) => ReadingInv'
  /\ \A s \in Students, m \in Months : ReadingInv /\ CancelSeat(s, m) => ReadingInv'
  /\ \A s \in Students : ReadingInv /\ RejectDeposit(s) => ReadingInv'
<1>1. ASSUME NEW w \in Workers, ReadingInv, RefundSeats(w) PROVE ReadingInv'
  <2>1. PICK t \in ReadingTxn : t = txn[w] /\ t.u \in Students
    BY <1>1, ReadingShapes DEF ReadingInv, RefundSeats, At
  <2>2. seat' = [seat EXCEPT ![t.u] = [m \in Months |-> IF m > t.month THEN None ELSE seat[t.u][m]]]
    BY <1>1, <2>1 DEF RefundSeats
  <2>3. ReadingTypeOK' /\ \A x \in Students, m \in Months : seat'[x][m] \in {seat[x][m], None}
    BY <1>1, <2>1, <2>2 DEF RefundSeats, ReadingInv, ReadingTypeOK
  <2>4. QED
    BY <1>1, <2>3, QuietEnd DEF RefundSeats
<1>2. ASSUME NEW s \in Students, NEW m \in Months, ReadingInv, CancelSeat(s, m) PROVE ReadingInv'
  BY <1>2, QuietStep DEF CancelSeat, Serves, requests, ReadingInv, ReadingTypeOK
<1>3. ASSUME NEW s \in Students, ReadingInv, RejectDeposit(s) PROVE ReadingInv'
  BY <1>3, QuietStep DEF RejectDeposit, Serves, requests, ReadingInv, ReadingTypeOK, DepositStatuses
<1>4. QED
  BY <1>1, <1>2, <1>3

LEMMA DepositInv == ASSUME ReadingInv, DepositStep PROVE ReadingInv'
BY DepositReads, DepositWrites, RefundSteps, SeatsGivenBack DEF DepositStep

-----------------------------------------------------------------------------
(* Seats.                                                                  *)

LEMMA BookReadInv ==
  ASSUME ReadingInv, NEW w \in Workers, NEW s \in Students, NEW r \in ReadingRooms, NEW m \in Months,
         BookSeatRead(w, s, r, m)
  PROVE ReadingInv'
<1>1. deposit[s] \in Deposits({"verified"}) /\ month \in Nat
  BY ReadingRoomAssumption DEF ReadingInv, ReadingTypeOK, Deposits, BookSeatRead
<1>2. PICK t : Hold(w, t) /\ t = [pc |-> "book_lock", u |-> s, room |-> r, month |-> m, old |-> deposit[s]]
  BY DEF BookSeatRead
<1>3. t \in ReadingTxn /\ t.pc = "book_lock" /\ t.month <= month + 1
  BY <1>1, <1>2 DEF ReadingTxn, BookSeatRead, windowFor
<1>4. ReadingTypeOK' /\ UNCHANGED <<month, hall, hallLock, seat>>
  BY DEF BookSeatRead, reading, ReadingInv, ReadingTypeOK
<1>5. QED
  BY <1>2, <1>3, <1>4, QuietHold

LEMMA BookLockInv == ASSUME ReadingInv, NEW w \in Workers, BookSeatLock(w) PROVE ReadingInv'
<1>1. PICK t \in ReadingTxn : t = txn[w] /\ t.pc = "book_lock"
  BY DEF ReadingInv, BookSeatLock, At
<1>2. t.u \in Students /\ t.room \in ReadingRooms /\ t.month \in Months /\ t.old \in Deposits({"verified"})
  BY <1>1, ReadingShapes
<1>3. UNCHANGED <<month, late, booking_open, deposit, seat, hall>>
  BY DEF BookSeatLock
<1>4. CASE End(w) /\ UNCHANGED hallLock
  BY <1>3, <1>4, QuietEnd DEF ReadingInv, ReadingTypeOK
<1>5. CASE ~(End(w) /\ UNCHANGED hallLock)
  <2>1. /\ hall[t.room].status = "active" /\ hallLock[t.room] = None
        /\ Cardinality(Seated(t.room, t.month)) < hall[t.room].capacity
        /\ hallLock' = [hallLock EXCEPT ![t.room] = w]
        /\ txn' = [txn EXCEPT ![w].pc = "book_insert"]
    BY <1>1, <1>5 DEF BookSeatLock, Goto
  <2>2. PICK r : r = [t EXCEPT !.pc = "book_insert"]
    OBVIOUS
  <2>3. r \in ReadingTxn /\ r.pc = "book_insert" /\ r.room = t.room /\ r.month = t.month
    <3>1. t \in [pc : {"book_lock", "book_insert"}, u : Students, room : ReadingRooms, month : Months,
                 old : Deposits({"verified"})]
      BY <1>1 DEF ReadingTxn, Idle
    <3>2. QED
      BY <2>2, <3>1 DEF ReadingTxn
  <2>4. txn' \in [Workers -> ReadingTxn] /\ txn'[w] = r /\ \A v \in Workers \ {w} : txn'[v] = txn[v]
    BY <1>1, <2>1, <2>2, <2>3 DEF ReadingInv
  <2>5. hallLock' \in [ReadingRooms -> Workers \cup {None}] /\ hallLock'[t.room] = w
    BY <1>2, <2>1 DEF ReadingInv, ReadingTypeOK
  <2>6. Booking(w)'
    <3>1. t.month <= month + 1
      BY <1>1 DEF ReadingInv, Booking
    <3>2. QED
      BY <1>3, <2>1, <2>3, <2>4, <2>5, <3>1 DEF Booking, Seated
  <2>7. ASSUME NEW v \in Workers \ {w} PROVE Booking(v)'
    <3>1. txn'[v] = txn[v] /\ Booking(v)
      BY <2>4 DEF ReadingInv
    <3>2. txn[v].pc = "book_insert" => hallLock'[txn[v].room] = v
      BY <2>1, <3>1, ReadingRoomAssumption DEF Booking
    <3>3. QED
      BY <1>3, <3>1, <3>2 DEF Booking, Seated
  <2>8. QED
    BY <1>3, <2>4, <2>5, <2>6, <2>7 DEF ReadingInv, ReadingTypeOK, SeatsKnown
<1>6. QED
  BY <1>4, <1>5

\* The seat that is inserted was there to be given.
LEMMA BookInsertInv == ASSUME ReadingInv, NEW w \in Workers, BookSeatInsert(w) PROVE ReadingInv'
<1>1. PICK t \in ReadingTxn : t = txn[w] /\ t.pc = "book_insert"
  BY DEF ReadingInv, BookSeatInsert, At
<1>2. t.u \in Students /\ t.room \in ReadingRooms /\ t.month \in Months /\ t.room # None
  BY <1>1, ReadingShapes, ReadingRoomAssumption
<1>3. /\ UNCHANGED <<month, late, booking_open, deposit>>
      /\ hallLock' = [hallLock EXCEPT ![t.room] = None]
      /\ \/ UNCHANGED <<seat, hall>>
         \/ /\ seat[t.u][t.month] = None
            /\ seat' = [seat EXCEPT ![t.u][t.month] = t.room]
            /\ hall' = [hall EXCEPT ![t.room].booked = TRUE]
  BY <1>1 DEF BookSeatInsert
<1>4. txn' \in [Workers -> ReadingTxn] /\ txn'[w] = Idle /\ \A v \in Workers \ {w} : txn'[v] = txn[v]
  BY ReadingEnd DEF BookSeatInsert
<1>5. t.month <= month + 1 /\ hallLock[t.room] = w /\ hall[t.room].status # "absent"
  BY <1>1 DEF ReadingInv, Booking
<1>6. /\ seat' \in [Students -> [Months -> ReadingRooms \cup {None}]]
      /\ hall' \in [ReadingRooms -> [status : {"absent", "active", "inactive"}, capacity : Capacities, booked : BOOLEAN]]
      /\ \A s \in Students, m \in Months :
            seat'[s][m] = seat[s][m]
            \/ (s = t.u /\ m = t.month /\ seat'[s][m] = t.room /\ hall'[t.room].booked)
      /\ \A r \in ReadingRooms :
            /\ hall'[r].status = hall[r].status /\ hall'[r].capacity = hall[r].capacity
            /\ hall[r].booked => hall'[r].booked
            /\ r # t.room => hall'[r] = hall[r]
  <2>1. CASE UNCHANGED <<seat, hall>>
    BY <2>1 DEF ReadingInv, ReadingTypeOK
  <2>2. CASE ~UNCHANGED <<seat, hall>>
    <3>1. PICK yes : yes = TRUE
      OBVIOUS
    <3>2. PICK seats, h : seats = [seat[t.u] EXCEPT ![t.month] = t.room] /\ h = [hall[t.room] EXCEPT !.booked = yes]
      OBVIOUS
    <3>3. seat' = [seat EXCEPT ![t.u] = seats] /\ hall' = [hall EXCEPT ![t.room] = h]
      BY <1>3, <2>2, <3>1, <3>2
    <3>4. /\ seats \in [Months -> ReadingRooms \cup {None}]
          /\ \A m \in Months : seats[m] = IF m = t.month THEN t.room ELSE seat[t.u][m]
      BY <1>2, <3>2 DEF ReadingInv, ReadingTypeOK
    <3>5. /\ h \in [status : {"absent", "active", "inactive"}, capacity : Capacities, booked : BOOLEAN]
          /\ h.status = hall[t.room].status /\ h.capacity = hall[t.room].capacity /\ h.booked = yes
      BY <1>2, <3>1, <3>2 DEF ReadingInv, ReadingTypeOK
    <3>6. h.booked
      BY <3>1, <3>5
    <3>7. QED
      BY <1>2, <3>3, <3>4, <3>5, <3>6 DEF ReadingInv, ReadingTypeOK
  <2>3. QED
    BY <2>1, <2>2
<1>66. ReadingTypeOK'
  BY <1>2, <1>3, <1>6 DEF ReadingInv, ReadingTypeOK
<1>7. SeatsKnown'
  <2>1. \A s \in Students, m \in Months : seat[s][m] \in ReadingRooms \cup {None}
    BY DEF ReadingInv, ReadingTypeOK
  <2>2. QED
    BY <1>2, <1>3, <1>5, <1>6, <2>1 DEF ReadingInv, SeatsKnown
<1>8. ASSUME NEW v \in Workers \ {w} PROVE Booking(v)'
  <2>1. PICK x \in ReadingTxn : x = txn[v] /\ x = txn'[v]
    BY <1>4 DEF ReadingInv
  <2>2. Booking(v)
    BY DEF ReadingInv
  <2>3. CASE x.pc = "book_insert"
    <3>1. x.room \in ReadingRooms /\ x.month \in Months /\ x.room # t.room
      BY <1>5, <2>1, <2>2, <2>3, ReadingShapes DEF Booking
    <3>2. hallLock'[x.room] = v /\ hall'[x.room] = hall[x.room]
      BY <1>3, <1>6, <2>1, <2>2, <2>3, <3>1 DEF Booking, ReadingInv, ReadingTypeOK
    <3>3. Seated(x.room, x.month)' \subseteq Seated(x.room, x.month)
      BY <1>6, <3>1 DEF Seated
    <3>4. Cardinality(Seated(x.room, x.month)') <= Cardinality(Seated(x.room, x.month))
      BY <3>3, SeatedFinite, FS_Subset
    <3>5. Cardinality(Seated(x.room, x.month)) < hall[x.room].capacity /\ hall[x.room].capacity \in Nat
      BY <2>1, <2>2, <2>3, <3>1, ReadingRoomAssumption DEF Booking, ReadingInv, ReadingTypeOK
    <3>6. Cardinality(Seated(x.room, x.month)') < hall'[x.room].capacity
      BY <3>2, <3>4, <3>5, SeatedFinite, SeatedFiniteNext
    <3>7. QED
      BY <1>3, <2>1, <2>2, <2>3, <3>2, <3>6 DEF Booking, Seated
  <2>4. CASE x.pc # "book_insert"
    BY <1>3, <2>1, <2>2, <2>4 DEF Booking
  <2>5. QED
    BY <2>3, <2>4
<1>9. Booking(w)'
  BY <1>4, ReadingShapes DEF Booking
<1>10. QED
  BY <1>4, <1>66, <1>7, <1>8, <1>9 DEF ReadingInv

LEMMA SeatInv == ASSUME ReadingInv, SeatStep PROVE ReadingInv'
BY BookReadInv, BookLockInv, BookInsertInv, SeatsGivenBack DEF SeatStep

-----------------------------------------------------------------------------
(* Rooms.                                                                  *)

\* A change of a room whose row nobody has locked, or that is not there.
LEMMA HallStep ==
  ASSUME ReadingInv, NEW r \in ReadingRooms, hallLock[r] = None \/ hall[r].status = "absent",
         \A v \in Workers : txn'[v] = txn[v] \/ txn'[v] = Idle, txn' \in [Workers -> ReadingTxn],
         hall' \in [ReadingRooms -> [status : {"absent", "active", "inactive"}, capacity : Capacities, booked : BOOLEAN]],
         \A q \in ReadingRooms \ {r} : hall'[q] = hall[q],
         hall'[r].booked = hall[r].booked, hall'[r].status = "absent" => ~hall[r].booked,
         UNCHANGED <<month, late, booking_open, deposit, seat, hallLock>>
  PROVE ReadingInv'
<1>1. ReadingTypeOK'
  BY DEF ReadingInv, ReadingTypeOK
<1>2. \A s \in Students, m \in Months : seat[s][m] \in ReadingRooms \cup {None}
  BY DEF ReadingInv, ReadingTypeOK
<1>3. SeatsKnown'
  BY <1>2 DEF ReadingInv, SeatsKnown
<1>4. ASSUME NEW v \in Workers PROVE Booking(v)'
  <2>1. CASE txn'[v] = txn[v]
    <3>1. PICK x \in ReadingTxn : x = txn[v] /\ x = txn'[v]
      BY <2>1 DEF ReadingInv
    <3>2. x.pc = "book_insert" => x.room \in ReadingRooms \ {r}
      BY <3>1, ReadingShapes, ReadingRoomAssumption DEF ReadingInv, Booking
    <3>3. Booking(v)
      BY DEF ReadingInv
    <3>4. QED
      BY <3>1, <3>2, <3>3 DEF Booking, Seated
  <2>2. CASE txn'[v] = Idle
    BY <2>2, ReadingShapes DEF Booking
  <2>3. QED
    BY <2>1, <2>2
<1>5. QED
  BY <1>1, <1>3, <1>4 DEF ReadingInv


LEMMA RoomInv == ASSUME ReadingInv, RoomStep PROVE ReadingInv'
<1>1. ASSUME NEW r \in ReadingRooms, NEW c \in Capacities, CreateReadingRoom(r, c) PROVE ReadingInv'
  <2>1. PICK h : h = [status |-> "active", capacity |-> c, booked |-> FALSE]
    OBVIOUS
  <2>2. h \in [status : {"absent", "active", "inactive"}, capacity : Capacities, booked : BOOLEAN] /\ h.booked = FALSE
        /\ h.status = "active"
    BY <2>1
  <2>3. hall' = [hall EXCEPT ![r] = h]
    BY <1>1, <2>1 DEF CreateReadingRoom
  <2>4. hall[r].booked = FALSE
    BY <1>1 DEF CreateReadingRoom, ReadingInv, SeatsKnown, ReadingTypeOK
  <2>5. hall' \in [ReadingRooms -> [status : {"absent", "active", "inactive"}, capacity : Capacities, booked : BOOLEAN]]
        /\ hall'[r] = h /\ \A q \in ReadingRooms \ {r} : hall'[q] = hall[q]
    BY <2>2, <2>3 DEF ReadingInv, ReadingTypeOK
  <2>6. UNCHANGED <<txn, month, late, booking_open, deposit, seat, hallLock>> /\ txn \in [Workers -> ReadingTxn]
    BY <1>1 DEF CreateReadingRoom, Serves, requests, ReadingInv
  <2>7. QED
    BY <1>1, <2>2, <2>4, <2>5, <2>6, HallStep DEF CreateReadingRoom
<1>2. ASSUME NEW r \in ReadingRooms, SwitchRoom(r) \/ DeleteReadingRoom(r) PROVE ReadingInv'
  <2>1. PICK status \in {"absent", "active", "inactive"} :
           /\ hall' = [hall EXCEPT ![r].status = status]
           /\ status = "absent" => ~hall[r].booked
    BY <1>2 DEF SwitchRoom, DeleteReadingRoom, ReadingInv, ReadingTypeOK
  <2>2. PICK h : h = [hall[r] EXCEPT !.status = status]
    OBVIOUS
  <2>3. h \in [status : {"absent", "active", "inactive"}, capacity : Capacities, booked : BOOLEAN]
        /\ h.booked = hall[r].booked /\ h.status = status
    BY <2>2 DEF ReadingInv, ReadingTypeOK
  <2>4. hall' \in [ReadingRooms -> [status : {"absent", "active", "inactive"}, capacity : Capacities, booked : BOOLEAN]]
        /\ hall'[r] = h /\ \A q \in ReadingRooms \ {r} : hall'[q] = hall[q]
    BY <2>1, <2>2, <2>3 DEF ReadingInv, ReadingTypeOK
  <2>5. UNCHANGED <<txn, month, late, booking_open, deposit, seat, hallLock>> /\ txn \in [Workers -> ReadingTxn]
        /\ hallLock[r] = None
    BY <1>2 DEF SwitchRoom, DeleteReadingRoom, Serves, requests, ReadingInv
  <2>6. QED
    BY <2>1, <2>3, <2>4, <2>5, HallStep
<1>3. ASSUME NEW w \in Workers, NEW r \in ReadingRooms, NEW c \in Capacities, ResizeRead(w, r, c) PROVE ReadingInv'
  <2>1. PICK n \in Nat : n = Cardinality(Seated(r, month + 1))
    BY SeatedFinite
  <2>2. PICK t : Hold(w, t) /\ t = [pc |-> "resize", room |-> r, capacity |-> c, month |-> month, count |-> n]
    BY <1>3, <2>1 DEF ResizeRead
  <2>3. t \in ReadingTxn /\ t.pc = "resize" /\ t.count <= t.capacity
    BY <1>3, <2>1, <2>2 DEF ReadingTxn, ResizeRead, ReadingInv, ReadingTypeOK
  <2>4. ReadingTypeOK' /\ UNCHANGED <<month, hall, hallLock, seat>>
    BY <1>3 DEF ResizeRead, reading, ReadingInv, ReadingTypeOK
  <2>5. QED
    BY <2>2, <2>3, <2>4, QuietHold
<1>4. ASSUME NEW w \in Workers, ResizeWrite(w) PROVE ReadingInv'
  <2>1. PICK t \in ReadingTxn : t = txn[w] /\ t.room \in ReadingRooms /\ t.capacity \in Capacities
    BY <1>4, ReadingShapes DEF ReadingInv, ResizeWrite, At
  <2>2. UNCHANGED <<month, late, booking_open, deposit, seat, hallLock>> /\ hallLock[t.room] = None
    BY <1>4, <2>1 DEF ResizeWrite
  <2>3. txn' \in [Workers -> ReadingTxn] /\ txn'[w] = Idle /\ \A v \in Workers \ {w} : txn'[v] = txn[v]
    BY <1>4, ReadingEnd DEF ResizeWrite
  <2>4. PICK h : h = [hall[t.room] EXCEPT !.capacity = t.capacity]
    OBVIOUS
  <2>5. h \in [status : {"absent", "active", "inactive"}, capacity : Capacities, booked : BOOLEAN]
        /\ h.booked = hall[t.room].booked /\ h.status = hall[t.room].status
    BY <2>1, <2>4 DEF ReadingInv, ReadingTypeOK
  <2>6. hall' = hall \/ hall' = [hall EXCEPT ![t.room] = h]
    BY <1>4, <2>1, <2>4 DEF ResizeWrite
  <2>7. /\ hall' \in [ReadingRooms -> [status : {"absent", "active", "inactive"}, capacity : Capacities, booked : BOOLEAN]]
        /\ hall'[t.room] \in {hall[t.room], h} /\ \A q \in ReadingRooms \ {t.room} : hall'[q] = hall[q]
    BY <2>1, <2>5, <2>6 DEF ReadingInv, ReadingTypeOK
  <2>8. hall[t.room].status = "absent" => ~hall[t.room].booked
    BY <2>1 DEF ReadingInv, SeatsKnown
  <2>9. QED
    BY <2>1, <2>2, <2>3, <2>5, <2>7, <2>8, HallStep
<1>5. CASE SwitchBooking
  BY <1>5, QuietStep DEF SwitchBooking, Serves, requests, ReadingInv, ReadingTypeOK
<1>6. CASE Calendar
  <2>0. late' \in BOOLEAN
    BY <1>6 DEF Calendar, ReadingInv, ReadingTypeOK
  <2>1. UNCHANGED <<txn, booking_open, deposit, seat, hall, hallLock>> /\ month' \in {month, month + 1}
        /\ month' \in 1 .. MaxMonth
    <3>1. month \in 1 .. MaxMonth /\ MaxMonth \in Nat
      BY ReadingRoomAssumption DEF ReadingInv, ReadingTypeOK
    <3>2. month' = month \/ (month < MaxMonth /\ month' = month + 1)
      BY <1>6 DEF Calendar
    <3>3. QED
      BY <1>6, <3>1, <3>2 DEF Calendar, Serves, requests
  <2>2. ReadingTypeOK' /\ month \in Nat
    BY <2>0, <2>1, ReadingRoomAssumption DEF ReadingInv, ReadingTypeOK
  <2>3. SeatsKnown'
    <3>1. \A m \in Months : m \in Int
      BY ReadingRoomAssumption DEF Months
    <3>2. QED
      BY <2>1, <2>2, <3>1 DEF ReadingInv, SeatsKnown
  <2>4. ASSUME NEW w \in Workers PROVE Booking(w)'
    <3>1. PICK t \in ReadingTxn : t = txn[w] /\ Booking(w)
      BY DEF ReadingInv
    <3>2. /\ t.pc \in {"book_lock", "book_insert"} => t.month \in Nat
          /\ t.pc = "refund_seats" => t.month \in Nat
      BY ReadingShapes DEF Months
    <3>3. QED
      BY <2>1, <2>2, <3>1, <3>2 DEF Booking, Seated
  <2>5. QED
    BY <2>1, <2>2, <2>3, <2>4 DEF ReadingInv
<1>7. QED
  BY <1>1, <1>2, <1>3, <1>4, <1>5, <1>6 DEF RoomStep

LEMMA ReadingNextInv == ReadingInv /\ [ReadingNext]_<<requests, reading>> => ReadingInv'
<1>1. ASSUME ReadingInv, UNCHANGED <<requests, reading>> PROVE ReadingInv'
  <2>1. ReadingTypeOK'
    BY <1>1 DEF ReadingInv, ReadingTypeOK, reading
  <2>2. QED
    BY <1>1, <2>1, QuietStep DEF ReadingInv, ReadingTypeOK, reading, requests
<1>2. QED
  BY <1>1, DepositInv, SeatInv, RoomInv DEF ReadingNext

LEMMA ReadingInvariance == ReadingSpec => []ReadingInv
BY ReadingInitInv, ReadingNextInv, PTL DEF ReadingSpec

-----------------------------------------------------------------------------
(* Deposits and what they entitle to.                                      *)

\* What leaves a student's deposit and seats as they were, or gives seats back.
Untouched(s) ==
    /\ deposit'[s] = deposit[s]
    /\ \A m \in Months : seat'[s][m] \in {seat[s][m], None}
    /\ month' >= month
    /\ \A w \in Workers : txn[w].pc = "refund_seats" /\ txn[w].u = s => txn'[w] = txn[w]

LEMMA LaterMonths ==
  ASSUME NEW a \in Nat, NEW b \in Nat, b >= a
  PROVE \A m \in b + 1 .. MaxMonth + 1 : m \in a + 1 .. MaxMonth + 1 /\ m \in Months
BY ReadingRoomAssumption DEF Months

LEMMA UntouchedFreed ==
  ASSUME ReadingInv, ReadingInv', NEW s \in Students, Untouched(s), Freed(s)
  PROVE Freed(s)'
<1>1. month \in Nat /\ month' \in Nat /\ MaxMonth \in Nat
  BY ReadingRoomAssumption DEF ReadingInv, ReadingTypeOK
<1>2. \A m \in month' + 1 .. MaxMonth + 1 : m \in month + 1 .. MaxMonth + 1 /\ m \in Months
  <2>1. month' >= month
    BY DEF Untouched
  <2>2. QED
    BY <1>1, <2>1, LaterMonths
<1>3. CASE deposit[s].status = "refunded"
  BY <1>1, <1>2, <1>3 DEF Untouched, Freed, At
<1>4. CASE deposit[s].status = "none"
  BY <1>4 DEF Untouched, Freed
<1>5. CASE deposit[s].status \notin {"refunded", "none"}
  BY <1>5 DEF Untouched, Freed
<1>6. QED
  BY <1>3, <1>4, <1>5

\* A request that begins leaves those that free seats alone.
LEMMA BeginsUntouched ==
  ASSUME ReadingInv, NEW w \in Workers, NEW t, Hold(w, t), txn[w].pc # "refund_seats",
         UNCHANGED <<month, deposit, seat>>, NEW s \in Students
  PROVE Untouched(s)
BY DEF Hold, Untouched, ReadingInv, ReadingTypeOK

LEMMA SeatUntouched ==
  ASSUME ReadingInv, SeatStep, NEW s \in Students, \A w \in Workers : ~BookSeatInsert(w)
  PROVE Untouched(s)
<1>0. month \in Nat
  BY ReadingRoomAssumption DEF ReadingInv, ReadingTypeOK
<1>1. ASSUME NEW w \in Workers, NEW x \in Students, NEW r \in ReadingRooms, NEW m \in Months, BookSeatRead(w, x, r, m)
      PROVE Untouched(s)
  BY <1>1, BeginsUntouched, ReadingShapes DEF BookSeatRead, Ready, reading
<1>2. ASSUME NEW w \in Workers, BookSeatLock(w) PROVE Untouched(s)
  BY <1>0, <1>2 DEF BookSeatLock, At, Goto, End, Untouched, ReadingInv
<1>3. ASSUME NEW x \in Students, NEW m \in Months, CancelSeat(x, m) PROVE Untouched(s)
  BY <1>0, <1>3 DEF CancelSeat, Serves, requests, Untouched, ReadingInv, ReadingTypeOK
<1>4. QED
  BY <1>1, <1>2, <1>3 DEF SeatStep

LEMMA RoomUntouched ==
  ASSUME ReadingInv, RoomStep, NEW s \in Students
  PROVE Untouched(s)
<1>0. month \in Nat
  BY ReadingRoomAssumption DEF ReadingInv, ReadingTypeOK
<1>1. ASSUME NEW w \in Workers, NEW r \in ReadingRooms, NEW c \in Capacities, ResizeRead(w, r, c) PROVE Untouched(s)
  BY <1>1, BeginsUntouched, ReadingShapes DEF ResizeRead, Ready, reading
<1>2. ASSUME NEW w \in Workers, ResizeWrite(w) PROVE Untouched(s)
  BY <1>0, <1>2 DEF ResizeWrite, At, End, Untouched, ReadingInv
<1>3. CASE \/ \E r \in ReadingRooms, c \in Capacities : CreateReadingRoom(r, c)
           \/ \E r \in ReadingRooms : SwitchRoom(r) \/ DeleteReadingRoom(r)
           \/ SwitchBooking \/ Calendar
  BY <1>0, <1>3 DEF CreateReadingRoom, SwitchRoom, DeleteReadingRoom, SwitchBooking, Calendar, Serves, requests, Untouched
<1>4. QED
  BY <1>1, <1>2, <1>3 DEF RoomStep

\* A step that is not stale keeps what the deposit stands for.
Entitled(s) ==
    /\ Freed(s) => Freed(s)'
    /\ ~(deposit[s].status = "verified" /\ deposit'[s].status = "pending_verification")

LEMMA DepositWriteEntitled ==
  ASSUME ReadingInv, ReadingInv', ReadingFresh, NEW w \in Workers, NEW s \in Students,
         StartDepositWrite(w) \/ UtrWrite(w) \/ VerifyWrite(w) \/ DeleteDeposit(w)
  PROVE Entitled(s)
<1>1. PICK t \in ReadingTxn : t = txn[w] /\ t.pc \in {"deposit_start", "deposit_utr", "verify", "deposit_delete"}
  BY DEF ReadingInv, StartDepositWrite, UtrWrite, VerifyWrite, DeleteDeposit, At
<1>2. /\ t.u \in Students /\ t.old \in Deposits(DepositStatuses)
      /\ t.pc \in {"deposit_start", "deposit_utr"} => t.old.status # "verified"
  BY <1>1, ReadingShapes DEF Deposits, DepositStatuses
<1>3. txn'[w] = Idle /\ \A v \in Workers \ {w} : txn'[v] = txn[v]
  BY ReadingEnd DEF StartDepositWrite, UtrWrite, VerifyWrite, DeleteDeposit
<1>4. ~ReadingStale(w)
  BY <1>1, <1>3, ReadingShapes DEF ReadingFresh, Steps
<1>5. deposit[t.u] = t.old
  BY <1>1, <1>4 DEF ReadingStale
<1>6. UNCHANGED <<month, seat>> /\ month \in Nat
  BY ReadingRoomAssumption DEF StartDepositWrite, UtrWrite, VerifyWrite, DeleteDeposit, ReadingInv, ReadingTypeOK
<1>7. CASE s # t.u
  <2>1. deposit'[s] = deposit[s]
    BY <1>1, <1>2, <1>7 DEF StartDepositWrite, UtrWrite, VerifyWrite, DeleteDeposit, SetDeposit, ReadingInv, ReadingTypeOK
  <2>2. Untouched(s)
    BY <1>1, <1>3, <1>6, <2>1 DEF Untouched
  <2>3. QED
    BY <2>1, <2>2, UntouchedFreed DEF Entitled
<1>8. CASE s = t.u /\ ~DeleteDeposit(w)
  <2>1. deposit'[s].status \in {"pending_verification", "verified"}
    <3>1. CASE StartDepositWrite(w)
      BY <1>1, <1>2, <1>5, <1>8, <3>1 DEF StartDepositWrite, ReadingInv, ReadingTypeOK, Deposits
    <3>2. CASE UtrWrite(w) \/ VerifyWrite(w)
      <4>1. t.old.status # "none"
        BY <1>1, <3>2, ReadingShapes DEF UtrWrite, VerifyWrite, At, Deposits
      <4>2. QED
        BY <1>1, <1>2, <1>5, <1>8, <3>2, <4>1 DEF UtrWrite, VerifyWrite, SetDeposit, ReadingInv, ReadingTypeOK
    <3>3. QED
      BY <1>8, <3>1, <3>2
  <2>2. deposit[s].status = "verified" => deposit'[s].status = "verified"
    <3>1. SUFFICES ASSUME deposit[s].status = "verified" PROVE deposit'[s].status = "verified"
      OBVIOUS
    <3>2. t.pc \notin {"deposit_start", "deposit_utr"}
      BY <1>2, <1>5, <1>8, <3>1
    <3>3. VerifyWrite(w)
      BY <1>1, <1>8, <3>2 DEF StartDepositWrite, UtrWrite, At
    <3>4. t.pc = "verify"
      BY <1>1, <3>3 DEF VerifyWrite, At
    <3>5. t.old.status # "verified"
      BY <1>1, <3>4, ReadingShapes DEF Deposits
    <3>6. QED
      BY <1>5, <1>8, <3>1, <3>5
  <2>3. QED
    BY <2>1, <2>2 DEF Entitled, Freed
<1>9. CASE s = t.u /\ DeleteDeposit(w)
  <2>1. t.pc = "deposit_delete" /\ SetDeposit(t.u, t.old.id, "none")
    BY <1>1, <1>9 DEF DeleteDeposit, At
  <2>2. \A m \in Months : seat'[s][m] = None
    BY <1>1, <1>4, <1>6, <1>9, <2>1 DEF ReadingStale
  <2>3. deposit'[s] = deposit[s] \/ deposit'[s].status = "none"
    BY <1>2, <1>9, <2>1 DEF SetDeposit, ReadingInv, ReadingTypeOK
  <2>4. month' + 1 .. MaxMonth + 1 \subseteq Months
    BY <1>6, ReadingRoomAssumption DEF ReadingInv, ReadingTypeOK, Months
  <2>5. QED
    BY <2>2, <2>3, <2>4 DEF Entitled, Freed
<1>10. QED
  BY <1>7, <1>8, <1>9

LEMMA DepositEntitled ==
  ASSUME ReadingInv, ReadingInv', ReadingFresh, DepositStep, NEW s \in Students
  PROVE Entitled(s)
<1>0. month \in Nat
  BY ReadingRoomAssumption DEF ReadingInv, ReadingTypeOK
<1>1. ASSUME NEW w \in Workers, NEW x \in Students, StartDepositRead(w, x) \/ UtrRead(w, x) \/ VerifyRead(w, x)
      PROVE Entitled(s)
  <2>1. Untouched(s)
    BY <1>1, BeginsUntouched, ReadingShapes DEF StartDepositRead, UtrRead, VerifyRead, Ready, reading
  <2>2. QED
    BY <2>1, UntouchedFreed DEF Entitled, Untouched
<1>2. ASSUME NEW w \in Workers, NEW x \in Students, RefundMark(w, x) PROVE Entitled(s)
  <2>1. txn[w].pc = "idle" /\ txn'[w] = [pc |-> "refund_seats", u |-> x, month |-> month]
        /\ \A v \in Workers \ {w} : txn'[v] = txn[v]
    BY <1>2, ReadingShapes DEF RefundMark, Ready, Hold, ReadingInv
  <2>2. CASE s = x
    <3>1. deposit'[s].status = "refunded"
      BY <1>2, <2>2 DEF RefundMark, ReadingInv, ReadingTypeOK
    <3>2. At(w, "refund_seats")' /\ txn'[w].u = s
      BY <2>1, <2>2 DEF At
    <3>3. QED
      BY <3>1, <3>2 DEF Entitled, Freed
  <2>3. CASE s # x
    <3>1. deposit'[s] = deposit[s] /\ seat' = seat /\ month' = month
      BY <1>2, <2>3 DEF RefundMark, ReadingInv, ReadingTypeOK
    <3>2. Untouched(s)
      BY <1>0, <2>1, <3>1 DEF Untouched
    <3>3. QED
      BY <3>1, <3>2, UntouchedFreed DEF Entitled
  <2>4. QED
    BY <2>2, <2>3
<1>3. ASSUME NEW w \in Workers, NEW x \in Students, DeleteSeats(w, x) PROVE Entitled(s)
  <2>1. txn[w].pc = "idle" /\ \A v \in Workers \ {w} : txn'[v] = txn[v]
    BY <1>3, ReadingShapes DEF DeleteSeats, Ready, Hold, ReadingInv
  <2>2. deposit' = deposit /\ month' = month /\ \A m \in Months : seat'[s][m] \in {seat[s][m], None}
    BY <1>3 DEF DeleteSeats, ReadingInv, ReadingTypeOK
  <2>3. Untouched(s)
    BY <1>0, <2>1, <2>2 DEF Untouched
  <2>4. QED
    BY <2>2, <2>3, UntouchedFreed DEF Entitled
<1>4. ASSUME NEW w \in Workers, RefundSeats(w) PROVE Entitled(s)
  <2>1. PICK t \in ReadingTxn : t = txn[w] /\ t.pc = "refund_seats" /\ t.u \in Students /\ t.month \in Nat /\ t.month <= month
    BY <1>4, ReadingShapes DEF ReadingInv, Booking, RefundSeats, At
  <2>2. /\ deposit' = deposit /\ month' = month
        /\ seat' = [seat EXCEPT ![t.u] = [m \in Months |-> IF m > t.month THEN None ELSE seat[t.u][m]]]
        /\ \A v \in Workers \ {w} : txn'[v] = txn[v]
    BY <1>4, <2>1, ReadingEnd DEF RefundSeats
  <2>3. \A m \in Months : seat'[s][m] \in {seat[s][m], None}
    BY <2>1, <2>2 DEF ReadingInv, ReadingTypeOK
  <2>4. CASE s = t.u
    <3>1. \A m \in month' + 1 .. MaxMonth + 1 : seat'[s][m] = None
      BY <1>0, <2>1, <2>2, <2>4, ReadingRoomAssumption DEF Months, ReadingInv, ReadingTypeOK
    <3>2. QED
      BY <2>2, <2>3, <3>1 DEF Entitled, Freed
  <2>5. CASE s # t.u
    <3>1. Untouched(s)
      BY <1>0, <2>1, <2>2, <2>3, <2>5 DEF Untouched
    <3>2. QED
      BY <2>2, <3>1, UntouchedFreed DEF Entitled
  <2>6. QED
    BY <2>4, <2>5
<1>5. ASSUME NEW x \in Students, RejectDeposit(x) PROVE Entitled(s)
  <2>1. CASE s = x
    BY <1>5, <2>1 DEF RejectDeposit, ReadingInv, ReadingTypeOK, Entitled, Freed
  <2>2. CASE s # x
    <3>1. deposit'[s] = deposit[s]
      BY <1>5, <2>2 DEF RejectDeposit, ReadingInv, ReadingTypeOK
    <3>2. Untouched(s)
      BY <1>0, <1>5, <3>1 DEF RejectDeposit, Serves, requests, Untouched
    <3>3. QED
      BY <3>1, <3>2, UntouchedFreed DEF Entitled
  <2>3. QED
    BY <2>1, <2>2
<1>6. QED
  BY <1>1, <1>2, <1>3, <1>4, <1>5, DepositWriteEntitled DEF DepositStep

LEMMA ReadingEntitled ==
  ASSUME ReadingInv, ReadingInv', [ReadingNext]_<<requests, reading>>, ReadingFresh, NEW s \in Students
  PROVE Entitled(s)
<1>1. CASE DepositStep
  BY <1>1, DepositEntitled
<1>2. ASSUME NEW w \in Workers, BookSeatInsert(w) PROVE Entitled(s)
  <2>1. PICK t \in ReadingTxn : t = txn[w] /\ t.pc = "book_insert" /\ t.u \in Students /\ t.month \in Months
                                /\ t.old \in Deposits({"verified"})
    BY <1>2, ReadingShapes DEF ReadingInv, BookSeatInsert, At
  <2>2. deposit' = deposit /\ month' = month /\ txn'[w] = Idle /\ \A v \in Workers \ {w} : txn'[v] = txn[v]
    BY <1>2, ReadingEnd DEF BookSeatInsert
  <2>3. deposit[t.u] = t.old
    BY <2>1, <2>2, ReadingShapes DEF ReadingFresh, Steps, ReadingStale
  <2>4. CASE s = t.u
    BY <2>1, <2>2, <2>3, <2>4 DEF Deposits, Entitled, Freed
  <2>5. CASE s # t.u
    <3>1. seat'[s] = seat[s]
      BY <1>2, <2>1, <2>5 DEF BookSeatInsert, ReadingInv, ReadingTypeOK
    <3>2. Untouched(s)
      BY <2>1, <2>2, <3>1, ReadingRoomAssumption DEF Untouched, ReadingInv, ReadingTypeOK
    <3>3. QED
      BY <2>2, <3>2, UntouchedFreed DEF Entitled
  <2>6. QED
    BY <2>4, <2>5
<1>3. CASE (SeatStep /\ \A w \in Workers : ~BookSeatInsert(w)) \/ RoomStep
  BY <1>3, SeatUntouched, RoomUntouched, UntouchedFreed DEF Entitled, Untouched
<1>4. CASE UNCHANGED <<requests, reading>>
  <2>1. Untouched(s)
    BY <1>4, ReadingRoomAssumption DEF requests, reading, Untouched, ReadingInv, ReadingTypeOK
  <2>2. QED
    BY <2>1, UntouchedFreed DEF Entitled, Untouched
<1>5. QED
  BY <1>1, <1>2, <1>3, <1>4 DEF ReadingNext

\* For any students, rooms and requests: a seat outlives its deposit, or a
\* verified deposit goes back to pending, only by a request whose rows have
\* changed since it read them.
THEOREM DepositsStand == ReadingSpec => OnlyStaleWritesUndoDeposits
<1>1. ReadingInv /\ ReadingInv' /\ [ReadingNext]_<<requests, reading>> =>
         [\A s \in Students :
             \/ Freed(s) /\ ~Freed(s)'
             \/ deposit[s].status = "verified" /\ deposit'[s].status = "pending_verification"
             => ~ReadingFresh]_<<txn, deposit, seat>>
  BY ReadingEntitled DEF Entitled
<1>2. QED
  BY <1>1, ReadingInvariance, PTL DEF ReadingSpec, OnlyStaleWritesUndoDeposits

-----------------------------------------------------------------------------
(* Rooms and their seats.                                                  *)

\* A fit lost needs a booking or a smaller room.
LEMMA KeepsFitting ==
  ASSUME ReadingInv, NEW r \in ReadingRooms, NEW m \in Months, Fits(r, m), hall'[r].capacity = hall[r].capacity,
         \A s \in Students : seat'[s][m] \in {seat[s][m], None}
  PROVE Fits(r, m)'
<1>1. Cardinality(Seated(r, m)') <= Cardinality(Seated(r, m)) /\ hall[r].capacity \in Nat
  BY FewerSeats, ReadingRoomAssumption DEF ReadingInv, ReadingTypeOK
<1>2. QED
  BY <1>1, SeatedFinite, SeatedFiniteNext DEF Fits

LEMMA DepositFits ==
  ASSUME ReadingInv, DepositStep
  PROVE hall' = hall /\ \A s \in Students, m \in Months : seat'[s][m] \in {seat[s][m], None}
<1>1. ASSUME NEW w \in Workers, RefundSeats(w)
      PROVE hall' = hall /\ \A s \in Students, m \in Months : seat'[s][m] \in {seat[s][m], None}
  BY <1>1 DEF RefundSeats, ReadingInv, ReadingTypeOK
<1>2. ASSUME NEW w \in Workers, NEW x \in Students, DeleteSeats(w, x)
      PROVE hall' = hall /\ \A s \in Students, m \in Months : seat'[s][m] \in {seat[s][m], None}
  BY <1>2 DEF DeleteSeats, ReadingInv, ReadingTypeOK
<1>3. ASSUME NEW w \in Workers, NEW s \in Students,
             \/ StartDepositRead(w, s) \/ UtrRead(w, s) \/ VerifyRead(w, s) \/ RefundMark(w, s) \/ RejectDeposit(s)
             \/ StartDepositWrite(w) \/ UtrWrite(w) \/ VerifyWrite(w) \/ DeleteDeposit(w)
      PROVE UNCHANGED <<hall, seat>>
  BY <1>3 DEF StartDepositRead, UtrRead, VerifyRead, RefundMark, RejectDeposit, StartDepositWrite, UtrWrite, VerifyWrite,
     DeleteDeposit, reading
<1>4. ASSUME NEW w \in Workers, StartDepositWrite(w) \/ UtrWrite(w) \/ VerifyWrite(w) \/ DeleteDeposit(w)
      PROVE UNCHANGED <<hall, seat>>
  BY <1>4 DEF StartDepositWrite, UtrWrite, VerifyWrite, DeleteDeposit
<1>5. ASSUME NEW s \in Students, RejectDeposit(s) PROVE UNCHANGED <<hall, seat>>
  BY <1>5 DEF RejectDeposit
<1>6. QED
  BY <1>1, <1>2, <1>3, <1>4, <1>5 DEF DepositStep

LEMMA SeatFits ==
  ASSUME ReadingInv, SeatStep, NEW r \in ReadingRooms, NEW m \in Months, Fits(r, m)
  PROVE Fits(r, m)'
<1>1. ASSUME NEW w \in Workers, BookSeatInsert(w) PROVE Fits(r, m)'
  <2>1. PICK t \in ReadingTxn : t = txn[w] /\ t.pc = "book_insert" /\ t.u \in Students /\ t.month \in Months
                                /\ t.room \in ReadingRooms /\ t.room # None
    BY <1>1, ReadingShapes, ReadingRoomAssumption DEF ReadingInv, BookSeatInsert, At
  <2>2. \A q \in ReadingRooms : hall'[q].capacity = hall[q].capacity
    BY <1>1, <2>1 DEF BookSeatInsert, ReadingInv, ReadingTypeOK
  <2>3. CASE r = t.room /\ m = t.month
    <3>1. Cardinality(Seated(r, m)) < hall[r].capacity /\ hall[r].capacity \in Nat
      BY <2>1, <2>3, ReadingRoomAssumption DEF ReadingInv, Booking, ReadingTypeOK
    <3>2. Seated(r, m)' \subseteq Seated(r, m) \cup {t.u}
      BY <1>1, <2>1, <2>3 DEF BookSeatInsert, Seated, ReadingInv, ReadingTypeOK
    <3>3. Cardinality(Seated(r, m)') <= Cardinality(Seated(r, m)) + 1
      <4>1. /\ IsFiniteSet(Seated(r, m) \cup {t.u})
            /\ Cardinality(Seated(r, m) \cup {t.u}) <= Cardinality(Seated(r, m)) + 1
        BY SeatedFinite, FS_AddElement
      <4>2. QED
        BY <3>2, <4>1, SeatedFinite, SeatedFiniteNext, FS_Subset, FS_CardinalityType
    <3>4. QED
      BY <2>2, <3>1, <3>3, SeatedFinite, SeatedFiniteNext DEF Fits
  <2>4. CASE ~(r = t.room /\ m = t.month)
    <3>1. PICK seats : seats = [seat[t.u] EXCEPT ![t.month] = t.room]
      OBVIOUS
    <3>2. seat' = seat \/ seat' = [seat EXCEPT ![t.u] = seats]
      BY <1>1, <2>1, <3>1 DEF BookSeatInsert
    <3>3. \A x \in Months : seats[x] = IF x = t.month THEN t.room ELSE seat[t.u][x]
      BY <2>1, <3>1 DEF ReadingInv, ReadingTypeOK
    <3>4. \A s \in Students : seat'[s][m] = seat[s][m] \/ (m = t.month /\ seat'[s][m] = t.room)
      BY <2>1, <3>2, <3>3 DEF ReadingInv, ReadingTypeOK
    <3>5. Seated(r, m)' \subseteq Seated(r, m)
      BY <2>1, <2>4, <3>4 DEF Seated
    <3>6. Cardinality(Seated(r, m)') <= Cardinality(Seated(r, m)) /\ hall[r].capacity \in Nat
      BY <3>5, SeatedFinite, FS_Subset, ReadingRoomAssumption DEF ReadingInv, ReadingTypeOK
    <3>7. QED
      BY <2>2, <3>6, SeatedFinite, SeatedFiniteNext DEF Fits
  <2>5. QED
    BY <2>3, <2>4
<1>2. CASE \A w \in Workers : ~BookSeatInsert(w)
  <2>1. hall' = hall
    BY <1>2 DEF SeatStep, BookSeatRead, BookSeatLock, CancelSeat, reading
  <2>2. \A s \in Students : Untouched(s)
    BY <1>2, SeatUntouched
  <2>3. QED
    BY <2>1, <2>2, KeepsFitting DEF Untouched
<1>3. QED
  BY <1>1, <1>2

LEMMA RoomFits ==
  ASSUME ReadingInv, RoomStep, ReadingFresh, NEW r \in ReadingRooms, NEW m \in Months, Fits(r, m)
  PROVE Fits(r, m)' \/ (m <= month /\ hall'[r].capacity < hall[r].capacity)
<1>0. seat' = seat
  BY DEF RoomStep, CreateReadingRoom, ResizeRead, ResizeWrite, SwitchRoom, DeleteReadingRoom, SwitchBooking, Calendar, reading
<1>1. CASE hall'[r].capacity = hall[r].capacity
  BY <1>0, <1>1, KeepsFitting
<1>2. ASSUME NEW c \in Capacities, NEW q \in ReadingRooms, CreateReadingRoom(q, c), hall'[r].capacity # hall[r].capacity
      PROVE Fits(r, m)'
  <2>1. q = r /\ hall[r].status = "absent"
    BY <1>2 DEF CreateReadingRoom, ReadingInv, ReadingTypeOK
  <2>2. hall'[r].capacity \in Nat
    BY <1>2, <2>1, ReadingRoomAssumption DEF CreateReadingRoom, ReadingInv, ReadingTypeOK
  <2>3. Seated(r, m)' = {}
    BY <1>0, <2>1, ReadingRoomAssumption DEF Seated, ReadingInv, SeatsKnown
  <2>4. QED
    BY <2>2, <2>3, FS_EmptySet DEF Fits
<1>3. ASSUME NEW w \in Workers, ResizeWrite(w), hall'[r].capacity # hall[r].capacity
      PROVE Fits(r, m)' \/ (m <= month /\ hall'[r].capacity < hall[r].capacity)
  <2>1. PICK t \in ReadingTxn : t = txn[w] /\ t.pc = "resize" /\ t.room \in ReadingRooms /\ t.capacity \in Capacities
                                /\ t.count \in Nat /\ t.count <= t.capacity
    BY <1>3, ReadingShapes DEF ReadingInv, ResizeWrite, At, Booking
  <2>2. r = t.room /\ hall'[r].capacity = t.capacity /\ t.capacity \in Nat /\ hall[r].capacity \in Nat
    BY <1>3, <2>1, ReadingRoomAssumption DEF ResizeWrite, ReadingInv, ReadingTypeOK
  <2>3. txn'[w] = Idle
    BY <1>3, ReadingEnd DEF ResizeWrite
  <2>4. ~ReadingStale(w)
    BY <2>1, <2>3, ReadingShapes DEF ReadingFresh, Steps
  <2>5. t.month = month /\ Cardinality(Seated(r, month + 1)) = t.count
    BY <2>1, <2>2, <2>4 DEF ReadingStale
  <2>6. Seated(r, m)' = Seated(r, m) /\ month \in Nat /\ m \in Nat
    BY <1>0, ReadingRoomAssumption DEF Seated, ReadingInv, ReadingTypeOK, Months
  <2>7. CASE m = month + 1
    BY <2>1, <2>2, <2>5, <2>6, <2>7 DEF Fits
  <2>8. CASE m > month + 1
    <3>1. Seated(r, m) = {}
      BY <2>6, <2>8, ReadingRoomAssumption DEF Seated, ReadingInv, SeatsKnown
    <3>2. QED
      BY <2>2, <2>6, <3>1, FS_EmptySet DEF Fits
  <2>9. CASE m <= month
    BY <2>2, <2>6, <2>9, SeatedFinite DEF Fits
  <2>10. QED
    BY <2>6, <2>7, <2>8, <2>9
<1>4. CASE hall'[r].capacity # hall[r].capacity
  <2>1. ASSUME NEW q \in ReadingRooms, SwitchRoom(q) \/ DeleteReadingRoom(q) PROVE FALSE
    BY <1>4, <2>1 DEF SwitchRoom, DeleteReadingRoom, ReadingInv, ReadingTypeOK
  <2>2. ~SwitchBooking /\ ~Calendar /\ \A w \in Workers, q \in ReadingRooms, c \in Capacities : ~ResizeRead(w, q, c)
    BY <1>4 DEF SwitchBooking, Calendar, ResizeRead, reading
  <2>3. QED
    BY <1>2, <1>3, <1>4, <2>1, <2>2 DEF RoomStep
<1>5. QED
  BY <1>1, <1>4

\* For any rooms, capacities and students: a room comes to have more bookings
\* for a month than seats only when the desk makes it smaller, in a month that
\* is not counted or after bookings that the count has missed.
THEOREM RoomsFit == ReadingSpec => OnlyResizingOverfills
<1>1. ASSUME ReadingInv, ReadingNext, NEW r \in ReadingRooms, NEW m \in Months, Fits(r, m), ~Fits(r, m)'
      PROVE ~ReadingFresh \/ (m <= month /\ hall'[r].capacity < hall[r].capacity)
  <2>1. CASE DepositStep
    BY <1>1, <2>1, DepositFits, KeepsFitting
  <2>2. CASE SeatStep
    BY <1>1, <2>2, SeatFits
  <2>3. CASE RoomStep
    BY <1>1, <2>3, RoomFits
  <2>4. QED
    BY <1>1, <2>1, <2>2, <2>3 DEF ReadingNext
<1>2. ReadingInv /\ [ReadingNext]_<<requests, reading>> =>
         [<<seat, hall>>' # <<seat, hall>> =>
            \A r \in ReadingRooms, m \in Months :
               Fits(r, m) /\ ~Fits(r, m)'
               => ~ReadingFresh \/ (m <= month /\ hall'[r].capacity < hall[r].capacity)]_<<seat, hall>>
  BY <1>1 DEF reading
<1>3. QED
  BY <1>2, ReadingInvariance, PTL DEF ReadingSpec, OnlyResizingOverfills
=============================================================================
