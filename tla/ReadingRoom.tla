----------------------------- MODULE ReadingRoom -----------------------------
(***************************************************************************)
(* The reading room's monthly pass: a refundable deposit that the desk     *)
(* verifies, then one seat a month in a room with a capacity.              *)
(* routes/readingRoom.ts and routes/admin/readingRoom.ts.                  *)
(*                                                                         *)
(* Only the booking runs in a transaction, under the room's row lock; the  *)
(* deposit it requires is read before.  Months are numbered; the calendar  *)
(* moves on while requests are in flight.                                  *)
(***************************************************************************)
EXTENDS Requests

CONSTANTS
    Students,
    ReadingRooms,
    Capacities,    \* what the desk may make a room's capacity
    MaxMonth,      \* bound: the last current month
    MaxDeposits    \* bound: deposit rows of one student

ASSUME ReadingRoomAssumption ==
    /\ IsFiniteSet(Students)
    /\ Capacities \subseteq Nat \ {0} /\ 1 \in Capacities
    /\ MaxMonth \in Nat \ {0} /\ MaxDeposits \in Nat \ {0}
    /\ None \notin ReadingRooms /\ None \notin Workers

DepositStatuses == {"none", "pending_verification", "verified", "rejected", "refunded"}
Months == 1 .. MaxMonth + 1

VARIABLES
    month,    \* the current month
    late,     \* whether it is the 25th or later
    booking_open, \* site setting reading_room_open
    deposit,  \* each student's deposit row: its id and status
    seat,     \* seat[s][m]: the room of the active booking of s for month m
    hall,     \* reading_rooms: status, capacity, and whether a booking row names it
    hallLock  \* the worker that holds the row lock of a room

reading == <<month, late, booking_open, deposit, seat, hall, hallLock>>

ReadingTypeOK ==
    /\ month \in 1 .. MaxMonth /\ late \in BOOLEAN /\ booking_open \in BOOLEAN
    /\ deposit \in [Students -> [id : 0 .. MaxDeposits, status : DepositStatuses]]
    /\ seat \in [Students -> [Months -> ReadingRooms \cup {None}]]
    /\ hall \in [ReadingRooms -> [status : {"absent", "active", "inactive"}, capacity : Capacities,
                               booked : BOOLEAN]]
    /\ hallLock \in [ReadingRooms -> Workers \cup {None}]

Seated(r, m) == {s \in Students : seat[s][m] = r}

\* The current month is always open, the next one from the 25th.
windowFor(m) == m = month \/ (m = month + 1 /\ late)

ReadingInit ==
    /\ month = 1 /\ late = ("calendar" \notin mix) /\ booking_open = TRUE
    /\ deposit = [s \in Students |->
                    IF "deposit" \in mix THEN [id |-> 0, status |-> "none"]
                    ELSE [id |-> 1, status |-> "verified"]]
    /\ seat = [s \in Students |-> [m \in Months |-> None]]
    /\ hall = [r \in ReadingRooms |-> [status |-> "active", capacity |-> 1, booked |-> FALSE]]
    /\ hallLock = [r \in ReadingRooms |-> None]

-----------------------------------------------------------------------------
(* The deposit, from the student's side.                                   *)

\* POST /deposit/start reads the row.  Pending rows are returned as they are.
StartDepositRead(w, s) ==
    /\ Ready(w, "deposit")
    /\ deposit[s].status \in {"none", "rejected", "refunded"}
    /\ Hold(w, [pc |-> "deposit_start", u |-> s, old |-> deposit[s]])
    /\ UNCHANGED reading

\* An INSERT meets the unique user_id; the UPDATE of a rejected or refunded
\* row names its id and no status.
StartDepositWrite(w) ==
    LET t == txn[w]
    IN  /\ At(w, "deposit_start")
        /\ deposit' =
             IF t.old.status = "none"
             THEN IF deposit[t.u].status = "none"
                  THEN [deposit EXCEPT ![t.u] = [id |-> @.id + 1, status |-> "pending_verification"]]
                  ELSE deposit
             ELSE IF deposit[t.u].status # "none" /\ deposit[t.u].id = t.old.id
                  THEN [deposit EXCEPT ![t.u].status = "pending_verification"]
                  ELSE deposit
        /\ deposit'[t.u].id <= MaxDeposits
        /\ End(w)
        /\ UNCHANGED <<month, late, booking_open, seat, hall, hallLock>>

\* POST /deposit/utr: any row but a verified one.
UtrRead(w, s) ==
    /\ Ready(w, "deposit")
    /\ deposit[s].status \notin {"none", "verified"}
    /\ Hold(w, [pc |-> "deposit_utr", u |-> s, old |-> deposit[s]])
    /\ UNCHANGED reading

\* An UPDATE by id: a row deleted since then stays deleted.
SetDeposit(s, id, status) ==
    deposit' = IF deposit[s].status # "none" /\ deposit[s].id = id
               THEN [deposit EXCEPT ![s].status = status] ELSE deposit

UtrWrite(w) ==
    /\ At(w, "deposit_utr")
    /\ SetDeposit(txn[w].u, txn[w].old.id, "pending_verification")
    /\ End(w)
    /\ UNCHANGED <<month, late, booking_open, seat, hall, hallLock>>

-----------------------------------------------------------------------------
(* The deposit, from the desk's side.                                      *)

VerifyRead(w, s) ==
    /\ Ready(w, "verify")
    /\ deposit[s].status \notin {"none", "verified"}
    /\ Hold(w, [pc |-> "verify", u |-> s, old |-> deposit[s]])
    /\ UNCHANGED reading

VerifyWrite(w) ==
    /\ At(w, "verify")
    /\ SetDeposit(txn[w].u, txn[w].old.id, "verified")
    /\ End(w)
    /\ UNCHANGED <<month, late, booking_open, seat, hall, hallLock>>

\* One UPDATE, whatever the status; the student's seats stay.
RejectDeposit(s) ==
    /\ Serves("verify")
    /\ deposit[s].status # "none"
    /\ deposit' = [deposit EXCEPT ![s].status = "rejected"]
    /\ UNCHANGED <<month, late, booking_open, seat, hall, hallLock>>

\* Whatever the status; the seats of later months follow in a second
\* statement, and the present month's stays.
RefundMark(w, s) ==
    /\ Ready(w, "refund")
    /\ deposit[s].status # "none"
    /\ Hold(w, [pc |-> "refund_seats", u |-> s, month |-> month])
    /\ deposit' = [deposit EXCEPT ![s].status = "refunded"]
    /\ UNCHANGED <<month, late, booking_open, seat, hall, hallLock>>

\* Mutant: getMonth() + 2, as if the next month were the present one.
RefundSeatsLater(w) ==
    LET t == txn[w]
    IN  /\ At(w, "refund_seats")
        /\ seat' = [seat EXCEPT ![t.u] =
                      [m \in Months |-> IF m > t.month + 1 THEN None ELSE @[m]]]
        /\ End(w)
        /\ UNCHANGED <<month, late, booking_open, deposit, hall, hallLock>>

RefundSeats(w) ==
    LET t == txn[w]
    IN  /\ At(w, "refund_seats")
        /\ seat' = [seat EXCEPT ![t.u] = [m \in Months |-> IF m > t.month THEN None ELSE @[m]]]
        /\ End(w)
        /\ UNCHANGED <<month, late, booking_open, deposit, hall, hallLock>>

\* DELETE /deposits/:id: every active booking is cancelled, then the row goes.
DeleteSeats(w, s) ==
    /\ Ready(w, "refund")
    /\ deposit[s].status # "none"
    /\ Hold(w, [pc |-> "deposit_delete", u |-> s, old |-> deposit[s]])
    /\ seat' = [seat EXCEPT ![s] = [m \in Months |-> None]]
    /\ UNCHANGED <<month, late, booking_open, deposit, hall, hallLock>>

DeleteDeposit(w) ==
    /\ At(w, "deposit_delete")
    /\ SetDeposit(txn[w].u, txn[w].old.id, "none")
    /\ End(w)
    /\ UNCHANGED <<month, late, booking_open, seat, hall, hallLock>>

-----------------------------------------------------------------------------
(* Seats.                                                                  *)

\* POST /book: the switch, the window and the deposit are read first.
BookSeatRead(w, s, r, m) ==
    /\ Ready(w, "book")
    /\ booking_open
    /\ windowFor(m)
    /\ deposit[s].status = "verified"
    /\ Hold(w, [pc |-> "book_lock", u |-> s, room |-> r, month |-> m, old |-> deposit[s]])
    /\ UNCHANGED reading

\* Mutant: a plain SELECT in place of SELECT ... FOR UPDATE.
BookSeatPlainSelect(w) ==
    LET t == txn[w]
    IN  /\ At(w, "book_lock")
        /\ IF /\ hall[t.room].status = "active"
              /\ Cardinality(Seated(t.room, t.month)) < hall[t.room].capacity
              /\ seat[t.u][t.month] = None
           THEN Goto(w, "book_insert")
           ELSE End(w)
        /\ UNCHANGED reading

\* The transaction waits for the room's row, then reads the room, counts its
\* active bookings and looks for another of the student's.
BookSeatLock(w) ==
    LET t == txn[w]
    IN  /\ At(w, "book_lock")
        /\ hallLock[t.room] = None
        /\ IF /\ hall[t.room].status = "active"
              /\ Cardinality(Seated(t.room, t.month)) < hall[t.room].capacity
              /\ seat[t.u][t.month] = None
           THEN hallLock' = [hallLock EXCEPT ![t.room] = w] /\ Goto(w, "book_insert")
           ELSE UNCHANGED hallLock /\ End(w)
        /\ UNCHANGED <<month, late, booking_open, deposit, seat, hall>>

\* A second active booking of the month, in another room, meets the unique
\* index; either way the transaction ends.
BookSeatInsert(w) ==
    LET t == txn[w]
    IN  /\ At(w, "book_insert")
        /\ IF seat[t.u][t.month] = None
           THEN /\ seat' = [seat EXCEPT ![t.u][t.month] = t.room]
                /\ hall' = [hall EXCEPT ![t.room].booked = TRUE]
           ELSE UNCHANGED <<seat, hall>>
        /\ hallLock' = [hallLock EXCEPT ![t.room] = None]
        /\ End(w)
        /\ UNCHANGED <<month, late, booking_open, deposit>>

\* POST /cancel: the UPDATE by id can only cancel the booking that was read.
CancelSeat(s, m) ==
    /\ Serves("unbook")
    /\ seat[s][m] # None
    /\ seat' = [seat EXCEPT ![s][m] = None]
    /\ UNCHANGED <<month, late, booking_open, deposit, hall, hallLock>>

-----------------------------------------------------------------------------
(* The rooms.                                                              *)

CreateReadingRoom(r, c) ==
    /\ Serves("catalogue")
    /\ hall[r].status = "absent"
    /\ hall' = [hall EXCEPT ![r] = [status |-> "active", capacity |-> c, booked |-> FALSE]]
    /\ UNCHANGED <<month, late, booking_open, deposit, seat, hallLock>>

\* A room that any booking names, cancelled ones too, is kept by the count
\* and, for a booking that comes after the count, by the foreign key.
DeleteReadingRoom(r) ==
    /\ Serves("catalogue")
    /\ hall[r].status # "absent" /\ ~hall[r].booked /\ hallLock[r] = None
    /\ hall' = [hall EXCEPT ![r].status = "absent"]
    /\ UNCHANGED <<month, late, booking_open, deposit, seat, hallLock>>

\* PATCH /rooms/:id with a capacity: next month's bookings are counted first.
ResizeRead(w, r, c) ==
    /\ Ready(w, "resize")
    /\ c >= Cardinality(Seated(r, month + 1))
    /\ Hold(w, [pc |-> "resize", room |-> r, capacity |-> c, month |-> month,
                count |-> Cardinality(Seated(r, month + 1))])
    /\ UNCHANGED reading

ResizeWrite(w) ==
    LET t == txn[w]
    IN  /\ At(w, "resize")
        /\ hallLock[t.room] = None
        /\ hall' = IF hall[t.room].status = "absent" THEN hall
                   ELSE [hall EXCEPT ![t.room].capacity = t.capacity]
        /\ End(w)
        /\ UNCHANGED <<month, late, booking_open, deposit, seat, hallLock>>

\* PATCH without a capacity; reading_room_open.
SwitchRoom(r) ==
    /\ Serves("switch")
    /\ hall[r].status # "absent" /\ hallLock[r] = None
    /\ hall' = [hall EXCEPT ![r].status = IF @ = "active" THEN "inactive" ELSE "active"]
    /\ UNCHANGED <<month, late, booking_open, deposit, seat, hallLock>>

SwitchBooking ==
    /\ Serves("switch")
    /\ booking_open' = ~booking_open
    /\ UNCHANGED <<month, late, deposit, seat, hall, hallLock>>

\* The 25th comes, and the month ends.
Calendar ==
    /\ Serves("calendar")
    /\ \/ ~late /\ late' = TRUE /\ UNCHANGED month
       \/ late /\ month < MaxMonth /\ late' = FALSE /\ month' = month + 1
    /\ UNCHANGED <<booking_open, deposit, seat, hall, hallLock>>

DepositStep ==
    \/ \E w \in Workers, s \in Students :
          \/ StartDepositRead(w, s) \/ UtrRead(w, s) \/ VerifyRead(w, s)
          \/ RefundMark(w, s) \/ DeleteSeats(w, s)
    \/ \E w \in Workers :
          \/ StartDepositWrite(w) \/ UtrWrite(w) \/ VerifyWrite(w)
          \/ RefundSeats(w) \/ DeleteDeposit(w)
    \/ \E s \in Students : RejectDeposit(s)

SeatStep ==
    \/ \E w \in Workers, s \in Students, r \in ReadingRooms, m \in Months : BookSeatRead(w, s, r, m)
    \/ \E w \in Workers : BookSeatLock(w) \/ BookSeatInsert(w)
    \/ \E s \in Students, m \in Months : CancelSeat(s, m)

RoomStep ==
    \/ \E r \in ReadingRooms, c \in Capacities : CreateReadingRoom(r, c)
    \/ \E w \in Workers, r \in ReadingRooms, c \in Capacities : ResizeRead(w, r, c)
    \/ \E w \in Workers : ResizeWrite(w)
    \/ \E r \in ReadingRooms : SwitchRoom(r) \/ DeleteReadingRoom(r)
    \/ SwitchBooking \/ Calendar

ReadingNext == DepositStep \/ SeatStep \/ RoomStep

\* The reading room alone.
ReadingSpec == RequestsInit /\ ReadingInit /\ [][ReadingNext]_<<requests, reading>>

-----------------------------------------------------------------------------
(* Properties.                                                             *)

\* What the request read, and what its last write relies on, has changed.
ReadingStale(w) ==
    LET t == txn[w]
    IN  \/ /\ t.pc \in {"deposit_start", "deposit_utr", "verify", "book_insert", "deposit_delete"}
           /\ deposit[t.u] # t.old
        \/ t.pc = "deposit_delete" /\ \E m \in Months : seat[t.u][m] # None
        \/ /\ t.pc = "resize"
           /\ <<month, Cardinality(Seated(t.room, t.month + 1))>> # <<t.month, t.count>>

ReadingFresh == \A w \in Workers : Steps(w) => ~ReadingStale(w)

\* A refund frees the later months' seats and a deletion all of them.
Freed(s) ==
    /\ deposit[s].status = "refunded" =>
         \/ \A m \in month + 1 .. MaxMonth + 1 : seat[s][m] = None
         \/ \E w \in Workers : At(w, "refund_seats") /\ txn[w].u = s
    /\ deposit[s].status = "none" => \A m \in Months : seat[s][m] = None

\* Nobody keeps a seat without a deposit unless a booking, or the deletion, was
\* decided on rows that have changed since; and a student's own requests
\* (start, utr) take a verified deposit back to pending only by overwriting a
\* row that was verified after they read it.
OnlyStaleWritesUndoDeposits ==
    [][\A s \in Students :
         \/ Freed(s) /\ ~Freed(s)'
         \/ deposit[s].status = "verified" /\ deposit'[s].status = "pending_verification"
         => ~ReadingFresh]_<<txn, deposit, seat>>

\* A room has more bookings for a month than seats only by the desk's
\* resizing it: in the present month, which is not counted, or after bookings
\* the count has missed.
Fits(r, m) == Cardinality(Seated(r, m)) <= hall[r].capacity

OnlyResizingOverfills ==
    [][<<seat, hall>>' # <<seat, hall>> =>
         \A r \in ReadingRooms, m \in Months :
            Fits(r, m) /\ ~Fits(r, m)'
            => ~ReadingFresh \/ (m <= month /\ hall'[r].capacity < hall[r].capacity)]_<<seat, hall>>
=============================================================================
