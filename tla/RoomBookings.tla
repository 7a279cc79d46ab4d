---------------------------- MODULE RoomBookings ----------------------------
(***************************************************************************)
(* Hourly bookings of one of the branch's rooms: routes/rooms.ts,          *)
(* routes/admin/bookings.ts and routes/admin/rooms.ts.  Every handler      *)
(* reads its row and updates it by id; the EXCLUDE constraint              *)
(* room_no_overlap of migration 0001 stands between two live bookings.     *)
(***************************************************************************)
EXTENDS Requests

CONSTANTS
    Bookings,   \* rows that may be inserted, numbers
    Hours,      \* hours of the day, numbers
    Slots       \* what may be asked for: non-empty intervals of Hours

BookingStatuses == {"requested", "confirmed", "completed", "cancelled"}

ASSUME RoomBookingsAssumption ==
    /\ Bookings \subseteq Nat /\ Hours \subseteq Nat /\ IsFiniteSet(Hours)
    /\ None \notin Bookings /\ None \notin BookingStatuses
    /\ Slots \subseteq (SUBSET Hours) \ {{}}

VARIABLES
    now,       \* the hour
    venue,     \* the room's row: "absent", "active" or "inactive"
    slot,      \* slot[b]: the hours of booking b
    booking    \* status of each booking, None before it is inserted

rooms == <<now, venue, slot, booking>>

RoomsTypeOK ==
    /\ now \in 0 .. Cardinality(Hours)
    /\ venue \in {"absent", "active", "inactive"}
    /\ slot \in [Bookings -> SUBSET Hours]
    /\ booking \in [Bookings -> BookingStatuses \cup {None}]

Started(S) == \E h \in S : h < now

\* Mutant: the constraint leaves requests out, as the message of
\* POST /bookings/:id/confirm has it.
ExcludedByConfirmed(b, S) ==
    \E c \in Bookings \ {b} : booking[c] \in {"confirmed", "completed"} /\ slot[c] \cap S # {}

\* EXCLUDE ... WHERE (status NOT IN ('cancelled')).
Excluded(b, S) ==
    \E c \in Bookings \ {b} : booking[c] \notin {None, "cancelled"} /\ slot[c] \cap S # {}

\* Rows not inserted yet.
Unused == {b \in Bookings : booking[b] = None}

RoomsInit ==
    /\ now = 0
    /\ venue = "active"
    /\ slot = [b \in Bookings |-> {}]
    /\ booking = [b \in Bookings |-> None]

-----------------------------------------------------------------------------
(* POST /rooms/:id/book.                                                   *)

BookRoomRead(w, S) ==
    /\ Ready(w, "room")
    /\ Cardinality(Unused) > Cardinality({v \in Workers : At(v, "room_insert")})
    /\ ~Started(S)
    /\ venue = "active"
    /\ Hold(w, [pc |-> "room_insert", slot |-> S])
    /\ UNCHANGED rooms

\* The constraint and the foreign key answer for the check.
BookRoomInsert(w) ==
    LET S == txn[w].slot
    IN  /\ At(w, "room_insert")
        /\ \E b \in Unused :
              /\ \A c \in Unused : b <= c
              /\ IF Excluded(b, S) \/ venue = "absent"
                 THEN UNCHANGED <<slot, booking>>
                 ELSE /\ slot' = [slot EXCEPT ![b] = S]
                      /\ booking' = [booking EXCEPT ![b] = "requested"]
        /\ End(w)
        /\ UNCHANGED <<now, venue>>

-----------------------------------------------------------------------------
(* Changes of status: the row is read and checked, then updated by id.     *)

Change(w, b, to) ==
    /\ Serve(w, "room", [pc |-> "room_update", row |-> b, to |-> to, old |-> booking[b]])
    /\ UNCHANGED rooms

\* POST /rooms/bookings/:id/cancel, before the slot begins.
CancelOwn(w, b) ==
    /\ booking[b] \in {"requested", "confirmed"}
    /\ ~Started(slot[b])
    /\ Change(w, b, "cancelled")

\* Mutant: only a completed booking is refused.
ConfirmAny(w, b) ==
    /\ booking[b] \notin {None, "completed"}
    /\ Change(w, b, "confirmed")

Confirm(w, b) ==
    /\ booking[b] = "requested"
    /\ Change(w, b, "confirmed")

CancelByDesk(w, b) ==
    /\ booking[b] \in {"requested", "confirmed"}
    /\ Change(w, b, "cancelled")

Complete(w, b) ==
    /\ booking[b] = "confirmed"
    /\ Change(w, b, "completed")

\* An update that brings a cancelled row back meets the constraint again.
ChangeWrite(w) ==
    LET t == txn[w]
    IN  /\ At(w, "room_update")
        /\ booking' = IF t.to # "cancelled" /\ Excluded(t.row, slot[t.row]) THEN booking
                      ELSE [booking EXCEPT ![t.row] = t.to]
        /\ End(w)
        /\ UNCHANGED <<now, venue, slot>>

-----------------------------------------------------------------------------
(* The room, and the clock.                                                *)

SwitchVenue ==
    /\ Serves("venue")
    /\ venue \in {"active", "inactive"}
    /\ venue' = IF venue = "active" THEN "inactive" ELSE "active"
    /\ UNCHANGED <<now, slot, booking>>

CreateVenue ==
    /\ Serves("venue")
    /\ venue = "absent"
    /\ venue' = "active"
    /\ UNCHANGED <<now, slot, booking>>

\* DELETE /admin/rooms/:id counts the bookings; the foreign key restricts.
DeleteVenue ==
    /\ Serves("venue")
    /\ venue # "absent"
    /\ \A b \in Bookings : booking[b] = None
    /\ venue' = "absent"
    /\ UNCHANGED <<now, slot, booking>>

Clock ==
    /\ Serves("clock")
    /\ now < Cardinality(Hours)
    /\ now' = now + 1
    /\ UNCHANGED <<venue, slot, booking>>

RoomsNext ==
    \/ \E w \in Workers, S \in Slots : BookRoomRead(w, S)
    \/ \E w \in Workers, b \in Bookings :
          \/ CancelOwn(w, b) \/ Confirm(w, b) \/ CancelByDesk(w, b) \/ Complete(w, b)
    \/ \E w \in Workers : BookRoomInsert(w) \/ ChangeWrite(w)
    \/ SwitchVenue \/ CreateVenue \/ DeleteVenue \/ Clock

\* The rooms alone.
RoomsSpec == RequestsInit /\ RoomsInit /\ [][RoomsNext]_<<requests, rooms>>

-----------------------------------------------------------------------------
(* Properties.                                                             *)

RoomFresh ==
    \A w \in Workers :
        Steps(w) => ~(At(w, "room_update") /\ booking[txn[w].row] # txn[w].old)

\* A booking leaves "cancelled" or "completed" only in an update by id that
\* was decided on another status: a confirmation that passed its check
\* before a cancellation commits brings the booking back.
OnlyStaleWritesRevive ==
    [][\A b \in Bookings :
         booking[b] \in {"cancelled", "completed"} /\ booking'[b] # booking[b]
         => ~RoomFresh]_booking

\* The bookings implement the room's calendar, revived ones too: an hour has
\* at most one live booking, and a booking gets all of its hours or none.
Live(b) == booking[b] \notin {None, "cancelled"}

Diary ==
    [h \in Hours |->
        IF \E b \in Bookings : Live(b) /\ h \in slot[b]
        THEN CHOOSE b \in Bookings : Live(b) /\ h \in slot[b]
        ELSE None]

Promise == INSTANCE Calendar WITH Holders <- Bookings, Nobody <- None, holder <- Diary

KeepsCalendar == Promise!Spec
=============================================================================
