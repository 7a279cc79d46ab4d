------------------------------ MODULE Requests ------------------------------
(***************************************************************************)
(* Requests in flight, shared by the modules of the smaller components.    *)
(*                                                                         *)
(* A worker serves one request at a time.  txn[w] is Idle or a record: pc, *)
(* the statement that comes next, and the values that the request          *)
(* has read so far.  Between two statements of one request the statements  *)
(* of others run: the server never awaits a lock before it reads, unless a *)
(* module says so.                                                         *)
(***************************************************************************)
EXTENDS Naturals, FiniteSets, TLC

CONSTANTS
    Workers,   \* requests in flight
    Mixes,     \* sets of handlers that are in use together
    None       \* no value

VARIABLES
    mix,       \* the handlers in use, chosen once
    txn        \* the request each worker serves

requests == <<mix, txn>>

Idle == [pc |-> "idle"]

RequestsInit ==
    /\ mix \in Mixes
    /\ txn = [w \in Workers |-> Idle]

\* Worker w is free for a request of this handler.
Ready(w, handler) == handler \in mix /\ txn[w] = Idle

\* It goes on with t.
Hold(w, t) == txn' = [txn EXCEPT ![w] = t] /\ UNCHANGED mix

\* It begins a request, and has read t.
Serve(w, handler, t) == Ready(w, handler) /\ Hold(w, t)

\* A handler of one statement, or of one transaction nobody sees the middle of.
Serves(handler) == handler \in mix /\ UNCHANGED requests

At(w, label) == txn[w].pc = label

Goto(w, label) ==
    /\ txn' = [txn EXCEPT ![w].pc = label]
    /\ UNCHANGED mix

End(w) ==
    /\ txn' = [txn EXCEPT ![w] = Idle]
    /\ UNCHANGED mix

\* The process is lost: what it has not written is never written.
Crash(w) ==
    /\ "crash" \in mix
    /\ txn[w] # Idle
    /\ End(w)

\* The worker whose step this is.
Steps(w) == txn'[w] # txn[w]
=============================================================================
