--------------------------- MODULE MockTestGrader ---------------------------
(***************************************************************************)
(* The marks an objective question earns: lib/mockTestGrader.ts.           *)
(*                                                                         *)
(* A question is a record [kind, marks, negative, key, tolerance]; key is  *)
(* the sequence of its correct options, or <<n>> for a numerical question. *)
(* An answer is a sequence too: the options picked, <<v>>, or <<text>>;    *)
(* <<>> is a blank one.                                                    *)
(***************************************************************************)
EXTENDS Integers, Sequences

Objective(q) == q.kind \in {"mcq", "numerical"}

Elements(s) == {s[i] : i \in DOMAIN s}

\* A question as the import stores it: its correct options are distinct rows,
\* or there is a number.  The grader takes the absolute values of the negative
\* marks and of the tolerance.
WellPosed(q) ==
    /\ q = [kind |-> q.kind, marks |-> q.marks, negative |-> q.negative, key |-> q.key, tolerance |-> q.tolerance]
    /\ q.marks \in Int /\ q.negative \in Nat
    /\ q.kind = "mcq" => /\ q.key = [n \in 1 .. Len(q.key) |-> q.key[n]] /\ Len(q.key) \in Nat
                         /\ \A m, n \in DOMAIN q.key : q.key[m] = q.key[n] => m = n
    /\ q.kind = "numerical" => q.key[1] \in Int /\ q.tolerance \in Nat

\* An answer that can be compared with a key.
Readable(kind, a) ==
    /\ kind = "mcq" => Len(a) \in Nat /\ a = [n \in 1 .. Len(a) |-> a[n]]
    /\ kind = "numerical" /\ a # <<>> => a[1] \in Int

\* Mutant: the length is not compared, so that guessing every option is right.
SetEqLoose(a, b) == Elements(b) \subseteq Elements(a)

\* setEq compares two arrays of ids: same length, and every element of the
\* second is one of the first.
SetEq(a, b) == Len(a) = Len(b) /\ Elements(b) \subseteq Elements(a)

Right(q, answer) ==
    IF q.kind = "mcq" THEN SetEq(answer, q.key)
    ELSE answer[1] - q.key[1] \in -q.tolerance .. q.tolerance

\* marks_awarded of an objective question; a blank answer costs nothing.
Awarded(q, answer) ==
    IF answer = <<>> THEN 0
    ELSE IF Right(q, answer) THEN q.marks ELSE -q.negative

-----------------------------------------------------------------------------
(* What the grader promises, in its own words: full marks if the selected  *)
(* set exactly equals the set of correct options, or if the number is      *)
(* within the tolerance; nothing for a blank; the negative marks otherwise.*)
(* Its header adds "(clamped at 0)" to the negative marks of a wrong choice,*)
(* but the code clamps nothing, and says so of the sum: the promise is     *)
(* taken without it.                                                       *)

Promised(q, answer) ==
    CASE answer = <<>> -> 0
      [] answer # <<>> /\ q.kind = "mcq" /\ Elements(answer) = Elements(q.key) -> q.marks
      [] answer # <<>> /\ q.kind = "numerical"
         /\ answer[1] \in q.key[1] - q.tolerance .. q.key[1] + q.tolerance -> q.marks
      [] OTHER -> -q.negative
=============================================================================
