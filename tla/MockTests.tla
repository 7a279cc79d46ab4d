------------------------------ MODULE MockTests ------------------------------
(***************************************************************************)
(* One mock test: students register, attempt it online and submit; the     *)
(* grader marks the objective questions, the desk the others; results are  *)
(* published.  routes/mockTests.ts, routes/mockTestAttempts.ts and their   *)
(* admin counterparts.                                                     *)
(*                                                                         *)
(* No handler takes a lock before it reads.  One action is one statement,  *)
(* or one transaction of which nobody sees the middle.  Reads that follow  *)
(* one another are one step, and so are the writes a commit makes visible. *)
(***************************************************************************)
EXTENDS MockTestGrader, Requests, FiniteSetsExt

CONSTANTS
    Students,
    Takers,       \* the students whose attempts are followed
    Questions,
    Papers,       \* what the questions may be: functions from Questions
    Tries,        \* answers a student may give, per kind of question
    Capacity,     \* mock_tests.capacity
    MaxAttempts,  \* bound: attempts of one student
    MaxEdits      \* bound: replacements of a question's options

ASSUME MockTestsAssumption ==
    /\ IsFiniteSet(Students) /\ Takers \subseteq Students /\ IsFiniteSet(Questions)
    /\ Capacity \in Nat \ {0} /\ MaxAttempts \in Nat /\ MaxEdits \in Nat
    /\ None \notin Int
    /\ Papers # {} /\ \A p \in Papers, q \in Questions : WellPosed(p[q])
    /\ \A kind \in {"mcq", "numerical"} : \A a \in Tries[kind] : Readable(kind, a)

TestStatuses == {"scheduled", "open_for_registration", "closed", "completed", "cancelled"}
Registrations == {"none", "registered", "attended", "absent", "cancelled"}

VARIABLES
    paper,    \* the questions, chosen once
    version,  \* how often a question's options have been replaced
    standing, \* whether a question is there yet, or still
    test,     \* mock_tests: status, published (result_published_at), deleted
    reg,      \* status of each student's registration
    attempts  \* each student's attempts, oldest first

bank == <<paper, version, standing>>
exams == <<bank, test, reg, attempts>>

\* Options keep their letter and get a new id when they are replaced.
Stamp(answer, v) == [n \in DOMAIN answer |-> <<answer[n], v>>]
Asked(q) ==
    IF paper[q].kind = "mcq" THEN [paper[q] EXCEPT !.key = Stamp(@, version[q])] ELSE paper[q]

NewAttempt ==
    [status |-> "in_progress", expired |-> FALSE,
     answer |-> [q \in Questions |-> <<>>], marks |-> [q \in Questions |-> None],
     auto |-> 0, manual |-> 0, total |-> 0]

Request(label, u, i) ==
    [pc |-> label, u |-> u, i |-> i, q |-> None, old |-> "none", count |-> 0,
     answer |-> <<>>, seen |-> NewAttempt, asked |-> <<>>, marks |-> [q \in Questions |-> None]]

Marks == UNION {{-paper[q].negative, 0, paper[q].marks} : q \in Questions} \cup {None}

ExamsTypeOK ==
    /\ paper \in Papers
    /\ version \in [Questions -> 0 .. MaxEdits]
    /\ standing \in [Questions -> {"absent", "live", "deleted"}]
    /\ test \in [status : TestStatuses, published : BOOLEAN, deleted : BOOLEAN]
    /\ reg \in [Students -> Registrations]
    /\ \A u \in Students :
          /\ Len(attempts[u]) <= IF u \in Takers THEN MaxAttempts ELSE 0
          /\ \A i \in DOMAIN attempts[u] :
                /\ attempts[u][i].status \in {"in_progress", "submitted", "auto_submitted"}
                /\ attempts[u][i].marks \in [Questions -> Marks]

Open(u) == {i \in DOMAIN attempts[u] : attempts[u][i].status = "in_progress"}
Completed(u) == DOMAIN attempts[u] \ Open(u)

Taken == {u \in Students : reg[u] \notin {"none", "cancelled"}}

\* Sums of the marks awarded, over the questions of one sort.
MarksOf(marks, Q) == MapThenSumSet(LAMBDA q : IF marks[q] = None THEN 0 ELSE marks[q], Q)
live == {q \in Questions : standing[q] = "live"}
Objectives == {q \in Questions : Objective(paper[q])}

-----------------------------------------------------------------------------
(* POST and DELETE /mock-tests/:id/register, and the desk.                 *)

\* Mutant: <= for <.
RegisterReadOne(w, u) ==
    /\ Ready(w, "register")
    /\ test.status = "open_for_registration" /\ ~test.deleted
    /\ Cardinality(Taken) <= Capacity
    /\ reg[u] \in {"none", "cancelled"}
    /\ Hold(w, [Request("reg_write", u, 0) EXCEPT !.old = reg[u], !.count = Cardinality(Taken)])
    /\ UNCHANGED <<bank, test, reg, attempts>>

\* The window is open while the test's status says so; the rows are counted.
RegisterRead(w, u) ==
    /\ Ready(w, "register")
    /\ test.status = "open_for_registration" /\ ~test.deleted
    /\ Cardinality(Taken) < Capacity
    /\ reg[u] \in {"none", "cancelled"}
    /\ Hold(w, [Request("reg_write", u, 0) EXCEPT !.old = reg[u], !.count = Cardinality(Taken)])
    /\ UNCHANGED <<bank, test, reg, attempts>>

\* A second INSERT meets mock_test_regs_unique_per_test; the UPDATE of a
\* cancelled row does not look at its status again.
RegisterWrite(w) ==
    LET t == txn[w]
    IN  /\ At(w, "reg_write")
        /\ reg' = IF t.old = "none" /\ reg[t.u] # "none" THEN reg
                  ELSE [reg EXCEPT ![t.u] = "registered"]
        /\ End(w)
        /\ UNCHANGED <<bank, test, attempts>>

CancelRegistration(u) ==
    /\ Serves("cancel")
    /\ reg[u] # "none"
    /\ reg' = [reg EXCEPT ![u] = "cancelled"]
    /\ UNCHANGED <<bank, test, attempts>>

\* POST /:id/marks sets any status on rows of the test; the scores it records
\* are left out.
EnterMarks(u, s) ==
    /\ Serves("marks") /\ ~test.deleted
    /\ reg[u] # "none"
    /\ reg' = [reg EXCEPT ![u] = s]
    /\ UNCHANGED <<bank, test, attempts>>

TestDesk(t) ==
    /\ Serves("tests") /\ ~test.deleted
    /\ test' = t
    /\ UNCHANGED <<bank, reg, attempts>>

PatchTest(s) == TestDesk([test EXCEPT !.status = s])
DeleteTest == TestDesk([test EXCEPT !.deleted = TRUE])
PublishResults == TestDesk([test EXCEPT !.status = "completed", !.published = TRUE])
UnpublishResults == TestDesk([test EXCEPT !.published = FALSE])

-----------------------------------------------------------------------------
(* POST /mock-tests/:id/attempt.                                           *)

MayStart(u) ==
    /\ ~test.deleted /\ test.status # "cancelled"
    /\ reg[u] \notin {"none", "cancelled"}

\* Mutant: a submitted attempt does not stand in the way.
StartReadAgain(w, u) ==
    /\ Ready(w, "start")
    /\ MayStart(u)
    /\ Open(u) = {}
    /\ Hold(w, [Request("start_insert", u, Len(attempts[u]) + 1)
                EXCEPT !.count = Cardinality(Completed(u))])
    /\ UNCHANGED <<bank, test, reg, attempts>>

\* A student with a completed attempt is refused; an open one is resumed,
\* which changes nothing unless it has expired (Coerce).
StartRead(w, u) ==
    /\ Ready(w, "start")
    /\ MayStart(u)
    /\ Completed(u) = {} /\ Open(u) = {}
    /\ Hold(w, [Request("start_insert", u, Len(attempts[u]) + 1)
                EXCEPT !.count = Cardinality(Completed(u))])
    /\ UNCHANGED <<bank, test, reg, attempts>>

\* mock_test_attempts_one_open refuses a second attempt in progress.
StartInsert(w) ==
    LET u == txn[w].u
    IN  /\ At(w, "start_insert")
        /\ attempts' = IF Open(u) = {} /\ Len(attempts[u]) < MaxAttempts
                       THEN [attempts EXCEPT ![u] = Append(@, NewAttempt)] ELSE attempts
        /\ End(w)
        /\ UNCHANGED <<bank, test, reg>>

\* expires_at passes.
Expire(u, i) ==
    /\ Serves("expiry")
    /\ i \in DOMAIN attempts[u] /\ ~attempts[u][i].expired
    /\ attempts' = [attempts EXCEPT ![u][i].expired = TRUE]
    /\ UNCHANGED <<bank, test, reg>>

-----------------------------------------------------------------------------
(* PATCH /attempts/:id/answer.                                             *)

\* The ids picked are those of the page, which may be older than the question.
SaveRead(w, u, i, q, a) ==
    /\ Ready(w, "save")
    /\ i \in Open(u) /\ ~attempts[u][i].expired /\ q \in live
    /\ Hold(w, [Request("save_write", u, i) EXCEPT !.q = q, !.answer = a,
                !.seen = attempts[u][i]])
    /\ UNCHANGED <<bank, test, reg, attempts>>

SaveWrite(w) ==
    LET t == txn[w]
    IN  /\ At(w, "save_write")
        /\ attempts' = [attempts EXCEPT ![t.u][t.i].answer[t.q] = t.answer]
        /\ End(w)
        /\ UNCHANGED <<bank, test, reg>>

-----------------------------------------------------------------------------
(* POST /attempts/:id/submit, and coerceExpired in every other request.    *)

Submit(w, u, i) ==
    /\ Ready(w, "submit")
    /\ i \in DOMAIN attempts[u]
    /\ Hold(w, Request("grade_read", u, i))
    /\ UNCHANGED <<bank, test, reg, attempts>>

Coerce(w, u, i) ==
    /\ Ready(w, "expiry")
    /\ i \in Open(u) /\ attempts[u][i].expired
    /\ Hold(w, Request("grade_read", u, i))
    /\ UNCHANGED <<bank, test, reg, attempts>>

\* The marks of the objective questions the test has now.
Result(a) ==
    [q \in Questions |-> IF q \in live \cap Objectives THEN Awarded(Asked(q), a.answer[q]) ELSE None]

\* The questions, and the options that are right, as they are now.
Sheet == [q \in live |-> Asked(q)]

\* autoSubmitAttempt reads the attempt, and unless it is done the questions,
\* options and answers, which it grades.
GradeRead(w) ==
    LET a == attempts[txn[w].u][txn[w].i]
    IN  /\ At(w, "grade_read")
        /\ IF a.status = "in_progress"
           THEN /\ txn' = [txn EXCEPT ![w].pc = "grade_write", ![w].seen = a,
                                      ![w].asked = Sheet, ![w].marks = Result(a)]
                /\ UNCHANGED mix
           ELSE End(w)
        /\ UNCHANGED <<bank, test, reg, attempts>>

\* An answer's row is locked by a manual mark that is not committed.
MarkFree(u, i, Q) ==
    \A v \in Workers :
        ~(At(v, "mark_commit") /\ txn[v].u = u /\ txn[v].i = i /\ txn[v].q \in Q)

\* The marks, the attempt and the registration are written and committed; the
\* total is the sum of the objective marks.
GradeWrite(w) ==
    LET t == txn[w]
        a == attempts[t.u][t.i]
        graded == {q \in Questions : t.marks[q] # None}
    IN  /\ At(w, "grade_write")
        /\ MarkFree(t.u, t.i, graded)
        /\ attempts' = [attempts EXCEPT ![t.u][t.i] =
              [a EXCEPT !.status = IF a.expired THEN "auto_submitted" ELSE "submitted",
                        !.marks = [q \in Questions |-> IF q \in graded THEN t.marks[q] ELSE a.marks[q]],
                        !.auto = MarksOf(t.marks, graded),
                        !.total = MarksOf(t.marks, graded)]]
        /\ reg' = IF reg[t.u] = "registered" THEN [reg EXCEPT ![t.u] = "attended"] ELSE reg
        /\ End(w)
        /\ UNCHANGED <<bank, test>>

-----------------------------------------------------------------------------
(* The desk's work on answers and questions.                               *)

\* Mutant: the marks are summed before the new one is written.
MarkReadFirst(w, u, i, q, m) ==
    /\ Ready(w, "mark")
    /\ i \in DOMAIN attempts[u]
    /\ MarkFree(u, i, {q})
    /\ Hold(w, [Request("mark_commit", u, i) EXCEPT
          !.q = q, !.count = m, !.seen = attempts[u][i], !.marks = attempts[u][i].marks])
    /\ UNCHANGED <<bank, test, reg, attempts>>

\* PATCH /attempts/:aid/answer/:qid, at any status: the mark is written, then
\* the marks this transaction can see are summed.
MarkRead(w, u, i, q, m) ==
    /\ Ready(w, "mark")
    /\ i \in DOMAIN attempts[u]
    /\ MarkFree(u, i, {q})
    /\ Hold(w, [Request("mark_commit", u, i) EXCEPT
          !.q = q, !.count = m, !.seen = attempts[u][i],
          !.marks = [attempts[u][i].marks EXCEPT ![q] = m]])
    /\ UNCHANGED <<bank, test, reg, attempts>>

\* Mutant: every answer is written back as it was read.
MarkCommitAll(w) ==
    LET t == txn[w]
        a == attempts[t.u][t.i]
        auto == MarksOf(t.marks, Objectives)
        manual == MarksOf(t.marks, Questions \ Objectives)
    IN  /\ At(w, "mark_commit")
        /\ attempts' = [attempts EXCEPT ![t.u][t.i] =
              [a EXCEPT !.marks = t.marks, !.auto = auto, !.manual = manual, !.total = auto + manual]]
        /\ End(w)
        /\ UNCHANGED <<bank, test, reg>>

MarkCommit(w) ==
    LET t == txn[w]
        a == attempts[t.u][t.i]
        auto == MarksOf(t.marks, Objectives)
        manual == MarksOf(t.marks, Questions \ Objectives)
    IN  /\ At(w, "mark_commit")
        /\ attempts' = [attempts EXCEPT ![t.u][t.i] =
              [a EXCEPT !.marks = [a.marks EXCEPT ![t.q] = t.count], !.auto = auto, !.manual = manual,
                        !.total = auto + manual]]
        /\ End(w)
        /\ UNCHANGED <<bank, test, reg>>

Edit(q, state, v) ==
    /\ Serves("edit")
    /\ standing' = [standing EXCEPT ![q] = state]
    /\ version' = [version EXCEPT ![q] = v]
    /\ UNCHANGED <<paper, test, reg, attempts>>

AddQuestion(q) == standing[q] = "absent" /\ Edit(q, "live", version[q])
DeleteQuestion(q) == standing[q] # "absent" /\ Edit(q, "deleted", version[q])

\* PATCH deletes the options and inserts the new ones, under new ids.
ReplaceOptions(q) ==
    /\ standing[q] # "absent" /\ version[q] < MaxEdits
    /\ Edit(q, standing[q], version[q] + 1)

-----------------------------------------------------------------------------
ExamsInit ==
    /\ paper \in IF "submit" \notin mix THEN {CHOOSE p \in Papers : TRUE}
                 ELSE {p \in Papers : "edit" \in mix => \E q \in Questions : ~Objective(p[q])}
    /\ version = [q \in Questions |-> 0]
    /\ standing \in [Questions -> IF "edit" \in mix THEN {"absent", "live"} ELSE {"live"}]
    /\ test = [status |-> "open_for_registration", published |-> FALSE, deleted |-> FALSE]
    /\ reg = [u \in Students |-> IF u \in Takers /\ "start" \in mix THEN "registered" ELSE "none"]
    /\ attempts = [u \in Students |-> <<>>]

\* What a student sends for a question: picks from a page of some version.
Answers(q) ==
    IF paper[q].kind = "mcq"
    THEN {Stamp(a, v) : a \in Tries["mcq"], v \in 0 .. version[q]} ELSE Tries[paper[q].kind]

ExamRequest(w) ==
    \/ \E u \in Students : RegisterRead(w, u)
    \/ \E u \in Takers :
          \/ StartRead(w, u)
          \/ \E i \in DOMAIN attempts[u] :
                \/ Submit(w, u, i) \/ Coerce(w, u, i)
                \/ \E q \in Questions :
                      \/ \E a \in Answers(q) : SaveRead(w, u, i, q, a)
                      \/ MarkRead(w, u, i, q, paper[q].marks)

ExamStatement(w) ==
    \/ RegisterWrite(w) \/ StartInsert(w) \/ SaveWrite(w)
    \/ GradeRead(w) \/ GradeWrite(w) \/ MarkCommit(w)

ExamDesk ==
    \/ \E s \in TestStatuses : PatchTest(s)
    \/ DeleteTest \/ PublishResults \/ UnpublishResults
    \/ \E u \in Students : CancelRegistration(u)
    \/ \E u \in Students, s \in Registrations \ {"none"} : EnterMarks(u, s)
    \/ \E q \in Questions : AddQuestion(q) \/ DeleteQuestion(q) \/ ReplaceOptions(q)

ExamsNext ==
    \/ \E w \in Workers : ExamRequest(w) \/ ExamStatement(w)
    \/ \E u \in Takers, i \in 1 .. MaxAttempts : Expire(u, i)
    \/ ExamDesk

\* Mock tests alone.
ExamsSpec == RequestsInit /\ ExamsInit /\ [][ExamsNext]_<<requests, exams>>

-----------------------------------------------------------------------------
(* What a request has read is no longer so when it writes.                 *)

ExamStale(w) ==
    LET t == txn[w]
        a == attempts[t.u][t.i]
    IN  \/ /\ At(w, "reg_write")
           /\ reg[t.u] # t.old \/ Cardinality(Taken) # t.count
        \/ At(w, "start_insert") /\ Cardinality(Completed(t.u)) # t.count
        \/ At(w, "save_write") /\ a.status # t.seen.status
        \/ At(w, "grade_write") /\ a # t.seen
        \/ At(w, "mark_commit") /\ a.marks # t.seen.marks

ExamsFresh == \A w \in Workers : Steps(w) => ~ExamStale(w)

\* A registration takes a place that is free.  Places are counted in one
\* statement and taken in another, so two students may take the last one, and
\* POST /:id/marks puts a cancelled student back without counting.
OnlyStaleWritesOverbook ==
    [][(reg' # reg /\ txn' # txn /\ ExamsFresh /\ Cardinality(Taken') > Cardinality(Taken)) =>
          Cardinality(Taken') <= Capacity]_reg

\* "One attempt per registration": with an attempt submitted, by the student
\* or by the timer, no other one begins, and neither its answers nor the way
\* it ended change, whatever the devices of the student do at the same time.
OnlyStaleWritesReattempt ==
    [][attempts' # attempts /\ ExamsFresh => \A u \in Takers : Completed(u) # {} =>
          /\ Len(attempts'[u]) = Len(attempts[u])
          /\ \A i \in Completed(u) :
                /\ attempts'[u][i].answer = attempts[u][i].answer
                /\ attempts'[u][i].status = attempts[u][i].status]_attempts

\* The question has the marks the grader promises for the answer in the row,
\* unless the answer names an option twice.
FairlyMarked(u, i, q) ==
    LET a == attempts[u][i]
    IN  Cardinality(Elements(a.answer[q])) = Len(a.answer[q]) => a.marks[q] = Promised(Asked(q), a.answer[q])

\* A step that writes this question's row itself: an answer, an examiner's
\* mark, or the marks of a grader that has read the question, or its answer,
\* before it was changed.
Overtakes(w, u, i, q) ==
    LET t == txn[w]
    IN  /\ Steps(w) /\ t.pc \in {"save_write", "mark_commit", "grade_write"}
        /\ t.u = u /\ t.i = i
        /\ IF At(w, "grade_write")
           THEN \/ q \notin DOMAIN t.asked
                \/ t.asked[q] # Asked(q)
                \/ t.seen.answer[q] # attempts[u][i].answer[q]
           ELSE t.q = q

\* From its submission on, an attempt has the promised marks for every
\* objective question.  What happens to the other questions (late answers,
\* new options, deletions, examiners' marks), a second grader of the attempt
\* and the passing of expires_at do not spoil them; only a change of that very
\* question or of its answer does, when it comes after the grader's reads.
\* And only an expired attempt is called auto-submitted.
OnlyStaleWritesMisgrade ==
    [][\A u \in Takers : \A i \in Completed(u)' :
          /\ \A q \in live \cap Objectives :
                /\ i \in Open(u) \/ FairlyMarked(u, i, q)
                /\ ~\E w \in Workers : Overtakes(w, u, i, q)
                => FairlyMarked(u, i, q)'
          /\ i \in Open(u) =>
                (attempts'[u][i].status = "auto_submitted" <=> attempts'[u][i].expired)]_attempts

\* The total is the sum of the marks, objective and manual.  Two examiners who
\* mark two answers at once lose one of the marks in the total, and so does an
\* answer marked before the attempt was submitted.  Answers that come late and
\* the passing of expires_at change no marks.
OnlyStaleWritesLoseMarks ==
    [][attempts' # attempts /\ ExamsFresh => \A u \in Takers : \A i \in Completed(u)' :
          LET a == attempts'[u][i]
              early == i \in Open(u) /\ \E q \in Questions : attempts[u][i].marks[q] # None
              rest == a.answer = attempts[u][i].answer /\ a.expired = attempts[u][i].expired
          IN  (attempts[u][i] # a /\ rest /\ ~early) => a.total = MarksOf(a.marks, Questions)]_attempts
=============================================================================
