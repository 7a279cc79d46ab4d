----------------------------- MODULE StudentDesks -----------------------------
(***************************************************************************)
(* What students ask of the branch and the desk answers: articleship       *)
(* matches, mentorship, scholarships, suggestions, and the paper of the    *)
(* year: routes/{articleshipMatches,mentorship,scholarships,               *)
(* studentSuggestions}.ts and the files of these names, and                *)
(* paperPresentations.ts, under routes/admin.                              *)
(*                                                                         *)
(* Most handlers are one UPDATE whose WHERE is the guard, or one that has  *)
(* none.  The others read first and are two steps.                         *)
(***************************************************************************)
EXTENDS Requests

CONSTANTS
    Matches, Firms,            \* articleship_matches and firms
    Mentorings, Mentors,       \* mentorship_requests and members
    Students, Scholarships,
    Suggestions, Topics,
    WeeklyCap,                 \* SUBMISSIONS_PER_WEEK_CAP
    Papers, Years              \* paper_presentations and award years

MatchStatuses == {"submitted", "matched", "placed", "cancelled"}
MentoringStatuses == {"pending", "matched", "scheduled", "completed", "cancelled"}

ASSUME StudentDesksAssumption ==
    /\ \A S \in {Firms, Mentors, Topics, Years, MatchStatuses, MentoringStatuses} : None \notin S
    /\ WeeklyCap \in Nat \ {0}

VARIABLES
    match,        \* match[m]: status, shortlist and firm
    mentoring,    \* mentoring[q]: status, mentor, and who cancelled it
    willing,      \* members with willing_to_mentor
    scholarship,  \* scholarship[h]: the conditions of an application
    applied,      \* applied[<<h, u>>]: status of the one application
    suggestion,   \* suggestion[s]: author, topic and status
    votes,        \* student_suggestion_votes
    topics,       \* topics[t]: "active", "inactive" or "none"
    paper         \* paper[p]: whether it is there, and the year it won

students == <<match, mentoring, willing, scholarship, applied, suggestion, votes, topics, paper>>
studentVars == <<requests, students>>

StudentsInit ==
    /\ match = [m \in Matches |-> [status |-> None, firms |-> {}, placed |-> None, answer |-> None]]
    /\ mentoring = [q \in Mentorings |-> [status |-> None, mentor |-> None, by |-> None]]
    /\ willing = IF "mentor" \in mix THEN Mentors ELSE {}
    /\ scholarship = [h \in Scholarships |-> [open |-> TRUE, active |-> TRUE, past |-> FALSE, external |-> FALSE]]
    /\ applied = [x \in Scholarships \X Students |-> None]
    /\ suggestion = [s \in Suggestions |-> None]
    /\ votes = {}
    /\ topics = [t \in Topics |-> "active"]
    /\ paper = [p \in Papers |-> [there |-> FALSE, year |-> None]]

-----------------------------------------------------------------------------
(* Articleship matches.                                                    *)

SetMatch(m, row) ==
    /\ match' = [match EXCEPT ![m] = row]
    /\ UNCHANGED <<mentoring, willing, scholarship, applied, suggestion, votes, topics, paper>>

SubmitMatch(m) ==
    /\ Serves("match")
    /\ match[m].status = None
    /\ SetMatch(m, [match[m] EXCEPT !.status = "submitted"])

Recommend(m, firms) ==
    /\ Serves("match")
    /\ match[m].status = "submitted" /\ firms # {}
    /\ SetMatch(m, [match[m] EXCEPT !.status = "matched", !.firms = firms])

Place(m, firm) ==
    /\ Serves("place")
    /\ match[m].status = "matched"
    /\ SetMatch(m, [match[m] EXCEPT !.status = "placed", !.placed = firm])

\* By the student and by the desk; neither asks for a status.
CancelMatch(m) ==
    /\ Serves("place")
    /\ match[m].status # None
    /\ SetMatch(m, [match[m] EXCEPT !.status = "cancelled"])

\* Mutant: the status is not asked for.
ConfirmPlacementReadAny(w, m, firm) ==
    /\ Ready(w, "confirm")
    /\ firm \in match[m].firms
    /\ Hold(w, [pc |-> "confirm", m |-> m, firm |-> firm, read |-> match[m]])
    /\ UNCHANGED students

\* The student names a firm of the shortlist; the UPDATE goes by id.
ConfirmPlacementRead(w, m, firm) ==
    /\ Ready(w, "confirm")
    /\ match[m].status = "matched" /\ firm \in match[m].firms
    /\ Hold(w, [pc |-> "confirm", m |-> m, firm |-> firm, read |-> match[m]])
    /\ UNCHANGED students

ConfirmPlacementWrite(w) ==
    LET t == txn[w]
    IN  /\ At(w, "confirm")
        /\ SetMatch(t.m, [match[t.m] EXCEPT !.status = "placed", !.placed = t.firm, !.answer = "confirmed"])
        /\ End(w)

DeclineShortlist(m) ==
    /\ Serves("place")
    /\ match[m].status = "matched"
    /\ SetMatch(m, [match[m] EXCEPT !.answer = "declined"])

-----------------------------------------------------------------------------
(* Mentorship.                                                             *)

SetMentoring(q, row) ==
    /\ mentoring' = [mentoring EXCEPT ![q] = row]
    /\ UNCHANGED <<match, willing, scholarship, applied, suggestion, votes, topics, paper>>

RequestMentor(q) ==
    /\ Serves("mentor")
    /\ mentoring[q].status = None
    /\ SetMentoring(q, [mentoring[q] EXCEPT !.status = "pending"])

\* The member is looked up; the UPDATE asks for a pending request.
AssignRead(w, q, u) ==
    /\ Ready(w, "mentor")
    /\ u \in willing /\ mentoring[q].status # None
    /\ Hold(w, [pc |-> "assign", q |-> q, mentor |-> u])
    /\ UNCHANGED students

AssignWrite(w) ==
    LET t == txn[w]
    IN  /\ At(w, "assign")
        /\ IF mentoring[t.q].status # "pending" THEN UNCHANGED students
           ELSE SetMentoring(t.q, [mentoring[t.q] EXCEPT !.status = "matched", !.mentor = t.mentor])
        /\ End(w)

ScheduleMentoring(q) ==
    /\ Serves("mentor")
    /\ mentoring[q].status = "matched"
    /\ SetMentoring(q, [mentoring[q] EXCEPT !.status = "scheduled"])

CompleteMentoring(q) ==
    /\ Serves("mentor")
    /\ mentoring[q].status # None
    /\ SetMentoring(q, [mentoring[q] EXCEPT !.status = "completed", !.by = None])

CancelByStudent(q) ==
    /\ Serves("mentor")
    /\ mentoring[q].status # None
    /\ SetMentoring(q, [mentoring[q] EXCEPT !.status = "cancelled", !.by = "student"])

CancelMentoringByDesk(q) ==
    /\ Serves("mentor")
    /\ mentoring[q].status # None
    /\ SetMentoring(q, [mentoring[q] EXCEPT !.status = "cancelled", !.by = "desk"])

\* A member joins or leaves the pool of mentors.
SetWilling(u) ==
    /\ Serves("mentor")
    /\ willing' = IF u \in willing THEN willing \ {u} ELSE willing \cup {u}
    /\ UNCHANGED <<match, mentoring, scholarship, applied, suggestion, votes, topics, paper>>

-----------------------------------------------------------------------------
(* Scholarships.                                                           *)

Applicable(h) == scholarship[h].open /\ scholarship[h].active /\ ~scholarship[h].past /\ ~scholarship[h].external

\* POST /:id/apply; UNIQUE (scholarship_id, student_user_id) answers 409.
ApplyRead(w, h, u) ==
    /\ Ready(w, "apply")
    /\ Applicable(h)
    /\ Hold(w, [pc |-> "apply", h |-> h, u |-> u])
    /\ UNCHANGED students

SetApplied(h, u, status) ==
    /\ applied' = [applied EXCEPT ![<<h, u>>] = status]
    /\ UNCHANGED <<match, mentoring, willing, scholarship, suggestion, votes, topics, paper>>

ApplyInsert(w) ==
    LET t == txn[w]
    IN  /\ At(w, "apply")
        /\ IF applied[<<t.h, t.u>>] # None THEN UNCHANGED students ELSE SetApplied(t.h, t.u, "submitted")
        /\ End(w)

WithdrawApplication(h, u) ==
    /\ Serves("apply")
    /\ applied[<<h, u>>] # None
    /\ SetApplied(h, u, "withdrawn")

\* PATCH of an application sets any status, whatever it was.
ReviewApplication(h, u, status) ==
    /\ Serves("apply")
    /\ applied[<<h, u>>] # None
    /\ SetApplied(h, u, status)

\* PATCH and DELETE of a scholarship, and its deadline.
ChangeScholarship(h, field) ==
    /\ Serves("apply")
    /\ scholarship' = [scholarship EXCEPT ![h][field] = ~@]
    /\ UNCHANGED <<match, mentoring, willing, applied, suggestion, votes, topics, paper>>

-----------------------------------------------------------------------------
(* Suggestions.                                                            *)

Submitted(u) == {s \in Suggestions : suggestion[s] # None /\ suggestion[s].by = u /\ suggestion[s].recent}

\* POST /: the topic, and the author's suggestions of the last week.
SuggestRead(w, u, topic) ==
    /\ Ready(w, "suggest")
    /\ topics[topic] = "active"
    /\ Cardinality(Submitted(u)) < WeeklyCap
    /\ Hold(w, [pc |-> "suggest", u |-> u, topic |-> topic, others |-> Submitted(u)])
    /\ UNCHANGED students

SetSuggestion(s, row) ==
    /\ suggestion' = [suggestion EXCEPT ![s] = row]
    /\ UNCHANGED <<match, mentoring, willing, scholarship, applied, votes, topics, paper>>

SuggestInsert(w, s) ==
    LET t == txn[w]
    IN  /\ At(w, "suggest")
        /\ suggestion[s] = None
        /\ IF topics[t.topic] = "none" THEN UNCHANGED students
           ELSE SetSuggestion(s, [by |-> t.u, topic |-> t.topic, status |-> "pending", recent |-> TRUE, deleted |-> FALSE])
        /\ End(w)

Present(s) == suggestion[s] # None /\ ~suggestion[s].deleted

\* /approve and /reject, from any status.
Moderate(s, status) ==
    /\ Serves("moderate")
    /\ Present(s)
    /\ SetSuggestion(s, [suggestion[s] EXCEPT !.status = status])

DeleteSuggestion(s) ==
    /\ Serves("moderate")
    /\ Present(s)
    /\ SetSuggestion(s, [suggestion[s] EXCEPT !.deleted = TRUE])

\* Seven days later.
WeekPasses ==
    /\ Serves("week")
    /\ suggestion' = [s \in Suggestions |-> IF suggestion[s] = None THEN None ELSE [suggestion[s] EXCEPT !.recent = FALSE]]
    /\ UNCHANGED <<match, mentoring, willing, scholarship, applied, votes, topics, paper>>

VoteRead(w, u, s) ==
    /\ Ready(w, "moderate")
    /\ Present(s) /\ suggestion[s].status = "approved"
    /\ Hold(w, [pc |-> "vote", u |-> u, s |-> s])
    /\ UNCHANGED students

SetVotes(pairs) ==
    /\ votes' = pairs
    /\ UNCHANGED <<match, mentoring, willing, scholarship, applied, suggestion, topics, paper>>

VoteInsert(w) ==
    /\ At(w, "vote")
    /\ SetVotes(votes \cup {<<txn[w].s, txn[w].u>>})
    /\ End(w)

Unvote(u, s) ==
    /\ Serves("moderate")
    /\ SetVotes(votes \ {<<s, u>>})

SetTopic(topic, state) ==
    /\ topics' = [topics EXCEPT ![topic] = state]
    /\ UNCHANGED <<match, mentoring, willing, scholarship, applied, suggestion, votes, paper>>

SwitchTopic(topic) ==
    /\ Serves("topic")
    /\ topics[topic] # "none"
    /\ SetTopic(topic, IF topics[topic] = "active" THEN "inactive" ELSE "active")

CreateTopic(topic) ==
    /\ Serves("topic")
    /\ topics[topic] = "none"
    /\ SetTopic(topic, "active")

\* DELETE of a topic counts the suggestions that are there; the foreign key
\* then takes the topic from every suggestion.
DeleteTopicRead(w, topic) ==
    /\ Ready(w, "topic")
    /\ topics[topic] # "none"
    /\ \A s \in Suggestions : Present(s) => suggestion[s].topic # topic
    /\ Hold(w, [pc |-> "delete_topic", topic |-> topic])
    /\ UNCHANGED students

DeleteTopicWrite(w) ==
    LET topic == txn[w].topic
    IN  /\ At(w, "delete_topic")
        /\ topics' = [topics EXCEPT ![topic] = "none"]
        /\ suggestion' = [s \in Suggestions |->
              IF suggestion[s] # None /\ suggestion[s].topic = topic THEN [suggestion[s] EXCEPT !.topic = None]
              ELSE suggestion[s]]
        /\ End(w)
        /\ UNCHANGED <<match, mentoring, willing, scholarship, applied, votes, paper>>

-----------------------------------------------------------------------------
(* The paper of the year.                                                  *)

SetPapers(rows) ==
    /\ paper' = rows
    /\ UNCHANGED <<match, mentoring, willing, scholarship, applied, suggestion, votes, topics>>

\* Mutant: of every year.
UnsetPreviousOfAll(w, p, year) ==
    /\ Serve(w, "paper", [pc |-> "paper", p |-> p, year |-> year, new |-> ~paper[p].there])
    /\ SetPapers([x \in Papers |-> IF x # p THEN [paper[x] EXCEPT !.year = None] ELSE paper[x]])

\* unsetPreviousWinnerForYear; the slug is looked for after it.
UnsetPrevious(w, p, year) ==
    /\ Serve(w, "paper", [pc |-> "paper", p |-> p, year |-> year, new |-> ~paper[p].there])
    /\ SetPapers([x \in Papers |-> IF paper[x].year = year /\ x # p THEN [paper[x] EXCEPT !.year = None] ELSE paper[x]])

\* The INSERT, or the UPDATE by id; the unique index on the year refuses it if
\* another paper has won meanwhile.
PaperWrite(w) ==
    LET t == txn[w]
    IN  /\ At(w, "paper")
        /\ IF paper[t.p].there = t.new \/ \E x \in Papers \ {t.p} : paper[x].year = t.year THEN UNCHANGED students
           ELSE SetPapers([paper EXCEPT ![t.p] = [there |-> TRUE, year |-> t.year]])
        /\ End(w)

\* A POST or PATCH without the award.
PlainPaper(p) ==
    /\ Serves("paper")
    /\ SetPapers([paper EXCEPT ![p] = [there |-> TRUE, year |-> None]])

DeletePaper(p) ==
    /\ Serves("paper")
    /\ paper[p].there
    /\ SetPapers([paper EXCEPT ![p] = [there |-> FALSE, year |-> None]])

StudentStep ==
    \/ \E m \in Matches :
          \/ SubmitMatch(m) \/ CancelMatch(m) \/ DeclineShortlist(m)
          \/ \E firms \in SUBSET Firms : Recommend(m, firms)
          \/ \E firm \in Firms : Place(m, firm) \/ (\E w \in Workers : ConfirmPlacementRead(w, m, firm))
    \/ \E q \in Mentorings :
          \/ RequestMentor(q) \/ ScheduleMentoring(q) \/ CompleteMentoring(q)
          \/ CancelByStudent(q) \/ CancelMentoringByDesk(q)
          \/ \E w \in Workers, u \in Mentors : AssignRead(w, q, u)
    \/ \E u \in Mentors : SetWilling(u)
    \/ \E h \in Scholarships :
          \/ \E field \in {"open", "active", "past", "external"} : ChangeScholarship(h, field)
          \/ \E u \in Students :
                \/ WithdrawApplication(h, u)
                \/ \E status \in {"submitted", "under_review", "awarded", "rejected", "withdrawn"} : ReviewApplication(h, u, status)
                \/ \E w \in Workers : ApplyRead(w, h, u)
    \/ \E s \in Suggestions :
          \/ Moderate(s, "approved") \/ Moderate(s, "rejected") \/ DeleteSuggestion(s)
          \/ \E u \in Students : Unvote(u, s) \/ (\E w \in Workers : VoteRead(w, u, s))
          \/ \E w \in Workers : SuggestInsert(w, s)
    \/ \E topic \in Topics :
          \/ SwitchTopic(topic) \/ CreateTopic(topic)
          \/ \E w \in Workers : DeleteTopicRead(w, topic) \/ (\E u \in Students : SuggestRead(w, u, topic))
    \/ WeekPasses
    \/ \E p \in Papers :
          \/ PlainPaper(p) \/ DeletePaper(p)
          \/ \E w \in Workers, year \in Years : UnsetPrevious(w, p, year)
    \/ \E w \in Workers :
          \/ ConfirmPlacementWrite(w) \/ AssignWrite(w) \/ ApplyInsert(w) \/ VoteInsert(w)
          \/ DeleteTopicWrite(w) \/ PaperWrite(w)
          \/ Crash(w) /\ UNCHANGED students

\* The students' desks alone.
StudentsSpec == RequestsInit /\ StudentsInit /\ [][StudentStep]_studentVars

-----------------------------------------------------------------------------
(* Properties.                                                             *)

\* A placement names the firm for good, a cancelled match stays cancelled, and
\* a mentor who was assigned is not replaced, but for a confirmation whose
\* match has changed since it was read.
OnlyStaleConfirmsReplace ==
    [][(\A w \in Workers : (Steps(w) /\ At(w, "confirm")) => match[txn[w].m] = txn[w].read)
       => /\ \A m \in Matches :
                /\ match[m].placed # None => match'[m].placed = match[m].placed
                /\ match[m].status = "cancelled" => match'[m].status = "cancelled"
          /\ \A q \in Mentorings :
                mentoring[q].mentor # None => mentoring'[q].mentor = mentoring[q].mentor]_<<match, mentoring>>

\* A year that has its paper keeps one, until that paper is deleted or
\* changed, unless the write that follows the unsetting fails or is lost.
Crowned(y) == \E p \in Papers : paper[p].year = y
Promised(y) == \E w \in Workers : At(w, "paper") /\ txn[w].year = y
GivesUp(y) ==
    \E p \in Papers :
        /\ paper[p].year = y
        /\ ~paper'[p].there \/ (\A w \in Workers : ~Steps(w)) \/ (\E w \in Workers : Steps(w) /\ At(w, "paper") /\ txn[w].p = p)

OnlyFailedWritesDethrone ==
    [][(\A w \in Workers : (Steps(w) /\ At(w, "paper")) => paper' # paper)
       => \A y \in Years : (Crowned(y) \/ Promised(y)) => ((Crowned(y) \/ Promised(y))' \/ GivesUp(y))]_studentVars
=============================================================================
