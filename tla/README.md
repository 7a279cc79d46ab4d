# Formal models of the branch backend

TLA+ modules, TLC configurations and TLAPS proofs for the backend in `src/`: an
Express application over Postgres (drizzle-orm, default isolation READ
COMMITTED) with a payment gateway (Razorpay), mail and push, sockets for the
event chat, timers started with the server, and a language model behind the
assistant.

The question asked everywhere is the same. A handler reads rows, decides, and
writes; between its statements other requests, other machines, triggers and
crashes run. Which decisions are still right when they are written, and which
are not?

- [1. Inventory](#1-inventory)
- [2. Modules and runs](#2-modules-and-runs)
- [3. How a handler becomes actions](#3-how-a-handler-becomes-actions)
- [4. Event seats](#4-event-seats)
- [5. Payments](#5-payments)
- [6. Checklists and their templates](#6-checklists-and-their-templates)
- [7. Rooms and access (run `branch`)](#7-rooms-and-access-run-branch)
- [8. Mock tests, jobs, alerts (run `careers`)](#8-mock-tests-jobs-alerts-run-careers)
- [9. Chat, rate limit, assistant (run `chat`)](#9-chat-rate-limit-assistant-run-chat)
- [10. Desks, treasury, grievances, notifications (run `desks`)](#10-desks-treasury-grievances-notifications-run-desks)
- [11. Where the code differs from what it says](#11-where-the-code-differs-from-what-it-says)
- [12. Proofs](#12-proofs)
- [13. What is only model-checked, what is not modelled](#13-what-is-only-model-checked-what-is-not-modelled)

To repeat a check: `tlc -config Seats.cfg MCEventSeats`; to repeat the proofs of
a module: `tlapm EventSeats_proofs.tla`. `PROJECT.json` lists every run, the lines
each definition translates, the mutation of the code that breaks each property,
the hazards the properties are for, and the theorems.

## 1. Inventory

The server is one process per machine; the deployment may start several
(`fly.toml`), so every timer can run more than once at a time. Little state lives
in memory (caches, socket rooms, the chat's rate limits): components meet in the
database.

| Component | State | Operations | Meets | Hard behaviour | Correct when |
|---|---|---|---|---|---|
| Event registrations (`routes/registrations.ts`, `admin/registrations.ts`) | `event_registrations` rows, `events.registered_count`, `capacity` | register, wait, enrol, change status, attendance in bulk, ask for and decide a cancellation, promote | payments, event editing | counter kept by hand beside the rows; decisions from unlocked reads; opposite lock orders | counter = seated rows; one live row per member; freed seats are passed on; requests end |
| Payments (`routes/payments.ts`, `lib/razorpay/*`, `lib/paymentReconciliationCron.ts`, `admin/payments.ts`) | `payments` rows with order, status and `metadata.needs_refund`; orders at the gateway | open, initiate again, verify, webhook, cancel, re-verify, reconcile, decide a manual payment, flag for refund | registrations, job postings, gateway | five paths report one outcome; calls lost, repeated, late; several orders and attempts per row | success only after a capture; settled stays settled; money is a seat or a refund; every capture is noticed |
| Checklists (`routes/checklistInstances.ts`, triggers of 0025 and 0056) and event publication (`admin/events.ts`) | status, questions, answers, section and stage rows, event status, override log | release, answer, edit, assign, submit, decide (section, stage, final), reopen, delete, publish, cancel | templates, events | status checked outside the writing transaction; triggers that count under READ COMMITTED | approved means everything was approved; content under review is fixed; an event's end is final |
| Checklist templates (`routes/checklistTemplates.ts`) | versions, their questions, their use | draft, edit, publish, clone, drop | checklists | a trigger that reads what is committed and locks nothing | a published version's questions never change |
| Mock tests (`routes/mockTests.ts`, `mockTestAttempts.ts`, `admin/mockTestQuestions.ts`, `lib/mockTestGrader.ts`) | registrations, attempts, answers, marks | register, start, answer, submit, expire, mark by hand, edit the paper, publish | - | answers and submits from two devices, two examiners, a paper that changes | one graded attempt, from the answers it shows; totals are sums |
| Reading room, room bookings | deposits, monthly seats, room rows, bookings | pay, verify, refund, book, cancel, resize; request, confirm, complete | - | a deposit refunded between check and booking; a confirmation reviving a cancelled booking | a seat has a paid deposit; a room is not overfull; one holder an hour |
| Accounts and access (`routes/onboarding.ts`, `admin/users.ts`, `admin/officeBearers.ts`, triggers of 0003) | account status, employers, role assignments, office bearers | onboard, approve, delete, grant, end, list bearers | all | triggers that lock nothing; a list mirrored into roles | one employer each; singleton roles single; list and access aligned |
| Jobs (`routes/employer.ts`, `admin/jobs.ts`, `jobApplications.ts`), alerts (`lib/jobAlerts*.ts`) | postings, their payments, applications, subscriptions, `last_notified_at` | post, pay, retry, moderate, apply, review; subscribe, dispatch, digest | payments, mail | a retry re-points the posting to a new order; digest sent and process lost; timers on several machines | a collected fee buys the posting; every posting is digested, once |
| Event chat (`routes/eventChat.ts`, `lib/eventChat*.ts`) | channels, messages, reactions, mutes, sockets, quota, rate-limit buckets | open, post, edit, delete, pin, react, freeze, mute, connect, catch up, upload | sockets | frames and rows in different orders; restarts; retries by client id | a client shows the rows, and misses no message |
| Assistant (`lib/pragyaan/*`, `admin/pragyaan.ts`) | sources and chunks, audit rows, cached answers | ingest, sweep, upload, approve, retire, ask | pages, embeddings | overlapping sweeps; a failure between two writes | a sweep leaves the pages it listed indexed |
| Notifications (`lib/notify.ts`, `webpush.ts`, `routes/push.ts`) | in-app rows, deliveries, devices, the member's flag | notify, subscribe, unsubscribe, read | all | a device added while the last one goes | no member with a device is muted |
| Grievances and escalations (`routes/grievances.ts`, `lib/escalations.ts`) | tickets, routes, stages, `escalated_at` | submit, answer, sweep | notifications | overlapping and interrupted sweeps | reminded once |
| Students' desks (articleship, mentorship, scholarships, suggestions, papers) | one row each | submit, decide, confirm, cancel, vote, choose a winner | - | stale confirmations; three statements for one winner | a placement stands; a year keeps its paper |
| Treasury (bills, budgets, refunds, transfers, CABF, categories) | one row each, the roll-up | record, edit, decide, plan, delete, roll up | payments | a roll-up in two reads; edits beside decisions | each bill shown once; what was approved stays |
| Library, sign-in and tokens, audit, files, content, reports, checklist tasks, mock-test import | rows, logs, objects | one-row edits, queries, I/O | all | little | - |

Each row is one or more components of `PROJECT.json`, which names the files and says
whether they are modelled.

## 2. Modules and runs

`Requests` is the table of requests in flight that the smaller components share.
`EventSeats`, `Payments` and `ChecklistApproval` have a table of their own (their
handlers hold locks and roll back). An `MC` module composes the components that one
run checks: their states side by side, a step of one leaving the others alone
where the code gives them no common row, and each `mix` (the handlers in use
together, chosen once in Init) naming handlers that do meet.

| Run | Composes | States, time | Shows |
|---|---|---|---|
| `seats` | EventSeats | 668 820, 75 s | a free event: members, desk and capacity edits |
| `seats_paid` | EventSeats, fair | 152 515, 80 s | paid seats, groups and attendance; requests end |
| `pay_outcomes` | Payments | 989 204, 110 to 190 s | outcomes of a payment over any two paths, side by side |
| `pay_lost_calls` | Payments, fair | 70 290, 35 s | the cron settles what all other calls lost |
| `checks` | ChecklistApproval | 683 703, 50 s | sections, stages, publication, deletion, crashes |
| `branch` | ReadingRoom, RoomBookings (with Calendar), Access, ChecklistTemplates | 474 904, 80 to 150 s | deposits and seats, bookings, roles, templates |
| `careers` | MockTests (with MockTestGrader), JobPostings, JobAlerts | 690 111, 90 to 150 s | examinations, postings, applications, digests |
| `chat` | EventChat, RateLimiter, Pragyaan | 706 875, 90 to 165 s | messages and frames, limits in time, ingestion |
| `desks` | StudentDesks, Treasury, Grievances, Notifications | 403 686, 40 to 120 s | the decisions of the desks, sweeps, devices |
| `seats_double_approval`, `pay_second_attempt`, `check_rejected_stage` | one each | seconds | deviations, section 11 |

Every bound is a constant of the module, commented where it is declared. Two
requests in flight are enough for every hazard of the inventory (an interleaving
of two handlers on common rows); a third matters only for who is promoted or who
wins. Two members, rows, channels, questions or stages are what "the other one" and
"the last but one" need. Symmetry is used for workers (and orders, members,
questions) in runs of invariants and action properties only, never under fairness.
Deadlock is not checked: all inputs may stop.

### What remains

The order was what a wrong interleaving costs: a seat, money, a public event that
was not approved, an examination result; then the smaller desks. To come: proofs
for the action properties listed in section 13; tasks of checklists, series of
events and the library, which have little concurrency.

## 3. How a handler becomes actions

- `txn[w]` is the request that worker `w` serves: a program counter and what the
  handler has read. The first action of a handler is its reads and early
  returns; each following action is a statement of which a later one uses the
  result, or one that waits for a lock.
- Under READ COMMITTED a transaction's writes become visible at its commit, so
  the writes of a transaction are joined to its commit action; what its earlier
  statements lock stays locked until then and makes others wait. A statement
  that is committed by itself is an action by itself.
- A constraint that fails (unique index, CHECK, foreign key) or an exception is
  the `Rollback` of the request. A process or a connection can be lost between
  any two actions (`Abort`, `Fault`; up to the run's bound where there is one).
- Triggers are part of the statement that fires them.
- The constant `Kinds`, or the variable `mix` chosen from `Mixes` in Init, names the
  handlers in use together. The specification holds all of them; between the
  passing runs of a module all are used.
- In the modules that extend `Requests`, `txn[w]` is `Idle` or a record with `pc` and
  what the request has read. A handler of one statement, or of a transaction of
  which nobody sees the middle, is one action (`Serves`); the others begin with
  `Serve`, go on with `Hold`, and stop with `End`. `Crash` is the loss of the process.
- `Stale(w)` (or `...Fresh`, its contrary) says that a row has changed since the handler of `w` read it. Most of
  the code writes by id after such a read, without a lock or a condition, so the
  plain form of a rule ("a success stays a success") is false for it; the form
  **OnlyStaleWrites...** says that those writes are the *only* way to break the
  rule. It is the strongest true statement, it is not about the shape of the model (each
  has a mutation of one guard that breaks it), and it says what a repair must
  cover: `Stale` lists the windows one by one.
- Role and token checks are pure reads before a handler begins: an action stands for a
  caller who passed them.

## 4. Event seats

One event. `capacity`, `count` (`registered_count`) and `open` are the event's
columns, `reg[r]` the registration rows (member, status, soft delete,
cancellation request, `registered_at`), `evLock` the event row's lock held by an
unfinished transaction, `used` and `clock` the next row and time.

| Actions | Code |
|---|---|
| `RegisterRead`, `RegisterLock`, `RegisterInsert` | `POST /:slug/register` of a free event: checks, `FOR UPDATE`, insert and count |
| `WaitlistRead`, `WaitlistInsert` | `POST /:slug/waitlist` |
| `EnrollRead`, `FulfilRead`, `Insert`, `InsertCount` | the desk's `POST /registrations`; the rows `confirmPaymentAndFulfil` inserts for a group |
| `RequestRead`, `RequestStamp`, `DecideRead`, `ApproveStamp`, `RejectStamp` | cancellation requests and decisions |
| `CancelRead`, `CancelRow`, `CancelCount`, `CancelPromote` | `performRegistrationCancellation` with the promotion |
| `PatchRead`, `PatchRow`, `PatchCount` | `PATCH /registrations/:id` |
| `BulkRead`, `BulkRow`, `BulkCount`, `BulkCommit` | `POST /registrations/bulk-attended`, a loop of updates in one transaction |
| `EditCapacity`, `CloseEvent` | `PATCH /events/:id`, `POST /events/:id/cancel` |

Abstractions: share locks of foreign keys are left out (they block nothing
here); rows inserted by one statement appear together; a group's rows share
their time, so any of them may be promoted first.

Properties. `SeatDecisionHolds`: between the capacity check and the insert nobody
moves counter or capacity, so "registered or waitlisted" is still right when
written. `PromotionKeepsSeat`: the seat counted as free by a cancellation is
still free when the waitlisted member gets it. `OneActivePerUser`: no race
of member, desk and payment gives a member two live rows. `NoIdleSeat`: no registration
and no cancellation leaves a free seat and somebody waiting for it (the desk's edits
and `POST /waitlist`, which never looks at the free seats, may).
`OnlyStaleWritesBreakCount`: the counter equals the rows it counts, except after a
commit that overwrites a row changed since it was read. `EveryRequestEnds`: whatever
locks others hold.

`seats` has two members, two rows, one or two seats and the capacity edited between
them, with the self-service, the desk's status changes and the waitlist.
`seats_paid` has fulfilment of a pair or of one, enrolment, attendance in bulk and
decided cancellations, which lock row and event in opposite orders. `MaxRows`
bounds the rows ever inserted: a cancelled row stays, so two rows let one member
leave and return, or two members meet. `MaxClock` bounds the insertion times told
apart to as many as there are rows.

Fairness (`seats_paid`): `WF_vars(Statement(w) \/ Timeout(w))` for each worker.
Postgres executes the statements a request has sent; one that waits for a lock is
ended by `statement_timeout` (15 s, `src/db/client.ts`) or by the deadlock detector,
and that ends the request. Nothing is assumed of arrivals.

## 5. Payments

`pay[p]` is a payment row: status, current order, seat it is for, refund flag.
`order[o]` is what the gateway knows of an order, `declined` the orders with a
failed attempt (the gateway sent `payment.failed` for them). `row[s]` is the live registration of a
member at an event and the payment it came from; `full` says that no seat is
left there; `old` the rows older than the cron's threshold; `faults`
counts lost connections up to `MaxFaults`.

| Actions | Code |
|---|---|
| `Register`, `TestPayment`, `RegisterOrder` | the paid branch of `POST /:slug/register`, `POST /payments/test`: row, order, order id |
| `InitiateRead`, `InitiateWrite` | `POST /payments/initiate`: a fresh order for a pending row |
| `Verify`, `Webhook`, `CancelledModal`, `Reverify` | the browser's and the gateway's calls, the administrator's re-verification |
| `CronRead`, `CronNext`, `Poll` | the reconciliation cron, which asks the gateway for each row of a batch |
| `ConfirmRead`, `ConfirmRows`, `ConfirmCommit` | `confirmPaymentAndFulfil` |
| `FailRead`, `FailWrite` | `markPaymentFailed` |
| `ApproveRead`, `RejectRead`, `RejectWrite` | the queue of manual UPI payments |
| `CancelSeat`, `FlagRead`, `FlagWrite` | approve-cancellation of a paid registration |
| `Attempt`, `Capture`, `Decline` | the gateway (external) |
| `Fill`, `Age` | other members, time |

A call of the browser or the webhook is an action that may happen any number of
times, at any time after its cause, or never: that is loss, repetition and
reordering.

Abstractions: a booking is for one seat (groups are in EventSeats); the
pre-flight of `/register` is joined to its insert; a row's rejection reason
and gateway payment id are not kept; the confirmation of a job posting is in
JobPostings. `AccountedFor` leaves out two payments for the same seat
(`PaidTwice`): the second is neither refunded nor flagged by the code, and when a
stale write has failed a paid row, its second confirmation can be in the same place.

Properties. `PaidMeansCaptured`: a success, or a seat held on a payment, needs a
captured order of that very payment. `OnlyStaleWritesUnsettle`: a settled
payment is never failed or re-opened and its refund flag never dropped, except by
a write whose handler read the row earlier. `OnlyStaleWritesLoseMoney`: a payer whose
money is accounted for (seat, refund flag, or a request about to flag it)
stays accounted for, except by such a write or by the process lost between the
cancellation and its flag. `EveryCaptureSettles`: once the gateway has captured
an order its payment becomes a success.

`pay_outcomes`: two payments for two seats, two orders, two requests beside a tick of the
cron, one fault, under eight mixes: the outcome of an order over any two paths (verify,
webhook, cancelled, re-verification, cron) while it is declined or opened again, while
the event fills or the seat is given up, two administrators on one manual UPI payment,
and a manual beside an online payment. As the payments are for different seats,
`AccountedFor` speaks of each; where both are for one seat, `PaidTwice` leaves them out.
`pay_lost_calls`: two payments, two orders, two
seats, a batch of two, one fault, fair; no declines, no re-opened orders and a batch
that holds all stuck rows (section 11 says what happens otherwise). One fault is
enough: after it the system is in a state no other prefix reaches, and a second
meets the same handlers. `MaxPerTick` stands for the cron's 200; only "all fit" or
"not all fit" matters.

Fairness: statements of a request run, the cron's interval fires
(`setInterval`), rows get old. Nothing is assumed of browser, webhook or gateway.

## 6. Checklists and their templates

**ChecklistApproval.** One event-bound checklist: `status`, `deleted`, its section
`headings`, those `filled` completely, `row` (approval status of each section's row),
`owned` (sections with a filler of their own), `stage` (approval stages), the
`event`'s publication state and the `overrides` logged. No stages is per-section review.

| Actions | Code |
|---|---|
| `Release`, `ReleaseWrite`, `ReleaseStages` | `POST /:id/release` and `ensureApprovalStages`, one insert per stage |
| `ResponsesRead/Write`, `QuestionsRead/Write`, `AssignRead/Write` | the `PUT` handlers; removing a heading takes its row along; assigning wipes and recreates rows |
| `Submit`, `SubmitWrite`, `EnsureRead`, `EnsureWrite` | `POST /:id/submit`: status first, then `ensureSectionApprovalRows` |
| `Approve...`, `Reject...` | `POST /:id/approve`, `/reject`: update, recompute, commit |
| `StageApprove`, `StageReject`, `StageWrite`, `StageCommit` | `/approve-stage`, `/reject-stage` with the trigger `cascade_checklist_approval_status` (`Cascade`) |
| `FinalRead`, `FinalLock`, `FinalWrite` | `/reject-final`, which cancels the event under its row lock |
| `Reopen...`, `Delete...` | `POST /:id/reopen`, `DELETE /:id` |
| `PublishLock`, `PublishWrite`, `CancelEvent` | the event's publication and cancellation |
| `Becomes` | the trigger of migration 0056: an approved checklist publishes its event |

Abstractions: a section is complete or not (a save may do either); the caller's
permission is "some non-empty set of the rows"; one save touches one section;
questions before the first heading, task assignments, notifications, the review
log and rows from before the question snapshots are left out; publication's read of the
checklist is joined to its write.

Properties. `OnlyStaleWritesMisdecide`: a checklist becomes approved only with
the approval of every existing stage or, where there are none, of every section it
has at that moment, and a decided stage is not decided otherwise, except by a
write that follows a stale read. `OnlyStaleWritesEdit`: from the submission on
questions and answers stay, but for requests let in before it.
`EventKeepsItsEnd`: a cancelled event is never published, no checklist decision takes
a published one back, and an override is recorded only by the request that publishes.

`checks` explores, per mix, two sections under per-section review (decided, reassigned,
reopened) or one section under two stages (released, decided, reopened, rejected for
good, edited, published, deleted, crashing). With one section or one stage, no decision
can miss another's. Safety only: nothing in the code drives a checklist forward but people.

**ChecklistTemplates** (run `branch`). `template[t]` is a version with its family, flags
and questions; `instance[i]` a checklist created from one. `EditRead`, `EditDelete`,
`EditInsert` and `EditCommit` are the statements of `PATCH /:id` under the trigger
`lock_published_template_questions`; `PublishRead`, `PublishCount`, `PublishVersion`;
`CloneRead`, `CloneInsert`; `DropRead`, `DropWrite`; `UseRead`, `UseInsert`, `Finish`,
`Resubmit` are what the checklists do with a version. `OnlyStaleWritesUnlock`: a published
version's questions never change, it is published with questions and not after its
deletion, and a deleted version leaves no checklist open, but for requests overtaken
between what they or the trigger read and their commit.

## 7. Rooms and access (run `branch`)

**ReadingRoom.** `month`, `open` for booking, `deposit[s]`, `seat[s]` (the rooms and
months a student holds), `hall[r]`. `StartDeposit*`, `Utr*` are the student's requests,
`Verify*`, `RejectDeposit`, `Refund*`, `Delete*` the desk's; `BookSeatRead`,
`BookSeatLock`, `BookSeatInsert` is `POST /book`, the only one under the room's lock;
`Resize*`, `SwitchRoom`, `CreateReadingRoom`, `DeleteReadingRoom` edit rooms.
`OnlyStaleWritesUndoDeposits`: nobody keeps a seat without a deposit unless a booking or a
deletion was decided on rows that have changed since, and a student's own request
takes a verified deposit back to pending only by overwriting a row verified after it
was read. `OnlyResizingOverfills`: a room has more bookings for a month than seats only by
a resizing in a month that is not counted (`PATCH` counts future months alone), or after
bookings that its count missed. Two students, two rooms, two months, two deposits each.

**RoomBookings** and **Calendar.** `BookRoom*`, `CancelOwn`, `Confirm`, `CancelByDesk`,
`Complete` and `ChangeWrite` are the booking's handlers, which read the row and update
it by id under the EXCLUDE constraint `room_no_overlap`. `OnlyStaleWritesRevive`: a
booking leaves "cancelled" or "completed" only in an update decided on another status.
`Calendar` is what a room promises: every hour has at most one holder, a booking takes all
its hours at once when they are free, and gives all of them back at once. `KeepsCalendar`
is `Promise!Spec` with `Promise == INSTANCE Calendar WITH holder <- diary`: the
holder of an hour is the live booking whose slot has it, if there is one. Three bookings over
three hours let two overlap, touch, and one be asked for again after a cancellation.

**Access.** `account[p]`, `owned[p]` (employers), `held` (role assignments, each a
person, a role, and whether it began today), `bearer[b]` (rows of the office bearers'
list). `Onboard*` is the transaction of `POST /onboarding` under the account's row lock;
`GrantRead`, `GrantInsert`, `EndRole` the administrator's grants with the triggers of
migration 0003. A change of the list is three steps: `BearerRead` reads the row, `BearerFind`
updates it and looks for the assignment that ends, `BearerWrite` ends that one by its id,
grants and commits; a grant or an end may commit between any two. A `PATCH` holds the row
from its `UPDATE` to its commit. (Two changes that lock the row and the assignment in
opposite orders deadlock in Postgres; the one it aborts is a request without effect.)
`OneEmployerEach`: however many submissions of the form overlap.
`OnlyStaleWritesMisassign`: a second holder of a singleton role, a chairman without mcm, or
a role kept for a row that no longer lists its holder comes only from an overtaken grant
or edit (the row, or the assignment it found, is changed in the middle), from ending mcm, or
from a role granted more than once. Two people and one row of
the list: a singleton needs two, a mirrored role one.

## 8. Mock tests, jobs, alerts (run `careers`)

**MockTests** uses **MockTestGrader**: the grading of one question and of an attempt as
operators. `paper`, `version` and `standing` are the questions (edited while attempts run),
`test` the test's row, `reg` the registrations, `attempts` each student's attempts.
`Register*`, `CancelRegistration`, `EnterMarks`, `TestDesk`; `Start*`, `Save*`, `Submit`,
`Expire`, `Coerce`, `GradeRead`, `GradeWrite` (`autoSubmitAttempt`); `MarkRead`, `MarkFree`,
`MarkCommit` (an examiner's mark and the total); `Edit`, `AddQuestion`, `DeleteQuestion`,
`ReplaceOptions`. `OnlyStaleWritesOverbook`: a registration takes a place that is free, but for
two counted at once and the desk's marks. `OnlyStaleWritesReattempt`: with an attempt
submitted no other begins, and neither its answers nor the way it ended change.
`OnlyStaleWritesMisgrade`: from its submission on, an attempt has, question by question, the
marks the grader promises for the answer in the row. Late answers, replaced options,
deletions and examiners' marks of other questions, a second grader and the clock do not spoil
them; only a change of that very question or answer does, and only when it comes between the
grader's reads and its write or after it (`Overtakes`; `asked` is the paper it has read).
`OnlyStaleWritesLoseMarks`: the total is the sum of the marks. One student with two
devices is followed (`Takers`), the other competes for the one place; a choice, and a
numerical question or an essay; one replacement of options.

**JobPostings.** `posting[p]`, `bill[k]` (a payment for one), `application[p]`, `told[p]` (the
latest mail). `CreatePosting`, `Retry*`, `Close`, `DeletePosting`, the desk's `AdminCreate`,
`PatchRead`, `ActivateRead`, `DeskWrite`; `ConfirmRead`, `ConfirmCommit` (the job branch of
`confirmPaymentAndFulfil`), `Dispatch`; `Apply*`, `Withdraw`, `Review*`.
`OnlyStaleWritesUndo`: a fee that is collected has its posting published or is flagged,
and a closed posting comes back only by the desk's PATCH, by a fee paid late, or by a stale
activation. `OnlyOverlappingReviewsMisinform`: the latest mail an applicant has is the
application's status.

**JobAlerts** takes postings from there. `sub[u][k]` is a subscription, `now` the instant (four
ticks of the timer fall in the hour from seven; `Day` instants make a day), `digests` and
`digested` what was mailed. `SweepRead`, `SweepMail`, `SweepStamp` are the daily digest of each
machine, `LoseSweep` a process lost in it. `EveryPostingDigested`: a posting that is active
from its insertion is in a digest of every user whose daily subscription stands, within a
day and a tick. A sweep is taken to be shorter than a tick, and the property is about
mixes without payment, desk, closing, deletion, loss, and changes of the subscription:
with them it is false (section 11). `OnlyStaleSweepsRepeat`: nobody is mailed two digests on
a date while nobody subscribes, but by sweeps that overlap or after one was lost.
`MaxTime` is nine instants: a
posting before a midnight, the whole next hour of ticks, and the one after.

## 9. Chat, rate limit, assistant (run `chat`)

**EventChat.** One event on one process. `channel`, `post` and `liked` are rows, `view[u][m]`
what a client shows, `socket[u]` its connection and the `since` it catches up from. `SendRead`,
`SendInsert`, `Announce`: the row, then the frame; `ChangeRead`, `ChangeWrite`, `ChangeFrame`
(edit, delete, pin, answer), `React*` likewise; `Connect`, `Disconnect`, `Catchup`,
`Restart`; `EnsureRead`, `EnsureInsert` (default channels when the chat is opened), channel
moderation, `Upload*`. `OnlyDoubleOpensDuplicate`: one channel of each default kind,
unless two open the chat at once. `OnlyOvertakenFramesMislead`: a client that kept its
connection shows the rows as they are, or the frame with the difference is on its way, unless
frames overtake each other. `OnlyOvertakenMessagesAreMissed`: a message reaches a client
at the latest when it has caught up, unless one with a later `created_at` overtakes it, or
the catch-up it missed it in is cut (`CutOff`): an answer holds the oldest `CatchupLimit`
messages of a channel after `since` (`Answered`), and nobody asks for the rest.
Bounds: two messages (a second and a reply are flags of a mix), two edits each, one author
per client id, and catch-ups of one message, so that two missed ones are more than a catch-up
returns.

**RateLimiter.** `bucket[k]` is the log of a key, `granted[k]` every call let through.
`Call`, `Pass` and the sweep are `checkRate` and `sweepBucketsIfNeeded`. `RateKept`: no
window of time lets through more calls than the limit, whatever the sweep has forgotten.
Two keys, a limit of two in a window of two, a table of one, six instants: the
sweep, a refusal and a window that slides all happen.

**Pragyaan.** `source[i]` is a row of `kb_sources` with its chunks, `audited` its audit
rows, `answer` the cached ones. `Find`, `Skip`, `Insert`, `Update`, `Index`, `Fail`,
`LogIngest` are an ingestion, which a sweep repeats for each public page; `Upload`, `Reindex`,
`Decide`, `ApproveWrite`, `LogDecision`, `Retain`; `Ask`, `Generate`. `SweepsRepair` has
two parts. A sweep that ends has every page it listed indexed under the text it listed, but
for those whose embedding failed in it, whatever failures, crashes, rejections and overlaps
came before; the exception is a sweep during which somebody else wrote the text or the status
of such a source (`stirred`, a history variable). And a source that is indexed has the chunks
of its text, except that an ingestion whose source was given a new text since its upsert
writes the chunks of the older one, and that an approval declares indexed what is not
(`Mislabelled`). What the first part does not say is that the chunks are right: the text
alone decides whether a sweep passes a source over (`ingest.ts:218`), so what an overlap of
two ingestions has mislabelled stays so until the page changes (section 11). Each of the
three exceptions is needed: without it TLC finds a counterexample. Two requests of one
page overlap, fail and are lost; one sweep lists two pages.

## 10. Desks, treasury, grievances, notifications (run `desks`)

**StudentDesks.** Articleship matches, mentorship, scholarships, suggestions with votes, the paper
of the year. Most handlers are one UPDATE whose WHERE is the guard; `ConfirmPlacement*`,
`Assign*`, `Apply*`, `Suggest*`, `Vote*`, `DeleteTopic*` and the winner's (`UnsetPrevious`,
`PaperWrite`) read or write first. `OnlyStaleConfirmsReplace`: a placement names the firm
for good, a cancelled match stays cancelled, an assigned mentor is not replaced, but for a
confirmation whose match has changed. `OnlyFailedWritesDethrone`: a year that has its paper
keeps one, unless the write after the unsetting fails or is lost.

**Treasury.** `bill`, `budget`, `category`, `refund`, `transfer`, `assistance`. A decision is one
guarded UPDATE (`DecideBill`, `DecideRefund`, `DecideTransfer`, `DecideAssistance`); `Edit*`,
`Plan*`, `DeleteCategory*` read first; `RollupRead`, `RollupShow` is `GET /rollup`, two reads.
`RollupsShowOnce`: the roll-up shows each bill that counts in exactly one place, whatever was
planned or decided between its reads (sums are replaced by this statement for each bill,
from which every sum follows). `OnlyStaleEditsRestate`: what was approved on a line is spent
there for good, but for the writes of stale requests.

**Grievances.** `ticket[n]`, `route`, `stage`, with the two hourly sweeps: `GrievanceSweep`,
`Mail`, `Stamp`; `StageSweep`, `NotifyChair`, `NotifyNone`, `MarkStage`.
`OnlyOverlappingSweepsRepeat`: a sweep reminds nobody twice of one item, and of none that is
answered, unless the item has changed since it was listed, another sweep is between its message
and its stamp, or one was lost there.

**Notifications.** `notice[n]` with its delivery rows, `device[e]`, `wants` (`notify_push`).
`Notify`, `InsertNotice`, `InApp`, `Email`, `SkipChannel`, `Devices`, `Push`, `Drop` are `notify`
channel by channel; `Subscribe`, `OptIn`, `Unsubscribe`, `Count`, `OptOut` the devices.
`OnlyStaleCountsMute`: no request about devices switches push off for a member who has a
device, but for one that subscribes while the last other one is counted.

## 11. Where the code differs from what it says

Three runs end in a counterexample to something a comment of the code says; each is
listed with the quotation under `findings` in `PROJECT.json`.

- `seats_double_approval` (`CancelledOnce`): two approvals of one request both pass
  the pre-flight; the second cancels a cancelled row, moves the counter again and
  may promote a member into a seat that is taken.
- `pay_second_attempt` (`EveryCaptureSettles`): the cron fails a row when the newest
  attempt failed; an order accepts another attempt, and nothing polls a failed row.
- `check_rejected_stage` (`RejectedCanBeFixed`): a resubmission does not reset a
  rejected stage, and only an administrator's reopening does.

The other windows are those `Stale` names and the premises of the properties;
dropping the premise, or adding the handler to the run's `Kinds` or mixes, makes TLC print
the steps. The ones worth a reader's time:

- **Payments.** A failure read before a confirmation commits fails a paid row
  (`confirm.ts:365`); a second confirmation erases the refund flag of the first
  (`confirm.ts:254`). `/initiate` replaces the id of an order that can still be paid
  (`payments.ts:86`), whose capture is then unknown to every path. Abandoned rows stay pending
  and can fill the cron's unordered batch (`paymentReconciliationCron.ts:49`). The flag of a
  cancelled paid seat is a statement after the commit (`admin/events.ts:822`): lost with the
  process, it is never repeated. Joining the waitlist of a paid event takes no payment, and a
  later promotion seats the member for free (`registrations.ts:785`).
- **Checklists.** Two overlapping approvals of the last two sections (or stages) each see the
  other as pending, and the checklist stays under review, though the comment at
  `checklistInstances.ts:1863` calls the flip atomic. An edit let in before a
  submission changes what is under review (`:1204`). Stages lost with the process
  during the release are not created again and are not asked for (`:941`). The event can be
  published between the check and the write of a deletion (`:2296`). A section's filler
  submits while other sections are open (`:1666`).
- **Templates.** A forced deletion also ends checklists that are finished, though the comment says
  the live ones; a deleted version can be cloned; a rejected checklist of a deleted
  template can be resubmitted. `PUT` of responses overwrites a task's status although
  `checklistTasks.ts:26-29` says that an untouched row survives.
- **Reading room.** `PATCH` of a capacity ignores the current month; a refund keeps the
  current month's seat.
- **Room bookings.** Availability hides completed bookings though the constraint counts them.
- **Access.** The INSERT of `syncRoleAssignment` names no branch, so the trigger refuses it for
  a role scoped to one, although migration 0039 says that it "creates an active
  user_role_assignment". Editing a hidden bearer ends the role however it was granted; one
  row's end ends a role another row lists; ending mcm leaves the chairman; a grant
  dated in the future is active at once; deleted users keep roles; a role may be granted twice on
  different days; `loadUserPermissions` keeps permissions for two seconds where a comment
  says "We deliberately do NOT cache across requests".
- **Mock tests.** Publication ignores open attempts and a start ignores publication; a mark given
  before the submission is lost in the total; repeated option ids are graded wrong. A wrong
  choice costs its negative marks "(clamped at 0)" (`mockTestGrader.ts:8`), but nothing is clamped
  in the code (`:88`), whose last comment says the same of the sum (`:106-108`): a single wrong
  answer can leave an attempt below zero. `Promised` is the header's rule without those words;
  replaced options get new ids; `MAX(question_no) + 1` without a lock may give one number twice.
- **Jobs.** An old order stays payable, so a second fee may be collected unflagged and
  alerts dispatched again; a confirmation reopens a closed or a draft posting; an employer's
  `PATCH` may change the kind without a fee. A posting paid more than a day after its creation
  is in no digest, and a process lost for the whole hour of ticks loses the day's
  postings, although `jobAlertsCron.ts:176-178` says that they wait until tomorrow.
- **Chat.** A catch-up is said to return "every message in the channel with `created_at > since`"
  (`eventChat.ts:1253-1254`), but it stops after the oldest 500 (`:1278`, "safety net; in practice
  this'll be a handful"), and nothing tells the client that there are more: what is beyond them
  is lost to it until the channel is opened anew. The chat deletes a reaction by the id of
  the row it has read (`:867`); `liked` has no ids, so a reaction taken back and given again
  in between goes in the model, where the code deletes nothing and sends a frame "removed" that
  is overtaken in the sense of the property. `ensureChannels` is called idempotent, but two opens duplicate a channel; a
  client that was offline misses edits and deletions of what it has; the retry of a deleted
  message's `client_id` answers 500; quota is never given back, and an upload's count is
  lost with the process; frames reach the sockets of one process only.
- **Assistant.** Two overlapping ingestions of a page that changes may leave its source indexed
  under the new text with the chunks of the old one, and every later sweep skips it as unchanged
  (`ingest.ts:217-220`). Sources of unpublished pages are never retired; a failed ingestion may leave no
  audit row; a re-index inserts a new source; the approvals queue does not filter by
  status; `loadPriorTurns` takes the first six turns; a cached answer may outlive its source by three minutes.
- **Desks.** The paper's winner is chosen "transactionally" in three statements, and
  "a concurrent write never trips this constraint" but two creations do; scholarship reviews
  and withdrawals, and the completion of a mentoring, are blind writes; an administrator's
  cancellation keeps the placed firm; `mentorship.ts:102-113` lets a student cancel after
  the scheduling; the weekly cap of suggestions, counted before the insert, may be exceeded.
- **Treasury.** (The run has one amount, since two with two bills are out of reach of TLC: that an
  approved bill keeps its amount is shown by the theorem.) Submission, approval and payment ignore `deleted_at`; several refunds may add up
  to more than their payment (`refunds.ts:122`); the CABF `PATCH` is blind.
- **Grievances.** A grievance "gets one nudge email", but `sendEmail` never throws, so a failed
  mail is stamped as sent; `nextTicketNo` says that concurrent submissions cannot collide, and
  they can.
- **Notifications.** "Row is always written" is false when the template is missing or disabled.

## 12. Proofs

The theorems hold for every value of the constants that satisfies the named
assumption of the module (sets of members, rooms, questions or rows of any size,
any number of requests in flight, any mixes of handlers, any bounds). The
assumptions only say what the constants are: `None` and `Nobody` are no members, some
sets are finite, bounds are numbers. Each proof module extends its component and
states the theorems about the component's own specification, `Init /\ [][Next]_vars`
with the same actions that the runs compose.

| Module | Theorem | States | Establishes |
|---|---|---|---|
| `EventSeats_proofs` | `TypeCorrect` | `TypeOK` | In every reachable state capacity, counter, rows, locks and requests are of their types, for any members, workers and bounds. |
| `EventSeats_proofs` | `OneRegistrationEach` | `OneActivePerUser` | No interleaving of the handlers that insert rows gives a member two live registrations of one event. |
| `EventSeats_proofs` | `DecisionsHold` | `SeatDecisionHolds` | The seat-or-waitlist decision is still right when the row is written, because the event row stays locked in between. |
| `EventSeats_proofs` | `PromotionsHold` | `PromotionKeepsSeat` | The seat a cancellation frees is still free when the promotion it decided on is written. |
| `EventSeats_proofs` | `CounterExact` | `OnlyStaleWritesBreakCount` | registered_count leaves the rows it counts only in a commit that overwrites a row changed since the handler read it. |
| `EventSeats_proofs` | `SeatsFill` | `NoIdleSeat` | No registration and no cancellation leaves a free seat and somebody waiting for it. |
| `Payments_proofs` | `TypeCorrect` | types | Payment rows, seats, orders, captures and every request's locals keep their types under all five paths, for any number of payments and orders. |
| `Payments_proofs` | `SettledIsCaptured` | `PaidMeansCaptured` | A payment is a success, and a seat is held on it, only after the gateway captured an order of that payment, whatever calls are lost, repeated or reordered. |
| `Payments_proofs` | `SettledStays` | `OnlyStaleWritesUnsettle` | A settled payment is re-opened, failed or loses its refund flag only in a write from a row read before it was settled. |
| `Payments_proofs` | `MoneyStaysAccounted` | `OnlyStaleWritesLoseMoney` | A payer is left with neither the seat nor a refund in sight only by a write from a stale read or a process lost before the flag. |
| `Rooms_proofs` | `CancelledStays` | `OnlyStaleWritesRevive` | A cancelled or completed booking comes back only in an update decided on another status. |
| `Rooms_proofs` | `RoomsKeepCalendar` | `KeepsCalendar` | The booking handlers under the EXCLUDE constraint implement Calendar: an hour has at most one holder, and a booking takes and gives back all of its hours at once. |
| `Rooms_proofs` | `DepositsStand` | `OnlyStaleWritesUndoDeposits` | A seat outlives its deposit, or a verified deposit goes back to pending, only by a request whose rows have changed since it read them, for any number of students and rooms. |
| `Rooms_proofs` | `RoomsFit` | `OnlyResizingOverfills` | A room has more bookings for a month than seats only after the desk made it smaller, in a month that is not counted or after bookings the count has missed. |
| `ChecklistApproval_proofs` | `TypeCorrect` | types | The checklist, its section rows, stages and the requests keep their types, and only headings of the form have rows, for any sections, stages and handlers. |
| `ChecklistApproval_proofs` | `ApprovalsSigned` | `OnlyStaleWritesMisdecide` | A checklist is approved without an approval it needs, or a stage decided one way is decided the other way, only by a write that follows from a stale read. |
| `ChecklistApproval_proofs` | `AnswersStay` | `OnlyStaleWritesEdit` | From the submit to the decision, sections and answers change only in a request let in before the submit. |
| `ChecklistApproval_proofs` | `EventEnds` | `EventKeepsItsEnd` | A cancelled event is never published, no checklist decision takes a published one back, and an override is recorded only by the request that publishes. |
| `Branch_proofs` | `OneEmployer` | `OneEmployerEach` | However many submissions of the onboarding form overlap, nobody comes to own a second employer. |
| `Branch_proofs` | `AccessAligned` | `OnlyStaleWritesMisassign` | A second holder of a singleton role, a chairman without mcm, or a role kept for a row that no longer lists its holder comes only from an overtaken grant or edit, from ending mcm or from a role granted more than once. |
| `Branch_proofs` | `VersionsLocked` | `OnlyStaleWritesUnlock` | A published version of a template never changes its questions, is published with questions and not after its deletion, and a deleted one leaves no checklist open, except by requests another has overtaken. |
| `Chat_proofs` | `LimitHolds` | `RateKept` | No window of time lets through more calls of a key than its limit, whatever buckets the sweep has forgotten. |
| `Chat_proofs` | `DefaultsOnce` | `OnlyDoubleOpensDuplicate` | A second channel of one default kind is made only by two opens of an event's chat that both found it missing. |
| `Chat_proofs` | `ClientsMirror` | `OnlyOvertakenFramesMislead` | A client connected since it opened the chat shows each row as it is or has the frame with the difference on its way, unless a frame is sent after a later change of its message, for any numbers of messages, members and edits. |
| `Chat_proofs` | `MessagesReach` | `OnlyOvertakenMessagesAreMissed` | Whatever connections and processes are lost, a client has each message, or will have it from its frame or its catch-up, unless the message is committed or told after a later one, or more messages are before it in a catch-up than one answer holds, whatever that limit. |
| `Chat_proofs` | `SweepsDo` | `SweepsRepair` | After any overlaps, failures, decisions and crashes, a sweep during which nobody else writes the text or status of a source it is about ends with every page it listed indexed under the text it listed, but for those whose embedding failed in it; and a source gets the chunks of another text than it is indexed under only from an ingestion that was overtaken or from the approval of a source that was not indexed. |
| `Careers_proofs` | `PostingsDelivered` | `EveryPostingDigested` | Every posting that stays active is in a digest of every user whose daily subscription stands, within a day and a tick of its insertion, on any number of machines. |
| `Careers_proofs` | `ClosedPostingsStay` | `OnlyStaleWritesUndo` | A fee that is collected publishes its posting or is flagged for a refund, and a closed posting is activated only by the desk or by a late fee, unless a request writes what it read before a change. |
| `Careers_proofs` | `ApplicantsInformed` | `OnlyOverlappingReviewsMisinform` | The status an applicant is told of is the one the application then has, unless reviews of it overlap. |
| `Careers_proofs` | `PlacesKept` | `OnlyStaleWritesOverbook` | A registration takes a place that is free, unless another one was written after it had counted, for any capacity and any number of students. |
| `Careers_proofs` | `OneAttemptEach` | `OnlyStaleWritesReattempt` | With an attempt submitted no other one begins, and neither its answers nor the way it ended change, except by a write that comes after it. |
| `Careers_proofs` | `GradedFairly` | `OnlyStaleWritesMisgrade` | From its submission on, an attempt has for each objective question the marks the grader promises for the answer in the row, for any questions, keys, tolerances, answers, graders, examiners and edits of the paper, unless that very question or its answer changes after a grader has read them or an examiner marks it. |
| `Careers_proofs` | `TotalsAreSums` | `OnlyStaleWritesLoseMarks` | The total of a submitted attempt is the sum of its marks, objective and manual, for any finite set of questions and any marks, unless they changed after they were summed or one was given before the submission. |
| `Careers_proofs` | `DigestsOnce` | `OnlyStaleSweepsRepeat` | A user has a second digest on one day only from a list read before the first was stamped, from rows changed between the mail and its stamp, or, once each, after a sweep was lost, on any number of machines, while nobody subscribes. |
| `Desks_proofs` | `RollupShows` | `RollupsShowOnce` | Whatever is planned, deleted, booked or decided between the rollup's two reads, it shows each bill that counts in exactly one place. |
| `Desks_proofs` | `ApprovedStays` | `OnlyStaleEditsRestate` | An approved bill stays spent on the line it was approved on, unless an edit or a category's deletion has been overtaken. |
| `Desks_proofs` | `AnswersStand` | `OnlyStaleConfirmsReplace` | A placement, an assigned mentor and a cancelled match stay, unless a firm confirms a match that has changed since its request read it. |
| `Desks_proofs` | `YearsCrowned` | `OnlyFailedWritesDethrone` | A year with a winning paper keeps one, unless the second write of a change of winner fails or is lost, or somebody takes the mark away. |
| `Desks_proofs` | `RemindedOnce` | `OnlyOverlappingSweepsRepeat` | A sweep reminds nobody twice of one grievance or stage, and of none that is answered, unless it changed since it was listed, another sweep has sent and not stamped, or one was lost there; for any number of machines and items. |
| `Desks_proofs` | `PushStays` | `OnlyStaleCountsMute` | A member with a device keeps push on, unless a device is subscribed while the unsubscription of another has counted none. |

No property is inductive as it stands. The pattern is the same everywhere: an
invariant says what a request in flight still knows of what it has read, every
action of every handler keeps what the others know, and the property follows from
that knowledge at the statement that writes.

- **EventSeats.** `IInv` adds `LocalsOK` (what a request remembers fits where it stands),
  `FreshRows` (rows are inserted in the order of their ids), `BulkHoldsEvent` (a bulk
  update past its first counted row holds the event, so the counter it has checked is the
  one it moves), and `KeysHeld` (the members of an uncommitted insert have no live row, and
  no other uncommitted insert has them). `SeatDecisionHolds` and `PromotionKeepsSeat` are
  parts of it because a decision under the event's lock survives the steps of others
  exactly when they respect that lock. `CounterExact` goes action by action: each commit
  changes the counter by the number of rows that enter or leave the counted statuses, a
  fact about cardinalities as long as the row is still what the handler read.
- **Payments.** A request knows its payment only from an earlier read, so everything it relies on
  is put in stable terms (`Kept`): a row once inserted stays and keeps its seat, an order
  belongs to one payment for ever, a capture is final. `IInv` says what rows,
  registrations and requests know in those terms, and a step of one request keeps what the
  others know (`OthersKnow`).
- **Rooms.** Of RoomBookings: no two live bookings overlap, because the constraint is asked in the
  statement that writes; a request names a row that was inserted and stays; a step of the
  handlers is then a `Take`, a `Release` or no step of Calendar. Of ReadingRoom: the room's lock
  keeps the count a booking has made (`Booking`), and `ReadingTxn` says which deposits each
  kind of request may have read.
- **Access and templates.** `LookupHolds`: two submissions of a person are never both between
  the lookup of the employer and its insertion, by the account's lock. `TriggersPassed`: what the
  triggers let pass was so when they read; the premise says that it still is when written.
  Of templates, `EditTxn`: an edit whose triggers saw the version published has nothing to
  write, and `DropTxn`: a deletion without the cascade has read that no checklist is live.
- **ChecklistApproval.** `Checked` (the status a request was let in with and what an approval
  in its transaction rests on), `Finds` (the rows it holds ids of still exist) and
  `EventLocked` (who has the event's row).
- **JobAlerts.** A posting is due at the first tick of the day after its insertion (`NextDay`): it is
  still recent then, nobody has had that day's digest, and the clock does not pass the tick
  before a machine has swept. While it is due, each user has it or is on the list of a
  sweep that carries it (`Delivery`). That nobody is mailed twice is a matter of counting: a
  machine has at most one digest in hand that it has mailed and not stamped, and a user without
  today's stamp has had no more digests today than sweeps were lost and stamps are to come
  (`MailsInv`, `Counted`).
- **JobPostings.** `PostingsInv`: a bill keeps its posting, an activation has not met a closed
  one, and an application is not taken out, each as long as the rows are what the request read.
- **MockTests.** `ExamsInv` says what a request has checked of the attempt it writes to, and
  that attempts are only added. The grader is a lemma of its own: for every well-posed question
  and readable answer its marks are those promised (`AsPromised`), by counting the options that
  an answer names. A total is a fold that takes the questions in an order of its own; `SumStep`
  unfolds it once, and induction over the subsets of the questions (`BySubsets`, from the
  well-foundedness of strict inclusion) shows that the order makes no difference (`SumAny`) and
  that the questions of one sort and the others add up to all (`SumSplit`).
- **RateLimiter.** `Remembers`: the log of a key is the end of what was granted, and what is
  missing in front of it is older than the window, so neither the loop that shifts the log nor
  the sweep drops a call that counts. `Spaced`: a granted call comes more than a window after the
  one granted `MaxCalls` before. The window that would refute `RateKept` has a first call,
  and the call `MaxCalls` later is outside it.
- **EventChat.** `Stamped`: no two messages have one time, not even one that is being inserted.
  `Behindhand`: a client shows a message with its time and asks since no later than its newest.
  So a message that is not overtaken is newer than all that any client has (`AheadOf`), and the
  next catch-up asks for it, and has it unless the answer is cut before it. A frame carries the field its write has changed, so it repairs
  exactly the difference that its write has made.
- **Pragyaan.** A source never goes and is never another page's (`Stay`), and a sweep lists a page
  once (`IngestTxn`). `CalmTxn`: while nobody has stirred a sweep, the pages it is done with are
  `Listed` and its own source says what it is about to index; a step of another worker
  either leaves the text and the status of those sources or stirs the sweep (`CalmStays`), so
  one lemma stands for every other action, and the sweep's own writes go to another page's
  source (`WriteOwn`). `LabelsKept`, the second part, is proved action by action.
- **Treasury.** `DistinctLines`: no two budgets plan one line, by the unique constraint that two
  requests meet which both found none, and a roll-up keeps this of what it has read
  (`TreasuryTxn`). An edit has read a draft of a bill that is there (`EditedBills`).
- **StudentDesks.** `StudentInv`: a placement and a mentor come only with their statuses, and a
  confirmation holds the row it found matched. Of papers, a step that takes the mark from the
  year's winner has promised another one (`Keeps`).
- **Grievances.** A sweep holds items that were due and not stamped as it listed them
  (`SweepTxn`), and what was sent is stamped or about to be (`Told`).
- **Notifications.** `NoticeInv`: an unsubscription that switches push off has counted no device.

## 13. What is only model-checked, what is not modelled

Only model-checked:

- `EveryRequestEnds` and `EveryCaptureSettles`: liveness under fairness, with
  `ENABLED` in the fairness of the first, is out of the prover's reach.
- `EveryRequestEnds` and `EveryCaptureSettles` are the only properties of the passing runs that
  no theorem states.

Not modelled:

- The components marked `not_modelled` in `PROJECT.json`, each with its reason: the library
  and content pages (one-row edits), sign-in and tokens (exchanges with the identity
  provider, single reads and one guarded insert), series of events, tasks of checklists,
  the import of a test (parsing), audit, files, reports, seeds.
- Inside the modelled components: check-in codes, feedback, certificates, listings and
  exports, invoices, tasks, wording and logs; the weekly digest and its filters; reads,
  reports, search, mentions, presence and typing in the chat; conversations, feedback,
  retrieval scores and prompts of the assistant; vendors and the amount of a budget;
  reassigned checklists. They decide nothing the properties are about.
- Statements that were considered and are false of the code are described in section 11
  as deviations instead of being weakened: one override per publication, sections that
  settle, a stamp for mailed items only, early cancellations by students.
- The database beyond READ COMMITTED with row locks, unique keys, checks and
  triggers: no replication lag, no loss of committed data.
