----------------------------- MODULE RateLimiter -----------------------------
(***************************************************************************)
(* The chat's rate limit: checkRate and sweepBucketsIfNeeded of            *)
(* lib/eventChatHelpers.ts, a sliding log of the calls that were let       *)
(* through, in the memory of one process.                                  *)
(***************************************************************************)
EXTENDS Naturals, Sequences, FiniteSets

CONSTANTS
    Keys,          \* action, user and event
    MaxCalls,      \* calls a window lets through
    Window,        \* windowMs, and MAX_WINDOW_MS: every limit has the same
    MaxBuckets,    \* BUCKETS_MAX
    LastInstant    \* bound: the end of time

ASSUME RateLimiterAssumption ==
    /\ MaxCalls \in Nat \ {0} /\ Window \in Nat \ {0}
    /\ MaxBuckets \in Nat /\ LastInstant \in Nat

VARIABLES
    instant,
    bucket,     \* bucket[k]: instants of the calls that are remembered
    granted     \* granted[k]: instants of all calls that were let through

limiter == <<instant, bucket, granted>>

LimiterTypeOK ==
    /\ instant \in 0 .. LastInstant
    /\ bucket \in [Keys -> Seq(0 .. LastInstant)]
    /\ granted \in [Keys -> Seq(0 .. LastInstant)]

LimiterInit ==
    /\ instant = 0
    /\ bucket = [k \in Keys |-> <<>>]
    /\ granted = [k \in Keys |-> <<>>]

Old(t) == t + Window < instant

\* Mutant: a bucket is inactive when its oldest call has left the window.
InactiveFirst(k) == bucket[k] = <<>> \/ Old(bucket[k][1])

Inactive(k) == bucket[k] = <<>> \/ Old(bucket[k][Len(bucket[k])])

\* With too many buckets some of the inactive ones go; at most once a second,
\* and no more than are needed.
Swept(forgotten) ==
    /\ Cardinality({k \in Keys : bucket[k] # <<>>}) >= MaxBuckets
    /\ forgotten \subseteq {k \in Keys : Inactive(k)}

Remembered(k, forgotten) == IF k \in forgotten THEN <<>> ELSE bucket[k]

\* The first n entries leave the log: those older than the window.
Shifts(log, n) ==
    /\ \A i \in 1 .. n : Old(log[i])
    /\ n < Len(log) => ~Old(log[n + 1])

Call(k) ==
    \E forgotten \in SUBSET Keys :
       LET log == Remembered(k, forgotten)
       IN  /\ forgotten = {} \/ Swept(forgotten)
           /\ \E n \in 0 .. Len(log) :
                 LET calls == SubSeq(log, n + 1, Len(log))
                     allowed == Len(calls) < MaxCalls
                 IN  /\ Shifts(log, n)
                     /\ bucket' = [j \in Keys |->
                           IF j # k THEN Remembered(j, forgotten)
                           ELSE IF allowed THEN Append(calls, instant) ELSE calls]
                     /\ granted' = IF allowed THEN [granted EXCEPT ![k] = Append(@, instant)] ELSE granted
                     /\ UNCHANGED instant

Pass ==
    /\ instant < LastInstant
    /\ instant' = instant + 1
    /\ UNCHANGED <<bucket, granted>>

LimiterNext == Pass \/ \E k \in Keys : Call(k)

LimiterSpec == LimiterInit /\ [][LimiterNext]_limiter

\* No window lets through more calls than the limit, whatever the sweep has
\* forgotten.
RateKept ==
    \A k \in Keys, from \in 0 .. LastInstant :
        Cardinality({i \in DOMAIN granted[k] : granted[k][i] \in from .. from + Window}) <= MaxCalls
=============================================================================
