------------------------------ MODULE Chat_proofs ------------------------------
(***************************************************************************)
(* Proofs about the rate limiter, the chat and the assistant, each for any *)
(* constants its assumptions allow.                                        *)
(*                                                                         *)
(* RateLimiter: the log of a key is the end of the sequence of calls it    *)
(* was granted, and what is missing in front of it is older than the       *)
(* window (Remembers), so a call that finds fewer than MaxCalls in its log *)
(* comes more than a window after the one granted MaxCalls before it.      *)
(*                                                                         *)
(* EventChat: no two messages have one time, not even one that is being    *)
(* inserted (Stamped); a client shows a message with its time and asks     *)
(* since no later than the newest it has (Behindhand).  So a message that  *)
(* is not overtaken is newer than all that any client has (AheadOf), and   *)
(* the next catchup asks for it.                                           *)
(*                                                                         *)
(* Pragyaan: a source never goes, nor is it another page's, and a sweep    *)
(* lists a page once.  So what a sweep is done with stays in the index as  *)
(* long as nobody else writes the text or the status of those sources,     *)
(* which is what stirred remembers (CalmTxn); and whoever writes a source  *)
(* writes the label and the chunks that LabelsKept allows.                 *)
(***************************************************************************)
EXTENDS EventChat, RateLimiter, Pragyaan, FiniteSetTheorems, FunctionTheorems, WellFoundedInduction, TLAPS

-----------------------------------------------------------------------------
(* The rate limiter.                                                       *)

\* The times of the calls granted never go back.
Ordered(g) == \A i, j \in 1 .. Len(g) : i <= j => g[i] <= g[j]

Past(g) == \A i \in 1 .. Len(g) : g[i] <= instant

Spaced(g) == \A i \in 1 .. Len(g) : i + MaxCalls <= Len(g) => g[i] + Window < g[i + MaxCalls]

\* The log b ends what was granted, and the rest of it is old.
Remembers(b, g) ==
    /\ Len(b) <= Len(g)
    /\ \A i \in 1 .. Len(b) : b[i] = g[Len(g) - Len(b) + i]
    /\ \A i \in 1 .. Len(g) - Len(b) : Old(g[i])

LimiterInv ==
    /\ LimiterTypeOK
    /\ \A k \in Keys :
          /\ Ordered(granted[k]) /\ Past(granted[k]) /\ Spaced(granted[k])
          /\ Remembers(bucket[k], granted[k])

Times == 0 .. LastInstant

LEMMA TimesAreNumbers ==
    /\ Times \subseteq Nat
    /\ \A g \in Seq(Times) : \A i \in 1 .. Len(g) : g[i] \in Times /\ g[i] \in Nat
<1>1. Times \subseteq Nat
  BY RateLimiterAssumption DEF Times
<1>2. ASSUME NEW g \in Seq(Times), NEW i \in 1 .. Len(g) PROVE g[i] \in Times
  <2>1. g \in [1 .. Len(g) -> Times]
    OBVIOUS
  <2>2. QED
    BY <2>1
<1>3. QED
  BY <1>1, <1>2

-----------------------------------------------------------------------------
(* One key.                                                                *)

\* A call granted now, when the log holds fewer than MaxCalls.
LEMMA GrantKeeps ==
    ASSUME instant \in Times, NEW g \in Seq(Times), NEW b \in Seq(Times),
           Ordered(g), Past(g), Spaced(g), Remembers(b, g), Len(b) < MaxCalls
    PROVE  LET h == Append(g, instant)
           IN  /\ h \in Seq(Times) /\ Append(b, instant) \in Seq(Times)
               /\ Ordered(h) /\ Past(h) /\ Spaced(h)
               /\ Remembers(Append(b, instant), h)
<1> DEFINE h == Append(g, instant)
           c == Append(b, instant)
<1>1. /\ h \in Seq(Times) /\ Len(h) = Len(g) + 1 /\ Len(g) \in Nat
      /\ \A i \in 1 .. Len(g) : h[i] = g[i]
      /\ h[Len(g) + 1] = instant
  OBVIOUS
<1>2. /\ c \in Seq(Times) /\ Len(c) = Len(b) + 1 /\ Len(b) \in Nat
      /\ \A i \in 1 .. Len(b) : c[i] = b[i]
      /\ c[Len(b) + 1] = instant
  OBVIOUS
<1>3. \A i \in 1 .. Len(g) : g[i] \in Nat
  BY TimesAreNumbers
<1>4. instant \in Nat /\ MaxCalls \in Nat /\ MaxCalls > 0 /\ Window \in Nat
  BY RateLimiterAssumption DEF Times
<1> HIDE DEF h, c
<1>5. Ordered(h) /\ Past(h)
  <2>1. \A i \in 1 .. Len(h) : h[i] <= instant
    BY <1>1, <1>3, <1>4 DEF Past
  <2>2. ASSUME NEW i \in 1 .. Len(h), NEW j \in 1 .. Len(h), i <= j
        PROVE  h[i] <= h[j]
    <3>1. CASE j = Len(g) + 1
      BY <1>1, <2>1, <3>1
    <3>2. CASE j \in 1 .. Len(g)
      <4>1. i \in 1 .. Len(g)
        BY <1>1, <2>2, <3>2
      <4>2. QED
        BY <1>1, <2>2, <3>2, <4>1 DEF Ordered
    <3>3. QED
      BY <1>1, <3>1, <3>2
  <2>3. QED
    BY <2>1, <2>2 DEF Ordered, Past
<1>6. Spaced(h)
  <2>1. ASSUME NEW i \in 1 .. Len(h), i + MaxCalls <= Len(h)
        PROVE  h[i] + Window < h[i + MaxCalls]
    <3>1. i \in 1 .. Len(g) /\ h[i] = g[i]
      BY <1>1, <1>4, <2>1
    <3>2. CASE i + MaxCalls = Len(g) + 1
      <4>1. i \in 1 .. Len(g) - Len(b)
        BY <1>1, <1>2, <1>4, <3>1, <3>2 DEF Remembers
      <4>2. Old(g[i])
        BY <4>1 DEF Remembers
      <4>3. QED
        BY <1>1, <3>1, <3>2, <4>2 DEF Old
    <3>3. CASE i + MaxCalls <= Len(g)
      <4>1. i + MaxCalls \in 1 .. Len(g) /\ g[i] + Window < g[i + MaxCalls]
        BY <1>1, <1>4, <3>1, <3>3 DEF Spaced
      <4>2. QED
        BY <1>1, <3>1, <4>1
    <3>4. i + MaxCalls = Len(g) + 1 \/ i + MaxCalls <= Len(g)
      <4>1. Len(h) = Len(g) + 1 /\ Len(g) \in Nat
        BY <1>1
      <4>2. i \in Nat
        BY <4>1
      <4>3. QED
        BY <1>4, <2>1, <4>1, <4>2
    <3>5. QED
      BY <3>2, <3>3, <3>4
  <2>2. QED
    BY <2>1 DEF Spaced
<1>7. Remembers(c, h)
  <2>1. Len(c) <= Len(h) /\ Len(h) - Len(c) = Len(g) - Len(b)
    BY <1>1, <1>2 DEF Remembers
  <2>2. ASSUME NEW i \in 1 .. Len(c) PROVE c[i] = h[Len(h) - Len(c) + i]
    <3>1. CASE i = Len(b) + 1
      BY <1>1, <1>2, <2>1, <3>1 DEF Remembers
    <3>2. CASE i \in 1 .. Len(b)
      <4>1. Len(g) - Len(b) + i \in 1 .. Len(g)
        BY <1>1, <1>2, <3>2 DEF Remembers
      <4>2. QED
        BY <1>1, <1>2, <2>1, <3>2, <4>1 DEF Remembers
    <3>3. QED
      BY <1>2, <3>1, <3>2
  <2>3. ASSUME NEW i \in 1 .. Len(h) - Len(c) PROVE Old(h[i])
    <3>1. i \in 1 .. Len(g) - Len(b) /\ i \in 1 .. Len(g)
      BY <1>1, <1>2, <2>1
    <3>2. QED
      BY <1>1, <3>1 DEF Remembers
  <2>4. QED
    BY <2>1, <2>2, <2>3 DEF Remembers
<1>8. QED
  BY <1>1, <1>2, <1>5, <1>6, <1>7 DEF h, c

\* The loop that shifts the log drops old calls only.
LEMMA ShiftKeeps ==
    ASSUME NEW g \in Seq(Times), NEW b \in Seq(Times), Remembers(b, g),
           NEW n \in 0 .. Len(b), Shifts(b, n)
    PROVE  LET c == SubSeq(b, n + 1, Len(b))
           IN  c \in Seq(Times) /\ Remembers(c, g)
<1> DEFINE c == SubSeq(b, n + 1, Len(b))
<1>1. /\ c \in Seq(Times) /\ Len(c) = Len(b) - n /\ Len(b) \in Nat /\ Len(g) \in Nat /\ n \in Nat
      /\ \A i \in 1 .. Len(c) : c[i] = b[n + i]
  OBVIOUS
<1> HIDE DEF c
<1>2. Len(b) <= Len(g) /\ Len(g) - Len(c) = Len(g) - Len(b) + n
  BY <1>1 DEF Remembers
<1>3. ASSUME NEW i \in 1 .. Len(c) PROVE c[i] = g[Len(g) - Len(c) + i]
  <2>1. n + i \in 1 .. Len(b) /\ Len(g) - Len(b) + (n + i) = Len(g) - Len(c) + i
    BY <1>1, <1>2
  <2>2. QED
    BY <1>1, <2>1 DEF Remembers
<1>4. ASSUME NEW i \in 1 .. Len(g) - Len(c) PROVE Old(g[i])
  <2>1. CASE i <= Len(g) - Len(b)
    <3>1. i \in 1 .. Len(g) - Len(b)
      BY <1>1, <1>2, <2>1
    <3>2. QED
      BY <3>1 DEF Remembers
  <2>2. CASE i > Len(g) - Len(b)
    <3> DEFINE j == i - (Len(g) - Len(b))
    <3>1. j \in 1 .. n /\ j \in 1 .. Len(b) /\ Len(g) - Len(b) + j = i
      BY <1>1, <1>2, <2>2
    <3>2. Old(b[j]) /\ b[j] = g[Len(g) - Len(b) + j]
      BY <3>1 DEF Shifts, Remembers
    <3>3. QED
      BY <3>1, <3>2
  <2>3. QED
    BY <1>1, <1>2, <2>1, <2>2
<1>5. Remembers(c, g)
  BY <1>1, <1>2, <1>3, <1>4 DEF Remembers
<1>6. QED
  BY <1>1, <1>5 DEF c

\* The sweep forgets logs all of whose calls are old.
LEMMA ForgetKeeps ==
    ASSUME LimiterInv, NEW k \in Keys, NEW forgotten \in SUBSET Keys, forgotten = {} \/ Swept(forgotten)
    PROVE  Remembered(k, forgotten) \in Seq(Times) /\ Remembers(Remembered(k, forgotten), granted[k])
<1> DEFINE b == bucket[k]
           g == granted[k]
<1>1. /\ b \in Seq(Times) /\ g \in Seq(Times) /\ instant \in Times
      /\ Ordered(g) /\ Remembers(b, g)
  BY DEF LimiterInv, LimiterTypeOK, Times
<1>2. CASE k \notin forgotten
  BY <1>1, <1>2 DEF Remembered
<1>3. CASE k \in forgotten
  <2>1. Remembered(k, forgotten) = <<>> /\ Inactive(k)
    BY <1>3 DEF Remembered, Swept
  <2>2. ASSUME NEW i \in 1 .. Len(g) PROVE Old(g[i])
    <3>1. CASE b = <<>>
      <4>1. i \in 1 .. Len(g) - Len(b)
        BY <1>1, <3>1
      <4>2. QED
        BY <1>1, <4>1 DEF Remembers
    <3>2. CASE b # <<>>
      <4>1. Old(b[Len(b)]) /\ Len(b) \in 1 .. Len(b) /\ Len(g) \in 1 .. Len(g)
        BY <1>1, <2>1, <3>2 DEF Inactive
      <4>2. b[Len(b)] = g[Len(g)]
        <5>1. b[Len(b)] = g[Len(g) - Len(b) + Len(b)]
          BY <1>1, <4>1 DEF Remembers
        <5>2. Len(g) - Len(b) + Len(b) = Len(g)
          BY <4>1
        <5>3. QED
          BY <5>1, <5>2
      <4>3. g[i] <= g[Len(g)] /\ g[i] \in Nat /\ g[Len(g)] \in Nat
        BY <1>1, <4>1, TimesAreNumbers DEF Ordered
      <4>4. QED
        BY <1>1, <4>1, <4>2, <4>3, RateLimiterAssumption DEF Old, Times
    <3>3. QED
      BY <3>1, <3>2
  <2>3. <<>> \in Seq(Times) /\ Len(<<>>) = 0 /\ Len(g) \in Nat
    BY <1>1
  <2>4. QED
    BY <2>1, <2>2, <2>3 DEF Remembers
<1>4. QED
  BY <1>2, <1>3

-----------------------------------------------------------------------------
(* The invariant.                                                          *)

LEMMA LimiterBegins == LimiterInit => LimiterInv
<1> SUFFICES ASSUME LimiterInit PROVE LimiterInv
  OBVIOUS
<1>1. LimiterTypeOK
  BY RateLimiterAssumption DEF LimiterInit, LimiterTypeOK
<1>2. <<>> \in Seq(Times) /\ Len(<<>>) = 0
  OBVIOUS
<1>3. Ordered(<<>>) /\ Past(<<>>) /\ Spaced(<<>>) /\ Remembers(<<>>, <<>>)
  BY <1>2 DEF Ordered, Past, Spaced, Remembers
<1>4. QED
  BY <1>1, <1>3 DEF LimiterInit, LimiterInv

LEMMA PassKeeps == ASSUME LimiterInv, Pass PROVE LimiterInv'
<1>1. /\ instant \in Times /\ instant' \in Times /\ instant' = instant + 1
      /\ bucket' = bucket /\ granted' = granted
  BY RateLimiterAssumption DEF Pass, LimiterInv, LimiterTypeOK, Times
<1>2. ASSUME NEW k \in Keys
      PROVE  Past(granted[k])' /\ Remembers(bucket[k], granted[k])'
  <2>1. /\ granted[k] \in Seq(Times) /\ Len(bucket[k]) \in Nat /\ Len(granted[k]) \in Nat
        /\ Len(bucket[k]) <= Len(granted[k])
    BY DEF LimiterInv, LimiterTypeOK, Times, Remembers
  <2>2. \A i \in 1 .. Len(granted[k]) : granted[k][i] \in Nat
    BY <2>1, TimesAreNumbers
  <2>3. Past(granted[k])'
    BY <1>1, <2>2 DEF LimiterInv, Past, Times
  <2>4. ASSUME NEW i \in 1 .. Len(granted[k]) - Len(bucket[k])
        PROVE  granted[k][i] + Window < instant'
    <3>1. i \in 1 .. Len(granted[k])
      BY <2>1
    <3>2. granted[k][i] + Window < instant
      BY DEF LimiterInv, Remembers, Old
    <3>3. QED
      BY <1>1, <2>2, <3>1, <3>2, RateLimiterAssumption DEF Times
  <2>5. QED
    BY <1>1, <2>3, <2>4 DEF LimiterInv, Remembers, Old
<1>3. QED
  BY <1>1, <1>2 DEF LimiterInv, LimiterTypeOK, Times, Ordered, Spaced

LEMMA CallKeeps == ASSUME LimiterInv, NEW k \in Keys, Call(k) PROVE LimiterInv'
<1>1. PICK forgotten \in SUBSET Keys :
         /\ forgotten = {} \/ Swept(forgotten)
         /\ LET log == Remembered(k, forgotten)
            IN  \E n \in 0 .. Len(log) :
                 LET calls == SubSeq(log, n + 1, Len(log))
                     allowed == Len(calls) < MaxCalls
                 IN  /\ Shifts(log, n)
                     /\ bucket' = [j \in Keys |->
                           IF j # k THEN Remembered(j, forgotten)
                           ELSE IF allowed THEN Append(calls, instant) ELSE calls]
                     /\ granted' = IF allowed THEN [granted EXCEPT ![k] = Append(@, instant)] ELSE granted
                     /\ UNCHANGED instant
  BY DEF Call
<1>2. PICK log : log = Remembered(k, forgotten)
  OBVIOUS
<1>3. PICK n \in 0 .. Len(log) :
         LET calls == SubSeq(log, n + 1, Len(log))
             allowed == Len(calls) < MaxCalls
         IN  /\ Shifts(log, n)
             /\ bucket' = [j \in Keys |->
                   IF j # k THEN Remembered(j, forgotten)
                   ELSE IF allowed THEN Append(calls, instant) ELSE calls]
             /\ granted' = IF allowed THEN [granted EXCEPT ![k] = Append(@, instant)] ELSE granted
             /\ UNCHANGED instant
  BY <1>1, <1>2
<1>4. PICK calls : calls = SubSeq(log, n + 1, Len(log))
  OBVIOUS
<1>5. /\ bucket' = [j \in Keys |-> IF j # k THEN Remembered(j, forgotten)
                                   ELSE IF Len(calls) < MaxCalls THEN Append(calls, instant) ELSE calls]
      /\ granted' = IF Len(calls) < MaxCalls THEN [granted EXCEPT ![k] = Append(@, instant)] ELSE granted
      /\ instant' = instant
  BY <1>3, <1>4
<1>6. /\ instant \in Times /\ granted \in [Keys -> Seq(Times)]
      /\ \A j \in Keys : Ordered(granted[j]) /\ Past(granted[j]) /\ Spaced(granted[j])
  BY DEF LimiterInv, LimiterTypeOK, Times
<1>7. calls \in Seq(Times) /\ Remembers(calls, granted[k])
  <2>1. log \in Seq(Times) /\ Remembers(log, granted[k])
    BY <1>1, <1>2, ForgetKeeps
  <2>2. QED
    BY <1>3, <1>4, <1>6, <2>1, ShiftKeeps
<1>8. \A j \in Keys \ {k} :
         /\ bucket'[j] = Remembered(j, forgotten) /\ granted'[j] = granted[j]
         /\ Remembered(j, forgotten) \in Seq(Times) /\ Remembers(Remembered(j, forgotten), granted[j])
  BY <1>1, <1>5, <1>6, ForgetKeeps
<1>9. /\ bucket'[k] \in Seq(Times) /\ granted'[k] \in Seq(Times)
      /\ Ordered(granted'[k]) /\ Past(granted'[k]) /\ Spaced(granted'[k])
      /\ Remembers(bucket'[k], granted'[k])
  <2>1. CASE Len(calls) < MaxCalls
    <3>1. bucket'[k] = Append(calls, instant) /\ granted'[k] = Append(granted[k], instant)
      BY <1>5, <1>6, <2>1
    <3>2. QED
      BY <1>6, <1>7, <2>1, <3>1, GrantKeeps
  <2>2. CASE ~(Len(calls) < MaxCalls)
    BY <1>5, <1>6, <1>7, <2>2
  <2>3. QED
    BY <2>1, <2>2
<1>10. LimiterTypeOK'
  <2>1. \A j \in Keys : bucket'[j] \in Seq(Times) /\ granted'[j] \in Seq(Times)
    BY <1>6, <1>8, <1>9
  <2>2. bucket' \in [Keys -> Seq(Times)]
    BY <1>5, <2>1
  <2>3. granted' \in [Keys -> Seq(Times)]
    BY <1>5, <1>6, <2>1
  <2>4. QED
    BY <1>5, <1>6, <2>2, <2>3 DEF LimiterTypeOK, Times
<1>11. ASSUME NEW j \in Keys
       PROVE  /\ Ordered(granted[j])' /\ Past(granted[j])' /\ Spaced(granted[j])'
              /\ Remembers(bucket[j], granted[j])'
  <2>1. /\ Ordered(granted'[j]) /\ Past(granted'[j]) /\ Spaced(granted'[j])
        /\ Remembers(bucket'[j], granted'[j])
    BY <1>6, <1>8, <1>9
  <2>2. QED
    BY <1>5, <2>1 DEF Ordered, Past, Spaced, Remembers, Old
<1>12. QED
  BY <1>10, <1>11 DEF LimiterInv

LEMMA LimiterHolds == LimiterSpec => []LimiterInv
<1>1. LimiterInv /\ UNCHANGED limiter => LimiterInv'
  BY DEF limiter, LimiterInv, LimiterTypeOK, Ordered, Past, Spaced, Remembers, Old
<1>2. LimiterInv /\ [LimiterNext]_limiter => LimiterInv'
  BY <1>1, PassKeeps, CallKeeps DEF LimiterNext
<1>3. QED
  BY <1>2, LimiterBegins, PTL DEF LimiterSpec

-----------------------------------------------------------------------------
(* The limit.                                                              *)

\* Of calls spaced like this, a window holds at most MaxCalls.
LEMMA WindowHolds ==
    ASSUME NEW g \in Seq(Times), Ordered(g), Spaced(g), NEW from \in Times
    PROVE  Cardinality({i \in DOMAIN g : g[i] \in from .. from + Window}) <= MaxCalls
<1> DEFINE S == {i \in DOMAIN g : g[i] \in from .. from + Window}
<1>1. /\ Len(g) \in Nat /\ DOMAIN g = 1 .. Len(g) /\ \A i \in 1 .. Len(g) : g[i] \in Nat
      /\ from \in Nat /\ MaxCalls \in Nat /\ Window \in Nat
  BY RateLimiterAssumption, TimesAreNumbers
<1>2. CASE S = {}
  <2>1. Cardinality(S) = 0
    BY <1>2, FS_EmptySet
  <2>2. QED
    BY <1>1, <2>1
<1>3. CASE S # {}
  <2>1. PICK first \in S : \A i \in S : first <= i
    <3>1. IsWellFoundedOn(OpToRel(<, Nat), Nat)
      BY NatLessThanWellFounded
    <3>2. S \subseteq Nat
      BY <1>1
    <3>3. PICK x \in S : \A y \in S : ~(<<y, x>> \in OpToRel(<, Nat))
      BY <1>3, <3>1, <3>2, WFMin
    <3>4. ASSUME NEW y \in S PROVE x <= y
      <4>1. x \in Nat /\ y \in Nat
        BY <3>2
      <4>2. ~(y < x)
        BY <3>3, <4>1 DEF OpToRel
      <4>3. QED
        BY <4>1, <4>2
    <3>5. QED
      BY <3>4
  <2>2. ASSUME NEW i \in S PROVE i \in first .. first + MaxCalls - 1
    <3>1. /\ first \in 1 .. Len(g) /\ i \in 1 .. Len(g) /\ first <= i
          /\ g[first] >= from /\ g[i] <= from + Window
      BY <1>1, <2>1
    <3>2. CASE i >= first + MaxCalls
      <4>1. first + MaxCalls \in 1 .. Len(g) /\ g[first] + Window < g[first + MaxCalls]
        BY <1>1, <3>1, <3>2 DEF Spaced
      <4>2. g[first + MaxCalls] <= g[i]
        BY <1>1, <3>1, <3>2, <4>1 DEF Ordered
      <4>3. QED
        BY <1>1, <3>1, <4>1, <4>2
    <3>3. QED
      BY <1>1, <3>1, <3>2
  <2>3. first \in Nat /\ first >= 1
    BY <1>1, <2>1
  <2>4. /\ IsFiniteSet(first .. first + MaxCalls - 1)
        /\ Cardinality(first .. first + MaxCalls - 1) = MaxCalls
    <3>1. /\ first \in Int /\ first + MaxCalls - 1 \in Int
          /\ ~(first > first + MaxCalls - 1) /\ (first + MaxCalls - 1) - first + 1 = MaxCalls
      BY <1>1, <2>3, RateLimiterAssumption
    <3>2. QED
      BY <3>1, FS_Interval
  <2>5. S \subseteq first .. first + MaxCalls - 1
    BY <2>2
  <2> HIDE DEF S
  <2>6. Cardinality(S) <= MaxCalls
    BY <2>4, <2>5, FS_Subset
  <2>7. QED
    BY <2>6 DEF S
<1>4. QED
  BY <1>2, <1>3

\* Whatever the sweep has forgotten and however the calls come, no window of
\* time lets through more calls of a key than its limit.
THEOREM LimitHolds == LimiterSpec => []RateKept
<1>1. LimiterInv => RateKept
  BY WindowHolds DEF LimiterInv, LimiterTypeOK, RateKept, Times
<1>2. QED
  BY <1>1, LimiterHolds, PTL

-----------------------------------------------------------------------------
(* The chat.                                                               *)

Fields == {"body", "deleted", "pinned", "answered"}

FieldValues(field) == IF field = "body" THEN 0 .. MaxBody ELSE BOOLEAN

WithField(r, f, v, x) == x = [r EXCEPT ![f] = v]

LEMMA RowSet ==
    ASSUME NEW r \in Rows, NEW f \in Fields, NEW v \in FieldValues(f), NEW x, WithField(r, f, v, x)
    PROVE  /\ x \in Rows /\ x.at = r.at /\ x[f] = v
           /\ \A g \in Fields : g # f => x[g] = r[g]
<1>1. CASE f = "body"
  BY <1>1 DEF Rows, FieldValues, Fields, WithField
<1>2. CASE f = "deleted"
  BY <1>2 DEF Rows, FieldValues, Fields, WithField
<1>3. CASE f = "pinned"
  BY <1>3 DEF Rows, FieldValues, Fields, WithField
<1>4. CASE f = "answered"
  BY <1>4 DEF Rows, FieldValues, Fields, WithField
<1>5. QED
  BY <1>1, <1>2, <1>3, <1>4 DEF Fields

LEMMA ViewSet ==
    ASSUME NEW x \in Views
    PROVE  /\ x.row \in Rows /\ x.by \subseteq Members /\ x # None
           /\ \A r \in Rows : [x EXCEPT !.row = r] \in Views /\ [x EXCEPT !.row = r].row = r /\ [x EXCEPT !.row = r].by = x.by
           /\ \A b \in SUBSET Members : [x EXCEPT !.by = b] \in Views /\ [x EXCEPT !.by = b].by = b /\ [x EXCEPT !.by = b].row = x.row
BY EventChatAssumption DEF Views

\* Of finitely many numbers one is the largest.
LEMMA LargestOf ==
    ASSUME NEW D, IsFiniteSet(D), D # {}, NEW f, \A x \in D : f[x] \in Nat
    PROVE  \E x \in D : \A y \in D : f[y] <= f[x]
<1>1. SUFFICES ASSUME ~\E x \in D : \A y \in D : f[y] <= f[x] PROVE FALSE
  OBVIOUS
<1> DEFINE Bad(A) == A \subseteq D /\ A # {} /\ ~\E x \in A : \A y \in A : f[y] <= f[x]
           Sizes == {n \in Nat : \E A \in SUBSET D : Bad(A) /\ Cardinality(A) = n}
<1>2. Cardinality(D) \in Sizes
  BY <1>1, FS_CardinalityType
<1>3. IsWellFoundedOn(OpToRel(<, Nat), Nat)
  BY NatLessThanWellFounded
<1>4. PICK n \in Sizes : \A k \in Sizes : ~(<<k, n>> \in OpToRel(<, Nat))
  <2>1. Sizes \subseteq Nat /\ Sizes # {}
    BY <1>2
  <2>2. QED
    BY <1>3, <2>1, WFMin
<1>5. \A k \in Sizes : ~(k < n)
  BY <1>4 DEF OpToRel
<1>6. PICK A \in SUBSET D : Bad(A) /\ Cardinality(A) = n
  OBVIOUS
<1>7. PICK x : x \in A
  BY <1>6
<1>8. PICK B : B = A \ {x}
  OBVIOUS
<1>9. IsFiniteSet(A) /\ IsFiniteSet(B) /\ Cardinality(B) = n - 1 /\ Cardinality(B) \in Nat
  BY <1>6, <1>7, <1>8, FS_Subset, FS_RemoveElement, FS_CardinalityType
<1>10. CASE B = {}
  BY <1>6, <1>7, <1>8, <1>10
<1>11. CASE B # {}
  <2>1. ~Bad(B)
    <3>1. SUFFICES ASSUME Bad(B) PROVE FALSE
      OBVIOUS
    <3>2. Cardinality(B) \in Sizes
      BY <1>6, <1>8, <1>9, <3>1
    <3>3. QED
      BY <1>5, <1>9, <3>2
  <2>2. PICK z \in B : \A y \in B : f[y] <= f[z]
    BY <1>6, <1>8, <1>11, <2>1
  <2>3. \A y \in A : f[y] <= f[x] \/ f[y] <= f[z]
    BY <1>6, <1>7, <1>8, <2>2
  <2>4. \A y \in A : f[y] \in Nat
    BY <1>6
  <2>5. x \in A /\ z \in A /\ f[x] \in Nat /\ f[z] \in Nat
    BY <1>7, <1>8, <2>2, <2>4
  <2>6. CASE f[x] <= f[z]
    BY <1>6, <1>8, <2>2, <2>4, <2>5, <2>6
  <2>7. CASE f[z] <= f[x]
    BY <1>6, <1>8, <2>2, <2>4, <2>5, <2>7
  <2>8. QED
    BY <2>5, <2>6, <2>7
<1>12. QED
  BY <1>10, <1>11

\* What a request knows of the message it writes or tells of; a message that is
\* on its way in has a time that no other message has.
ChatTxn(t) ==
    /\ t.pc = "ensure" => t.missing \subseteq DefaultKinds
    /\ t.pc = "send" =>
         /\ t.m \in Messages /\ t.at \in Nat \ {0} /\ t.by \in Members /\ t.channel \in Channels /\ t.reply \in BOOLEAN
         /\ \A n \in Messages \ {t.m} : Exists(n) => post[n].at # t.at
    /\ t.pc = "announce" => t.m \in Messages /\ t.row \in Rows /\ Exists(t.m) /\ post[t.m].at = t.row.at
    /\ t.pc \in {"change", "change_frame"} =>
         /\ t = [pc |-> t.pc, m |-> t.m, field |-> t.field, value |-> t.value, old |-> t.old]
         /\ t.m \in Messages /\ Exists(t.m) /\ t.field \in Fields /\ t.value \in FieldValues(t.field)
    /\ t.pc \in {"react", "react_frame"} =>
         /\ t = [pc |-> t.pc, m |-> t.m, by |-> t.by, on |-> t.on]
         /\ t.m \in Messages /\ t.by \in Members /\ t.on \in BOOLEAN
    /\ t.pc \in {"store", "count"} =>
         /\ t = [pc |-> t.pc, by |-> t.by, used |-> t.used]
         /\ t.by \in Members

ChatTxns ==
    /\ txn = [w \in Workers |-> txn[w]]
    /\ \A w \in Workers : ChatTxn(txn[w])

\* No two messages have one time; a client shows a message with its time, and
\* asks for no more than it is missing.
Stamped ==
    /\ \A m, n \in Messages : Exists(m) => post[m].at # 0 /\ (Exists(n) /\ m # n => post[m].at # post[n].at)
    /\ \A v, w \in Workers : At(v, "send") /\ At(w, "send") /\ txn[v].m # txn[w].m => txn[v].at # txn[w].at

Behindhand ==
    /\ \A u \in Members, m \in Messages : view[u][m] # None => Exists(m) /\ view[u][m].row.at = post[m].at
    /\ \A u \in Members : ~CaughtUp(u) => socket[u].since <= Newest(u)

ChatInv == ChatTypeOK /\ ChatTxns /\ Stamped /\ Behindhand

LEMMA NewestIs ==
    ASSUME ChatTypeOK, NEW u \in Members
    PROVE  /\ Newest(u) \in Nat
           /\ \A m \in Messages : view[u][m] # None => view[u][m].row.at \in Nat /\ view[u][m].row.at <= Newest(u)
           /\ \/ Newest(u) = 0 /\ \A m \in Messages : view[u][m] = None
              \/ \E m \in Messages : view[u][m] # None /\ view[u][m].row.at = Newest(u)
<1>1. PICK D : D = {m \in Messages : view[u][m] # None}
  OBVIOUS
<1>2. PICK f : f = [m \in D |-> view[u][m].row.at]
  OBVIOUS
<1>3. PICK stamps : stamps = {view[u][m].row.at : m \in D}
  OBVIOUS
<1>4. \A m \in D : view[u][m] \in Views /\ f[m] = view[u][m].row.at /\ f[m] \in Nat
  <2>1. SUFFICES ASSUME NEW m \in D PROVE view[u][m] \in Views /\ f[m] = view[u][m].row.at /\ f[m] \in Nat
    OBVIOUS
  <2>2. view[u][m] \in Views
    BY <1>1 DEF ChatTypeOK
  <2>3. view[u][m].row.at \in Nat
    BY <2>2, ViewSet DEF Rows
  <2>4. QED
    BY <1>2, <2>2, <2>3
<1>5. Newest(u) = IF stamps = {} THEN 0 ELSE CHOOSE t \in stamps : \A s \in stamps : s <= t
  BY <1>1, <1>3 DEF Newest
<1>6. IsFiniteSet(D)
  BY <1>1, FS_Subset, EventChatAssumption
<1>7. CASE D = {}
  BY <1>1, <1>3, <1>5, <1>7
<1>8. CASE D # {}
  <2>1. PICK x \in D : \A y \in D : f[y] <= f[x]
    BY <1>4, <1>6, <1>8, LargestOf
  <2>2. f[x] \in stamps /\ \A s \in stamps : s <= f[x]
    BY <1>3, <1>4, <2>1
  <2>3. PICK t : t = CHOOSE z \in stamps : \A s \in stamps : s <= z
    OBVIOUS
  <2>4. t \in stamps /\ \A s \in stamps : s <= t
    BY <2>2, <2>3
  <2>5. Newest(u) = t
    BY <1>5, <2>2, <2>3
  <2>6. PICK m \in D : t = view[u][m].row.at
    BY <1>3, <2>4
  <2>7. QED
    BY <1>1, <1>3, <1>4, <2>4, <2>5, <2>6
<1>9. QED
  BY <1>7, <1>8

LEMMA NowIs ==
    ASSUME ChatInv, NEW m \in Messages, ~Exists(m)
    PROVE  /\ Now(m) \in Nat \ {0}
           /\ \A w \in Workers : At(w, "send") => txn[w].at # Now(m)
           /\ \A n \in Messages : Exists(n) => post[n].at # Now(m)
<1>1. PICK D, E : D = {v \in Workers : At(v, "send")} /\ E = {n \in Messages : Exists(n)}
  OBVIOUS
<1>2. IsFiniteSet(D) /\ IsFiniteSet(E)
  BY <1>1, FS_Subset, EventChatAssumption
<1>3. PICK f, g : f = [w \in D |-> txn[w].at] /\ g = [n \in E |-> post[n].at]
  OBVIOUS
<1>4. PICK A, B : A = {txn[w].at : w \in D} /\ B = {post[n].at : n \in E}
  OBVIOUS
<1>5. \A w \in D : f[w] = txn[w].at /\ f[w] \in Nat
  BY <1>1, <1>3 DEF ChatInv, ChatTxns, ChatTxn, At
<1>6. \A n \in E : g[n] = post[n].at /\ g[n] \in Nat
  BY <1>1, <1>3 DEF ChatInv, ChatTypeOK, Exists, Rows
<1>7. PICK S : S = Stamps /\ S = A \cup B
  BY <1>1, <1>4 DEF Stamps
<1>8. S \subseteq Nat
  BY <1>4, <1>5, <1>6, <1>7
<1>9. S = {} \/ \E t \in S : \A s \in S : s <= t
  <2>1. A = {} \/ \E t \in A : \A s \in A : s <= t
    <3>1. CASE D # {}
      <4>1. PICK x \in D : \A y \in D : f[y] <= f[x]
        BY <1>2, <1>5, <3>1, LargestOf
      <4>2. QED
        BY <1>4, <1>5, <4>1
    <3>2. QED
      BY <1>4, <3>1
  <2>2. B = {} \/ \E t \in B : \A s \in B : s <= t
    <3>1. CASE E # {}
      <4>1. PICK x \in E : \A y \in E : g[y] <= g[x]
        BY <1>2, <1>6, <3>1, LargestOf
      <4>2. QED
        BY <1>4, <1>6, <4>1
    <3>2. QED
      BY <1>4, <3>1
  <2>3. CASE A # {} /\ B # {}
    <3>1. PICK a \in A, b \in B : (\A s \in A : s <= a) /\ (\A s \in B : s <= b)
      BY <2>1, <2>2, <2>3
    <3>2. CASE a <= b
      BY <1>7, <1>8, <3>1, <3>2
    <3>3. CASE b <= a
      BY <1>7, <1>8, <3>1, <3>3
    <3>4. QED
      BY <1>7, <1>8, <3>2, <3>3
  <2>4. QED
    BY <1>7, <2>1, <2>2, <2>3
<1>10. PICK c : c = CHOOSE t \in S : \A s \in S : s <= t
  OBVIOUS
<1>11. Now(m) = 1 + (IF S = {} THEN 0 ELSE c)
  BY <1>7, <1>10 DEF Now
<1>12. CASE S = {}
  <2>1. D = {} /\ E = {}
    BY <1>4, <1>7, <1>12
  <2>2. Now(m) = 1
    BY <1>11, <1>12
  <2>3. QED
    BY <1>1, <2>1, <2>2
<1>13. CASE S # {}
  <2>1. c \in S /\ \A s \in S : s <= c
    BY <1>9, <1>10, <1>13
  <2>2. Now(m) = 1 + c /\ c \in Nat /\ \A s \in S : s # Now(m)
    BY <1>8, <1>11, <1>13, <2>1
  <2>3. QED
    BY <1>1, <1>4, <1>7, <2>2
<1>14. QED
  BY <1>12, <1>13

\* Frames on their way.
Tells(v) == At(v, "announce") \/ At(v, "change_frame") \/ At(v, "react_frame")

Seen == \A u \in Members, m \in Messages :
    (socket[u].state = "online" /\ Mirrored(u, m)) => (socket'[u].state # "online" \/ Mirrored(u, m)')

Heard == \A u \in Members, m \in Messages : Reaches(u, m) => Reaches(u, m)' \/ CutOff(u, m)

LEMMA ChatHolds ==
    ASSUME ChatInv, UNCHANGED post, NEW w \in Workers, NEW t, ChatTxn(t), t.pc # "send", txn' = [txn EXCEPT ![w] = t]
    PROVE  ChatTxns' /\ Stamped'
<1>1. ASSUME NEW r, ChatTxn(r) PROVE ChatTxn(r)'
  BY <1>1 DEF ChatTxn, Exists
<1>2. ChatTxns'
  BY <1>1 DEF ChatInv, ChatTxns
<1>3. \A v \in Workers : At(v, "send")' => txn'[v] = txn[v] /\ At(v, "send")
  BY DEF ChatInv, ChatTxns, At
<1>4. Stamped'
  BY <1>3 DEF ChatInv, Stamped, Exists
<1>5. QED
  BY <1>2, <1>4

LEMMA ChatStays == ASSUME ChatInv, UNCHANGED <<post, txn>> PROVE ChatTxns' /\ Stamped'
<1>1. ASSUME NEW r, ChatTxn(r) PROVE ChatTxn(r)'
  BY <1>1 DEF ChatTxn, Exists
<1>2. ChatTxns'
  BY <1>1 DEF ChatInv, ChatTxns
<1>3. Stamped'
  BY DEF ChatInv, Stamped, Exists, At
<1>4. QED
  BY <1>2, <1>3

LEMMA IdleChat == ChatTxn(Idle) /\ Idle.pc = "idle"
BY DEF ChatTxn, Idle

LEMMA SameView == ASSUME ChatInv, UNCHANGED <<post, view, socket>> PROVE Behindhand'
<1>1. \A u \in Members : Newest(u)' = Newest(u)
  BY DEF Newest
<1>2. QED
  BY <1>1 DEF ChatInv, Behindhand, Exists, CaughtUp

LEMMA SameMirror ==
    ASSUME NEW u \in Members, NEW m \in Messages, view'[u][m] = view[u][m], post'[m] = post[m], UNCHANGED liked,
           \A v \in Workers : Tells(v) /\ txn[v].m = m => txn'[v] = txn[v]
    PROVE  Mirrored(u, m) => Mirrored(u, m)'
<1>1. Announcing(m) => Announcing(m)'
  BY DEF Announcing, Tells, At
<1>2. \A f : FieldTold(m, f) => FieldTold(m, f)'
  BY DEF FieldTold, Tells, At
<1>3. \A x : LikeTold(m, x) => LikeTold(m, x)'
  BY DEF LikeTold, Tells, At
<1>4. CASE view[u][m] = None
  BY <1>1, <1>4 DEF Mirrored, Exists
<1>5. CASE view[u][m] # None
  BY <1>2, <1>3, <1>5 DEF Mirrored
<1>6. QED
  BY <1>4, <1>5

LEMMA SameReach ==
    ASSUME NEW u \in Members, NEW m \in Messages, Exists(m)' => Exists(m) /\ post'[m].at = post[m].at,
           view[u][m] # None => view'[u][m] # None,
           socket'[u] = socket[u], \A v \in Workers : At(v, "announce") /\ txn[v].m = m => txn'[v] = txn[v]
    PROVE  Reaches(u, m) => Reaches(u, m)'
<1>1. Announcing(m) => Announcing(m)'
  BY DEF Announcing, At
<1>2. QED
  BY <1>1 DEF Reaches, CaughtUp

\* What touches neither messages nor connections.
LEMMA Calm == ASSUME ChatInv, ChatTypeOK', UNCHANGED <<post, liked, view, socket, txn>> PROVE ChatInv' /\ Seen /\ Heard
<1>1. ChatTxns' /\ Stamped' /\ Behindhand'
  BY ChatStays, SameView
<1>2. Seen
  BY SameMirror DEF Seen
<1>3. Heard
  BY SameReach DEF Heard, Exists
<1>4. QED
  BY <1>1, <1>2, <1>3 DEF ChatInv

LEMMA Quiet ==
    ASSUME ChatInv, ChatTypeOK', UNCHANGED <<post, liked, view, socket>>,
           NEW w \in Workers, NEW t, txn' = [txn EXCEPT ![w] = t], ChatTxn(t), t.pc # "send", ~Tells(w)
    PROVE  ChatInv' /\ Seen /\ Heard
<1>1. ChatTxns' /\ Stamped' /\ Behindhand'
  BY ChatHolds, SameView
<1>2. \A v \in Workers : Tells(v) => txn'[v] = txn[v]
  BY DEF ChatInv, ChatTxns
<1>3. Seen
  BY <1>2, SameMirror DEF Seen
<1>4. Heard
  BY <1>2, SameReach DEF Heard, Exists, Tells
<1>5. QED
  BY <1>1, <1>3, <1>4 DEF ChatInv

LEMMA QuietEnd ==
    ASSUME ChatInv, ChatTypeOK', UNCHANGED <<post, liked, view, socket>>, NEW w \in Workers, End(w), ~Tells(w)
    PROVE  ChatInv' /\ Seen /\ Heard
BY Quiet, IdleChat DEF End

LEMMA SameType == ASSUME ChatTypeOK, UNCHANGED chat PROVE ChatTypeOK'
BY DEF ChatTypeOK, chat

LEMMA IdleQuiet == ASSUME NEW w, txn[w] = Idle PROVE ~Tells(w) /\ ~At(w, "send")
BY DEF Tells, At, Idle

-----------------------------------------------------------------------------
(* Channels.                                                               *)

LEMMA ChannelRow ==
    ASSUME NEW r \in ChannelRows, NEW on \in BOOLEAN
    PROVE  /\ [r EXCEPT !.deleted = on] \in ChannelRows /\ [r EXCEPT !.frozen = on] \in ChannelRows
           /\ [r EXCEPT !.archived = on] \in ChannelRows
BY DEF ChannelRows

LEMMA EmptyChannel ==
    ASSUME NEW k \in DefaultKinds \cup {"custom"}, NEW on \in BOOLEAN
    PROVE  /\ [NoChannel EXCEPT !.kind = k, !.extra = on] \in ChannelRows
           /\ [NoChannel EXCEPT !.kind = k] \in ChannelRows
BY DEF ChannelRows, NoChannel

LEMMA EnsureReadKeeps == ASSUME ChatInv, NEW w \in Workers, EnsureRead(w) PROVE ChatInv' /\ Seen /\ Heard
<1>1. PICK t : t = [pc |-> "ensure", missing |-> Missing]
  OBVIOUS
<1>2. t.pc = "ensure" /\ t.missing \subseteq DefaultKinds
  BY <1>1 DEF Missing
<1>3. ChatTxn(t)
  BY <1>2 DEF ChatTxn
<1>4. txn' = [txn EXCEPT ![w] = t] /\ txn[w] = Idle /\ UNCHANGED chat
  BY <1>1 DEF EnsureRead, Ready, Hold
<1>5. QED
  BY <1>2, <1>3, <1>4, Quiet, SameType, IdleQuiet DEF chat, ChatInv

LEMMA EnsureInsertKeeps == ASSUME ChatInv, NEW w \in Workers, EnsureInsert(w) PROVE ChatInv' /\ Seen /\ Heard
<1>1. PICK missing : missing = txn[w].missing /\ missing \subseteq DefaultKinds /\ ~Tells(w)
  BY DEF EnsureInsert, ChatInv, ChatTxns, ChatTxn, At, Tells
<1>2. PICK row \in [missing -> Unused] :
         channel' = [c \in Channels |-> IF \E k \in missing : row[k] = c
                                        THEN [NoChannel EXCEPT !.kind = CHOOSE k \in missing : row[k] = c]
                                        ELSE channel[c]]
  BY <1>1 DEF EnsureInsert
<1>3. ASSUME NEW c \in Channels PROVE channel'[c] \in ChannelRows
  <2>1. CASE \E k \in missing : row[k] = c
    <3>1. PICK k : k = CHOOSE j \in missing : row[j] = c
      OBVIOUS
    <3>2. k \in DefaultKinds \cup {"custom"}
      BY <1>1, <2>1, <3>1
    <3>3. channel'[c] = [NoChannel EXCEPT !.kind = k]
      BY <1>2, <2>1, <3>1
    <3>4. QED
      BY <3>2, <3>3, EmptyChannel
  <2>2. CASE ~\E k \in missing : row[k] = c
    BY <1>2, <2>2 DEF ChatInv, ChatTypeOK
  <2>3. QED
    BY <2>1, <2>2
<1>4. channel' \in [Channels -> ChannelRows]
  BY <1>2, <1>3
<1>5. ChatTypeOK'
  BY <1>4 DEF ChatInv, ChatTypeOK, EnsureInsert
<1>6. QED
  BY <1>1, <1>5, QuietEnd DEF EnsureInsert

LEMMA ChannelsKeep ==
    ASSUME ChatInv,
           \/ \E c \in Channels :
                 \/ \E k \in DefaultKinds \cup {"custom"} : CreateChannel(c, k)
                 \/ DeleteChannel(c) \/ Archive(c) \/ (\E on \in BOOLEAN : Freeze(c, on))
           \/ \E u \in Members : Mute(u) \/ Unmute(u)
    PROVE  ChatInv' /\ Seen /\ Heard
<1>1. UNCHANGED <<post, liked, view, socket, txn>>
  BY DEF CreateChannel, DeleteChannel, Archive, Freeze, Mute, Unmute, Serves, requests
<1>2. ASSUME NEW c \in Channels, NEW k \in DefaultKinds \cup {"custom"}, CreateChannel(c, k) PROVE ChatTypeOK'
  <2>1. PICK r : r = [NoChannel EXCEPT !.kind = k, !.extra = TRUE]
    OBVIOUS
  <2>2. r \in ChannelRows
    BY <2>1, EmptyChannel
  <2>3. channel' = [channel EXCEPT ![c] = r]
    BY <1>2, <2>1 DEF CreateChannel
  <2>4. QED
    BY <1>2, <2>2, <2>3 DEF CreateChannel, ChatInv, ChatTypeOK
<1>3. ASSUME NEW c \in Channels, DeleteChannel(c) \/ Archive(c) \/ (\E on \in BOOLEAN : Freeze(c, on)) PROVE ChatTypeOK'
  <2>1. channel[c] \in ChannelRows
    BY DEF ChatInv, ChatTypeOK
  <2>2. PICK r \in ChannelRows : channel' = [channel EXCEPT ![c] = r]
    <3>1. CASE DeleteChannel(c)
      <4>1. channel' = [channel EXCEPT ![c] = [channel[c] EXCEPT !.deleted = TRUE]]
        BY <3>1 DEF DeleteChannel
      <4>2. QED
        BY <2>1, <4>1, ChannelRow
    <3>2. CASE Archive(c)
      <4>1. channel' = [channel EXCEPT ![c] = [channel[c] EXCEPT !.archived = TRUE]]
        BY <3>2 DEF Archive
      <4>2. QED
        BY <2>1, <4>1, ChannelRow
    <3>3. ASSUME NEW on \in BOOLEAN, Freeze(c, on)
          PROVE  \E r \in ChannelRows : channel' = [channel EXCEPT ![c] = r]
      <4>1. channel' = [channel EXCEPT ![c] = [channel[c] EXCEPT !.frozen = on]]
        BY <3>3 DEF Freeze
      <4>2. QED
        BY <2>1, <4>1, ChannelRow
    <3>4. QED
      BY <1>3, <3>1, <3>2, <3>3
  <2>3. QED
    BY <1>3, <2>2 DEF DeleteChannel, Archive, Freeze, ChatInv, ChatTypeOK
<1>4. ASSUME NEW u \in Members, Mute(u) \/ Unmute(u) PROVE ChatTypeOK'
  BY <1>4 DEF Mute, Unmute, ChatInv, ChatTypeOK
<1>5. QED
  BY <1>1, <1>2, <1>3, <1>4, Calm

-----------------------------------------------------------------------------
(* Attachments, and the requests that only read.                           *)

LEMMA UploadsKeep ==
    ASSUME ChatInv, NEW w \in Workers, (\E u \in Members : UploadRead(w, u)) \/ UploadStore(w) \/ UploadCount(w)
    PROVE  ChatInv' /\ Seen /\ Heard
<1>1. ASSUME NEW u \in Members, UploadRead(w, u) PROVE ChatInv' /\ Seen /\ Heard
  <2>1. PICK t : t = [pc |-> "store", by |-> u, used |-> used[u]]
    OBVIOUS
  <2>2. t.pc = "store" /\ t.by = u /\ t = [pc |-> t.pc, by |-> t.by, used |-> t.used]
    BY <2>1
  <2>3. ChatTxn(t)
    BY <2>2 DEF ChatTxn
  <2>4. txn' = [txn EXCEPT ![w] = t] /\ txn[w] = Idle /\ UNCHANGED chat
    BY <1>1, <2>1 DEF UploadRead, Ready, Hold
  <2>5. QED
    BY <2>2, <2>3, <2>4, Quiet, SameType, IdleQuiet DEF chat, ChatInv
<1>2. CASE UploadStore(w)
  <2>1. PICK t : t = txn[w] /\ t.pc = "store" /\ t = [pc |-> t.pc, by |-> t.by, used |-> t.used] /\ t.by \in Members
    BY <1>2 DEF UploadStore, At, ChatInv, ChatTxns, ChatTxn
  <2>2. PICK r : r = [pc |-> "count", by |-> t.by, used |-> t.used]
    OBVIOUS
  <2>3. r.pc = "count" /\ r.by = t.by /\ r = [pc |-> r.pc, by |-> r.by, used |-> r.used]
    BY <2>2
  <2>4. ChatTxn(r)
    BY <2>1, <2>3 DEF ChatTxn
  <2>5. txn' = [txn EXCEPT ![w] = r]
    <3>1. r = [t EXCEPT !.pc = "count"]
      BY <2>1, <2>2
    <3>2. txn' = [txn EXCEPT ![w].pc = "count"]
      BY <1>2 DEF UploadStore, Goto
    <3>3. QED
      BY <2>1, <3>1, <3>2
  <2>6. ChatTypeOK'
    BY <1>2, <2>1 DEF UploadStore, ChatInv, ChatTypeOK
  <2>7. ~Tells(w)
    BY <2>1 DEF Tells, At
  <2>8. QED
    BY <1>2, <2>3, <2>4, <2>5, <2>6, <2>7, Quiet DEF UploadStore
<1>3. CASE UploadCount(w)
  <2>1. txn[w].pc = "count" /\ txn[w].by \in Members
    BY <1>3 DEF UploadCount, At, ChatInv, ChatTxns, ChatTxn
  <2>2. ChatTypeOK'
    BY <1>3, <2>1 DEF UploadCount, ChatInv, ChatTypeOK
  <2>3. ~Tells(w)
    BY <2>1 DEF Tells, At
  <2>4. QED
    BY <1>3, <2>2, <2>3, QuietEnd DEF UploadCount
<1>4. QED
  BY <1>1, <1>2, <1>3

LEMMA ReactReadKeeps ==
    ASSUME ChatInv, NEW w \in Workers, NEW u \in Members, NEW m \in Messages, ReactRead(w, u, m)
    PROVE  ChatInv' /\ Seen /\ Heard
<1>1. PICK on \in BOOLEAN : on = (<<m, u>> \notin liked)
  OBVIOUS
<1>2. PICK t : t = [pc |-> "react", m |-> m, by |-> u, on |-> on]
  OBVIOUS
<1>3. t.pc = "react" /\ t.m = m /\ t.by = u /\ t.on = on /\ t = [pc |-> t.pc, m |-> t.m, by |-> t.by, on |-> t.on]
  BY <1>2
<1>4. ChatTxn(t)
  BY <1>3 DEF ChatTxn
<1>5. txn' = [txn EXCEPT ![w] = t] /\ txn[w] = Idle /\ UNCHANGED chat
  BY <1>1, <1>2, Zenon DEF ReactRead, Ready, Hold
<1>6. QED
  BY <1>3, <1>4, <1>5, Quiet, SameType, IdleQuiet DEF chat, ChatInv

LEMMA ChangeReadKeeps ==
    ASSUME ChatInv, NEW w \in Workers, NEW u \in Members, NEW m \in Messages, NEW field \in Fields,
           ChangeRead(w, u, m, field)
    PROVE  ChatInv' /\ Seen /\ Heard
<1>1. PICK value \in Values(m, field) :
         Serve(w, "change", [pc |-> "change", m |-> m, field |-> field, value |-> value, old |-> post[m]])
  BY DEF ChangeRead
<1>2. Exists(m) /\ (field = "body" => post[m].body < MaxBody) /\ UNCHANGED chat /\ post[m] \in Rows
  BY DEF ChangeRead, Exists, ChatInv, ChatTypeOK
<1>3. value \in FieldValues(field)
  <2>1. CASE field = "body"
    BY <1>2, <2>1, EventChatAssumption DEF Values, FieldValues, Rows
  <2>2. CASE field # "body"
    BY <2>2 DEF Values, FieldValues
  <2>3. QED
    BY <2>1, <2>2
<1>4. PICK t : t = [pc |-> "change", m |-> m, field |-> field, value |-> value, old |-> post[m]]
  OBVIOUS
<1>5. /\ t.pc = "change" /\ t.m = m /\ t.field = field /\ t.value = value
      /\ t = [pc |-> t.pc, m |-> t.m, field |-> t.field, value |-> t.value, old |-> t.old]
  BY <1>4
<1>6. ChatTxn(t)
  BY <1>2, <1>3, <1>5 DEF ChatTxn
<1>7. txn' = [txn EXCEPT ![w] = t] /\ txn[w] = Idle
  BY <1>1, <1>4 DEF Serve, Ready, Hold
<1>8. QED
  BY <1>2, <1>5, <1>6, <1>7, Quiet, SameType, IdleQuiet DEF chat, ChatInv

LEMMA SendReadKeeps ==
    ASSUME ChatInv, NEW w \in Workers, NEW m \in Messages, NEW c \in Channels, NEW parent, SendRead(w, m, c, parent)
    PROVE  ChatInv' /\ Seen /\ Heard
<1>1. PICK reply \in BOOLEAN : reply = (parent # None)
  OBVIOUS
<1>2. PICK t : t = [pc |-> "send", m |-> m, at |-> Now(m), by |-> Author[m], channel |-> c, reply |-> reply]
  OBVIOUS
<1>3. t.pc = "send" /\ t.m = m /\ t.at = Now(m) /\ t.by = Author[m] /\ t.channel = c /\ t.reply = reply
  BY <1>2
<1>4. txn' = [txn EXCEPT ![w] = t] /\ txn[w] = Idle /\ UNCHANGED chat
  BY <1>1, <1>2, Zenon DEF SendRead, Ready, Hold
<1>5. /\ t.at \in Nat \ {0}
      /\ \A n \in Messages \ {m} : Exists(n) => post[n].at # t.at
      /\ \A v \in Workers : At(v, "send") /\ txn[v].m # m => txn[v].at # t.at
  <2>1. CASE Exists(m)
    <3>1. t.at = post[m].at
      BY <1>3, <2>1 DEF Now
    <3>2. post[m].at \in Nat
      BY <2>1 DEF Exists, ChatInv, ChatTypeOK, Rows
    <3>3. QED
      BY <2>1, <3>1, <3>2 DEF ChatInv, Stamped, ChatTxns, ChatTxn, At
  <2>2. CASE ~Exists(m)
    BY <1>3, <2>2, NowIs
  <2>3. QED
    BY <2>1, <2>2
<1>6. Author[m] \in Members
  BY EventChatAssumption
<1>7. ChatTxn(t)
  BY <1>3, <1>5, <1>6 DEF ChatTxn
<1>8. UNCHANGED <<post, liked, view, socket>>
  BY <1>4 DEF chat
<1>9. ChatTxns'
  <2>1. ASSUME NEW r, ChatTxn(r) PROVE ChatTxn(r)'
    BY <1>8, <2>1 DEF ChatTxn, Exists
  <2>2. QED
    BY <1>4, <1>7, <2>1 DEF ChatInv, ChatTxns
<1>10. Stamped'
  <2>1. txn'[w] = t /\ \A v \in Workers : v # w => txn'[v] = txn[v]
    BY <1>4 DEF ChatInv, ChatTxns
  <2>2. ASSUME NEW v \in Workers, NEW x \in Workers, At(v, "send")', At(x, "send")', txn'[v].m # txn'[x].m
        PROVE  txn'[v].at # txn'[x].at
    <3>1. CASE v = w
      BY <1>3, <1>5, <2>1, <2>2, <3>1 DEF At
    <3>2. CASE x = w
      BY <1>3, <1>5, <2>1, <2>2, <3>2 DEF At
    <3>3. CASE v # w /\ x # w
      BY <2>1, <2>2, <3>3 DEF ChatInv, Stamped, At
    <3>4. QED
      BY <3>1, <3>2, <3>3
  <2>3. QED
    BY <1>8, <2>2 DEF ChatInv, Stamped, Exists
<1>11. \A v \in Workers : Tells(v) => txn'[v] = txn[v]
  BY <1>4, IdleQuiet DEF ChatInv, ChatTxns
<1>12. Seen
  BY <1>8, <1>11, SameMirror DEF Seen
<1>13. Heard
  BY <1>8, <1>11, SameReach DEF Heard, Exists, Tells
<1>14. QED
  BY <1>4, <1>8, <1>9, <1>10, <1>12, <1>13, SameType, SameView DEF ChatInv

-----------------------------------------------------------------------------
(* Messages.                                                               *)

LEMMA NewRow ==
    ASSUME NEW c \in Channels, NEW u \in Members, NEW reply \in BOOLEAN, NEW at \in Nat, NEW x,
           x = [channel |-> c, by |-> u, reply |-> reply, at |-> at, body |-> 0,
                pinned |-> FALSE, answered |-> FALSE, deleted |-> FALSE]
    PROVE  x \in Rows /\ x.at = at /\ x # None
<1>1. x \in Rows
  BY EventChatAssumption DEF Rows
<1>2. QED
  BY <1>1, EventChatAssumption

LEMMA SendInsertKeeps == ASSUME ChatInv, NEW w \in Workers, SendInsert(w) PROVE ChatInv' /\ Seen /\ Heard
<1>1. PICK t, m : t = txn[w] /\ m = t.m /\ t.pc = "send" /\ ChatTxn(t) /\ m \in Messages
  BY DEF SendInsert, At, ChatInv, ChatTxns, ChatTxn
<1>2. ~Tells(w)
  BY <1>1 DEF Tells, At
<1>3. CASE Exists(m)
  <2>1. UNCHANGED chat /\ End(w)
    BY <1>1, <1>3 DEF SendInsert, chat
  <2>2. QED
    BY <1>2, <2>1, SameType, QuietEnd DEF chat, ChatInv
<1>4. CASE ~Exists(m)
  <2>1. PICK x : x = [channel |-> t.channel, by |-> t.by, reply |-> t.reply, at |-> t.at, body |-> 0,
                      pinned |-> FALSE, answered |-> FALSE, deleted |-> FALSE]
    OBVIOUS
  <2>2. x \in Rows /\ x.at = t.at /\ x # None
    <3>1. t.channel \in Channels /\ t.by \in Members /\ t.reply \in BOOLEAN /\ t.at \in Nat
      BY <1>1 DEF ChatTxn
    <3>2. QED
      BY <2>1, <3>1, NewRow
  <2>3. post' = [post EXCEPT ![m] = x]
    BY <1>1, <1>4, <2>1, Zenon DEF SendInsert
  <2>4. post'[m] = x /\ \A n \in Messages : n # m => post'[n] = post[n]
    BY <1>1, <2>3 DEF ChatInv, ChatTypeOK
  <2>5. PICK r : r = [pc |-> "announce", m |-> m, row |-> x]
    OBVIOUS
  <2>6. r.pc = "announce" /\ r.m = m /\ r.row = x
    BY <2>5
  <2>7. txn' = [txn EXCEPT ![w] = r]
    <3>1. txn' = [txn EXCEPT ![w] = [pc |-> "announce", m |-> m, row |-> post'[m]]]
      BY <1>1, <1>4 DEF SendInsert
    <3>2. QED
      BY <2>4, <2>5, <3>1
  <2>8. txn'[w] = r /\ \A v \in Workers : v # w => txn'[v] = txn[v]
    BY <2>7 DEF ChatInv, ChatTxns
  <2>9. UNCHANGED <<channel, liked, muted, view, socket, stored, used>>
    BY DEF SendInsert
  <2>10. ChatTypeOK'
    BY <2>2, <2>3, <2>9 DEF ChatInv, ChatTypeOK
  <2>11. \A n \in Messages : Exists(n)' = (n = m \/ Exists(n))
    BY <2>2, <2>4 DEF Exists
  <2>12. \A v \in Workers : At(v, "send") /\ txn[v].m # m => txn[v].at # t.at
    BY <1>1 DEF ChatInv, Stamped, At
  <2>13. ChatTxns'
    <3>1. ASSUME NEW v \in Workers, v # w PROVE ChatTxn(txn[v])'
      <4>1. PICK z : z = txn[v] /\ ChatTxn(z)
        BY DEF ChatInv, ChatTxns
      <4>2. z.pc = "send" => \A n \in Messages \ {z.m} : Exists(n)' => post'[n].at # z.at
        <5>1. SUFFICES ASSUME z.pc = "send", NEW n \in Messages, n # z.m, Exists(n)' PROVE post'[n].at # z.at
          OBVIOUS
        <5>2. CASE n = m
          BY <2>2, <2>4, <2>12, <4>1, <5>1, <5>2 DEF At
        <5>3. CASE n # m
          BY <2>4, <2>11, <4>1, <5>1, <5>3 DEF ChatTxn
        <5>4. QED
          BY <5>2, <5>3
      <4>3. z.pc = "announce" => Exists(z.m)' /\ post'[z.m].at = z.row.at
        BY <1>4, <2>4, <2>11, <4>1 DEF ChatTxn
      <4>4. z.pc \in {"change", "change_frame"} => Exists(z.m)'
        BY <2>11, <4>1 DEF ChatTxn
      <4>5. ChatTxn(z)'
        BY <4>1, <4>2, <4>3, <4>4 DEF ChatTxn
      <4>6. QED
        BY <2>8, <3>1, <4>1, <4>5
    <3>2. ChatTxn(r)'
      BY <1>1, <2>2, <2>4, <2>6, <2>11 DEF ChatTxn
    <3>3. QED
      BY <2>7, <2>8, <3>1, <3>2 DEF ChatInv, ChatTxns
  <2>14. Stamped'
    <3>1. ASSUME NEW k \in Messages, NEW n \in Messages, Exists(k)'
          PROVE  post'[k].at # 0 /\ (Exists(n)' /\ k # n => post'[k].at # post'[n].at)
      <4>1. t.at # 0 /\ \A i \in Messages \ {m} : Exists(i) => post[i].at # t.at
        BY <1>1 DEF ChatTxn
      <4>2. CASE k = m
        BY <2>2, <2>4, <2>11, <4>1, <4>2
      <4>3. CASE k # m /\ n = m
        BY <2>2, <2>4, <2>11, <3>1, <4>1, <4>3 DEF ChatInv, Stamped
      <4>4. CASE k # m /\ n # m
        BY <2>4, <2>11, <3>1, <4>4 DEF ChatInv, Stamped
      <4>5. QED
        BY <4>2, <4>3, <4>4
    <3>2. \A v \in Workers : At(v, "send")' => v # w /\ txn'[v] = txn[v] /\ At(v, "send")
      BY <2>6, <2>8 DEF At
    <3>3. QED
      BY <3>1, <3>2 DEF ChatInv, Stamped
  <2>15. \A u \in Members : view[u][m] = None
    BY <1>1, <1>4 DEF ChatInv, Behindhand
  <2>16. Behindhand'
    <3>1. \A u \in Members : Newest(u)' = Newest(u)
      BY <2>9 DEF Newest
    <3>2. ASSUME NEW u \in Members, NEW n \in Messages, view'[u][n] # None
          PROVE  Exists(n)' /\ view'[u][n].row.at = post'[n].at
      BY <2>4, <2>9, <2>11, <2>15, <3>2 DEF ChatInv, Behindhand
    <3>3. QED
      BY <2>9, <3>1, <3>2 DEF ChatInv, Behindhand, CaughtUp
  <2>17. Announcing(m)'
    BY <2>6, <2>8 DEF Announcing, At
  <2>18. \A v \in Workers : Tells(v) => txn'[v] = txn[v]
    BY <1>2, <2>8
  <2>19. ASSUME NEW u \in Members, NEW n \in Messages
         PROVE  (Mirrored(u, n) => Mirrored(u, n)') /\ (Reaches(u, n) => Reaches(u, n)')
    <3>1. CASE n = m
      BY <2>9, <2>15, <2>17, <3>1 DEF Mirrored, Reaches
    <3>2. CASE n # m
      BY <2>4, <2>9, <2>11, <2>18, <3>2, SameMirror, SameReach DEF Tells
    <3>3. QED
      BY <3>1, <3>2
  <2>20. Seen /\ Heard
    BY <2>19 DEF Seen, Heard
  <2>21. QED
    BY <2>10, <2>13, <2>14, <2>16, <2>20 DEF ChatInv
<1>5. QED
  BY <1>3, <1>4

NewestOK == \A u \in Members :
    /\ Newest(u) \in Nat
    /\ \A m \in Messages : view[u][m] # None => view[u][m].row.at \in Nat /\ view[u][m].row.at <= Newest(u)
    /\ \/ Newest(u) = 0 /\ \A m \in Messages : view[u][m] = None
       \/ \E m \in Messages : view[u][m] # None /\ view[u][m].row.at = Newest(u)

LEMMA NewestAll == ChatTypeOK => NewestOK
BY NewestIs DEF NewestOK

LEMMA NewestNext == ChatTypeOK' => NewestOK'
BY NewestAll, PTL

\* Rows keep their time, and clients lose nothing.
LEMMA ViewsGrow ==
    ASSUME ChatInv, ChatTypeOK', UNCHANGED socket,
           \A n \in Messages : (Exists(n) <=> Exists(n)') /\ (Exists(n) => post'[n].at = post[n].at),
           \A u \in Members, n \in Messages : view'[u][n] # None => Exists(n) /\ view'[u][n].row.at = post[n].at,
           \A u \in Members, n \in Messages : view[u][n] # None => view'[u][n] # None
    PROVE  Behindhand'
<1>1. NewestOK /\ NewestOK'
  BY NewestAll, NewestNext DEF ChatInv
<1>2. ASSUME NEW u \in Members PROVE Newest(u) <= Newest(u)'
  <2>1. CASE \E m \in Messages : view[u][m] # None /\ view[u][m].row.at = Newest(u)
    <3>1. PICK m \in Messages : view[u][m] # None /\ view[u][m].row.at = Newest(u)
      BY <2>1
    <3>2. view'[u][m] # None /\ view'[u][m].row.at = view[u][m].row.at
      BY <3>1 DEF ChatInv, Behindhand
    <3>3. view'[u][m].row.at <= Newest(u)'
      BY <1>1, <3>2 DEF NewestOK
    <3>4. QED
      BY <3>1, <3>2, <3>3
  <2>2. CASE Newest(u) = 0
    BY <1>1, <2>2 DEF NewestOK
  <2>3. QED
    BY <1>1, <2>1, <2>2 DEF NewestOK
<1>3. ASSUME NEW u \in Members, ~CaughtUp(u)' PROVE socket'[u].since <= Newest(u)'
  <2>1. socket[u].since <= Newest(u)
    BY <1>3 DEF ChatInv, Behindhand, CaughtUp
  <2>2. socket[u].since \in Nat
    BY DEF ChatInv, ChatTypeOK
  <2>3. PICK a, b : a = Newest(u) /\ b = Newest(u)'
    OBVIOUS
  <2>4. a \in Nat /\ b \in Nat
    BY <1>1, <2>3 DEF NewestOK
  <2>5. QED
    BY <1>2, <2>1, <2>2, <2>3, <2>4
<1>4. QED
  BY <1>3 DEF Behindhand

\* A message that is not older than what the client has, and that it has not
\* got, is newer.
LEMMA AheadOf ==
    ASSUME ChatInv, NEW u \in Members, NEW m \in Messages, Exists(m), view[u][m] = None, ~(Newest(u) > post[m].at)
    PROVE  Newest(u) < post[m].at
<1>1. Newest(u) \in Nat /\ post[m].at \in Nat /\ post[m].at # 0
  BY NewestIs DEF ChatInv, ChatTypeOK, Exists, Rows, Stamped
<1>2. Newest(u) # post[m].at
  <2>1. CASE Newest(u) = 0
    BY <1>1, <2>1
  <2>2. CASE \E n \in Messages : view[u][n] # None /\ view[u][n].row.at = Newest(u)
    <3>1. PICK n \in Messages : view[u][n] # None /\ view[u][n].row.at = Newest(u)
      BY <2>2
    <3>2. n # m /\ Exists(n) /\ post[n].at = Newest(u)
      BY <3>1 DEF ChatInv, Behindhand
    <3>3. QED
      BY <3>2 DEF ChatInv, Stamped
  <2>3. QED
    BY <2>1, <2>2, NewestIs DEF ChatInv
<1>3. QED
  BY <1>1, <1>2

FramesInTurn == \A w \in Workers : Steps(w) => ~FrameOvertaken(w)
MessagesInTurn == \A w \in Workers : Steps(w) => ~MessageOvertaken(w)

LEMMA AnnounceKeeps ==
    ASSUME ChatInv, NEW w \in Workers, Announce(w)
    PROVE  ChatInv' /\ (FramesInTurn => Seen) /\ (MessagesInTurn => Heard)
<1>1. PICK t, m : /\ t = txn[w] /\ m = t.m /\ t.pc = "announce" /\ m \in Messages
                  /\ t.row \in Rows /\ Exists(m) /\ post[m].at = t.row.at
  BY DEF Announce, At, ChatInv, ChatTxns, ChatTxn
<1>2. PICK x : x = [row |-> t.row, by |-> {}]
  OBVIOUS
<1>3. x \in Views /\ x.row = t.row /\ x.by = {} /\ x # None
  BY <1>1, <1>2, EventChatAssumption DEF Views
<1>4. view' = [u \in Members |-> IF Connected(u) THEN [view[u] EXCEPT ![m] = x] ELSE view[u]]
  BY <1>1, <1>2 DEF Announce
<1>5. End(w) /\ UNCHANGED <<channel, post, liked, muted, socket, stored, used>>
  BY DEF Announce
<1>6. ASSUME NEW u \in Members
      PROVE  /\ view'[u] \in [Messages -> Views \cup {None}]
             /\ \A n \in Messages : view'[u][n] = IF n = m /\ Connected(u) THEN x ELSE view[u][n]
  <2>1. view[u] \in [Messages -> Views \cup {None}]
    BY DEF ChatInv, ChatTypeOK
  <2>2. CASE Connected(u)
    <3>1. view'[u] = [view[u] EXCEPT ![m] = x]
      BY <1>4, <2>2
    <3>2. QED
      BY <1>1, <1>3, <2>1, <2>2, <3>1
  <2>3. CASE ~Connected(u)
    BY <1>4, <2>1, <2>3
  <2>4. QED
    BY <2>2, <2>3
<1>7. ChatTypeOK'
  <2>1. view' \in [Members -> [Messages -> Views \cup {None}]]
    BY <1>4, <1>6
  <2>2. QED
    BY <1>5, <2>1 DEF ChatInv, ChatTypeOK
<1>8. ChatTxns' /\ Stamped'
  BY <1>5, IdleChat, ChatHolds DEF End
<1>9. Behindhand'
  <2>1. \A n \in Messages : (Exists(n) <=> Exists(n)') /\ (Exists(n) => post'[n].at = post[n].at)
    BY <1>5 DEF Exists
  <2>2. \A u \in Members, n \in Messages : view'[u][n] # None => Exists(n) /\ view'[u][n].row.at = post[n].at
    BY <1>1, <1>3, <1>6 DEF ChatInv, Behindhand
  <2>3. \A u \in Members, n \in Messages : view[u][n] # None => view'[u][n] # None
    BY <1>3, <1>6
  <2>4. QED
    BY <1>5, <1>7, <2>1, <2>2, <2>3, ViewsGrow
<1>10. txn'[w] = Idle /\ \A v \in Workers : v # w => txn'[v] = txn[v]
  BY <1>5 DEF End, ChatInv, ChatTxns
<1>11. Steps(w)
  BY <1>1, <1>10 DEF Steps, Idle
<1>12. \A v \in Workers, n \in Messages : Tells(v) /\ txn[v].m = n /\ n # m => txn'[v] = txn[v]
  BY <1>1, <1>10
<1>13. ASSUME FramesInTurn PROVE Seen
  <2>1. Shown(m) = x
    BY <1>1, <1>2, <1>11, <1>13 DEF FramesInTurn, FrameOvertaken
  <2>2. post[m] = x.row /\ {z \in Members : <<m, z>> \in liked} = x.by
    BY <2>1 DEF Shown
  <2>3. ASSUME NEW u \in Members, NEW n \in Messages, socket[u].state = "online", Mirrored(u, n) PROVE Mirrored(u, n)'
    <3>1. CASE n = m
      <4>1. view'[u][m] = x
        <5>1. Connected(u)
          BY <2>3 DEF Connected
        <5>2. QED
          BY <1>1, <1>6, <5>1
      <4>2. \A f : view'[u][m].row[f] = post'[m][f]
        BY <1>5, <2>2, <4>1
      <4>3. \A z \in Members : (z \in view'[u][m].by) = (<<m, z>> \in liked')
        BY <1>5, <2>2, <4>1
      <4>4. QED
        BY <1>3, <3>1, <4>1, <4>2, <4>3 DEF Mirrored
    <3>2. CASE n # m
      <4>1. view'[u][n] = view[u][n] /\ post'[n] = post[n] /\ UNCHANGED liked
        BY <1>5, <1>6, <3>2
      <4>2. \A v \in Workers : Tells(v) /\ txn[v].m = n => txn'[v] = txn[v]
        BY <1>12, <3>2
      <4>3. QED
        BY <2>3, <4>1, <4>2, SameMirror
    <3>3. QED
      BY <3>1, <3>2
  <2>4. QED
    BY <2>3 DEF Seen
<1>14. ASSUME MessagesInTurn PROVE Heard
  <2>1. \A u \in Members : ~(Newest(u) > post[m].at)
    BY <1>1, <1>11, <1>14 DEF MessagesInTurn, MessageOvertaken
  <2>2. ASSUME NEW u \in Members, NEW n \in Messages, Reaches(u, n) PROVE Reaches(u, n)'
    <3>1. CASE n = m /\ Connected(u)
      BY <1>3, <1>6, <3>1 DEF Reaches
    <3>2. CASE n = m /\ ~Connected(u)
      <4>1. CASE view[u][m] # None
        BY <1>6, <3>2, <4>1 DEF Reaches
      <4>2. CASE view[u][m] = None
        <5>1. Newest(u) < post[m].at
          BY <1>1, <2>1, <4>2, AheadOf
        <5>2. ~CaughtUp(u) /\ socket[u].since <= Newest(u)
          BY <3>2 DEF ChatInv, Behindhand, CaughtUp, Connected
        <5>3. socket[u].since \in Nat /\ post[m].at \in Nat /\ Newest(u) \in Nat
          BY <1>1, NewestIs DEF ChatInv, ChatTypeOK, Exists, Rows
        <5>4. post[m].at > socket[u].since
          BY <5>1, <5>2, <5>3
        <5>5. QED
          BY <1>5, <3>2, <5>2, <5>4 DEF Reaches, CaughtUp
      <4>3. QED
        BY <4>1, <4>2
    <3>3. CASE n # m
      <4>1. \A v \in Workers : At(v, "announce") /\ txn[v].m = n => txn'[v] = txn[v]
        BY <1>12, <3>3 DEF Tells
      <4>2. (Exists(n)' => Exists(n) /\ post'[n].at = post[n].at) /\ socket'[u] = socket[u] /\ view'[u][n] = view[u][n]
        BY <1>5, <1>6, <3>3 DEF Exists
      <4>3. QED
        BY <2>2, <4>1, <4>2, SameReach
    <3>4. QED
      BY <3>1, <3>2, <3>3
  <2>3. QED
    BY <2>2 DEF Heard
<1>15. QED
  BY <1>7, <1>8, <1>9, <1>13, <1>14 DEF ChatInv

\* No row comes or goes, or changes its time.
PostsKept == \A n \in Messages : (Exists(n) <=> Exists(n)') /\ (Exists(n) => post'[n].at = post[n].at)

LEMMA ChatHoldsKept ==
    ASSUME ChatInv, PostsKept, NEW w \in Workers, NEW t, ChatTxn(t), t.pc # "send", txn' = [txn EXCEPT ![w] = t]
    PROVE  ChatTxns' /\ Stamped'
<1>1. ASSUME NEW r, ChatTxn(r) PROVE ChatTxn(r)'
  BY <1>1 DEF ChatTxn, PostsKept
<1>2. ChatTxns'
  BY <1>1 DEF ChatInv, ChatTxns
<1>3. \A v \in Workers : At(v, "send")' => txn'[v] = txn[v] /\ At(v, "send")
  BY DEF ChatInv, ChatTxns, At
<1>4. Stamped'
  BY <1>3 DEF ChatInv, Stamped, PostsKept
<1>5. QED
  BY <1>2, <1>4

LEMMA ChangeWriteKeeps == ASSUME ChatInv, NEW w \in Workers, ChangeWrite(w) PROVE ChatInv' /\ Seen /\ Heard
<1>1. PICK t, m, f, y :
         /\ t = txn[w] /\ m = t.m /\ f = t.field /\ y = t.value /\ t.pc = "change" /\ m \in Messages /\ Exists(m)
         /\ f \in Fields /\ y \in FieldValues(f)
         /\ t = [pc |-> t.pc, m |-> t.m, field |-> t.field, value |-> t.value, old |-> t.old]
  BY DEF ChangeWrite, At, ChatInv, ChatTxns, ChatTxn
<1>2. PICK x : x = [post[m] EXCEPT ![f] = y]
  OBVIOUS
<1>3. post[m] \in Rows
  BY <1>1 DEF Exists, ChatInv, ChatTypeOK
<1>4. /\ x \in Rows /\ x.at = post[m].at /\ x[f] = y /\ x # None
      /\ \A g \in Fields : g # f => x[g] = post[m][g]
  <2>1. /\ x \in Rows /\ x.at = post[m].at /\ x[f] = y
        /\ \A g \in Fields : g # f => x[g] = post[m][g]
    <3>1. PICK o \in Rows : o = post[m]
      BY <1>3
    <3>2. WithField(o, f, y, x)
      BY <1>2, <3>1 DEF WithField
    <3>3. /\ x \in Rows /\ x.at = o.at /\ x[f] = y
          /\ \A g \in Fields : g # f => x[g] = o[g]
      BY <1>1, <3>2, RowSet
    <3>4. QED
      BY <3>1, <3>3
  <2>2. QED
    BY <2>1, EventChatAssumption
<1>5. post' = [post EXCEPT ![m] = x]
  BY <1>1, <1>2 DEF ChangeWrite
<1>6. post'[m] = x /\ \A n \in Messages : n # m => post'[n] = post[n]
  BY <1>1, <1>5 DEF ChatInv, ChatTypeOK
<1>7. PICK r : r = [pc |-> "change_frame", m |-> m, field |-> f, value |-> y, old |-> t.old]
  OBVIOUS
<1>8. /\ r.pc = "change_frame" /\ r.m = m /\ r.field = f /\ r.value = y
      /\ r = [pc |-> r.pc, m |-> r.m, field |-> r.field, value |-> r.value, old |-> r.old]
  BY <1>7
<1>9. ChatTxn(r)
  BY <1>1, <1>8 DEF ChatTxn
<1>10. txn' = [txn EXCEPT ![w] = r]
  <2>1. r = [t EXCEPT !.pc = "change_frame"]
    BY <1>1, <1>7
  <2>2. txn' = [txn EXCEPT ![w].pc = "change_frame"]
    BY DEF ChangeWrite, Goto
  <2>3. QED
    BY <1>1, <2>1, <2>2
<1>11. txn'[w] = r /\ \A v \in Workers : v # w => txn'[v] = txn[v]
  BY <1>10 DEF ChatInv, ChatTxns
<1>12. UNCHANGED <<channel, liked, muted, view, socket, stored, used>>
  BY DEF ChangeWrite
<1>13. PostsKept
  BY <1>1, <1>4, <1>6 DEF PostsKept, Exists
<1>14. ChatTypeOK'
  BY <1>4, <1>5, <1>12 DEF ChatInv, ChatTypeOK
<1>15. ChatTxns' /\ Stamped'
  BY <1>8, <1>9, <1>10, <1>13, ChatHoldsKept
<1>16. Behindhand'
  BY <1>12, <1>13, <1>14, ViewsGrow DEF PostsKept, ChatInv, Behindhand
<1>17. \A v \in Workers : Tells(v) => v # w /\ txn'[v] = txn[v]
  BY <1>1, <1>11 DEF Tells, At
<1>18. ASSUME NEW u \in Members, NEW n \in Messages, Mirrored(u, n) PROVE Mirrored(u, n)'
  <2>1. CASE n # m
    BY <1>6, <1>12, <1>17, <1>18, <2>1, SameMirror
  <2>2. CASE n = m /\ view[u][m] = None
    <3>1. Announcing(m)
      BY <1>1, <1>18, <2>2 DEF Mirrored
    <3>2. Announcing(m)'
      BY <1>17, <3>1 DEF Announcing, Tells, At
    <3>3. QED
      BY <1>12, <2>2, <3>2 DEF Mirrored
  <2>3. CASE n = m /\ view[u][m] # None
    <3>1. FieldTold(m, f)'
      BY <1>4, <1>6, <1>8, <1>11 DEF FieldTold, At
    <3>2. ASSUME NEW g \in Fields, g # f PROVE view'[u][m].row[g] = post'[m][g] \/ FieldTold(m, g)'
      <4>1. view[u][m].row[g] = post[m][g] \/ FieldTold(m, g)
        BY <1>18, <2>3 DEF Mirrored, Fields
      <4>2. post'[m][g] = post[m][g]
        BY <1>4, <1>6, <3>2
      <4>3. FieldTold(m, g) => FieldTold(m, g)'
        BY <1>17, <4>2 DEF FieldTold, Tells, At
      <4>4. QED
        BY <1>12, <4>1, <4>2, <4>3
    <3>3. \A z \in Members : LikeTold(m, z) => LikeTold(m, z)'
      BY <1>12, <1>17 DEF LikeTold, Tells, At
    <3>4. QED
      BY <1>12, <1>18, <2>3, <3>1, <3>2, <3>3 DEF Mirrored, Fields
  <2>4. QED
    BY <2>1, <2>2, <2>3
<1>19. Heard
  BY <1>12, <1>13, <1>17, SameReach DEF Heard, PostsKept, Tells
<1>20. QED
  BY <1>14, <1>15, <1>16, <1>18, <1>19 DEF ChatInv, Seen

LEMMA ChangeFrameKeeps ==
    ASSUME ChatInv, NEW w \in Workers, ChangeFrame(w)
    PROVE  ChatInv' /\ (FramesInTurn => Seen) /\ Heard
<1>1. PICK t, m, f, y :
         /\ t = txn[w] /\ m = t.m /\ f = t.field /\ y = t.value /\ t.pc = "change_frame" /\ m \in Messages /\ Exists(m)
         /\ f \in Fields /\ y \in FieldValues(f)
  BY DEF ChangeFrame, At, ChatInv, ChatTxns, ChatTxn
<1>2. End(w) /\ UNCHANGED <<channel, post, liked, muted, socket, stored, used>>
  BY DEF ChangeFrame
<1>3. view' = [u \in Members |-> IF Connected(u) /\ view[u][m] # None
                                 THEN [view[u] EXCEPT ![m].row[f] = y] ELSE view[u]]
  BY <1>1 DEF ChangeFrame
<1>4. ASSUME NEW u \in Members
      PROVE  /\ view'[u] \in [Messages -> Views \cup {None}]
             /\ \A n \in Messages : n # m => view'[u][n] = view[u][n]
             /\ view[u][m] = None \/ ~Connected(u) => view'[u] = view[u]
             /\ view[u][m] # None /\ Connected(u) =>
                   /\ view'[u][m] # None /\ view'[u][m].row.at = view[u][m].row.at /\ view'[u][m].by = view[u][m].by
                   /\ view'[u][m].row[f] = y
                   /\ \A g \in Fields : g # f => view'[u][m].row[g] = view[u][m].row[g]
  <2>1. view[u] \in [Messages -> Views \cup {None}]
    BY DEF ChatInv, ChatTypeOK
  <2>2. CASE view[u][m] # None /\ Connected(u)
    <3>1. view[u][m] \in Views /\ view[u][m].row \in Rows
      BY <1>1, <2>1, <2>2, ViewSet
    <3>2. PICK x : x = [view[u][m].row EXCEPT ![f] = y]
      OBVIOUS
    <3>3. x \in Rows /\ x.at = view[u][m].row.at /\ x[f] = y /\ \A g \in Fields : g # f => x[g] = view[u][m].row[g]
      <4>1. PICK o \in Rows : o = view[u][m].row
        BY <3>1
      <4>2. WithField(o, f, y, x)
        BY <3>2, <4>1 DEF WithField
      <4>3. x \in Rows /\ x.at = o.at /\ x[f] = y /\ \A g \in Fields : g # f => x[g] = o[g]
        BY <1>1, <4>2, RowSet
      <4>4. QED
        BY <4>1, <4>3
    <3>4. PICK z : z = [view[u][m] EXCEPT !.row = x]
      OBVIOUS
    <3>5. z \in Views /\ z.row = x /\ z.by = view[u][m].by /\ z # None
      BY <3>1, <3>3, <3>4, ViewSet
    <3>6. view'[u] = [view[u] EXCEPT ![m] = z]
      BY <1>3, <2>2, <3>2, <3>4
    <3>7. view'[u][m] = z /\ \A n \in Messages : n # m => view'[u][n] = view[u][n]
      BY <1>1, <2>1, <3>6
    <3>8. view'[u] \in [Messages -> Views \cup {None}]
      BY <2>1, <3>5, <3>6
    <3>9. QED
      BY <2>2, <3>3, <3>5, <3>7, <3>8
  <2>3. CASE view[u][m] = None \/ ~Connected(u)
    BY <1>3, <2>1, <2>3
  <2>4. QED
    BY <2>2, <2>3
<1>5. ChatTypeOK'
  <2>1. view' \in [Members -> [Messages -> Views \cup {None}]]
    BY <1>3, <1>4
  <2>2. QED
    BY <1>2, <2>1 DEF ChatInv, ChatTypeOK
<1>6. ChatTxns' /\ Stamped'
  BY <1>2, IdleChat, ChatHolds DEF End
<1>7. ASSUME NEW u \in Members, NEW n \in Messages
      PROVE  /\ view[u][n] # None <=> view'[u][n] # None
             /\ view'[u][n] # None => view'[u][n].row.at = view[u][n].row.at
  BY <1>4
<1>8. Behindhand'
  <2>1. \A n \in Messages : (Exists(n) <=> Exists(n)') /\ (Exists(n) => post'[n].at = post[n].at)
    BY <1>2 DEF Exists
  <2>2. \A u \in Members, n \in Messages : view'[u][n] # None => Exists(n) /\ view'[u][n].row.at = post[n].at
    BY <1>7 DEF ChatInv, Behindhand
  <2>3. QED
    BY <1>2, <1>5, <1>7, <2>1, <2>2, ViewsGrow
<1>9. txn'[w] = Idle /\ \A v \in Workers : v # w => txn'[v] = txn[v]
  BY <1>2 DEF End, ChatInv, ChatTxns
<1>10. Steps(w)
  BY <1>1, <1>9 DEF Steps, Idle
<1>11. \A v \in Workers : Tells(v) /\ txn[v].m # m => txn'[v] = txn[v]
  BY <1>1, <1>9
<1>12. \A v \in Workers : At(v, "announce") => txn'[v] = txn[v]
  BY <1>1, <1>9 DEF At
<1>13. Heard
  BY <1>2, <1>7, <1>12, SameReach DEF Heard, Exists
<1>14. ASSUME FramesInTurn PROVE Seen
  <2>1. post[m][f] = y /\ ~Announcing(m)
    BY <1>1, <1>10, <1>14 DEF FramesInTurn, FrameOvertaken
  <2>2. ASSUME NEW u \in Members, NEW n \in Messages, socket[u].state = "online", Mirrored(u, n) PROVE Mirrored(u, n)'
    <3>1. CASE n # m
      BY <1>2, <1>4, <1>11, <2>2, <3>1, SameMirror
    <3>2. CASE n = m
      <4>1. view[u][m] # None /\ Connected(u)
        BY <1>1, <2>1, <2>2, <3>2 DEF Mirrored, Connected
      <4>2. view'[u][m] # None /\ view'[u][m].by = view[u][m].by /\ view'[u][m].row[f] = post'[m][f]
        BY <1>2, <1>4, <2>1, <4>1
      <4>3. ASSUME NEW g \in Fields, g # f PROVE view'[u][m].row[g] = post'[m][g] \/ FieldTold(m, g)'
        <5>1. view'[u][m].row[g] = view[u][m].row[g]
          BY <1>4, <4>1, <4>3
        <5>2. view[u][m].row[g] = post[m][g] \/ FieldTold(m, g)
          BY <2>2, <3>2, <4>1 DEF Mirrored, Fields
        <5>3. FieldTold(m, g) => FieldTold(m, g)'
          BY <1>1, <1>2, <1>9, <4>3 DEF FieldTold, At
        <5>4. QED
          BY <1>2, <5>1, <5>2, <5>3
      <4>4. ASSUME NEW z \in Members PROVE (z \in view'[u][m].by) = (<<m, z>> \in liked') \/ LikeTold(m, z)'
        <5>1. (z \in view[u][m].by) = (<<m, z>> \in liked) \/ LikeTold(m, z)
          BY <2>2, <3>2, <4>1 DEF Mirrored
        <5>2. LikeTold(m, z) => LikeTold(m, z)'
          BY <1>1, <1>2, <1>9 DEF LikeTold, At
        <5>3. QED
          BY <1>2, <4>2, <5>1, <5>2
      <4>5. QED
        BY <3>2, <4>2, <4>3, <4>4 DEF Mirrored, Fields
    <3>3. QED
      BY <3>1, <3>2
  <2>3. QED
    BY <2>2 DEF Seen
<1>15. QED
  BY <1>5, <1>6, <1>8, <1>13, <1>14 DEF ChatInv

-----------------------------------------------------------------------------
(* Reactions.                                                              *)

LEMMA ReactWriteKeeps == ASSUME ChatInv, NEW w \in Workers, ReactWrite(w) PROVE ChatInv' /\ Seen /\ Heard
<1>1. PICK t, m, x : /\ t = txn[w] /\ m = t.m /\ x = t.by /\ t.pc = "react" /\ m \in Messages /\ x \in Members
                     /\ t.on \in BOOLEAN /\ t = [pc |-> t.pc, m |-> t.m, by |-> t.by, on |-> t.on]
  BY DEF ReactWrite, At, ChatInv, ChatTxns, ChatTxn
<1>2. PICK r : r = [pc |-> "react_frame", m |-> m, by |-> x, on |-> t.on]
  OBVIOUS
<1>3. /\ r.pc = "react_frame" /\ r.m = m /\ r.by = x /\ r.on = t.on
      /\ r = [pc |-> r.pc, m |-> r.m, by |-> r.by, on |-> r.on]
  BY <1>2
<1>4. ChatTxn(r)
  BY <1>1, <1>3 DEF ChatTxn
<1>5. ~Tells(w)
  BY <1>1 DEF Tells, At
<1>6. UNCHANGED <<channel, post, muted, view, socket, stored, used>>
  BY DEF ReactWrite
<1>7. liked' = (IF t.on THEN liked \cup {<<m, x>>} ELSE liked \ {<<m, x>>})
  BY <1>1 DEF ReactWrite
<1>8. CASE t.on /\ <<m, x>> \in liked
  <2>1. UNCHANGED chat /\ End(w)
    BY <1>1, <1>6, <1>7, <1>8 DEF ReactWrite, chat
  <2>2. QED
    BY <1>5, <2>1, SameType, QuietEnd DEF chat, ChatInv
<1>9. CASE ~(t.on /\ <<m, x>> \in liked)
  <2>1. txn' = [txn EXCEPT ![w] = r]
    <3>1. r = [t EXCEPT !.pc = "react_frame"]
      BY <1>1, <1>2
    <3>2. txn' = [txn EXCEPT ![w].pc = "react_frame"]
      BY <1>1, <1>9 DEF ReactWrite, Goto
    <3>3. QED
      BY <1>1, <3>1, <3>2
  <2>2. txn'[w] = r /\ \A v \in Workers : v # w => txn'[v] = txn[v]
    BY <2>1 DEF ChatInv, ChatTxns
  <2>3. ChatTypeOK'
    BY <1>1, <1>6, <1>7 DEF ChatInv, ChatTypeOK
  <2>4. ChatTxns' /\ Stamped' /\ Behindhand'
    BY <1>3, <1>4, <1>6, <2>1, ChatHolds, SameView
  <2>5. \A v \in Workers : Tells(v) => v # w /\ txn'[v] = txn[v]
    BY <1>5, <2>2
  <2>6. Heard
    BY <1>6, <2>5, SameReach DEF Heard, Exists, Tells
  <2>7. ASSUME NEW u \in Members, NEW n \in Messages, Mirrored(u, n) PROVE Mirrored(u, n)'
    <3>1. Announcing(n) => Announcing(n)'
      BY <2>5 DEF Announcing, Tells, At
    <3>2. \A f : FieldTold(n, f) => FieldTold(n, f)'
      BY <1>6, <2>5 DEF FieldTold, Tells, At
    <3>3. CASE view[u][n] = None
      BY <1>6, <2>7, <3>1, <3>3 DEF Mirrored, Exists
    <3>4. CASE view[u][n] # None
      <4>1. ASSUME NEW z \in Members PROVE (z \in view'[u][n].by) = (<<n, z>> \in liked') \/ LikeTold(n, z)'
        <5>1. CASE n = m /\ z = x
          <6>1. (<<m, x>> \in liked') = t.on
            BY <1>1, <1>7
          <6>2. LikeTold(m, x)'
            BY <1>3, <2>2, <6>1 DEF LikeTold, At
          <6>3. QED
            BY <5>1, <6>2
        <5>2. CASE ~(n = m /\ z = x)
          <6>1. (<<n, z>> \in liked') = (<<n, z>> \in liked)
            BY <1>7, <5>2
          <6>2. (z \in view[u][n].by) = (<<n, z>> \in liked) \/ LikeTold(n, z)
            BY <2>7, <3>4 DEF Mirrored
          <6>3. LikeTold(n, z) => LikeTold(n, z)'
            BY <2>5, <6>1 DEF LikeTold, Tells, At
          <6>4. QED
            BY <1>6, <6>1, <6>2, <6>3
        <5>3. QED
          BY <5>1, <5>2
      <4>2. QED
        BY <1>6, <2>7, <3>2, <3>4, <4>1 DEF Mirrored
    <3>5. QED
      BY <3>3, <3>4
  <2>8. QED
    BY <2>3, <2>4, <2>6, <2>7 DEF ChatInv, Seen
<1>10. QED
  BY <1>8, <1>9

LEMMA ReactFrameKeeps ==
    ASSUME ChatInv, NEW w \in Workers, ReactFrame(w)
    PROVE  ChatInv' /\ (FramesInTurn => Seen) /\ Heard
<1>1. PICK t, m, x : /\ t = txn[w] /\ m = t.m /\ x = t.by /\ t.pc = "react_frame" /\ m \in Messages /\ x \in Members
                     /\ t.on \in BOOLEAN
  BY DEF ReactFrame, At, ChatInv, ChatTxns, ChatTxn
<1>2. End(w) /\ UNCHANGED <<channel, post, liked, muted, socket, stored, used>>
  BY DEF ReactFrame
<1>3. view' = [u \in Members |-> IF Connected(u) /\ view[u][m] # None
                 THEN [view[u] EXCEPT ![m].by = IF t.on THEN @ \cup {x} ELSE @ \ {x}] ELSE view[u]]
  BY <1>1 DEF ReactFrame
<1>4. ASSUME NEW u \in Members
      PROVE  /\ view'[u] \in [Messages -> Views \cup {None}]
             /\ \A n \in Messages : n # m => view'[u][n] = view[u][n]
             /\ view[u][m] = None \/ ~Connected(u) => view'[u] = view[u]
             /\ view[u][m] # None /\ Connected(u) =>
                   /\ view'[u][m] # None /\ view'[u][m].row = view[u][m].row
                   /\ (x \in view'[u][m].by) = t.on
                   /\ \A z \in Members : z # x => (z \in view'[u][m].by) = (z \in view[u][m].by)
  <2>1. view[u] \in [Messages -> Views \cup {None}]
    BY DEF ChatInv, ChatTypeOK
  <2>2. CASE view[u][m] # None /\ Connected(u)
    <3>1. view[u][m] \in Views /\ view[u][m].by \subseteq Members
      BY <1>1, <2>1, <2>2, ViewSet
    <3>2. PICK b : b = IF t.on THEN view[u][m].by \cup {x} ELSE view[u][m].by \ {x}
      OBVIOUS
    <3>3. b \in SUBSET Members /\ (x \in b) = t.on /\ \A z \in Members : z # x => (z \in b) = (z \in view[u][m].by)
      BY <1>1, <3>1, <3>2
    <3>4. PICK z : z = [view[u][m] EXCEPT !.by = b]
      OBVIOUS
    <3>5. z \in Views /\ z.by = b /\ z.row = view[u][m].row /\ z # None
      BY <3>1, <3>3, <3>4, ViewSet
    <3>6. view'[u] = [view[u] EXCEPT ![m] = z]
      BY <1>3, <2>2, <3>2, <3>4
    <3>7. view'[u][m] = z /\ \A n \in Messages : n # m => view'[u][n] = view[u][n]
      BY <1>1, <2>1, <3>6
    <3>8. view'[u] \in [Messages -> Views \cup {None}]
      BY <2>1, <3>5, <3>6
    <3>9. QED
      BY <2>2, <3>3, <3>5, <3>7, <3>8
  <2>3. CASE view[u][m] = None \/ ~Connected(u)
    BY <1>3, <2>1, <2>3
  <2>4. QED
    BY <2>2, <2>3
<1>5. ChatTypeOK'
  <2>1. view' \in [Members -> [Messages -> Views \cup {None}]]
    BY <1>3, <1>4
  <2>2. QED
    BY <1>2, <2>1 DEF ChatInv, ChatTypeOK
<1>6. ChatTxns' /\ Stamped'
  BY <1>2, IdleChat, ChatHolds DEF End
<1>7. ASSUME NEW u \in Members, NEW n \in Messages
      PROVE  /\ view[u][n] # None <=> view'[u][n] # None
             /\ view'[u][n] # None => view'[u][n].row = view[u][n].row
  BY <1>4
<1>8. Behindhand'
  <2>1. \A n \in Messages : (Exists(n) <=> Exists(n)') /\ (Exists(n) => post'[n].at = post[n].at)
    BY <1>2 DEF Exists
  <2>2. \A u \in Members, n \in Messages : view'[u][n] # None => Exists(n) /\ view'[u][n].row.at = post[n].at
    BY <1>7 DEF ChatInv, Behindhand
  <2>3. QED
    BY <1>2, <1>5, <1>7, <2>1, <2>2, ViewsGrow
<1>9. txn'[w] = Idle /\ \A v \in Workers : v # w => txn'[v] = txn[v]
  BY <1>2 DEF End, ChatInv, ChatTxns
<1>10. Steps(w)
  BY <1>1, <1>9 DEF Steps, Idle
<1>11. \A v \in Workers : Tells(v) /\ txn[v].m # m => txn'[v] = txn[v]
  BY <1>1, <1>9
<1>12. \A v \in Workers : At(v, "announce") => txn'[v] = txn[v]
  BY <1>1, <1>9 DEF At
<1>13. Heard
  BY <1>2, <1>7, <1>12, SameReach DEF Heard, Exists
<1>14. ASSUME FramesInTurn PROVE Seen
  <2>1. (<<m, x>> \in liked) = t.on /\ ~Announcing(m)
    BY <1>1, <1>10, <1>14 DEF FramesInTurn, FrameOvertaken
  <2>2. ASSUME NEW u \in Members, NEW n \in Messages, socket[u].state = "online", Mirrored(u, n) PROVE Mirrored(u, n)'
    <3>1. CASE n # m
      BY <1>2, <1>4, <1>11, <2>2, <3>1, SameMirror
    <3>2. CASE n = m /\ view[u][m] = None
      <4>1. ~Exists(m) /\ view'[u][m] = None
        BY <1>4, <2>1, <2>2, <3>2 DEF Mirrored
      <4>2. QED
        BY <1>2, <3>2, <4>1 DEF Mirrored, Exists
    <3>3. CASE n = m /\ view[u][m] # None
      <4>1. Connected(u)
        BY <2>2 DEF Connected
      <4>2. view'[u][m] # None /\ view'[u][m].row = view[u][m].row
        BY <1>4, <3>3, <4>1
      <4>3. ASSUME NEW g \in Fields PROVE view'[u][m].row[g] = post'[m][g] \/ FieldTold(m, g)'
        <5>1. view[u][m].row[g] = post[m][g] \/ FieldTold(m, g)
          BY <2>2, <3>3 DEF Mirrored, Fields
        <5>2. FieldTold(m, g) => FieldTold(m, g)'
          BY <1>1, <1>2, <1>9 DEF FieldTold, At
        <5>3. QED
          BY <1>2, <4>2, <5>1, <5>2
      <4>4. ASSUME NEW z \in Members PROVE (z \in view'[u][m].by) = (<<m, z>> \in liked') \/ LikeTold(m, z)'
        <5>1. CASE z = x
          BY <1>2, <1>4, <2>1, <3>3, <4>1, <5>1
        <5>2. CASE z # x
          <6>1. (z \in view[u][m].by) = (<<m, z>> \in liked) \/ LikeTold(m, z)
            BY <2>2, <3>3 DEF Mirrored
          <6>2. (z \in view'[u][m].by) = (z \in view[u][m].by)
            BY <1>4, <3>3, <4>1, <5>2
          <6>3. LikeTold(m, z) => LikeTold(m, z)'
            BY <1>1, <1>2, <1>9, <5>2 DEF LikeTold, At
          <6>4. QED
            BY <1>2, <6>1, <6>2, <6>3
        <5>3. QED
          BY <5>1, <5>2
      <4>5. QED
        BY <3>3, <4>2, <4>3, <4>4 DEF Mirrored, Fields
    <3>4. QED
      BY <3>1, <3>2, <3>3
  <2>3. QED
    BY <2>2 DEF Seen
<1>15. QED
  BY <1>5, <1>6, <1>8, <1>13, <1>14 DEF ChatInv

-----------------------------------------------------------------------------
(* Connections.                                                            *)

\* A client that loses its connection, or gets it back, asks for what is newer
\* than what it has; it is not caught up until it has asked.
Relinks(u) ==
    \/ socket'[u] = socket[u]
    \/ ~CaughtUp(u)' /\ socket'[u].since = Since(u)

LEMMA RelinkKeeps ==
    ASSUME ChatInv, UNCHANGED <<channel, post, liked, muted, view, stored, used>>,
           socket' \in [Members -> [state : Connections, since : Nat]], \A u \in Members : Relinks(u)
    PROVE  /\ ChatTypeOK' /\ Behindhand'
           /\ \A u \in Members : ~CaughtUp(u)' => socket'[u].since <= Newest(u)
           /\ \A u \in Members, m \in Messages :
                 (~CaughtUp(u) /\ post[m].at > socket[u].since) => (~CaughtUp(u)' /\ post'[m].at > socket'[u].since)
<1>1. ChatTypeOK'
  BY DEF ChatInv, ChatTypeOK
<1>2. \A u \in Members : Newest(u)' = Newest(u) /\ Newest(u) \in Nat
  <2>1. \A u \in Members : Newest(u)' = Newest(u)
    BY DEF Newest
  <2>2. QED
    BY <2>1, NewestIs DEF ChatInv
<1>3. ASSUME NEW u \in Members, ~CaughtUp(u)' PROVE socket'[u].since <= Newest(u)
  <2>1. CASE socket'[u] = socket[u]
    BY <1>3, <2>1 DEF ChatInv, Behindhand, CaughtUp
  <2>2. CASE socket'[u].since = Since(u)
    BY <1>2, <2>2 DEF Since, ChatInv, Behindhand
  <2>3. QED
    BY <2>1, <2>2 DEF Relinks
<1>4. Behindhand'
  BY <1>2, <1>3 DEF ChatInv, Behindhand, Exists
<1>5. ASSUME NEW u \in Members, NEW m \in Messages, ~CaughtUp(u), post[m].at > socket[u].since
      PROVE  ~CaughtUp(u)' /\ post'[m].at > socket'[u].since
  BY <1>5 DEF Relinks, CaughtUp, Since
<1>6. QED
  BY <1>1, <1>3, <1>4, <1>5

LEMMA LinksKeep ==
    ASSUME ChatInv, NEW u \in Members, Disconnect(u) \/ Connect(u)
    PROVE  ChatInv' /\ Seen /\ Heard
<1>1. UNCHANGED <<channel, post, liked, muted, view, stored, used, txn>>
  BY DEF Disconnect, Connect, Serves, requests
<1>2. Newest(u) \in Nat /\ socket[u].since \in Nat /\ socket \in [Members -> [state : Connections, since : Nat]]
  BY NewestIs DEF ChatInv, ChatTypeOK
<1>3. PICK r : /\ r = [state |-> r.state, since |-> Since(u)] /\ r.state \in {"offline", "behind"}
               /\ socket' = [socket EXCEPT ![u] = r]
  <2>1. CASE Disconnect(u)
    BY <2>1 DEF Disconnect
  <2>2. CASE Connect(u)
    <3>1. socket[u] = [state |-> "offline", since |-> socket[u].since]
      BY <1>2, <2>2 DEF Connect
    <3>2. Since(u) = socket[u].since
      BY <3>1 DEF Since, CaughtUp
    <3>3. PICK r : r = [state |-> "behind", since |-> Since(u)]
      OBVIOUS
    <3>4. r = [socket[u] EXCEPT !.state = "behind"]
      BY <3>1, <3>2, <3>3
    <3>5. socket' = [socket EXCEPT ![u] = r]
      BY <2>2, <3>4 DEF Connect
    <3>6. QED
      BY <3>3, <3>5
  <2>3. QED
    BY <2>1, <2>2
<1>4. Since(u) \in Nat
  BY <1>2 DEF Since
<1>5. r \in [state : Connections, since : Nat] /\ r.since = Since(u)
  BY <1>3, <1>4 DEF Connections
<1>6. socket' \in [Members -> [state : Connections, since : Nat]]
  BY <1>2, <1>3, <1>5
<1>7. ASSUME NEW v \in Members PROVE Relinks(v)
  <2>1. CASE v = u
    BY <1>2, <1>3, <1>5, <2>1 DEF Relinks, CaughtUp
  <2>2. CASE v # u
    BY <1>2, <1>3, <2>2 DEF Relinks
  <2>3. QED
    BY <2>1, <2>2
<1>8. ChatTypeOK' /\ Behindhand'
  BY <1>1, <1>6, <1>7, RelinkKeeps
<1>9. ChatTxns' /\ Stamped'
  BY <1>1, ChatStays
<1>10. Heard
  <2>1. ASSUME NEW v \in Members, NEW m \in Messages, Reaches(v, m) PROVE Reaches(v, m)'
    <3>1. Announcing(m)' = Announcing(m) /\ Exists(m)' = Exists(m)
      BY <1>1 DEF Announcing, At, Exists
    <3>2. ~CaughtUp(v) /\ post[m].at > socket[v].since => ~CaughtUp(v)' /\ post'[m].at > socket'[v].since
      BY <1>1, <1>6, <1>7, RelinkKeeps
    <3>3. QED
      BY <1>1, <2>1, <3>1, <3>2 DEF Reaches
  <2>2. QED
    BY <2>1 DEF Heard
<1>11. Seen
  BY <1>1, SameMirror DEF Seen
<1>12. QED
  BY <1>8, <1>9, <1>10, <1>11 DEF ChatInv

\* What was being announced when the process ended is newer than what any client has,
\* so that it is asked for.
LEMMA RestartKeeps == ASSUME ChatInv, Restart PROVE ChatInv' /\ Seen /\ (MessagesInTurn => Heard)
<1>1. UNCHANGED <<channel, post, liked, muted, view, stored, used>> /\ txn' = [w \in Workers |-> Idle]
  BY DEF Restart
<1>2. socket \in [Members -> [state : Connections, since : Nat]]
  BY DEF ChatInv, ChatTypeOK
<1>3. ASSUME NEW u \in Members
      PROVE  /\ socket'[u] \in [state : Connections, since : Nat] /\ socket'[u].state = "offline"
             /\ Relinks(u)
  <2>1. Newest(u) \in Nat /\ Since(u) \in Nat
    BY <1>2, NewestIs DEF Since, ChatInv
  <2>2. CASE Connected(u)
    <3>1. socket'[u] = [state |-> "offline", since |-> Since(u)]
      BY <2>2 DEF Restart
    <3>2. QED
      BY <2>1, <3>1 DEF Connections, Relinks, CaughtUp
  <2>3. CASE ~Connected(u)
    <3>1. socket'[u] = socket[u]
      BY <2>3 DEF Restart
    <3>2. QED
      BY <1>2, <2>3, <3>1 DEF Relinks, Connected
  <2>4. QED
    BY <2>2, <2>3
<1>4. socket' \in [Members -> [state : Connections, since : Nat]]
  BY <1>3 DEF Restart
<1>5. ChatTypeOK' /\ Behindhand'
  BY <1>1, <1>3, <1>4, RelinkKeeps
<1>6. ChatTxns'
  <2>1. ChatTxn(Idle)'
    BY DEF ChatTxn, Idle
  <2>2. QED
    BY <1>1, <2>1 DEF ChatTxns
<1>7. \A w \in Workers : txn'[w] = Idle /\ ~At(w, "send")'
  BY <1>1 DEF At, Idle
<1>8. Stamped'
  BY <1>1, <1>7 DEF ChatInv, Stamped, Exists
<1>9. Seen
  BY <1>3 DEF Seen
<1>10. ASSUME MessagesInTurn PROVE Heard
  <2>1. ASSUME NEW u \in Members, NEW m \in Messages, Reaches(u, m) PROVE Reaches(u, m)'
    <3>1. CASE ~Exists(m) \/ view[u][m] # None
      BY <1>1, <3>1 DEF Reaches, Exists
    <3>2. CASE ~CaughtUp(u) /\ post[m].at > socket[u].since
      <4>1. ~CaughtUp(u)' /\ post'[m].at > socket'[u].since
        BY <1>1, <1>3, <1>4, <3>2, RelinkKeeps
      <4>2. QED
        BY <4>1 DEF Reaches
    <3>3. CASE Exists(m) /\ view[u][m] = None /\ Announcing(m)
      <4>1. PICK w \in Workers : At(w, "announce") /\ txn[w].m = m
        BY <3>3 DEF Announcing
      <4>2. Steps(w)
        BY <1>7, <4>1 DEF Steps, At, Idle
      <4>3. txn[w].row.at = post[m].at
        BY <4>1 DEF ChatInv, ChatTxns, ChatTxn, At
      <4>4. ~(Newest(u) > post[m].at)
        BY <1>10, <4>1, <4>2, <4>3 DEF MessagesInTurn, MessageOvertaken, At
      <4>5. Newest(u) < post[m].at
        BY <3>3, <4>4, AheadOf
      <4>6. ~CaughtUp(u)'
        BY <1>3 DEF CaughtUp
      <4>7. socket'[u].since <= Newest(u)
        BY <1>1, <1>3, <1>4, <4>6, RelinkKeeps
      <4>8. socket'[u].since \in Nat /\ Newest(u) \in Nat /\ post[m].at \in Nat
        BY <1>4, <3>3, NewestIs DEF ChatInv, ChatTypeOK, Exists, Rows
      <4>9. post'[m].at > socket'[u].since
        BY <1>1, <4>5, <4>7, <4>8
      <4>10. QED
        BY <4>6, <4>9 DEF Reaches
    <3>4. QED
      BY <2>1, <3>1, <3>2, <3>3 DEF Reaches
  <2>2. QED
    BY <2>1 DEF Heard
<1>11. QED
  BY <1>5, <1>6, <1>8, <1>9, <1>10 DEF ChatInv

LEMMA CatchupKeeps == ASSUME ChatInv, NEW u \in Members, Catchup(u) PROVE ChatInv' /\ Seen /\ Heard
<1>1. UNCHANGED <<channel, post, liked, muted, stored, used, txn>> /\ socket[u].state = "behind"
  BY DEF Catchup, Serves, requests
<1>2. PICK s : s = [state |-> "back", since |-> 0] /\ socket' = [socket EXCEPT ![u] = s]
  BY DEF Catchup
<1>3. PICK z : /\ z = [m \in Messages |-> IF Answered(u, m) THEN Shown(m) ELSE view[u][m]]
               /\ view' = [view EXCEPT ![u] = z]
  BY DEF Catchup
<1>4. /\ view \in [Members -> [Messages -> Views \cup {None}]]
      /\ socket \in [Members -> [state : Connections, since : Nat]]
  BY DEF ChatInv, ChatTypeOK
<1>5. s.state = "back" /\ s \in [state : Connections, since : Nat]
  BY <1>2 DEF Connections
<1>6. /\ socket'[u].state = "back" /\ \A v \in Members : v # u => socket'[v] = socket[v]
      /\ view'[u] = z /\ \A v \in Members : v # u => view'[v] = view[v]
      /\ socket' \in [Members -> [state : Connections, since : Nat]]
  BY <1>2, <1>3, <1>4, <1>5
<1>7. ASSUME NEW m \in Messages
      PROVE  /\ z[m] \in Views \cup {None}
             /\ Answered(u, m) => Exists(m) /\ z[m] # None /\ z[m].row = post[m]
             /\ ~Answered(u, m) => z[m] = view[u][m]
  <2>1. CASE Answered(u, m)
    <3>1. z[m] = Shown(m)
      BY <1>3, <2>1
    <3>2. post[m] \in Rows /\ {x \in Members : <<m, x>> \in liked} \subseteq Members
      BY <2>1 DEF Answered, Newer, Exists, ChatInv, ChatTypeOK
    <3>3. Shown(m) \in Views /\ Shown(m).row = post[m]
      BY <3>2 DEF Shown, Views
    <3>4. QED
      BY <2>1, <3>1, <3>3, ViewSet DEF Answered, Newer
  <2>2. CASE ~Answered(u, m)
    BY <1>3, <1>4, <2>2
  <2>3. QED
    BY <2>1, <2>2
<1>8. ChatTypeOK'
  <2>1. z \in [Messages -> Views \cup {None}]
    BY <1>3, <1>7
  <2>2. view' \in [Members -> [Messages -> Views \cup {None}]]
    BY <1>3, <1>4, <2>1
  <2>3. QED
    BY <1>1, <1>6, <2>2 DEF ChatInv, ChatTypeOK
<1>9. ChatTxns' /\ Stamped'
  BY <1>1, ChatStays
<1>10. Behindhand'
  <2>1. ASSUME NEW v \in Members, NEW m \in Messages, view'[v][m] # None
        PROVE  Exists(m)' /\ view'[v][m].row.at = post'[m].at
    <3>1. CASE v = u /\ Answered(u, m)
      BY <1>1, <1>6, <1>7, <3>1 DEF Exists
    <3>2. CASE v = u /\ ~Answered(u, m)
      BY <1>1, <1>6, <1>7, <2>1, <3>2 DEF ChatInv, Behindhand, Exists
    <3>3. CASE v # u
      BY <1>1, <1>6, <2>1, <3>3 DEF ChatInv, Behindhand, Exists
    <3>4. QED
      BY <3>1, <3>2, <3>3
  <2>2. ASSUME NEW v \in Members, ~CaughtUp(v)' PROVE socket'[v].since <= Newest(v)'
    <3>1. v # u
      BY <1>6, <2>2 DEF CaughtUp
    <3>2. Newest(v)' = Newest(v)
      <4>1. PICK x : x = view[v] /\ x = view'[v]
        BY <1>6, <3>1
      <4>2. PICK stamps : stamps = {x[m].row.at : m \in {n \in Messages : x[n] # None}}
        OBVIOUS
      <4>3. Newest(v) = IF stamps = {} THEN 0 ELSE CHOOSE t \in stamps : \A y \in stamps : y <= t
        BY <4>1, <4>2 DEF Newest
      <4>4. Newest(v)' = IF stamps = {} THEN 0 ELSE CHOOSE t \in stamps : \A y \in stamps : y <= t
        BY <4>1, <4>2 DEF Newest
      <4>5. QED
        BY <4>3, <4>4
    <3>3. QED
      BY <1>6, <2>2, <3>1, <3>2 DEF ChatInv, Behindhand, CaughtUp
  <2>3. QED
    BY <2>1, <2>2 DEF Behindhand
<1>11. Seen
  <2>1. ASSUME NEW v \in Members, NEW m \in Messages, socket[v].state = "online", Mirrored(v, m) PROVE Mirrored(v, m)'
    <3>1. v # u
      BY <1>1, <2>1
    <3>2. QED
      BY <1>1, <1>6, <2>1, <3>1, SameMirror
  <2>2. QED
    BY <2>1 DEF Seen
<1>12. Heard
  <2>1. ASSUME NEW v \in Members, NEW m \in Messages, Reaches(v, m) PROVE Reaches(v, m)' \/ CutOff(v, m)
    <3>1. CASE v = u
      <4>1. Exists(m)' = Exists(m) /\ Announcing(m)' = Announcing(m)
        BY <1>1 DEF Exists, Announcing, At
      <4>2. Newer(m, socket[u].since) => Answered(u, m) \/ CutOff(u, m)
        <5>1. IsFiniteSet(Ahead(u, m))
          BY FS_Subset, EventChatAssumption DEF Ahead
        <5>2. PICK n : n = Cardinality(Ahead(u, m)) /\ n \in Nat
          BY <5>1, FS_CardinalityType
        <5>3. n < CatchupLimit \/ n >= CatchupLimit
          BY <5>2, EventChatAssumption
        <5>4. QED
          BY <1>1, <1>6, <5>2, <5>3 DEF Answered, CutOff
      <4>3. Exists(m) /\ ~Announcing(m) => view'[u][m] # None \/ CutOff(u, m)
        BY <1>6, <1>7, <2>1, <3>1, <4>2 DEF Reaches, Newer
      <4>4. QED
        BY <3>1, <4>1, <4>3 DEF Reaches
    <3>2. CASE v # u
      BY <1>1, <1>6, <2>1, <3>2, SameReach DEF Exists
    <3>3. QED
      BY <3>1, <3>2
  <2>2. QED
    BY <2>1 DEF Heard
<1>13. QED
  BY <1>8, <1>9, <1>10, <1>11, <1>12 DEF ChatInv

-----------------------------------------------------------------------------
(* The channels every event has.                                           *)

Default(c, k) == Open(c) /\ channel[c].kind = k /\ ~channel[c].extra

LEMMA FewerDefaults ==
    ASSUME NEW k, \A c \in Channels : Default(c, k)' => Default(c, k)
    PROVE  OneDefault(k) => OneDefault(k)'
<1>1. PICK A, B : A = {c \in Channels : Default(c, k)} /\ B = {c \in Channels : Default(c, k)'}
  OBVIOUS
<1>2. IsFiniteSet(A) /\ B \subseteq A
  BY <1>1, FS_Subset, EventChatAssumption
<1>3. Cardinality(B) <= Cardinality(A) /\ Cardinality(A) \in Nat /\ Cardinality(B) \in Nat
  BY <1>2, FS_Subset, FS_CardinalityType
<1>4. Cardinality(A) <= 1 => Cardinality(B) <= 1
  BY <1>3
<1>5. OneDefault(k) <=> Cardinality(A) <= 1
  BY <1>1 DEF OneDefault, Default
<1>6. OneDefault(k)' <=> Cardinality(B) <= 1
  BY <1>1 DEF OneDefault, Default
<1>7. QED
  BY <1>4, <1>5, <1>6, Zenon

OpensInTurn == \A w \in Workers : (Steps(w) /\ At(w, "ensure")) => txn[w].missing \subseteq Missing

LEMMA EnsureOnce ==
    ASSUME ChatInv, NEW w \in Workers, EnsureInsert(w), OpensInTurn, NEW k \in DefaultKinds
    PROVE  OneDefault(k) => OneDefault(k)'
<1>1. PICK missing : missing = txn[w].missing /\ At(w, "ensure")
  BY DEF EnsureInsert
<1>2. PICK row \in [missing -> Unused] :
         channel' = [c \in Channels |-> IF \E j \in missing : row[j] = c
                                        THEN [NoChannel EXCEPT !.kind = CHOOSE j \in missing : row[j] = c]
                                        ELSE channel[c]]
  BY <1>1 DEF EnsureInsert
<1>3. Steps(w)
  <2>1. txn'[w] = Idle
    BY DEF EnsureInsert, End, ChatInv, ChatTxns
  <2>2. QED
    BY <1>1, <2>1 DEF Steps, At, Idle
<1>4. missing \subseteq Missing
  BY <1>1, <1>3 DEF OpensInTurn
<1>5. ASSUME NEW c \in Channels, \E j \in missing : row[j] = c
      PROVE  \E j \in missing : row[j] = c /\ channel'[c].kind = j
  <2>1. PICK j : j = CHOOSE i \in missing : row[i] = c
    OBVIOUS
  <2>2. j \in missing /\ row[j] = c
    BY <1>5, <2>1
  <2>3. channel'[c] = [NoChannel EXCEPT !.kind = j]
    BY <1>2, <1>5, <2>1
  <2>4. channel'[c].kind = j
    BY <2>3 DEF NoChannel
  <2>5. QED
    BY <2>2, <2>4
<1>6. \A c \in Channels : (~\E j \in missing : row[j] = c) => channel'[c] = channel[c]
  BY <1>2
<1>7. CASE k \in missing
  <2>1. ~\E c \in Channels : Open(c) /\ channel[c].kind = k
    BY <1>4, <1>7 DEF Missing
  <2>2. ASSUME NEW c \in Channels, Default(c, k)' PROVE c = row[k]
    BY <1>5, <1>6, <2>1, <2>2 DEF Default, Open
  <2>3. PICK B : B = {c \in Channels : Default(c, k)'}
    OBVIOUS
  <2>4. B \subseteq {row[k]} /\ IsFiniteSet({row[k]}) /\ Cardinality({row[k]}) = 1
    BY <2>2, <2>3, FS_Singleton
  <2>5. Cardinality(B) <= 1
    BY <2>4, FS_Subset
  <2>6. OneDefault(k)' = (Cardinality(B) <= 1)
    BY <2>3 DEF OneDefault, Default
  <2>7. QED
    BY <2>5, <2>6
<1>8. CASE k \notin missing
  <2>1. ASSUME NEW c \in Channels, Default(c, k)' PROVE Default(c, k)
    BY <1>5, <1>6, <1>8, <2>1 DEF Default, Open
  <2>2. QED
    BY <2>1, FewerDefaults
<1>9. QED
  BY <1>7, <1>8

LEMMA ChannelsOnce ==
    ASSUME ChatInv, NEW k \in DefaultKinds, NEW c \in Channels,
           \/ \E j \in DefaultKinds \cup {"custom"} : CreateChannel(c, j)
           \/ DeleteChannel(c) \/ Archive(c) \/ (\E on \in BOOLEAN : Freeze(c, on))
    PROVE  OneDefault(k) => OneDefault(k)'
<1>1. channel \in [Channels -> ChannelRows] /\ channel[c] \in ChannelRows
  BY DEF ChatInv, ChatTypeOK
<1>2. ASSUME NEW r, channel' = [channel EXCEPT ![c] = r],
             r.extra \/ r.deleted \/ (r.kind = channel[c].kind /\ r.extra = channel[c].extra /\ r.deleted = channel[c].deleted)
      PROVE  OneDefault(k) => OneDefault(k)'
  <2>1. ASSUME NEW d \in Channels, Default(d, k)' PROVE Default(d, k)
    BY <1>1, <1>2, <2>1 DEF Default, Open
  <2>2. QED
    BY <2>1, FewerDefaults
<1>3. ASSUME NEW j, CreateChannel(c, j) PROVE OneDefault(k) => OneDefault(k)'
  <2>1. PICK r : r = [NoChannel EXCEPT !.kind = j, !.extra = TRUE]
    OBVIOUS
  <2>2. r.extra
    BY <2>1 DEF NoChannel
  <2>3. QED
    BY <1>2, <1>3, <2>1, <2>2 DEF CreateChannel
<1>4. CASE DeleteChannel(c)
  <2>1. PICK r : r = [channel[c] EXCEPT !.deleted = TRUE]
    OBVIOUS
  <2>2. r.deleted
    BY <1>1, <2>1 DEF ChannelRows
  <2>3. QED
    BY <1>2, <1>4, <2>1, <2>2 DEF DeleteChannel
<1>5. CASE Archive(c)
  <2>1. PICK r : r = [channel[c] EXCEPT !.archived = TRUE]
    OBVIOUS
  <2>2. r.kind = channel[c].kind /\ r.extra = channel[c].extra /\ r.deleted = channel[c].deleted
    BY <1>1, <2>1 DEF ChannelRows
  <2>3. QED
    BY <1>2, <1>5, <2>1, <2>2 DEF Archive
<1>6. ASSUME NEW on \in BOOLEAN, Freeze(c, on) PROVE OneDefault(k) => OneDefault(k)'
  <2>1. PICK r : r = [channel[c] EXCEPT !.frozen = on]
    OBVIOUS
  <2>2. r.kind = channel[c].kind /\ r.extra = channel[c].extra /\ r.deleted = channel[c].deleted
    BY <1>1, <2>1 DEF ChannelRows
  <2>3. QED
    BY <1>2, <1>6, <2>1, <2>2 DEF Freeze
<1>7. QED
  BY <1>3, <1>4, <1>5, <1>6

LEMMA SameChannels == UNCHANGED channel => \A k \in DefaultKinds : OneDefault(k) => OneDefault(k)'
<1>1. SUFFICES ASSUME UNCHANGED channel, NEW k \in DefaultKinds PROVE OneDefault(k) => OneDefault(k)'
  OBVIOUS
<1>2. \A c \in Channels : Default(c, k)' => Default(c, k)
  BY <1>1 DEF Default, Open
<1>3. QED
  BY <1>2, FewerDefaults

-----------------------------------------------------------------------------
(* Every step of the chat.                                                 *)

LEMMA ChatBegins == RequestsInit /\ ChatInit => ChatInv
<1>1. SUFFICES ASSUME RequestsInit, ChatInit PROVE ChatInv
  OBVIOUS
<1>2. ASSUME NEW c \in Channels PROVE channel[c] \in ChannelRows
  <2>1. NoChannel \in ChannelRows /\ [NoChannel EXCEPT !.kind = "qa"] \in ChannelRows
    BY EventChatAssumption DEF NoChannel, ChannelRows
  <2>2. QED
    BY <1>1, <2>1 DEF ChatInit
<1>3. channel \in [Channels -> ChannelRows]
  BY <1>1, <1>2 DEF ChatInit
<1>4. ChatTypeOK
  BY <1>1, <1>3 DEF ChatInit, ChatTypeOK, Connections
<1>5. ChatTxns
  BY <1>1, IdleChat DEF RequestsInit, ChatTxns
<1>6. Stamped
  BY <1>1 DEF RequestsInit, ChatInit, Stamped, Exists, At, Idle
<1>7. Behindhand
  BY <1>1 DEF ChatInit, Behindhand, CaughtUp
<1>8. QED
  BY <1>4, <1>5, <1>6, <1>7 DEF ChatInv

LEMMA ChatKeeps ==
    ChatInv /\ [ChatNext]_chatVars => ChatInv' /\ (FramesInTurn => Seen) /\ (MessagesInTurn => Heard)
<1> DEFINE Goal == ChatInv' /\ (FramesInTurn => Seen) /\ (MessagesInTurn => Heard)
<1>1. SUFFICES ASSUME ChatInv, [ChatNext]_chatVars PROVE Goal
  OBVIOUS
<1>2. CASE ChannelStep
  BY <1>1, <1>2, EnsureReadKeeps, EnsureInsertKeeps, ChannelsKeep DEF ChannelStep
<1>3. CASE MessageStep
  <2>1. ASSUME NEW w \in Workers, NEW m \in Messages, NEW c \in Channels, NEW parent, SendRead(w, m, c, parent)
        PROVE  Goal
    BY <1>1, <2>1, SendReadKeeps
  <2>2. ASSUME NEW w \in Workers, NEW u \in Members, NEW m \in Messages, NEW field \in Fields,
               ChangeRead(w, u, m, field)
        PROVE  Goal
    BY <1>1, <2>2, ChangeReadKeeps
  <2>3. ASSUME NEW w \in Workers, NEW u \in Members, NEW m \in Messages, ReactRead(w, u, m) PROVE Goal
    BY <1>1, <2>3, ReactReadKeeps
  <2>4. ASSUME NEW w \in Workers, SendInsert(w) PROVE Goal
    BY <1>1, <2>4, SendInsertKeeps
  <2>5. ASSUME NEW w \in Workers, Announce(w) PROVE Goal
    BY <1>1, <2>5, AnnounceKeeps
  <2>6. ASSUME NEW w \in Workers, ChangeWrite(w) PROVE Goal
    BY <1>1, <2>6, ChangeWriteKeeps
  <2>7. ASSUME NEW w \in Workers, ChangeFrame(w) PROVE Goal
    BY <1>1, <2>7, ChangeFrameKeeps
  <2>8. ASSUME NEW w \in Workers, ReactWrite(w) PROVE Goal
    BY <1>1, <2>8, ReactWriteKeeps
  <2>9. ASSUME NEW w \in Workers, ReactFrame(w) PROVE Goal
    BY <1>1, <2>9, ReactFrameKeeps
  <2>10. ASSUME NEW w \in Workers, (\E u \in Members : UploadRead(w, u)) \/ UploadStore(w) \/ UploadCount(w)
         PROVE  Goal
    BY <1>1, <2>10, UploadsKeep
  <2>11. QED
    BY <1>3, <2>1, <2>2, <2>3, <2>4, <2>5, <2>6, <2>7, <2>8, <2>9, <2>10, Zenon DEF MessageStep, Fields
<1>4. CASE ConnectionStep
  BY <1>1, <1>4, LinksKeep, CatchupKeeps, RestartKeeps DEF ConnectionStep
<1>5. CASE UNCHANGED chatVars
  <2>1. UNCHANGED <<chat, txn>>
    BY <1>5 DEF chatVars, requests
  <2>2. QED
    BY <1>1, <2>1, Calm, SameType DEF chat, ChatInv
<1>6. QED
  BY <1>1, <1>2, <1>3, <1>4, <1>5 DEF ChatNext

LEMMA ChatOnce ==
    ChatInv /\ [ChatNext]_chatVars => (OpensInTurn => \A k \in DefaultKinds : OneDefault(k) => OneDefault(k)')
<1>1. SUFFICES ASSUME ChatInv, [ChatNext]_chatVars, OpensInTurn
               PROVE  \A k \in DefaultKinds : OneDefault(k) => OneDefault(k)'
  OBVIOUS
<1>2. ASSUME NEW w \in Workers, EnsureInsert(w) PROVE \A k \in DefaultKinds : OneDefault(k) => OneDefault(k)'
  BY <1>1, <1>2, EnsureOnce
<1>3. ASSUME NEW c \in Channels,
             \/ \E j \in DefaultKinds \cup {"custom"} : CreateChannel(c, j)
             \/ DeleteChannel(c) \/ Archive(c) \/ (\E on \in BOOLEAN : Freeze(c, on))
      PROVE  \A k \in DefaultKinds : OneDefault(k) => OneDefault(k)'
  BY <1>1, <1>3, ChannelsOnce
<1>4. ASSUME NEW w \in Workers, EnsureRead(w) PROVE UNCHANGED channel
  BY <1>4 DEF EnsureRead, chat
<1>5. ASSUME NEW u \in Members, Mute(u) \/ Unmute(u) PROVE UNCHANGED channel
  BY <1>5 DEF Mute, Unmute
<1>6. CASE MessageStep
  <2>1. UNCHANGED channel
    BY <1>6 DEF MessageStep, SendRead, ChangeRead, ReactRead, SendInsert, Announce, ChangeWrite, ChangeFrame,
                ReactWrite, ReactFrame, UploadRead, UploadStore, UploadCount, chat
  <2>2. QED
    BY <2>1, SameChannels
<1>7. CASE ConnectionStep
  BY <1>7, SameChannels DEF ConnectionStep, Disconnect, Connect, Catchup, Restart
<1>8. CASE UNCHANGED chatVars
  BY <1>8, SameChannels DEF chatVars, chat
<1>9. CASE ChannelStep
  BY <1>2, <1>3, <1>4, <1>5, <1>9, SameChannels, Zenon DEF ChannelStep
<1>10. QED
  BY <1>1, <1>6, <1>7, <1>8, <1>9 DEF ChatNext

\* The chat's state and what its requests carry are well formed.
THEOREM ChatTyped == ChatSpec => []ChatTypeOK
<1>1. RequestsInit /\ ChatInit => ChatInv
  BY ChatBegins
<1>2. ChatInv /\ [ChatNext]_chatVars => ChatInv'
  BY ChatKeeps
<1>3. ChatInv => ChatTypeOK
  BY DEF ChatInv
<1>4. QED
  BY <1>1, <1>2, <1>3, PTL DEF ChatSpec

\* Of any number of openings of the chat at once, only one that inserts what
\* another has inserted since it looked gives the event a second channel of a
\* default kind.
THEOREM DefaultsOnce == ChatSpec => OnlyDoubleOpensDuplicate
<1>1. RequestsInit /\ ChatInit => ChatInv
  BY ChatBegins
<1>2. ChatInv /\ [ChatNext]_chatVars => ChatInv'
  BY ChatKeeps
<1>3. ChatInv /\ [ChatNext]_chatVars =>
        [(\A w \in Workers : (Steps(w) /\ At(w, "ensure")) => txn[w].missing \subseteq Missing)
          => \A k \in DefaultKinds : OneDefault(k) => OneDefault(k)']_chatVars
  BY ChatOnce DEF OpensInTurn
<1>4. QED
  BY <1>1, <1>2, <1>3, PTL DEF ChatSpec, OnlyDoubleOpensDuplicate

\* With any number of members, messages and requests, a client that has not
\* lost its connection shows what the rows say or the frame with the
\* difference is on its way, as long as no frame is overtaken.
THEOREM ClientsMirror == ChatSpec => OnlyOvertakenFramesMislead
<1>1. RequestsInit /\ ChatInit => ChatInv
  BY ChatBegins
<1>2. ChatInv /\ [ChatNext]_chatVars => ChatInv'
  BY ChatKeeps
<1>3. ChatInv /\ [ChatNext]_chatVars =>
        [(\A w \in Workers : Steps(w) => ~FrameOvertaken(w))
          => \A u \in Members, m \in Messages :
               (socket[u].state = "online" /\ Mirrored(u, m)) =>
                  (socket'[u].state # "online" \/ Mirrored(u, m)')]_chatVars
  BY ChatKeeps DEF FramesInTurn, Seen
<1>4. QED
  BY <1>1, <1>2, <1>3, PTL DEF ChatSpec, OnlyOvertakenFramesMislead

\* A message reaches every client through lost connections and lost processes,
\* as long as it is not overtaken by a later one and is among the oldest
\* CatchupLimit that the client asks for: the rule is that no two messages
\* share a time and that a client asks since no later than the newest it has.
THEOREM MessagesReach == ChatSpec => OnlyOvertakenMessagesAreMissed
<1>1. RequestsInit /\ ChatInit => ChatInv
  BY ChatBegins
<1>2. ChatInv /\ [ChatNext]_chatVars => ChatInv'
  BY ChatKeeps
<1>3. ChatInv /\ [ChatNext]_chatVars =>
        [(\A w \in Workers : Steps(w) => ~MessageOvertaken(w))
          => \A u \in Members, m \in Messages : Reaches(u, m) => Reaches(u, m)' \/ CutOff(u, m)]_chatVars
  BY ChatKeeps DEF MessagesInTurn, Heard
<1>4. QED
  BY <1>1, <1>2, <1>3, PTL DEF ChatSpec, OnlyOvertakenMessagesAreMissed

-----------------------------------------------------------------------------
(* The assistant's sources.                                                *)

Docs == [origin : Pages \cup {None}, text : Texts, scope : {"public"} \cup UNION Audiences, approve : BOOLEAN]

Chosen(t) == CHOOSE doc \in t.todo : TRUE

Ingests(t) == t.pc \in {"find", "upsert", "index", "log"}

Shaped(t) ==
    /\ t = IF t.pc = "find"
           THEN [pc |-> "find", kind |-> t.kind, todo |-> t.todo, listed |-> t.listed, failed |-> t.failed]
           ELSE [pc |-> t.pc, kind |-> t.kind, todo |-> t.todo, listed |-> t.listed, failed |-> t.failed, i |-> t.i]
    /\ t.kind \in {"sweep", "ingest", "upload"}

\* The row of a document, which an ingestion of public pages lists once.
IngestTxn(t) ==
    /\ Shaped(t)
    /\ t.todo \subseteq t.listed /\ t.listed \subseteq Docs /\ IsFiniteSet(t.listed)
    /\ t.pc # "find" => t.todo # {}
    /\ t.kind # "upload" => /\ \A d \in t.listed : d.origin # None
                            /\ \A d, e \in t.listed : d.origin = e.origin => d = e
    /\ t.pc = "upsert" /\ t.i # None => t.i \in Stored /\ source[t.i].origin = Chosen(t).origin
    /\ t.pc \in {"index", "log"} => t.i \in Stored /\ source[t.i].origin = Chosen(t).origin

KnowledgeTxn(t) ==
    /\ "kind" \in DOMAIN t => Ingests(t)
    /\ Ingests(t) => IngestTxn(t)
    /\ t.pc = "approve" => t.i \in Stored
    /\ t.pc = "answer" => t = [pc |-> "answer", scopes |-> t.scopes, chunks |-> t.chunks]

\* What a sweep is done with.
Listed(doc) == \E i \in Sources(doc.origin) : source[i].status = "indexed" /\ source[i].text = doc.text

\* What it has been through and has not failed is in the index, and its own
\* source says what it is about to index.
CalmTxn(t) ==
    /\ t.pc \in {"index", "log"} => source[t.i].text = Chosen(t).text
    /\ t.pc = "log" => source[t.i].status = "indexed"
    /\ \A d \in t.listed \ (t.todo \cup t.failed) : Listed(d)

OfPages(t) == Ingests(t) /\ t.kind # "upload"

KnowledgeInv ==
    /\ page \in [Pages -> Texts \cup {None}]
    /\ source \in [SourceIds -> SourceRows \cup {None}]
    /\ txn = [w \in Workers |-> txn[w]]
    /\ \A w \in Workers : KnowledgeTxn(txn[w])
    /\ \A w \in Workers : OfPages(txn[w]) /\ w \notin stirred => CalmTxn(txn[w])

StirredNext == stirred' = {w \in Workers : Runs(w)' /\ (w \in stirred \/ Stirs(w))}

LEMMA KindIs ==
    ASSUME NEW t, "kind" \in DOMAIN t => Ingests(t), Ingests(t) => Shaped(t)
    PROVE  "kind" \in DOMAIN t /\ t.kind \in {"sweep", "ingest"} <=> OfPages(t)
<1>1. ASSUME OfPages(t) PROVE "kind" \in DOMAIN t /\ t.kind \in {"sweep", "ingest"}
  <2>1. t.kind \in {"sweep", "ingest"} /\ Shaped(t)
    BY <1>1 DEF OfPages, Shaped
  <2>2. t = IF t.pc = "find"
           THEN [pc |-> "find", kind |-> t.kind, todo |-> t.todo, listed |-> t.listed, failed |-> t.failed]
           ELSE [pc |-> t.pc, kind |-> t.kind, todo |-> t.todo, listed |-> t.listed, failed |-> t.failed, i |-> t.i]
    BY <2>1 DEF Shaped
  <2>3. "kind" \in DOMAIN t
    BY <2>2
  <2>4. QED
    BY <2>1, <2>3
<1>2. QED
  BY <1>1 DEF OfPages

LEMMA RunsIs == ASSUME NEW w, KnowledgeTxn(txn[w]) PROVE Runs(w) <=> OfPages(txn[w])
BY KindIs DEF Runs, KnowledgeTxn, IngestTxn

LEMMA ChosenIn == \A t : t.todo # {} => Chosen(t) \in t.todo
BY DEF Chosen

LEMMA LastOne == ASSUME NEW S, IsFiniteSet(S), Cardinality(S) <= 1, NEW x \in S PROVE S = {x}
<1>1. PICK T : T = S \ {x}
  OBVIOUS
<1>2. IsFiniteSet(T) /\ Cardinality(T) = Cardinality(S) - 1 /\ Cardinality(T) \in Nat /\ Cardinality(S) \in Nat
  BY <1>1, FS_RemoveElement, FS_CardinalityType
<1>3. Cardinality(T) = 0
  BY <1>2
<1>4. T = {}
  BY <1>2, <1>3, FS_EmptySet
<1>5. QED
  BY <1>1, <1>4

LEMMA SourceRow ==
    ASSUME NEW r \in SourceRows
    PROVE  /\ r # None
           /\ r = [origin |-> r.origin, text |-> r.text, scope |-> r.scope, status |-> r.status, chunks |-> r.chunks,
                   approved |-> r.approved, retired |-> r.retired, expired |-> r.expired]
BY PragyaanAssumption DEF SourceRows

-----------------------------------------------------------------------------
(* What a step leaves as it is.                                            *)

\* No source goes, or is another page's.
Stay == \A i \in SourceIds : source[i] # None => source'[i] # None /\ source'[i].origin = source[i].origin

LEMMA StayTxn == ASSUME Stay, NEW t, KnowledgeTxn(t) PROVE KnowledgeTxn(t)'
<1>1. \A i : i \in Stored => i \in Stored' /\ source'[i].origin = source[i].origin
  BY DEF Stay, Stored
<1>2. Ingests(t) => IngestTxn(t)'
  BY <1>1 DEF KnowledgeTxn, IngestTxn, Chosen
<1>3. QED
  BY <1>1, <1>2 DEF KnowledgeTxn, Ingests

\* A worker that is not stirred by the step of another finds its sources as
\* they were.
LEMMA CalmStays ==
    ASSUME KnowledgeInv, Stay, NEW v \in Workers, txn'[v] = txn[v], NEW t, t = txn[v],
           ~Stirs(v), OfPages(t), CalmTxn(t)
    PROVE  CalmTxn(t)'
<1>1. IngestTxn(t)
  BY DEF KnowledgeInv, KnowledgeTxn, OfPages
<1>2. ASSUME NEW i \in Stored, NEW d \in t.listed, source[i].origin = d.origin
      PROVE  source'[i].text = source[i].text /\ source'[i].status = source[i].status
  BY <1>2 DEF Stirs, Steps
<1>3. \A i : i \in Stored => i \in SourceIds /\ i \in Stored' /\ source'[i].origin = source[i].origin
  BY DEF Stay, Stored
<1>4. ASSUME NEW d \in t.listed, Listed(d) PROVE Listed(d)'
  <2>1. PICK i : /\ i \in Stored /\ d.origin # None /\ source[i].origin = d.origin
                 /\ source[i].status = "indexed" /\ source[i].text = d.text
    BY <1>4 DEF Listed, Sources
  <2>2. source'[i].text = source[i].text /\ source'[i].status = source[i].status
    BY <1>2, <2>1
  <2>3. i \in Sources(d.origin)'
    BY <1>3, <2>1 DEF Sources
  <2>4. QED
    BY <2>1, <2>2, <2>3 DEF Listed
<1>5. ASSUME t.pc \in {"index", "log"}
      PROVE  source'[t.i].text = source[t.i].text /\ source'[t.i].status = source[t.i].status
  <2>1. PICK c : c = Chosen(t) /\ c \in t.listed
    BY <1>1, <1>5, ChosenIn DEF IngestTxn
  <2>2. t.i \in Stored /\ source[t.i].origin = c.origin
    BY <1>1, <1>5, <2>1 DEF IngestTxn
  <2>3. QED
    BY <1>2, <2>1, <2>2
<1>6. QED
  BY <1>4, <1>5 DEF CalmTxn, Chosen

LEMMA OneTxn ==
    ASSUME KnowledgeInv, page' \in [Pages -> Texts \cup {None}], source' \in [SourceIds -> SourceRows \cup {None}],
           Stay, StirredNext, NEW w \in Workers, NEW t, txn' = [txn EXCEPT ![w] = t], KnowledgeTxn(t)',
           OfPages(t) /\ (OfPages(txn[w]) => w \notin stirred) => CalmTxn(t)'
    PROVE  KnowledgeInv'
<1>1. txn' = [v \in Workers |-> txn'[v]] /\ txn'[w] = t /\ \A v \in Workers \ {w} : txn'[v] = txn[v]
  BY DEF KnowledgeInv
<1>2. ASSUME NEW v \in Workers PROVE KnowledgeTxn(txn[v])'
  <2>1. CASE v = w
    BY <1>1, <2>1
  <2>2. CASE v # w
    <3>1. PICK z : z = txn[v] /\ KnowledgeTxn(z)
      BY DEF KnowledgeInv
    <3>2. KnowledgeTxn(z)'
      BY <3>1, StayTxn
    <3>3. QED
      BY <1>1, <2>2, <3>1, <3>2
  <2>3. QED
    BY <2>1, <2>2
<1>3. ASSUME NEW v \in Workers, OfPages(txn[v])', v \notin stirred' PROVE CalmTxn(txn[v])'
  <2>1. Runs(v)'
    <3>1. PICK z : z = txn'[v]
      OBVIOUS
    <3>2. ("kind" \in DOMAIN z => Ingests(z)) /\ (Ingests(z) => Shaped(z)) /\ OfPages(z)
      <4>1. KnowledgeTxn(z)' /\ OfPages(z)'
        BY <1>2, <1>3, <3>1
      <4>2. (Ingests(z) => Shaped(z)) /\ ("kind" \in DOMAIN z => Ingests(z))
        BY <4>1 DEF KnowledgeTxn, IngestTxn, Ingests, Shaped
      <4>3. QED
        BY <4>1, <4>2 DEF OfPages, Ingests
    <3>3. "kind" \in DOMAIN z /\ z.kind \in {"sweep", "ingest"}
      BY <3>2, KindIs
    <3>4. QED
      BY <3>1, <3>3 DEF Runs
  <2>2. v \notin stirred /\ ~Stirs(v)
    BY <1>3, <2>1 DEF StirredNext
  <2>3. CASE v = w
    BY <1>1, <1>3, <2>2, <2>3 DEF OfPages, Ingests
  <2>4. CASE v # w
    <3>1. PICK z : z = txn[v] /\ txn'[v] = z
      BY <1>1, <2>4
    <3>2. OfPages(z)
      BY <1>3, <3>1 DEF OfPages, Ingests
    <3>3. CalmTxn(z)
      BY <2>2, <3>1, <3>2 DEF KnowledgeInv
    <3>4. CalmTxn(z)'
      BY <2>2, <3>1, <3>2, <3>3, CalmStays
    <3>5. QED
      BY <3>1, <3>4
  <2>5. QED
    BY <2>3, <2>4
<1>4. QED
  BY <1>1, <1>2, <1>3 DEF KnowledgeInv

LEMMA SameSources ==
    ASSUME UNCHANGED source
    PROVE  /\ Stay /\ \A t : KnowledgeTxn(t) => KnowledgeTxn(t)'
           /\ \A t : CalmTxn(t) => CalmTxn(t)'
           /\ \A d : Listed(d) => Listed(d)'
<1>1. Stay
  BY DEF Stay
<1>2. \A d : Listed(d) => Listed(d)'
  BY DEF Listed, Sources, Stored
<1>3. \A t : CalmTxn(t) => CalmTxn(t)'
  BY <1>2 DEF CalmTxn, Chosen
<1>4. QED
  BY <1>1, <1>2, <1>3, StayTxn

LEMMA QuietTxn ==
    ASSUME KnowledgeInv, UNCHANGED <<page, source>>, StirredNext, NEW w \in Workers, NEW t,
           txn' = [txn EXCEPT ![w] = t], KnowledgeTxn(t),
           OfPages(t) /\ (OfPages(txn[w]) => w \notin stirred) => CalmTxn(t)
    PROVE  KnowledgeInv'
<1>1. Stay /\ KnowledgeTxn(t)' /\ (CalmTxn(t) => CalmTxn(t)')
  BY SameSources
<1>2. OfPages(t) /\ (OfPages(txn[w]) => w \notin stirred) => CalmTxn(t)'
  BY <1>1
<1>3. page' \in [Pages -> Texts \cup {None}] /\ source' \in [SourceIds -> SourceRows \cup {None}]
  BY DEF KnowledgeInv
<1>4. QED
  BY <1>1, <1>2, <1>3, OneTxn

LEMMA SameTxn ==
    ASSUME KnowledgeInv, page' \in [Pages -> Texts \cup {None}], UNCHANGED <<source, txn>>,
           StirredNext \/ UNCHANGED stirred
    PROVE  KnowledgeInv'
<1>1. (\A w \in Workers : KnowledgeTxn(txn[w]))'
  BY SameSources DEF KnowledgeInv
<1>2. ASSUME NEW w \in Workers, OfPages(txn[w]), w \notin stirred' PROVE w \notin stirred
  <2>1. Runs(w)
    BY <1>2, RunsIs DEF KnowledgeInv
  <2>2. Runs(w)'
    BY <2>1 DEF Runs
  <2>3. QED
    BY <1>2, <2>2 DEF StirredNext
<1>3. (\A w \in Workers : OfPages(txn[w]) /\ w \notin stirred => CalmTxn(txn[w]))'
  <2>1. SUFFICES ASSUME NEW w \in Workers, OfPages(txn[w])', w \notin stirred' PROVE CalmTxn(txn[w])'
    OBVIOUS
  <2>2. OfPages(txn[w])
    BY <2>1 DEF OfPages, Ingests
  <2>3. PICK t : t = txn[w] /\ t = txn'[w] /\ CalmTxn(t)
    BY <1>2, <2>1, <2>2 DEF KnowledgeInv
  <2>4. CalmTxn(t)'
    BY <2>3, SameSources
  <2>5. QED
    BY <2>3, <2>4
<1>4. QED
  BY <1>1, <1>3 DEF KnowledgeInv

LEMMA IdleTxn == KnowledgeTxn(Idle) /\ ~OfPages(Idle)
<1>1. Idle.pc = "idle" /\ "kind" \notin DOMAIN Idle
  BY DEF Idle
<1>2. QED
  BY <1>1 DEF KnowledgeTxn, OfPages, Ingests

LEMMA QuietEnds ==
    ASSUME KnowledgeInv, UNCHANGED <<page, source>>, StirredNext, NEW w \in Workers, End(w)
    PROVE  KnowledgeInv'
BY IdleTxn, QuietTxn DEF End

Writes(i, row) == source' = [source EXCEPT ![i] = row]

LEMMA RowStays ==
    ASSUME KnowledgeInv, NEW i \in SourceIds, NEW row \in SourceRows, Writes(i, row),
           source[i] = None \/ source[i].origin = row.origin
    PROVE  /\ Stay /\ source' \in [SourceIds -> SourceRows \cup {None}]
           /\ source'[i] = row /\ i \in Stored' /\ \A j \in SourceIds : j # i => source'[j] = source[j]
<1>1. source \in [SourceIds -> SourceRows \cup {None}] /\ row # None
  BY SourceRow DEF KnowledgeInv
<1>2. source'[i] = row /\ \A j \in SourceIds : j # i => source'[j] = source[j]
  BY <1>1 DEF Writes
<1>3. source' \in [SourceIds -> SourceRows \cup {None}] /\ i \in Stored'
  BY <1>1, <1>2 DEF Stored, Writes
<1>4. Stay
  BY <1>1, <1>2 DEF Stay
<1>5. QED
  BY <1>2, <1>3, <1>4

-----------------------------------------------------------------------------
(* Labels.                                                                 *)

\* No source is mislabelled that was not, but as it may be.
LabelsKept ==
    \A i \in SourceIds :
       Mislabelled(i)' /\ ~Mislabelled(i)
       => \E w \in Workers : /\ ApproveWrite(w) \/ (Index(w) /\ source[i].text # NextDoc(w).text)
                             /\ txn[w].i = i

LEMMA SameLabels == UNCHANGED source => LabelsKept
BY DEF LabelsKept, Mislabelled

LEMMA OneLabel ==
    ASSUME KnowledgeInv, NEW i \in SourceIds, NEW row \in SourceRows, Writes(i, row),
           \/ row.status # "indexed"
           \/ source[i] # None /\ row.text = source[i].text /\ row.chunks = source[i].chunks /\ row.status = source[i].status
           \/ row.text = row.chunks
           \/ \E w \in Workers : /\ ApproveWrite(w) \/ (Index(w) /\ source[i].text # NextDoc(w).text)
                                 /\ txn[w].i = i
    PROVE  LabelsKept
<1>1. source'[i] = row /\ \A j \in SourceIds : j # i => source'[j] = source[j]
  BY DEF KnowledgeInv, Writes
<1>2. SUFFICES ASSUME NEW j \in SourceIds, Mislabelled(j)', ~Mislabelled(j)
               PROVE  \E w \in Workers : /\ ApproveWrite(w) \/ (Index(w) /\ source[j].text # NextDoc(w).text)
                                         /\ txn[w].i = j
  BY DEF LabelsKept
<1>3. i = j
  BY <1>1, <1>2 DEF Mislabelled
<1>4. ~(row.status # "indexed") /\ ~(row.text = row.chunks)
  BY <1>1, <1>2, <1>3 DEF Mislabelled
<1>5. ~(source[i] # None /\ row.text = source[i].text /\ row.chunks = source[i].chunks /\ row.status = source[i].status)
  BY <1>1, <1>2, <1>3 DEF Mislabelled
<1>6. QED
  BY <1>3, <1>4, <1>5

-----------------------------------------------------------------------------
(* Decisions.                                                              *)

LEMMA DecideKeeps ==
    ASSUME KnowledgeInv, StirredNext, NEW w \in Workers, NEW i \in Stored, NEW action, NEW row \in SourceRows,
           Decide(w, i, action, row), row.origin = source[i].origin,
           \/ row.status # "indexed"
           \/ row.text = source[i].text /\ row.chunks = source[i].chunks /\ row.status = source[i].status
           \/ ApproveWrite(w) /\ txn[w].i = i
    PROVE  KnowledgeInv' /\ LabelsKept
<1>1. UNCHANGED page /\ Writes(i, row) /\ i \in SourceIds /\ source[i] # None
  BY DEF Decide, SetSource, Stored, Writes
<1>2. Stay /\ source' \in [SourceIds -> SourceRows \cup {None}]
  BY <1>1, RowStays
<1>3. PICK t : t = [pc |-> "decided", i |-> i, action |-> action]
  OBVIOUS
<1>4. t.pc = "decided" /\ "kind" \notin DOMAIN t
  BY <1>3
<1>5. KnowledgeTxn(t)' /\ ~OfPages(t)
  BY <1>4 DEF KnowledgeTxn, OfPages, Ingests
<1>6. txn' = [txn EXCEPT ![w] = t]
  BY <1>3 DEF Decide
<1>7. page' \in [Pages -> Texts \cup {None}]
  BY <1>1 DEF KnowledgeInv
<1>8. KnowledgeInv'
  BY <1>2, <1>5, <1>6, <1>7, OneTxn
<1>9. LabelsKept
  BY <1>1, OneLabel
<1>10. QED
  BY <1>8, <1>9

LEMMA RetireKeeps ==
    ASSUME KnowledgeInv, StirredNext, NEW w \in Workers, NEW i \in SourceIds, Retire(w, i)
    PROVE  KnowledgeInv' /\ LabelsKept
<1>1. i \in Stored /\ source[i] \in SourceRows
  BY DEF Retire, Stored, KnowledgeInv
<1>2. PICK row : row = [source[i] EXCEPT !.retired = TRUE]
  OBVIOUS
<1>3. row \in SourceRows /\ \A f \in {"origin", "text", "status", "chunks"} : row[f] = source[i][f]
  BY <1>1, <1>2 DEF SourceRows
<1>4. Decide(w, i, "retire", row)
  BY <1>2 DEF Retire
<1>5. QED
  BY <1>1, <1>3, <1>4, DecideKeeps

LEMMA RetainKeeps ==
    ASSUME KnowledgeInv, StirredNext, NEW w \in Workers, NEW i \in SourceIds, NEW expired \in BOOLEAN, Retain(w, i, expired)
    PROVE  KnowledgeInv' /\ LabelsKept
<1>1. i \in Stored /\ source[i] \in SourceRows
  BY DEF Retain, Stored, KnowledgeInv
<1>2. PICK row : row = [source[i] EXCEPT !.expired = expired]
  OBVIOUS
<1>3. row \in SourceRows /\ \A f \in {"origin", "text", "status", "chunks"} : row[f] = source[i][f]
  BY <1>1, <1>2 DEF SourceRows
<1>4. Decide(w, i, "retention", row)
  BY <1>2 DEF Retain
<1>5. QED
  BY <1>1, <1>3, <1>4, DecideKeeps

LEMMA RejectKeeps ==
    ASSUME KnowledgeInv, StirredNext, NEW w \in Workers, NEW i \in SourceIds, Reject(w, i)
    PROVE  KnowledgeInv' /\ LabelsKept
<1>1. i \in Stored /\ source[i] \in SourceRows
  BY DEF Reject, Stored, KnowledgeInv
<1>2. PICK row : row = [source[i] EXCEPT !.status = "failed", !.retired = TRUE, !.approved = FALSE]
  OBVIOUS
<1>3. row \in SourceRows /\ row.origin = source[i].origin /\ row.status = "failed"
  BY <1>1, <1>2 DEF SourceRows
<1>4. Decide(w, i, "reject", row)
  BY <1>2 DEF Reject
<1>5. QED
  BY <1>1, <1>3, <1>4, DecideKeeps

LEMMA ApproveKeeps ==
    ASSUME KnowledgeInv, StirredNext, NEW w \in Workers, (\E i \in SourceIds : ApproveRead(w, i)) \/ ApproveWrite(w)
    PROVE  KnowledgeInv' /\ LabelsKept
<1>1. ASSUME NEW i \in SourceIds, ApproveRead(w, i) PROVE KnowledgeInv' /\ LabelsKept
  <2>1. i \in Stored
    BY <1>1 DEF ApproveRead
  <2>2. PICK t : t = [pc |-> "approve", i |-> i]
    OBVIOUS
  <2>3. t.pc = "approve" /\ t.i = i /\ "kind" \notin DOMAIN t
    BY <2>2
  <2>4. KnowledgeTxn(t) /\ ~OfPages(t)
    BY <2>1, <2>3 DEF KnowledgeTxn, OfPages, Ingests
  <2>5. txn' = [txn EXCEPT ![w] = t] /\ UNCHANGED <<page, source>>
    BY <1>1, <2>2 DEF ApproveRead, Hold, knowledge
  <2>6. QED
    BY <2>4, <2>5, QuietTxn, SameLabels
<1>2. CASE ApproveWrite(w)
  <2>1. PICK i : i = txn[w].i /\ i \in Stored /\ source[i] \in SourceRows
    BY <1>2 DEF ApproveWrite, At, KnowledgeInv, KnowledgeTxn, Stored
  <2>2. PICK row : row = [source[i] EXCEPT !.approved = TRUE, !.status = "indexed"]
    OBVIOUS
  <2>3. row \in SourceRows /\ row.origin = source[i].origin
    BY <2>1, <2>2 DEF SourceRows
  <2>4. Decide(w, i, "approve", row)
    BY <1>2, <2>1, <2>2 DEF ApproveWrite
  <2>5. QED
    BY <1>2, <2>1, <2>3, <2>4, DecideKeeps
<1>3. QED
  BY <1>1, <1>2

-----------------------------------------------------------------------------
(* An ingestion begins.                                                    *)

LEMMA BeginKeeps ==
    ASSUME KnowledgeInv, UNCHANGED <<page, source>>, StirredNext, NEW w \in Workers, NEW kind \in {"sweep", "ingest", "upload"},
           NEW docs \in SUBSET Docs, IsFiniteSet(docs), txn' = [txn EXCEPT ![w] = Ingesting(kind, docs)],
           kind # "upload" => /\ \A d \in docs : d.origin # None
                              /\ \A d, e \in docs : d.origin = e.origin => d = e
    PROVE  KnowledgeInv'
<1>1. PICK t : t = Ingesting(kind, docs)
  OBVIOUS
<1>2. /\ t = [pc |-> "find", kind |-> t.kind, todo |-> t.todo, listed |-> t.listed, failed |-> t.failed]
      /\ t.pc = "find" /\ t.kind = kind /\ t.todo = docs /\ t.listed = docs
  BY <1>1 DEF Ingesting
<1>3. IngestTxn(t)
  BY <1>2 DEF IngestTxn, Shaped
<1>4. CalmTxn(t)
  BY <1>2 DEF CalmTxn
<1>5. KnowledgeTxn(t)
  BY <1>2, <1>3 DEF KnowledgeTxn, Ingests
<1>6. QED
  BY <1>1, <1>4, <1>5, QuietTxn

LEMMA PublicDocsAre ==
    ASSUME KnowledgeInv
    PROVE  /\ PublicDocs \subseteq Docs /\ IsFiniteSet(PublicDocs)
           /\ \A d \in PublicDocs : d.origin # None
           /\ \A d, e \in PublicDocs : d.origin = e.origin => d = e
<1>1. PICK P : P = {p \in Pages : page[p] # None}
  OBVIOUS
<1>2. IsFiniteSet(P)
  BY <1>1, FS_Subset, PragyaanAssumption
<1>3. PICK f : f = [o \in P |-> Doc(o, page[o], "public", TRUE)]
  OBVIOUS
<1>4. PublicDocs = {f[o] : o \in P}
  BY <1>1, <1>3 DEF PublicDocs
<1>5. ASSUME NEW o \in P
      PROVE  f[o] \in Docs /\ f[o].origin = o /\ o # None
  <2>1. f[o] = [origin |-> o, text |-> page[o], scope |-> "public", approve |-> TRUE]
    BY <1>3 DEF Doc
  <2>2. page[o] \in Texts /\ o \in Pages /\ o # None
    BY <1>1, PragyaanAssumption DEF KnowledgeInv
  <2>3. QED
    BY <2>1, <2>2 DEF Docs
<1>6. f \in Surjection(P, PublicDocs)
  <2>1. f \in [P -> PublicDocs]
    BY <1>3, <1>4
  <2>2. \A d \in PublicDocs : \E o \in P : f[o] = d
    BY <1>4
  <2>3. QED
    BY <2>1, <2>2 DEF Surjection
<1>7. IsFiniteSet(PublicDocs)
  BY <1>2, <1>6, FS_Surjection
<1>8. \A d, e \in PublicDocs : d.origin = e.origin => d = e
  <2>1. SUFFICES ASSUME NEW d \in PublicDocs, NEW e \in PublicDocs, d.origin = e.origin PROVE d = e
    OBVIOUS
  <2>2. PICK o \in P, p \in P : d = f[o] /\ e = f[p]
    BY <1>4
  <2>3. QED
    BY <1>5, <2>1, <2>2
<1>9. QED
  BY <1>4, <1>5, <1>7, <1>8

LEMMA SweepBegins ==
    ASSUME KnowledgeInv, StirredNext, NEW w \in Workers, ScheduledSweep(w) \/ AdminSweep(w)
    PROVE  KnowledgeInv' /\ LabelsKept
<1>1. PICK kind \in {"sweep", "ingest"} : txn' = [txn EXCEPT ![w] = Ingesting(kind, PublicDocs)]
  <2>1. CASE ScheduledSweep(w)
    BY <2>1 DEF ScheduledSweep, Hold
  <2>2. CASE AdminSweep(w)
    BY <2>2 DEF AdminSweep, Serve, Hold
  <2>3. QED
    BY <2>1, <2>2
<1>2. UNCHANGED <<page, source>>
  BY DEF ScheduledSweep, AdminSweep, knowledge
<1>3. QED
  BY <1>1, <1>2, PublicDocsAre, BeginKeeps, SameLabels

LEMMA OneDoc ==
    ASSUME NEW text \in Texts, NEW scope \in {"public"} \cup UNION Audiences, NEW approve \in BOOLEAN, NEW docs,
           docs = {Doc(None, text, scope, approve)}
    PROVE  docs \subseteq Docs /\ IsFiniteSet(docs) /\ \A d \in docs : d.origin = None
<1>1. PICK d : d = Doc(None, text, scope, approve)
  OBVIOUS
<1>2. d \in Docs /\ d.origin = None
  BY <1>1 DEF Doc, Docs
<1>3. QED
  BY <1>1, <1>2, FS_Singleton

LEMMA UploadBegins ==
    ASSUME KnowledgeInv, StirredNext, NEW w \in Workers,
           \/ \E text \in Texts, scope \in UNION Audiences : Upload(w, text, scope)
           \/ \E i \in SourceIds : Reindex(w, i)
    PROVE  KnowledgeInv' /\ LabelsKept
<1>1. UNCHANGED <<page, source>>
  BY DEF Upload, Reindex, knowledge
<1>2. PICK docs : docs \subseteq Docs /\ IsFiniteSet(docs) /\ (\A d \in docs : d.origin = None)
                  /\ txn' = [txn EXCEPT ![w] = Ingesting("upload", docs)]
  <2>1. ASSUME NEW text \in Texts, NEW scope \in UNION Audiences, Upload(w, text, scope)
        PROVE  \E docs : docs \subseteq Docs /\ IsFiniteSet(docs) /\ (\A d \in docs : d.origin = None)
                         /\ txn' = [txn EXCEPT ![w] = Ingesting("upload", docs)]
    <3>1. PICK approve \in BOOLEAN : approve = (scope = "public")
      OBVIOUS
    <3>2. PICK docs : docs = {Doc(None, text, scope, approve)}
      OBVIOUS
    <3>3. txn' = [txn EXCEPT ![w] = Ingesting("upload", docs)]
      BY <2>1, <3>1, <3>2, Zenon DEF Upload, Serve, Hold
    <3>4. QED
      BY <3>2, <3>3, OneDoc
  <2>2. ASSUME NEW i \in SourceIds, Reindex(w, i)
        PROVE  \E docs : docs \subseteq Docs /\ IsFiniteSet(docs) /\ (\A d \in docs : d.origin = None)
                         /\ txn' = [txn EXCEPT ![w] = Ingesting("upload", docs)]
    <3>1. source[i] \in SourceRows /\ source[i].chunks # None
      BY <2>2 DEF Reindex, Stored, KnowledgeInv
    <3>2. /\ source[i].chunks \in Texts /\ source[i].scope \in {"public"} \cup UNION Audiences
          /\ source[i].approved \in BOOLEAN
      BY <3>1 DEF SourceRows
    <3>3. PICK docs : docs = {Doc(None, source[i].chunks, source[i].scope, source[i].approved)}
      OBVIOUS
    <3>4. txn' = [txn EXCEPT ![w] = Ingesting("upload", docs)]
      BY <2>2, <3>3 DEF Reindex, Hold
    <3>5. QED
      BY <3>2, <3>3, <3>4, OneDoc
  <2>3. QED
    BY <2>1, <2>2
<1>3. QED
  BY <1>1, <1>2, BeginKeeps, SameLabels

-----------------------------------------------------------------------------
(* One document.                                                           *)

LEMMA NextIs == ASSUME NEW w PROVE NextDoc(w) = Chosen(txn[w])
BY DEF NextDoc, Chosen

LEMMA IngestIs ==
    ASSUME KnowledgeInv, NEW w \in Workers, Ingests(txn[w])
    PROVE  IngestTxn(txn[w]) /\ (OfPages(txn[w]) /\ w \notin stirred => CalmTxn(txn[w]))
BY DEF KnowledgeInv, KnowledgeTxn

\* The document is done with, or has failed.
LEMMA ProceedKeeps ==
    ASSUME KnowledgeInv, page' \in [Pages -> Texts \cup {None}], source' \in [SourceIds -> SourceRows \cup {None}],
           Stay, StirredNext, NEW w \in Workers, NEW t, t = txn[w], Ingests(t), t.todo # {},
           NEW F \in SUBSET {Chosen(t)}, Proceed(w, F),
           OfPages(t) /\ w \notin stirred => /\ \A d \in t.listed \ (t.todo \cup t.failed) : Listed(d)'
                                             /\ Chosen(t) \in F \/ Listed(Chosen(t))'
    PROVE  /\ KnowledgeInv'
           /\ OfPages(t) /\ w \notin stirred /\ txn'[w] = Idle => \A d \in t.listed \ (t.failed \cup F) : Listed(d)'
<1>1. IngestTxn(t)
  BY IngestIs
<1>2. PICK x : x = Chosen(t) /\ x \in t.todo
  BY ChosenIn
<1>3. NextDoc(w) = x
  BY <1>2, NextIs
<1>4. IsFiniteSet(t.todo)
  BY <1>1, FS_Subset DEF IngestTxn
<1>5. PICK r : r = [pc |-> "find", kind |-> t.kind, todo |-> t.todo \ {x}, listed |-> t.listed, failed |-> t.failed \cup F]
  OBVIOUS
<1>6. /\ r = [pc |-> "find", kind |-> r.kind, todo |-> r.todo, listed |-> r.listed, failed |-> r.failed]
      /\ r.pc = "find" /\ r.kind = t.kind /\ r.todo = t.todo \ {x} /\ r.listed = t.listed /\ r.failed = t.failed \cup F
  BY <1>5
<1>7. txn' = [txn EXCEPT ![w] = IF Cardinality(t.todo) <= 1 THEN Idle ELSE r]
  BY <1>3, <1>5 DEF Proceed
<1>8. ASSUME OfPages(t), w \notin stirred, NEW d \in t.listed, d \notin t.failed \cup F, d \notin t.todo \ {x}
      PROVE  Listed(d)'
  <2>1. CASE d = x
    <3>1. PICK c : c = Chosen(t) /\ Listed(c)'
      BY <1>2, <1>8, <2>1 DEF Chosen
    <3>2. QED
      BY <1>2, <2>1, <3>1
  <2>2. CASE d # x
    BY <1>8, <2>2
  <2>3. QED
    BY <2>1, <2>2
<1>9. CASE Cardinality(t.todo) <= 1
  <2>1. txn' = [txn EXCEPT ![w] = Idle]
    BY <1>7, <1>9
  <2>2. KnowledgeTxn(Idle)'
    <3>1. Idle.pc = "idle" /\ "kind" \notin DOMAIN Idle
      BY DEF Idle
    <3>2. QED
      BY <3>1 DEF KnowledgeTxn, Ingests
  <2>3. KnowledgeInv'
    BY <2>1, <2>2, IdleTxn, OneTxn
  <2>4. t.todo = {x}
    BY <1>2, <1>4, <1>9, LastOne
  <2>5. QED
    BY <1>8, <2>3, <2>4
<1>10. CASE ~(Cardinality(t.todo) <= 1)
  <2>1. txn' = [txn EXCEPT ![w] = r]
    BY <1>7, <1>10
  <2>2. txn'[w] # Idle
    BY <1>6, <2>1 DEF KnowledgeInv, Idle
  <2>3. IngestTxn(r)'
    BY <1>1, <1>6 DEF IngestTxn, Shaped
  <2>4. OfPages(r) = OfPages(t)
    BY <1>6 DEF OfPages, Ingests
  <2>5. ASSUME OfPages(t), w \notin stirred PROVE CalmTxn(r)'
    <3>1. \A d \in r.listed \ (r.todo \cup r.failed) : Listed(d)'
      BY <1>6, <1>8, <2>5
    <3>2. QED
      BY <1>6, <3>1 DEF CalmTxn
  <2>6. KnowledgeTxn(r)'
    BY <1>6, <2>3 DEF KnowledgeTxn, Ingests
  <2>7. OfPages(r) /\ (OfPages(txn[w]) => w \notin stirred) => CalmTxn(r)'
    BY <2>4, <2>5
  <2>8. KnowledgeInv'
    BY <2>1, <2>6, <2>7, OneTxn
  <2>9. QED
    BY <2>2, <2>8
<1>11. QED
  BY <1>9, <1>10

\* What an ingestion writes to its own source leaves what it is done with.
LEMMA WriteOwn ==
    ASSUME KnowledgeInv, NEW w \in Workers, NEW t, t = txn[w], Ingests(t), t.todo # {},
           NEW i \in SourceIds, NEW row \in SourceRows, row.origin = Chosen(t).origin,
           source[i] = None \/ source[i].origin = Chosen(t).origin, Writes(i, row)
    PROVE  /\ Stay /\ source' \in [SourceIds -> SourceRows \cup {None}]
           /\ source'[i] = row /\ i \in Stored' /\ \A j \in SourceIds : j # i => source'[j] = source[j]
           /\ OfPages(t) /\ w \notin stirred => \A d \in t.listed \ (t.todo \cup t.failed) : Listed(d)'
<1>1. /\ Stay /\ source' \in [SourceIds -> SourceRows \cup {None}]
      /\ source'[i] = row /\ i \in Stored' /\ \A j \in SourceIds : j # i => source'[j] = source[j]
  BY RowStays
<1>2. IngestTxn(t)
  BY IngestIs
<1>3. PICK c : c = Chosen(t) /\ c \in t.todo /\ c \in t.listed
  BY <1>2, ChosenIn DEF IngestTxn
<1>4. ASSUME OfPages(t), w \notin stirred, NEW d \in t.listed \ (t.todo \cup t.failed) PROVE Listed(d)'
  <2>1. Listed(d)
    BY <1>4, IngestIs DEF CalmTxn
  <2>2. d.origin # c.origin
    BY <1>2, <1>3, <1>4 DEF IngestTxn, OfPages
  <2>3. PICK j \in Sources(d.origin) : source[j].status = "indexed" /\ source[j].text = d.text
    BY <2>1 DEF Listed
  <2>4. j \in SourceIds /\ source[j] # None /\ d.origin # None /\ source[j].origin = d.origin
    BY <2>3 DEF Sources, Stored
  <2>5. source'[j] = source[j]
    BY <1>1, <1>3, <2>2, <2>4
  <2>6. QED
    BY <2>3, <2>4, <2>5 DEF Listed, Sources, Stored
<1>5. QED
  BY <1>1, <1>4

LEMMA SkipKeeps ==
    ASSUME KnowledgeInv, StirredNext, NEW w \in Workers, NEW t, t = txn[w], Skip(w)
    PROVE  /\ KnowledgeInv' /\ UNCHANGED source /\ t.pc = "find"
           /\ OfPages(t) /\ w \notin stirred /\ txn'[w] = Idle => \A d \in t.listed \ t.failed : Listed(d)'
<1>1. Ingests(t) /\ t.pc = "find" /\ t.todo # {} /\ UNCHANGED <<page, source>> /\ Proceed(w, {})
  BY DEF Skip, At, Ingests, knowledge
<1>2. OfPages(t) /\ w \notin stirred => CalmTxn(t)
  BY <1>1, IngestIs
<1>3. PICK c, i : c = Chosen(t) /\ i \in Sources(c.origin) /\ Unchanged(i, c.text)
  BY NextIs DEF Skip, Existing
<1>4. Listed(c)
  BY <1>3 DEF Listed, Unchanged
<1>5. Stay /\ \A d : Listed(d) => Listed(d)'
  BY <1>1, SameSources
<1>6. OfPages(t) /\ w \notin stirred => /\ \A d \in t.listed \ (t.todo \cup t.failed) : Listed(d)'
                                        /\ Chosen(t) \in {} \/ Listed(Chosen(t))'
  <2>1. Listed(c)'
    BY <1>4, <1>5
  <2>2. QED
    BY <1>2, <1>3, <1>5, <2>1 DEF CalmTxn, Chosen
<1>7. page' \in [Pages -> Texts \cup {None}] /\ source' \in [SourceIds -> SourceRows \cup {None}]
  BY <1>1 DEF KnowledgeInv
<1>8. /\ KnowledgeInv'
      /\ OfPages(t) /\ w \notin stirred /\ txn'[w] = Idle => \A d \in t.listed \ (t.failed \cup {}) : Listed(d)'
  BY <1>1, <1>5, <1>6, <1>7, ProceedKeeps
<1>9. QED
  BY <1>1, <1>8

LEMMA FindKeeps == ASSUME KnowledgeInv, StirredNext, NEW w \in Workers, Find(w) PROVE KnowledgeInv' /\ LabelsKept
<1>1. PICK t : t = txn[w] /\ Ingests(t) /\ t.pc = "find" /\ t.todo # {}
  BY DEF Find, At, Ingests
<1>2. IngestTxn(t) /\ (OfPages(t) /\ w \notin stirred => CalmTxn(t))
  BY <1>1, IngestIs
<1>3. PICK i : Found(w, i) /\ (i # None => i \in Stored /\ source[i].origin = Chosen(t).origin)
  <2>1. CASE Existing(NextDoc(w).origin) = {}
    BY <2>1 DEF Find
  <2>2. CASE Existing(NextDoc(w).origin) # {}
    BY <1>1, <2>2, NextIs DEF Find, Existing, Sources
  <2>3. QED
    BY <2>1, <2>2
<1>4. PICK r : r = [pc |-> "upsert", kind |-> t.kind, todo |-> t.todo, listed |-> t.listed, failed |-> t.failed, i |-> i]
  OBVIOUS
<1>5. /\ r = [pc |-> r.pc, kind |-> r.kind, todo |-> r.todo, listed |-> r.listed, failed |-> r.failed, i |-> r.i]
      /\ r.pc = "upsert" /\ r.kind = t.kind /\ r.todo = t.todo /\ r.listed = t.listed /\ r.failed = t.failed /\ r.i = i
  BY <1>4
<1>6. txn' = [txn EXCEPT ![w] = r] /\ UNCHANGED <<page, source>>
  BY <1>1, <1>3, <1>4 DEF Found, Hold, knowledge
<1>7. Chosen(r) = Chosen(t)
  BY <1>5 DEF Chosen
<1>8. IngestTxn(r)
  BY <1>1, <1>2, <1>3, <1>5, <1>7 DEF IngestTxn, Shaped
<1>9. OfPages(r) = OfPages(t)
  BY <1>1, <1>5 DEF OfPages, Ingests
<1>10. OfPages(r) /\ w \notin stirred => CalmTxn(r)
  BY <1>2, <1>5, <1>9 DEF CalmTxn
<1>11. KnowledgeTxn(r)
  BY <1>5, <1>8 DEF KnowledgeTxn, Ingests
<1>12. OfPages(r) /\ (OfPages(txn[w]) => w \notin stirred) => CalmTxn(r)
  BY <1>1, <1>9, <1>10
<1>13. KnowledgeInv'
  BY <1>6, <1>11, <1>12, QuietTxn
<1>14. QED
  BY <1>6, <1>13, SameLabels

LEMMA NewIdIs == SourceIds # Stored => NewId \in SourceIds \ Stored
<1>1. SUFFICES ASSUME SourceIds # Stored PROVE NewId \in SourceIds \ Stored
  OBVIOUS
<1>2. PICK S : S = SourceIds \ Stored /\ S # {} /\ S \subseteq Nat
  BY <1>1, PragyaanAssumption DEF Stored
<1>3. PICK i \in S : \A j \in S : ~(<<j, i>> \in OpToRel(<, Nat))
  BY <1>2, NatLessThanWellFounded, WFMin
<1>4. \A j \in S : i <= j
  <2>1. \A j \in S : ~(j < i)
    BY <1>2, <1>3 DEF OpToRel
  <2>2. QED
    BY <1>2, <2>1
<1>5. PICK c : c = CHOOSE k \in S : \A j \in S : k <= j
  OBVIOUS
<1>6. c \in S
  BY <1>4, <1>5
<1>7. NewId = c
  BY <1>2, <1>5 DEF NewId
<1>8. QED
  BY <1>2, <1>6, <1>7

\* The row is written, with its text, to be indexed.
LEMMA UpsertedKeeps ==
    ASSUME KnowledgeInv, StirredNext, NEW w \in Workers, NEW t, t = txn[w], t.pc = "upsert",
           NEW i \in SourceIds, NEW row \in SourceRows,
           i = IF t.i = None THEN NewId ELSE t.i, Upserted(w, row),
           row.origin = Chosen(t).origin, row.text = Chosen(t).text, row.status = "chunking",
           source[i] = None \/ source[i].origin = Chosen(t).origin
    PROVE  KnowledgeInv' /\ LabelsKept
<1>1. Ingests(t) /\ IngestTxn(t)
  BY IngestIs DEF Ingests
<1>2. t.todo # {} /\ t = [pc |-> "upsert", kind |-> t.kind, todo |-> t.todo, listed |-> t.listed, failed |-> t.failed, i |-> t.i]
  BY <1>1 DEF IngestTxn, Shaped
<1>3. Writes(i, row) /\ UNCHANGED page
  BY DEF Upserted, SetSource, Writes
<1>4. /\ Stay /\ source' \in [SourceIds -> SourceRows \cup {None}]
      /\ source'[i] = row /\ i \in Stored' /\ \A j \in SourceIds : j # i => source'[j] = source[j]
      /\ OfPages(t) /\ w \notin stirred => \A d \in t.listed \ (t.todo \cup t.failed) : Listed(d)'
  BY <1>1, <1>2, <1>3, WriteOwn
<1>5. PICK r : r = [pc |-> "index", kind |-> t.kind, todo |-> t.todo, listed |-> t.listed, failed |-> t.failed, i |-> i]
  OBVIOUS
<1>6. /\ r = [pc |-> r.pc, kind |-> r.kind, todo |-> r.todo, listed |-> r.listed, failed |-> r.failed, i |-> r.i]
      /\ r.pc = "index" /\ r.kind = t.kind /\ r.todo = t.todo /\ r.listed = t.listed /\ r.failed = t.failed /\ r.i = i
  BY <1>5
<1>7. txn' = [txn EXCEPT ![w] = r]
  <2>1. PICK q : q = [t EXCEPT !.pc = "index"]
    OBVIOUS
  <2>2. q = [pc |-> "index", kind |-> t.kind, todo |-> t.todo, listed |-> t.listed, failed |-> t.failed, i |-> t.i]
    BY <1>2, <2>1
  <2>3. [q EXCEPT !.i = i] = r
    BY <1>5, <2>2
  <2>4. txn' = [txn EXCEPT ![w].pc = "index", ![w].i = i]
    BY DEF Upserted
  <2>5. PICK a : a = [txn EXCEPT ![w].pc = "index"]
    OBVIOUS
  <2>6. txn \in [Workers -> {txn[v] : v \in Workers}]
    BY DEF KnowledgeInv
  <2>7. a = [txn EXCEPT ![w] = q] /\ a[w] = q
    BY <2>1, <2>5, <2>6
  <2>8. [a EXCEPT ![w].i = i] = [txn EXCEPT ![w] = r]
    BY <2>3, <2>6, <2>7
  <2>9. QED
    BY <2>4, <2>5, <2>8
<1>8. Chosen(r) = Chosen(t)
  BY <1>6 DEF Chosen
<1>9. source'[r.i].origin = Chosen(r).origin /\ source'[r.i].text = Chosen(r).text /\ r.i \in Stored'
  BY <1>4, <1>6, <1>8
<1>10. IngestTxn(r)'
  BY <1>1, <1>2, <1>6, <1>9 DEF IngestTxn, Shaped, Chosen
<1>11. OfPages(r) = OfPages(t)
  BY <1>1, <1>6 DEF OfPages, Ingests
<1>12. OfPages(r) /\ (OfPages(txn[w]) => w \notin stirred) => CalmTxn(r)'
  BY <1>4, <1>6, <1>9, <1>11 DEF CalmTxn, Chosen
<1>13. KnowledgeTxn(r)'
  BY <1>6, <1>10 DEF KnowledgeTxn, Ingests
<1>14. page' \in [Pages -> Texts \cup {None}]
  BY <1>3 DEF KnowledgeInv
<1>15. KnowledgeInv'
  BY <1>4, <1>7, <1>12, <1>13, <1>14, OneTxn
<1>16. LabelsKept
  BY <1>3, OneLabel
<1>17. QED
  BY <1>15, <1>16

LEMMA ChosenDoc ==
    ASSUME KnowledgeInv, NEW w \in Workers, Ingests(txn[w]), txn[w].pc # "find"
    PROVE  Chosen(txn[w]) \in Docs /\ txn[w].todo # {} /\ Chosen(txn[w]) \in txn[w].todo
<1>1. PICK t : t = txn[w] /\ IngestTxn(t) /\ t.pc # "find" /\ Ingests(t)
  BY IngestIs
<1>2. Chosen(t) \in t.todo /\ t.todo \subseteq t.listed /\ t.listed \subseteq Docs /\ t.todo # {}
  BY <1>1, ChosenIn DEF IngestTxn
<1>3. QED
  BY <1>1, <1>2

LEMMA InsertKeeps == ASSUME KnowledgeInv, StirredNext, NEW w \in Workers, Insert(w) PROVE KnowledgeInv' /\ LabelsKept
<1>1. PICK t : t = txn[w] /\ t.pc = "upsert" /\ Ingests(t) /\ t.i = None /\ SourceIds # Stored
  BY DEF Insert, At, Ingests
<1>2. PICK d : d = Chosen(t) /\ d \in Docs /\ NextDoc(w) = d
  BY <1>1, ChosenDoc, NextIs
<1>3. PICK i \in SourceIds : i = NewId /\ source[i] = None
  BY <1>1, NewIdIs DEF Stored
<1>4. PICK row : row = [origin |-> d.origin, text |-> d.text, scope |-> d.scope, status |-> "chunking",
                        chunks |-> None, approved |-> d.approve, retired |-> FALSE, expired |-> FALSE]
  OBVIOUS
<1>5. row \in SourceRows
  BY <1>2, <1>4 DEF Docs, SourceRows
<1>6. row.origin = d.origin /\ row.text = d.text /\ row.status = "chunking"
  BY <1>4
<1>7. Upserted(w, row)
  BY <1>2, <1>4, Zenon DEF Insert
<1>8. i = IF t.i = None THEN NewId ELSE t.i
  BY <1>1, <1>3
<1>9. QED
  BY <1>1, <1>2, <1>3, <1>5, <1>6, <1>7, <1>8, UpsertedKeeps

LEMMA UpdateKeeps == ASSUME KnowledgeInv, StirredNext, NEW w \in Workers, Update(w) PROVE KnowledgeInv' /\ LabelsKept
<1>1. PICK t, i : t = txn[w] /\ t.pc = "upsert" /\ Ingests(t) /\ t.i # None /\ i = t.i
  BY DEF Update, At, Ingests
<1>2. PICK d : d = Chosen(t) /\ d \in Docs /\ NextDoc(w) = d
  BY <1>1, ChosenDoc, NextIs
<1>3. i \in SourceIds /\ source[i] # None /\ source[i].origin = d.origin /\ source[i] \in SourceRows
  BY <1>1, <1>2, IngestIs DEF IngestTxn, Stored, KnowledgeInv
<1>4. PICK o \in SourceRows : o = source[i]
  BY <1>3
<1>5. PICK b \in BOOLEAN : b = (o.approved \/ d.approve)
  OBVIOUS
<1>6. PICK row : row = [o EXCEPT !.text = d.text, !.status = "chunking", !.approved = o.approved \/ d.approve]
  OBVIOUS
<1>7. row \in SourceRows /\ row.origin = o.origin /\ row.text = d.text /\ row.status = "chunking" /\ row.approved = b
  <2>1. PICK p : p = [o EXCEPT !.text = d.text]
    OBVIOUS
  <2>2. p \in SourceRows /\ p.origin = o.origin /\ p.text = d.text /\ p.approved = o.approved
    BY <1>2, <2>1 DEF SourceRows, Docs
  <2>3. PICK q : q = [p EXCEPT !.status = "chunking"]
    OBVIOUS
  <2>4. q \in SourceRows /\ q.origin = o.origin /\ q.text = d.text /\ q.status = "chunking" /\ q.approved = o.approved
    BY <2>2, <2>3 DEF SourceRows
  <2>5. PICK r : r = [q EXCEPT !.approved = b]
    OBVIOUS
  <2>6. r \in SourceRows /\ r.origin = o.origin /\ r.text = d.text /\ r.status = "chunking" /\ r.approved = b
    BY <2>4, <2>5 DEF SourceRows
  <2>7. row = r
    BY <1>5, <1>6, <2>1, <2>3, <2>5, Zenon
  <2>8. QED
    BY <2>6, <2>7
<1>8. Upserted(w, row)
  <2>1. Upserted(w, [source[i] EXCEPT !.text = d.text, !.status = "chunking", !.approved = @ \/ d.approve])
    BY <1>1, <1>2 DEF Update
  <2>2. QED
    BY <1>4, <1>6, <2>1
<1>9. i = IF t.i = None THEN NewId ELSE t.i
  BY <1>1
<1>10. QED
  BY <1>1, <1>2, <1>3, <1>4, <1>7, <1>8, <1>9, UpsertedKeeps

LEMMA IndexKeeps == ASSUME KnowledgeInv, StirredNext, NEW w \in Workers, Index(w) PROVE KnowledgeInv' /\ LabelsKept
<1>1. PICK t, i : t = txn[w] /\ t.pc = "index" /\ Ingests(t) /\ i = t.i
  BY DEF Index, At, Ingests
<1>2. IngestTxn(t) /\ (OfPages(t) /\ w \notin stirred => CalmTxn(t))
  BY <1>1, IngestIs
<1>3. PICK d : d = Chosen(t) /\ d \in Docs /\ NextDoc(w) = d /\ t.todo # {} /\ d \in t.todo
  BY <1>1, ChosenDoc, NextIs
<1>4. i \in SourceIds /\ source[i] # None /\ source[i].origin = d.origin /\ source[i] \in SourceRows
  BY <1>1, <1>2, <1>3 DEF IngestTxn, Stored, KnowledgeInv
<1>5. PICK o \in SourceRows : o = source[i]
  BY <1>4
<1>6. PICK row : row = [o EXCEPT !.chunks = d.text, !.status = "indexed"]
  OBVIOUS
<1>7. /\ row \in SourceRows /\ row.origin = o.origin /\ row.text = o.text /\ row.status = "indexed"
      /\ row.chunks = d.text
  <2>1. PICK p : p = [o EXCEPT !.chunks = d.text]
    OBVIOUS
  <2>2. p \in SourceRows /\ p.origin = o.origin /\ p.text = o.text /\ p.chunks = d.text
    BY <1>3, <2>1 DEF SourceRows, Docs
  <2>3. PICK q : q = [p EXCEPT !.status = "indexed"]
    OBVIOUS
  <2>4. q \in SourceRows /\ q.origin = o.origin /\ q.text = o.text /\ q.status = "indexed" /\ q.chunks = d.text
    BY <2>2, <2>3 DEF SourceRows
  <2>5. row = q
    BY <1>6, <2>1, <2>3, Zenon
  <2>6. QED
    BY <2>4, <2>5
<1>8. Writes(i, row) /\ UNCHANGED page
  BY <1>1, <1>3, <1>5, <1>6 DEF Index, SetSource, Writes
<1>9. row.origin = Chosen(t).origin /\ (source[i] = None \/ source[i].origin = Chosen(t).origin)
  BY <1>3, <1>4, <1>5, <1>7
<1>10. /\ Stay /\ source' \in [SourceIds -> SourceRows \cup {None}]
       /\ source'[i] = row /\ i \in Stored' /\ \A j \in SourceIds : j # i => source'[j] = source[j]
       /\ OfPages(t) /\ w \notin stirred => \A e \in t.listed \ (t.todo \cup t.failed) : Listed(e)'
  <2>1. Ingests(t) /\ t.todo # {} /\ t = txn[w] /\ i \in SourceIds /\ row \in SourceRows
    BY <1>1, <1>3, <1>4, <1>7
  <2>2. QED
    BY <1>8, <1>9, <2>1, WriteOwn
<1>11. PICK r : r = [pc |-> "log", kind |-> t.kind, todo |-> t.todo, listed |-> t.listed, failed |-> t.failed, i |-> i]
  OBVIOUS
<1>12. /\ r = [pc |-> r.pc, kind |-> r.kind, todo |-> r.todo, listed |-> r.listed, failed |-> r.failed, i |-> r.i]
       /\ r.pc = "log" /\ r.kind = t.kind /\ r.todo = t.todo /\ r.listed = t.listed /\ r.failed = t.failed /\ r.i = i
  BY <1>11
<1>13. txn' = [txn EXCEPT ![w] = r]
  <2>1. t = [pc |-> "index", kind |-> t.kind, todo |-> t.todo, listed |-> t.listed, failed |-> t.failed, i |-> t.i]
    BY <1>1, <1>2 DEF IngestTxn, Shaped
  <2>2. [t EXCEPT !.pc = "log"] = r
    BY <1>1, <1>11, <2>1
  <2>3. txn' = [txn EXCEPT ![w].pc = "log"]
    BY DEF Index, Goto
  <2>4. QED
    BY <1>1, <2>2, <2>3
<1>14. Chosen(r) = Chosen(t)
  BY <1>12 DEF Chosen
<1>15. source'[r.i].origin = Chosen(r).origin /\ source'[r.i].status = "indexed" /\ r.i \in Stored'
  BY <1>3, <1>4, <1>5, <1>7, <1>10, <1>12, <1>14
<1>16. IngestTxn(r)'
  BY <1>2, <1>3, <1>12, <1>15 DEF IngestTxn, Shaped, Chosen
<1>17. OfPages(r) = OfPages(t)
  BY <1>1, <1>12 DEF OfPages, Ingests
<1>18. OfPages(r) /\ (OfPages(txn[w]) => w \notin stirred) => CalmTxn(r)'
  <2>1. SUFFICES ASSUME OfPages(t), w \notin stirred PROVE CalmTxn(r)'
    BY <1>1, <1>17
  <2>2. source[i].text = d.text
    BY <1>1, <1>2, <1>3, <2>1 DEF CalmTxn
  <2>3. source'[r.i].text = Chosen(r).text
    BY <1>3, <1>5, <1>7, <1>10, <1>12, <1>14, <2>2
  <2>4. QED
    BY <1>10, <1>12, <1>15, <2>1, <2>3 DEF CalmTxn, Chosen
<1>19. KnowledgeTxn(r)'
  BY <1>12, <1>16 DEF KnowledgeTxn, Ingests
<1>20. page' \in [Pages -> Texts \cup {None}]
  BY <1>8 DEF KnowledgeInv
<1>21. KnowledgeInv'
  BY <1>10, <1>13, <1>18, <1>19, <1>20, OneTxn
<1>22. LabelsKept
  <2>1. CASE o.text = d.text
    BY <1>4, <1>7, <1>8, <2>1, OneLabel
  <2>2. CASE o.text # d.text
    <3>1. source[i].text # NextDoc(w).text /\ txn[w].i = i
      BY <1>1, <1>3, <1>5, <2>2
    <3>2. QED
      BY <1>4, <1>7, <1>8, <3>1, OneLabel
  <2>3. QED
    BY <2>1, <2>2
<1>23. QED
  BY <1>21, <1>22

LEMMA FailKeeps ==
    ASSUME KnowledgeInv, StirredNext, NEW w \in Workers, NEW t, t = txn[w], Fail(w)
    PROVE  /\ KnowledgeInv' /\ LabelsKept
           /\ t.pc = "index" /\ Stored' = Stored /\ \A i \in Stored : source'[i].origin = source[i].origin
           /\ OfPages(t) /\ w \notin stirred /\ txn'[w] = Idle => \A d \in t.listed \ (t.failed \cup t.todo) : Listed(d)'
<1>1. PICK i : t.pc = "index" /\ Ingests(t) /\ i = t.i /\ UNCHANGED page
  BY DEF Fail, At, Ingests, SetSource
<1>2. IngestTxn(t)
  BY <1>1, IngestIs
<1>3. PICK d : d = Chosen(t) /\ t.todo # {} /\ d \in t.todo /\ NextDoc(w) = d
  BY <1>1, ChosenDoc, NextIs
<1>4. i \in SourceIds /\ source[i] # None /\ source[i].origin = d.origin /\ source[i] \in SourceRows
  BY <1>1, <1>2, <1>3 DEF IngestTxn, Stored, KnowledgeInv
<1>5. PICK o \in SourceRows : o = source[i]
  BY <1>4
<1>6. PICK row : row = [o EXCEPT !.status = "failed"]
  OBVIOUS
<1>7. row \in SourceRows /\ row.origin = o.origin /\ row.status = "failed"
  BY <1>6 DEF SourceRows
<1>8. Writes(i, row)
  BY <1>1, <1>5, <1>6 DEF Fail, SetSource, Writes
<1>9. row.origin = Chosen(t).origin /\ (source[i] = None \/ source[i].origin = Chosen(t).origin)
  BY <1>3, <1>4, <1>5, <1>7
<1>10. /\ Stay /\ source' \in [SourceIds -> SourceRows \cup {None}]
       /\ source'[i] = row /\ i \in Stored' /\ \A j \in SourceIds : j # i => source'[j] = source[j]
       /\ OfPages(t) /\ w \notin stirred => \A e \in t.listed \ (t.todo \cup t.failed) : Listed(e)'
  <2>1. Ingests(t) /\ t.todo # {} /\ i \in SourceIds /\ row \in SourceRows
    BY <1>1, <1>3, <1>4, <1>7
  <2>2. QED
    BY <1>8, <1>9, <2>1, WriteOwn
<1>11. PICK F : F = {d} /\ F \in SUBSET {Chosen(t)} /\ Proceed(w, F) /\ Chosen(t) \in F
  BY <1>3 DEF Fail
<1>12. page' \in [Pages -> Texts \cup {None}]
  BY <1>1 DEF KnowledgeInv
<1>13. /\ KnowledgeInv'
       /\ OfPages(t) /\ w \notin stirred /\ txn'[w] = Idle => \A e \in t.listed \ (t.failed \cup F) : Listed(e)'
  BY <1>1, <1>3, <1>10, <1>11, <1>12, ProceedKeeps
<1>14. Stored' = Stored /\ \A j \in Stored : source'[j].origin = source[j].origin
  BY <1>4, <1>5, <1>7, <1>10 DEF Stored, Stay
<1>15. LabelsKept
  BY <1>4, <1>7, <1>8, OneLabel
<1>16. QED
  BY <1>1, <1>3, <1>11, <1>13, <1>14, <1>15

LEMMA LogKeeps ==
    ASSUME KnowledgeInv, StirredNext, NEW w \in Workers, NEW t, t = txn[w], LogIngest(w)
    PROVE  /\ KnowledgeInv' /\ UNCHANGED source /\ t.pc = "log"
           /\ OfPages(t) /\ w \notin stirred /\ txn'[w] = Idle => \A d \in t.listed \ t.failed : Listed(d)'
<1>1. Ingests(t) /\ t.pc = "log" /\ UNCHANGED <<page, source>> /\ Proceed(w, {})
  BY DEF LogIngest, At, Ingests, Audit
<1>2. IngestTxn(t) /\ (OfPages(t) /\ w \notin stirred => CalmTxn(t)) /\ t.todo # {}
  BY <1>1, IngestIs, ChosenDoc
<1>3. Stay /\ \A d : Listed(d) => Listed(d)'
  BY <1>1, SameSources
<1>4. OfPages(t) /\ w \notin stirred => /\ \A d \in t.listed \ (t.todo \cup t.failed) : Listed(d)'
                                        /\ Chosen(t) \in {} \/ Listed(Chosen(t))'
  <2>1. SUFFICES ASSUME OfPages(t), w \notin stirred
                 PROVE  (\A d \in t.listed \ (t.todo \cup t.failed) : Listed(d)') /\ Listed(Chosen(t))'
    OBVIOUS
  <2>2. PICK c : c = Chosen(t) /\ c \in t.listed
    BY <1>2, ChosenIn DEF IngestTxn
  <2>3. t.i \in Sources(c.origin)
    BY <1>1, <1>2, <2>1, <2>2 DEF IngestTxn, OfPages, Sources
  <2>4. Listed(c)
    BY <1>1, <1>2, <2>1, <2>2, <2>3 DEF CalmTxn, Listed
  <2>5. Listed(c)'
    BY <1>3, <2>4
  <2>6. QED
    BY <1>2, <1>3, <2>1, <2>2, <2>5 DEF CalmTxn, Chosen
<1>5. page' \in [Pages -> Texts \cup {None}] /\ source' \in [SourceIds -> SourceRows \cup {None}]
  BY <1>1 DEF KnowledgeInv
<1>6. /\ KnowledgeInv'
      /\ OfPages(t) /\ w \notin stirred /\ txn'[w] = Idle => \A d \in t.listed \ (t.failed \cup {}) : Listed(d)'
  BY <1>1, <1>2, <1>3, <1>4, <1>5, ProceedKeeps
<1>7. QED
  BY <1>1, <1>6

-----------------------------------------------------------------------------
(* Every step.                                                             *)

AllListed(w) ==
    \A doc \in txn[w].listed \ (txn[w].failed \cup {d \in txn[w].todo : At(w, "index")}) :
       \E i \in Sources(doc.origin) : source'[i].status = "indexed" /\ source'[i].text = doc.text

LEMMA ListedNow ==
    ASSUME Stored' = Stored, \A i \in Stored : source'[i].origin = source[i].origin, NEW doc, Listed(doc)'
    PROVE  \E i \in Sources(doc.origin) : source'[i].status = "indexed" /\ source'[i].text = doc.text
<1>1. PICK i : /\ i \in Stored' /\ doc.origin # None /\ source'[i].origin = doc.origin
               /\ source'[i].status = "indexed" /\ source'[i].text = doc.text
  BY DEF Listed, Sources
<1>2. i \in Sources(doc.origin)
  BY <1>1 DEF Sources
<1>3. QED
  BY <1>1, <1>2

\* A sweep that ends has listed what it should.
LEMMA EndsListed ==
    ASSUME KnowledgeInv, StirredNext, NEW w \in Workers, Ends(w), w \notin stirred
    PROVE  AllListed(w)
<1>1. PICK t : t = txn[w] /\ OfPages(t) /\ IngestTxn(t) /\ CalmTxn(t)
  BY RunsIs, IngestIs DEF Ends, KnowledgeInv, OfPages
<1>2. txn'[w] = Idle
  BY DEF Ends
<1>3. CASE NothingListed(w)
  <2>1. UNCHANGED source /\ t.todo = {}
    BY <1>1, <1>3 DEF NothingListed, knowledge
  <2>2. \A d \in t.listed \ t.failed : Listed(d)
    BY <1>1, <2>1 DEF CalmTxn
  <2>3. \A d \in t.listed \ t.failed :
           \E i \in Sources(d.origin) : source'[i].status = "indexed" /\ source'[i].text = d.text
    BY <2>1, <2>2 DEF Listed
  <2>4. QED
    BY <1>1, <2>3 DEF AllListed
<1>4. CASE Skip(w) \/ LogIngest(w)
  <2>1. UNCHANGED source /\ \A d \in t.listed \ t.failed : Listed(d)'
    BY <1>1, <1>2, <1>4, SkipKeeps, LogKeeps
  <2>2. Stored' = Stored /\ \A i \in Stored : source'[i].origin = source[i].origin
    BY <2>1 DEF Stored
  <2>3. \A d \in t.listed \ t.failed :
           \E i \in Sources(d.origin) : source'[i].status = "indexed" /\ source'[i].text = d.text
    BY <2>1, <2>2, ListedNow
  <2>4. QED
    BY <1>1, <2>3 DEF AllListed
<1>5. CASE Fail(w)
  <2>1. /\ t.pc = "index" /\ Stored' = Stored /\ \A i \in Stored : source'[i].origin = source[i].origin
        /\ \A d \in t.listed \ (t.failed \cup t.todo) : Listed(d)'
    BY <1>1, <1>2, <1>5, FailKeeps
  <2>2. \A d \in t.listed \ (t.failed \cup t.todo) :
           \E i \in Sources(d.origin) : source'[i].status = "indexed" /\ source'[i].text = d.text
    BY <2>1, ListedNow
  <2>3. QED
    BY <1>1, <2>1, <2>2 DEF AllListed, At
<1>6. QED
  BY <1>3, <1>4, <1>5 DEF Ends

LEMMA IngestSteps ==
    ASSUME KnowledgeInv, StirredNext, NEW w \in Workers,
           \/ NothingListed(w) \/ Skip(w) \/ Find(w) \/ Insert(w) \/ Update(w) \/ Index(w) \/ Fail(w) \/ LogIngest(w)
    PROVE  KnowledgeInv' /\ LabelsKept
<1>1. CASE NothingListed(w)
  BY <1>1, QuietEnds, SameLabels DEF NothingListed, knowledge
<1>2. CASE Skip(w) \/ LogIngest(w)
  BY <1>2, SkipKeeps, LogKeeps, SameLabels
<1>3. QED
  BY <1>1, <1>2, FindKeeps, InsertKeeps, UpdateKeeps, IndexKeeps, FailKeeps

LEMMA AnswerSteps ==
    ASSUME KnowledgeInv, StirredNext, NEW w \in Workers,
           \/ \E scopes \in Audiences : Ask(w, scopes)
           \/ AnswerCached(w) \/ Generate(w) \/ Keep(w) \/ LogDecision(w)
           \/ Crash(w) /\ UNCHANGED knowledge
    PROVE  KnowledgeInv' /\ LabelsKept
<1>1. UNCHANGED <<page, source>>
  BY DEF Ask, AnswerCached, Generate, Keep, LogDecision, Audit, knowledge
<1>2. ASSUME NEW scopes \in Audiences, Ask(w, scopes) PROVE KnowledgeInv'
  <2>1. PICK chunks : txn' = [txn EXCEPT ![w] = [pc |-> "answer", scopes |-> scopes, chunks |-> chunks]]
    BY <1>2 DEF Ask, Serve, Hold
  <2>2. PICK t : t = [pc |-> "answer", scopes |-> scopes, chunks |-> chunks]
    OBVIOUS
  <2>3. t.pc = "answer" /\ "kind" \notin DOMAIN t /\ t = [pc |-> "answer", scopes |-> t.scopes, chunks |-> t.chunks]
    BY <2>2
  <2>4. KnowledgeTxn(t) /\ ~OfPages(t)
    BY <2>3 DEF KnowledgeTxn, OfPages, Ingests
  <2>5. QED
    BY <1>1, <2>1, <2>2, <2>4, QuietTxn
<1>3. ASSUME Generate(w) PROVE KnowledgeInv'
  <2>1. PICK t : t = txn[w] /\ t = [pc |-> "answer", scopes |-> t.scopes, chunks |-> t.chunks]
    BY <1>3 DEF Generate, At, KnowledgeInv, KnowledgeTxn
  <2>2. PICK r : r = [pc |-> "keep", scopes |-> t.scopes, chunks |-> t.chunks]
    OBVIOUS
  <2>3. r = [t EXCEPT !.pc = "keep"] /\ r.pc = "keep" /\ "kind" \notin DOMAIN r
    BY <2>1, <2>2
  <2>4. KnowledgeTxn(r) /\ ~OfPages(r)
    BY <2>3 DEF KnowledgeTxn, OfPages, Ingests
  <2>5. txn' = [txn EXCEPT ![w] = r]
    BY <1>3, <2>1, <2>3 DEF Generate, Goto
  <2>6. QED
    BY <1>1, <2>4, <2>5, QuietTxn
<1>4. ASSUME AnswerCached(w) \/ Keep(w) \/ LogDecision(w) \/ Crash(w) PROVE KnowledgeInv'
  <2>1. End(w)
    BY <1>4 DEF AnswerCached, Keep, LogDecision, Crash
  <2>2. QED
    BY <1>1, <2>1, QuietEnds
<1>5. QED
  BY <1>1, <1>2, <1>3, <1>4, SameLabels

LEMMA PublishSteps ==
    ASSUME KnowledgeInv, StirredNext,
           \/ \E o \in Pages, text \in Texts \cup {None} : Publish(o, text)
           \/ \E scopes \in Audiences : Forget(scopes)
    PROVE  KnowledgeInv' /\ LabelsKept
<1>1. UNCHANGED <<source, txn>>
  BY DEF Publish, Forget, Serves, requests
<1>2. page' \in [Pages -> Texts \cup {None}]
  BY DEF Publish, Forget, KnowledgeInv
<1>3. QED
  BY <1>1, <1>2, SameTxn, SameLabels

LEMMA KnowledgeBegins == RequestsInit /\ PragyaanInit => KnowledgeInv
<1>1. SUFFICES ASSUME RequestsInit, PragyaanInit PROVE KnowledgeInv
  OBVIOUS
<1>2. QED
  BY <1>1, IdleTxn DEF RequestsInit, PragyaanInit, KnowledgeInv

LEMMA KnowledgeSteps ==
    ASSUME KnowledgeInv, KnowledgeNext
    PROVE  KnowledgeInv' /\ LabelsKept /\ \A w \in Workers : Ends(w) /\ w \notin stirred => AllListed(w)
<1>1. StirredNext /\ KnowledgeStep
  BY DEF KnowledgeNext, StirredNext
<1>2. \A w \in Workers : Ends(w) /\ w \notin stirred => AllListed(w)
  BY <1>1, EndsListed
<1>3. CASE \/ \E o \in Pages, text \in Texts \cup {None} : Publish(o, text)
           \/ \E scopes \in Audiences : Forget(scopes)
  BY <1>1, <1>2, <1>3, PublishSteps
<1>4. ASSUME NEW w \in Workers,
             \/ \E text \in Texts, scope \in UNION Audiences : Upload(w, text, scope)
             \/ \E i \in SourceIds : Reindex(w, i) \/ ApproveRead(w, i) \/ Retire(w, i) \/ Reject(w, i)
             \/ \E i \in SourceIds, expired \in BOOLEAN : Retain(w, i, expired)
             \/ \E scopes \in Audiences : Ask(w, scopes)
             \/ ScheduledSweep(w) \/ AdminSweep(w) \/ NothingListed(w) \/ Skip(w) \/ Find(w) \/ Insert(w) \/ Update(w)
             \/ Index(w) \/ Fail(w) \/ LogIngest(w) \/ ApproveWrite(w) \/ LogDecision(w)
             \/ AnswerCached(w) \/ Generate(w) \/ Keep(w)
             \/ Crash(w) /\ UNCHANGED knowledge
      PROVE  KnowledgeInv' /\ LabelsKept
  <2>1. CASE \/ ScheduledSweep(w) \/ AdminSweep(w)
             \/ \E text \in Texts, scope \in UNION Audiences : Upload(w, text, scope)
             \/ \E i \in SourceIds : Reindex(w, i)
    BY <1>1, <2>1, SweepBegins, UploadBegins
  <2>2. CASE \/ \E i \in SourceIds : ApproveRead(w, i) \/ Retire(w, i) \/ Reject(w, i)
             \/ \E i \in SourceIds, expired \in BOOLEAN : Retain(w, i, expired)
             \/ ApproveWrite(w)
    BY <1>1, <2>2, ApproveKeeps, RetireKeeps, RejectKeeps, RetainKeeps
  <2>3. CASE \/ NothingListed(w) \/ Skip(w) \/ Find(w) \/ Insert(w) \/ Update(w) \/ Index(w) \/ Fail(w) \/ LogIngest(w)
    BY <1>1, <2>3, IngestSteps
  <2>4. CASE \/ \E scopes \in Audiences : Ask(w, scopes)
             \/ AnswerCached(w) \/ Generate(w) \/ Keep(w) \/ LogDecision(w)
             \/ Crash(w) /\ UNCHANGED knowledge
    BY <1>1, <2>4, AnswerSteps
  <2>5. QED
    BY <1>4, <2>1, <2>2, <2>3, <2>4
<1>5. QED
  BY <1>1, <1>2, <1>3, <1>4 DEF KnowledgeStep

\* With any number of pages, sources and requests, and whatever ingestions,
\* decisions and crashes came before, a sweep nobody stirred leaves the sources
\* of the pages it listed, and has not failed, indexed under the text it
\* listed; and a source gets the chunks of another text only from an ingestion
\* that was overtaken, or from an approval of what was not indexed.
THEOREM SweepsDo == KnowledgeSpec => SweepsRepair
<1>1. RequestsInit /\ PragyaanInit => KnowledgeInv
  BY KnowledgeBegins
<1>2. KnowledgeInv /\ [KnowledgeNext]_knowledgeVars => KnowledgeInv'
  <2>1. CASE KnowledgeNext
    BY <2>1, KnowledgeSteps
  <2>2. ASSUME KnowledgeInv, UNCHANGED knowledgeVars PROVE KnowledgeInv'
    <3>1. UNCHANGED <<page, source, txn, stirred>>
      BY <2>2 DEF knowledgeVars, knowledge, requests
    <3>2. page' \in [Pages -> Texts \cup {None}]
      BY <2>2, <3>1 DEF KnowledgeInv
    <3>3. QED
      BY <2>2, <3>1, <3>2, SameTxn
  <2>3. QED
    BY <2>1, <2>2
<1>3. KnowledgeInv /\ [KnowledgeNext]_knowledgeVars =>
        [/\ \A w \in Workers :
              Ends(w) /\ w \notin stirred
              => \A doc \in txn[w].listed \ (txn[w].failed \cup {d \in txn[w].todo : At(w, "index")}) :
                   \E i \in Sources(doc.origin) : source'[i].status = "indexed" /\ source'[i].text = doc.text
         /\ \A i \in SourceIds :
              Mislabelled(i)' /\ ~Mislabelled(i)
              => \E w \in Workers : /\ ApproveWrite(w) \/ (Index(w) /\ source[i].text # NextDoc(w).text)
                                    /\ txn[w].i = i]_knowledgeVars
  BY KnowledgeSteps DEF AllListed, LabelsKept
<1>4. QED
  BY <1>1, <1>2, <1>3, PTL DEF KnowledgeSpec, SweepsRepair
=============================================================================
