--------------------------- MODULE ProbeWaitProofs ---------------------------
(* Proofs about ProbeWait, for every configuration of durationWait.         *)
EXTENDS ProbeWait, SequenceTheorems, WellFoundedInduction, TLAPS

\* What the argument needs of the types.
ProbesTyped ==
    /\ stage \in {"gone", "idle", "collect"}
    /\ probes \in Nat
    /\ feedback \in Seq(Feedback)

\* The inductive invariant: a task that is gone has no probe either.
ProbeInv ==
    /\ ProbesTyped
    /\ probes + Len(feedback) <= 1
    /\ stage = "gone" => probes + Len(feedback) = 0
    /\ stage # "gone" /\ probes + Len(feedback) = 1 => probing

\* The report of a probe makes one feedback of one job.
LEMMA AppendFeedback ==
    ASSUME NEW s \in Seq(Feedback), NEW f \in Feedback
    PROVE  Append(s, f) \in Seq(Feedback) /\ Len(Append(s, f)) = Len(s) + 1
  OBVIOUS

\* Taking a report leaves one less.
LEMMA TailFeedback ==
    ASSUME NEW s \in Seq(Feedback), s # <<>>
    PROVE  Tail(s) \in Seq(Feedback) /\ Len(Tail(s)) = Len(s) - 1 /\ Len(s) \in Nat \ {0}
  BY EmptySeq

LEMMA EmptyFeedback == <<>> \in Seq(Feedback) /\ Len(<<>>) = 0
  OBVIOUS

\* ProbeInv holds at the start.
LEMMA ProbeInvInit == Init => ProbeInv
  BY EmptyFeedback DEF Init, ProbeInv, ProbesTyped

\* Every step preserves it: only a flush of a probe adds one, and not while
\* probe_inflight is set; only a report clears that, and it is the only one.
LEMMA ProbeInvStep == ProbeInv /\ [Next]_vars => ProbeInv'
<1> SUFFICES ASSUME ProbeInv, [Next]_vars PROVE ProbeInv'
  OBVIOUS
<1> USE DEF ProbeInv, ProbesTyped
<1>0. Len(feedback) \in Nat
  OBVIOUS
<1>1. CASE Spawn
  BY <1>1 DEF Spawn
<1>2. CASE IdleTimeout
  BY <1>2, EmptyFeedback DEF IdleTimeout, Return
<1>3. CASE RecvFeedback
  BY <1>3, <1>0, TailFeedback DEF RecvFeedback
<1>4. CASE ProbeSubmitted
  BY <1>4, <1>0 DEF ProbeSubmitted, ProbeFlushed, ShouldProbe
<1>5. CASE ProbeRejected
  <2>1. Failure \in Feedback
    BY DEF Feedback
  <2> QED
    BY <1>5, <1>0, <2>1, AppendFeedback DEF ProbeRejected, ProbeFlushed, ShouldProbe
<1>6. CASE ProbeOversized
  BY <1>6, <1>0 DEF ProbeOversized, ProbeFlushed, ShouldProbe
<1>7. CASE Collect
  BY <1>7 DEF Collect
<1>8. CASE Flush
  BY <1>8 DEF Flush
<1>9. CASE FlushAndReturn
  BY <1>9, EmptyFeedback DEF FlushAndReturn, Return
<1>10. ASSUME NEW f \in Feedback, Report(f) PROVE ProbeInv'
  BY <1>10, <1>0, AppendFeedback DEF Report
<1>11. CASE Tick
  BY <1>11 DEF Tick
<1>12. CASE UNCHANGED vars
  BY <1>12 DEF vars
<1> QED
  BY <1>1, <1>2, <1>3, <1>4, <1>5, <1>6, <1>7, <1>8, <1>9, <1>10, <1>11, <1>12 DEF Next

LEMMA ProbeInvMeans == ProbeInv => OneProbeUnderWay
  BY DEF ProbeInv, OneProbeUnderWay

\* A task has at most one probe under way and knows of it, whatever the
\* intervals, limits and window sizes: the feedback channel never fills, so
\* no invocation job waits for it with a permit in hand.
THEOREM OneProbe == Spec => []OneProbeUnderWay
  BY ProbeInvMeans, ProbeInvInit, ProbeInvStep, PTL DEF Spec

-----------------------------------------------------------------------------
(* The schedule of the probes.                                             *)

\* next_probe_at lies on the grid, beyond one interval after the spawn only
\* as far as one interval from now.
GridInv ==
    /\ stage \in {"gone", "idle", "collect"}
    /\ now \in 0..MaxTime
    /\ stage # "gone" =>
         /\ spawned \in Nat /\ spawned <= now
         /\ \E n \in Nat : nextProbe = spawned + Offset + Interval * (n + 1)
         /\ nextProbe > spawned + Interval + Offset => nextProbe <= now + Interval

\* Moving a due time past `at` by whole intervals goes one interval at most
\* beyond it.
LEMMA WholeIntervals ==
    ASSUME NEW at \in Nat, NEW due \in Nat, due <= at
    PROVE  LET k == (at - due) \div Interval + 1
           IN  /\ k \in Nat \ {0}
               /\ due + Interval * k <= at + Interval
<1> DEFINE q == (at - due) \div Interval
<1>0. Interval \in Nat \ {0} /\ at - due \in Nat
  BY ProbeWaitAssumption
<1>1. q \in Nat /\ Interval * q <= at - due
  BY <1>0
<1> HIDE DEF q
<1>2. Interval * (q + 1) = Interval * q + Interval /\ Interval * q \in Nat
  BY <1>0, <1>1
<1>3. due + Interval * (q + 1) <= at + Interval /\ q + 1 \in Nat \ {0}
  BY <1>0, <1>1, <1>2
<1> QED
  BY <1>3 DEF q

\* What a first request does to the schedule, a probe or not.
LEMMA AdvancedOnGrid ==
    ASSUME GridInv, stage # "gone"
    PROVE  /\ \E n \in Nat : AdvancedProbe = spawned + Offset + Interval * (n + 1)
           /\ AdvancedProbe > spawned + Interval + Offset => AdvancedProbe <= now + Interval
<1>0. Interval \in Nat \ {0} /\ Offset \in Nat /\ MaxTime \in Nat
  BY ProbeWaitAssumption
<1>1. PICK n \in Nat : nextProbe = spawned + Offset + Interval * (n + 1)
  BY DEF GridInv
<1>2. now \in Nat /\ spawned \in Nat /\ Interval * (n + 1) \in Nat /\ nextProbe \in Nat
  BY <1>0, <1>1 DEF GridInv
<1>3. CASE ~ ProbeDue
  BY <1>3 DEF AdvancedProbe, GridInv
<1>4. CASE ProbeDue
  <2>1. nextProbe <= now
    BY <1>2, <1>4 DEF ProbeDue
  <2>2. PICK k : k = (now - nextProbe) \div Interval + 1
    OBVIOUS
  <2>3. k \in Nat /\ nextProbe + Interval * k <= now + Interval
    BY <1>2, <2>1, <2>2, WholeIntervals
  <2>4. AdvancedProbe = nextProbe + Interval * k
    BY <1>4, <2>2 DEF AdvancedProbe
  <2>5. Interval * (n + 1) + Interval * k = Interval * (n + k + 1)
    BY <1>0, <1>1, <2>3
  <2>6. Interval * k \in Nat /\ Interval * (n + k + 1) \in Nat
    BY <1>0, <1>1, <2>3
  <2>7. AdvancedProbe = spawned + Offset + Interval * (n + k + 1)
    BY <1>0, <1>1, <1>2, <2>4, <2>5, <2>6
  <2>8. n + k \in Nat
    BY <1>1, <2>3
  <2> QED
    BY <2>3, <2>4, <2>7, <2>8
<1> QED
  BY <1>3, <1>4

LEMMA GridStep == GridInv /\ [Next]_vars => GridInv'
<1> SUFFICES ASSUME GridInv, [Next]_vars PROVE GridInv'
  OBVIOUS
<1>0. Interval \in Nat \ {0} /\ Offset \in Nat /\ MaxTime \in Nat
  BY ProbeWaitAssumption
<1>1. CASE Spawn
  <2>1. /\ stage' = "idle" /\ now' = now /\ spawned' = now /\ nextProbe' = now + Interval + Offset
        /\ now \in Nat
    BY <1>0, <1>1 DEF Spawn, GridInv
  <2>2. nextProbe' = spawned' + Offset + Interval * (0 + 1) /\ 0 \in Nat
    BY <1>0, <2>1
  <2>3. spawned' \in Nat /\ spawned' <= now' /\ ~ (nextProbe' > spawned' + Interval + Offset)
    BY <1>0, <2>1
  <2>4. \E n \in Nat : nextProbe' = spawned' + Offset + Interval * (n + 1)
    BY <2>2
  <2> QED
    BY <2>1, <2>3, <2>4 DEF GridInv
<1>2. CASE IdleTimeout \/ FlushAndReturn
  BY <1>2 DEF IdleTimeout, FlushAndReturn, Return, GridInv
<1>3. ASSUME stage # "gone", nextProbe' = AdvancedProbe, UNCHANGED <<now, spawned>>,
             stage' \in {"idle", "collect"}
      PROVE  GridInv'
  <2>1. /\ \E n \in Nat : nextProbe' = spawned' + Offset + Interval * (n + 1)
        /\ nextProbe' > spawned' + Interval + Offset => nextProbe' <= now' + Interval
    BY <1>3, AdvancedOnGrid
  <2> QED
    BY <1>3, <2>1 DEF GridInv
<1>4. CASE ProbeSubmitted \/ ProbeRejected \/ ProbeOversized \/ Collect
  <2>1. /\ stage = "idle" /\ nextProbe' = AdvancedProbe /\ UNCHANGED <<now, spawned>>
        /\ stage' \in {"idle", "collect"}
    BY <1>4 DEF ProbeSubmitted, ProbeRejected, ProbeOversized, ProbeFlushed, ShouldProbe, Collect
  <2> QED
    BY <1>3, <2>1
<1>5. CASE RecvFeedback \/ Flush \/ (\E f \in Feedback : Report(f)) \/ UNCHANGED vars
  <2>1. /\ UNCHANGED <<now, spawned, nextProbe>>
        /\ stage' = stage \/ (stage = "collect" /\ stage' = "idle")
    BY <1>5 DEF RecvFeedback, Flush, Report, vars
  <2> QED
    BY <2>1 DEF GridInv
<1>6. CASE Tick
  <2>1. now \in 0..MaxTime /\ now' = now + 1 /\ now' \in 0..MaxTime
        /\ UNCHANGED <<stage, spawned, nextProbe>>
    BY <1>0, <1>6 DEF Tick, GridInv
  <2>2. ASSUME stage # "gone"
        PROVE  /\ spawned \in Nat /\ spawned <= now'
               /\ nextProbe > spawned + Interval + Offset => nextProbe <= now' + Interval
    <3>1. PICK n \in Nat : nextProbe = spawned + Offset + Interval * (n + 1)
      BY <2>2 DEF GridInv
    <3>2. spawned \in Nat /\ Interval * (n + 1) \in Nat /\ nextProbe \in Nat
      BY <1>0, <2>2, <3>1 DEF GridInv
    <3> QED
      BY <1>0, <2>1, <2>2, <3>2 DEF GridInv
  <2> QED
    BY <2>1, <2>2 DEF GridInv
<1> QED
  BY <1>1, <1>2, <1>4, <1>5, <1>6 DEF Next

\* A number of intervals that is not beyond the last instant is bounded.
LEMMA GridInvMeans == GridInv => ScheduleOnGrid
<1> SUFFICES ASSUME GridInv, stage # "gone" PROVE
      /\ \E n \in 0..(MaxTime + Interval) : nextProbe = spawned + Offset + Interval * (n + 1)
      /\ nextProbe > spawned + Interval + Offset => nextProbe <= now + Interval
  BY DEF ScheduleOnGrid
<1>0. Interval \in Nat \ {0} /\ Offset \in Nat /\ MaxTime \in Nat
  BY ProbeWaitAssumption
<1>1. PICK n \in Nat : nextProbe = spawned + Offset + Interval * (n + 1)
  BY DEF GridInv
<1>2. now \in 0..MaxTime /\ spawned \in Nat
      /\ (nextProbe > spawned + Interval + Offset => nextProbe <= now + Interval)
  BY DEF GridInv
<1>3. Interval * (n + 1) = Interval * n + Interval /\ Interval * n \in Nat /\ Interval * n >= n
  BY <1>0, <1>1
<1>4. CASE n = 0
  BY <1>0, <1>1, <1>2, <1>4
<1>5. CASE n > 0
  <2>1. nextProbe > spawned + Interval + Offset
    BY <1>0, <1>1, <1>2, <1>3, <1>5
  <2>2. Interval * n <= now
    BY <1>0, <1>1, <1>2, <1>3, <2>1
  <2>3. n \in 0..(MaxTime + Interval)
    BY <1>0, <1>1, <1>2, <1>3, <2>2
  <2> QED
    BY <1>1, <1>2, <2>3
<1> QED
  BY <1>1, <1>4, <1>5

\* However late requests and reports come, probes are due on the grid set
\* when the task was spawned, and never more than one interval ahead, for
\* every interval and jitter.
THEOREM ScheduleStaysOnGrid == Spec => []ScheduleOnGrid
<1>1. Init => GridInv
  BY ProbeWaitAssumption DEF Init, GridInv
<1> QED
  BY <1>1, GridInvMeans, GridStep, PTL DEF Spec

-----------------------------------------------------------------------------
(* The window.                                                             *)

LEMMA MinMaxOfTwo ==
    ASSUME NEW a \in Int, NEW b \in Int
    PROVE  /\ Max({a, b}) \in {a, b} /\ Max({a, b}) >= a
           /\ Min({a, b}) \in {a, b} /\ Min({a, b}) <= a
<1>1. \E x \in {a, b} : \A y \in {a, b} : x >= y
  OBVIOUS
<1>2. \E x \in {a, b} : \A y \in {a, b} : x <= y
  OBVIOUS
<1> QED
  BY <1>1, <1>2 DEF Max, Min

\* Whatever the smoothed duration and the fraction, the window that
\* duration_wait_ms gives lies between minWaitMs and maxWaitMs (what
\* WaitWithinLimits says of each batch).
THEOREM WindowIsClamped ==
    ASSUME NEW probe \in [num : Nat, den : Nat \ {0}]
    PROVE  duration_wait_ms(probe) \in MinWait..MaxWait
<1> DEFINE base == IF probe.num > 0 THEN probe ELSE [num |-> MinWait, den |-> 1]
           a == base.num * (FractionDen + FractionNum)
           b == base.den * FractionDen
           computed == Rounded(a, b)
<1>0. /\ MinWait \in Nat /\ MaxWait \in Nat /\ MinWait <= MaxWait
      /\ FractionNum \in Nat /\ FractionDen \in Nat \ {0}
  BY ProbeWaitAssumption
<1>1. base.num \in Nat /\ base.den \in Nat \ {0}
  BY <1>0
<1> HIDE DEF base
<1>2. a \in Nat /\ b \in Nat \ {0}
  BY <1>0, <1>1
<1> HIDE DEF a, b
<1>3. computed \in Int
  <2>1. 2 * a + b \in Nat /\ 2 * b \in Nat \ {0}
    BY <1>2
  <2>2. \A x \in Nat, y \in Nat \ {0} : x \div y \in Int
    OBVIOUS
  <2> QED
    BY <2>1, <2>2 DEF Rounded
<1> HIDE DEF computed
<1>4. CASE MaxWait <= MinWait
  <2>1. duration_wait_ms(probe) = MaxWait
    BY <1>4 DEF duration_wait_ms
  <2> QED
    BY <1>0, <1>4, <2>1
<1>5. CASE ~ (MaxWait <= MinWait)
  <2>1. duration_wait_ms(probe) = Min({MaxWait, Max({MinWait, computed})})
    BY <1>5, Zenon DEF duration_wait_ms, computed, a, b, base
  <2>2. PICK m : m = Max({MinWait, computed})
    OBVIOUS
  <2>3. m \in Int /\ m >= MinWait
    BY <1>0, <1>3, <2>2, MinMaxOfTwo
  <2>4. Min({MaxWait, m}) <= MaxWait /\ Min({MaxWait, m}) \in {MaxWait, m}
    <3>1. MaxWait \in Int /\ m \in Int
      BY <1>0, <2>3
    <3> QED
      BY <3>1, MinMaxOfTwo, Zenon
  <2> QED
    BY <1>0, <2>1, <2>2, <2>3, <2>4
<1> QED
  BY <1>4, <1>5

-----------------------------------------------------------------------------
(* Induction, by sets: a non-empty set of numbers has a least element.     *)

LEMMA LeastNumber ==
    ASSUME NEW T \in SUBSET Nat, T # {}
    PROVE  \E m \in T : \A k \in T : m <= k
<1> DEFINE Less == OpToRel(<, Nat)
<1>1. IsWellFoundedOn(Less, Nat)
  BY NatLessThanWellFounded
<1>2. \A k, m \in Nat : <<k, m>> \in Less <=> k < m
  BY DEF OpToRel
<1> HIDE DEF Less
<1>3. \E m \in T : \A k \in T : ~ (<<k, m>> \in Less)
  BY <1>1, WFMin
<1>4. PICK m \in T : \A k \in T : ~ (<<k, m>> \in Less)
  BY <1>3
<1>5. \A k \in T : k \in Nat
  OBVIOUS
<1>6. \A k \in T : ~ (k < m)
  BY <1>2, <1>4, <1>5
<1>7. \A k \in T : m <= k
  BY <1>5, <1>6
<1> QED
  BY <1>7

LEMMA NumbersByInduction ==
    ASSUME NEW S, 0 \in S, \A n \in Nat : n \in S => n + 1 \in S
    PROVE  \A n \in Nat : n \in S
<1> SUFFICES ASSUME NEW x \in Nat, x \notin S PROVE FALSE
  OBVIOUS
<1>1. PICK m \in Nat \ S : \A k \in Nat \ S : m <= k
  BY LeastNumber
<1>2. m - 1 \in Nat /\ ~ (m <= m - 1) /\ (m - 1) + 1 = m
  BY <1>1
<1> QED
  BY <1>1, <1>2

\* A non-empty set of numbers with a bound has a greatest element.
LEMMA GreatestNumber ==
    ASSUME NEW S \in SUBSET Nat, S # {}, NEW b \in Nat, \A x \in S : x <= b
    PROVE  Max(S) \in S /\ \A y \in S : y <= Max(S)
<1>0. \A x \in S : x \in Nat /\ x <= b /\ b - x \in Nat
  OBVIOUS
<1>1. {b - x : x \in S} \in SUBSET Nat /\ {b - x : x \in S} # {}
  BY <1>0
<1>2. PICK m \in {b - x : x \in S} : \A k \in {b - x : x \in S} : m <= k
  BY <1>1, LeastNumber
<1>3. PICK x \in S : m = b - x
  BY <1>2
<1>4. \A y \in S : x >= y
  BY <1>0, <1>2, <1>3
<1>5. Max(S) \in S /\ \A y \in S : Max(S) >= y
  BY <1>3, <1>4, Zenon DEF Max
<1> QED
  BY <1>0, <1>5

LEMMA SmallestNumber ==
    ASSUME NEW S \in SUBSET Nat, S # {}
    PROVE  Min(S) \in S /\ \A y \in S : Min(S) <= y
<1>1. PICK m \in S : \A k \in S : m <= k
  BY LeastNumber
<1> QED
  BY <1>1, Zenon DEF Min

-----------------------------------------------------------------------------
(* Folds of a sequence, from its first element to its last.                *)

\* What the last index does to a set of indices.
LEMMA LastIndex ==
    ASSUME NEW k \in Nat \ {0}, NEW S, k \in S, S \subseteq 1..k
    PROVE  Max(S) = k /\ S \ {k} \subseteq 1..(k - 1)
<1>1. S \in SUBSET Nat /\ S # {} /\ k \in Nat /\ \A x \in S : x <= k
  OBVIOUS
<1>2. Max(S) \in S /\ \A y \in S : y <= Max(S)
  BY <1>1, GreatestNumber
<1>3. Max(S) \in 1..k /\ k <= Max(S)
  BY <1>2
<1>4. Max(S) = k
  BY <1>3
<1>5. \A x \in S \ {k} : x \in 1..(k - 1)
  OBVIOUS
<1> QED
  BY <1>4, <1>5

\* step[i] is what the fold does with the i-th element: the function by which
\* the fold is defined exists.
Unfolds(g, base, step, n) ==
    \A S \in SUBSET (1..n) :
        g[S] = IF S = {} THEN base ELSE step[Max(S)][g[S \ {Max(S)}]]

LEMMA FoldExists ==
    ASSUME NEW V, NEW base \in V, NEW n \in Nat, NEW step \in [1..n -> [V -> V]]
    PROVE  \E g \in [SUBSET (1..n) -> V] : Unfolds(g, base, step, n)
<1> DEFINE Exists(k) == \E g \in [SUBSET (1..k) -> V] : Unfolds(g, base, step, k)
           Good == {k \in Nat : k <= n => Exists(k)}
<1>1. 0 \in Good
  <2> DEFINE g == [S \in SUBSET (1..0) |-> base]
  <2>1. g \in [SUBSET (1..0) -> V] /\ \A S \in SUBSET (1..0) : S = {} /\ g[S] = base
    OBVIOUS
  <2> HIDE DEF g
  <2>2. Unfolds(g, base, step, 0)
    BY <2>1 DEF Unfolds
  <2> QED
    BY <2>1, <2>2
<1>2. ASSUME NEW k \in Nat, k \in Good
      PROVE  k + 1 \in Good
  <2> SUFFICES ASSUME k + 1 <= n PROVE Exists(k + 1)
    <3> HIDE DEF Exists
    <3> QED
      OBVIOUS
  <2>0. k <= n /\ k \in Nat
    OBVIOUS
  <2>1. PICK g \in [SUBSET (1..k) -> V] : Unfolds(g, base, step, k)
    <3>1. Exists(k)
      <4> HIDE DEF Exists
      <4> QED
        BY <1>2, <2>0
    <3> QED
      BY <3>1
  <2> DEFINE h == [S \in SUBSET (1..(k + 1)) |->
                     IF k + 1 \in S THEN step[k + 1][g[S \ {k + 1}]] ELSE g[S]]
  <2>2. ASSUME NEW S \in SUBSET (1..(k + 1))
        PROVE  /\ k + 1 \in S => S \ {k + 1} \in SUBSET (1..k)
               /\ k + 1 \notin S => S \in SUBSET (1..k)
    OBVIOUS
  <2>3. h \in [SUBSET (1..(k + 1)) -> V]
    BY <2>1, <2>2
  <2>4. \A S \in SUBSET (1..k) : h[S] = g[S]
    <3> TAKE S \in SUBSET (1..k)
    <3>1. k + 1 \notin S /\ S \in SUBSET (1..(k + 1))
      OBVIOUS
    <3> QED
      BY <3>1
  <2>5. ASSUME NEW S \in SUBSET (1..(k + 1)), k + 1 \in S
        PROVE  h[S] = step[k + 1][g[S \ {k + 1}]]
    BY <2>5
  <2> HIDE DEF h
  <2>6. ASSUME NEW S \in SUBSET (1..(k + 1))
        PROVE  h[S] = IF S = {} THEN base ELSE step[Max(S)][h[S \ {Max(S)}]]
    <3>1. CASE k + 1 \in S
      <4>1. Max(S) = k + 1 /\ S # {}
        <5>1. k + 1 \in Nat \ {0} /\ S \subseteq 1..(k + 1)
          OBVIOUS
        <5> QED
          BY <3>1, <5>1, LastIndex
      <4>2. h[S \ {k + 1}] = g[S \ {k + 1}]
        BY <2>2, <2>4, <3>1
      <4> QED
        BY <2>5, <3>1, <4>1, <4>2
    <3>2. CASE k + 1 \notin S /\ S # {}
      <4>1. S \in SUBSET (1..k)
        BY <2>2, <3>2
      <4>2. S \ {Max(S)} \in SUBSET (1..k)
        BY <4>1
      <4> QED
        BY <2>1, <2>4, <3>2, <4>1, <4>2 DEF Unfolds
    <3>3. CASE S = {}
      <4>1. S \in SUBSET (1..k)
        BY <3>3
      <4> QED
        BY <2>1, <2>4, <3>3, <4>1 DEF Unfolds
    <3> QED
      BY <3>1, <3>2, <3>3
  <2> QED
    BY <2>3, <2>6 DEF Unfolds
<1> HIDE DEF Good
<1>n. n \in Nat /\ n <= n
  OBVIOUS
<1>3. \A k \in Nat : k \in Good
  BY <1>1, <1>2, NumbersByInduction
<1>4. Exists(n)
  <2>1. n \in Good
    BY <1>3
  <2> HIDE DEF Exists
  <2> QED
    BY <1>n, <2>1 DEF Good
<1> QED
  BY <1>4

Plus(s) == [i \in 1..Len(s) |-> [v \in Int |-> v + s[i]]]

\* What the first k indices are to the k-th.
LEMMA FirstIndices ==
    ASSUME NEW n \in Nat, NEW k \in 1..n
    PROVE  /\ k \in Nat \ {0} /\ k \in 1..k /\ k - 1 \in Nat /\ k - 1 \in 0..n /\ k \in 0..n
           /\ 1..k \in SUBSET (1..n) /\ 1..k # {}
           /\ (1..k) \ {k} = 1..(k - 1)
           /\ Max(1..k) = k
<1>1. /\ k \in Nat \ {0} /\ k \in 1..k /\ k - 1 \in Nat /\ k - 1 \in 0..n /\ k \in 0..n
  OBVIOUS
<1>2. 1..k \in SUBSET (1..n) /\ 1..k # {}
  OBVIOUS
<1>3. (1..k) \ {k} = 1..(k - 1)
  OBVIOUS
<1>4. Max(1..k) = k
  BY <1>1, LastIndex
<1> QED
  BY <1>1, <1>2, <1>3, <1>4

LEMMA TotalUnfolds ==
    ASSUME NEW s \in Seq(Int)
    PROVE  \E f : /\ \A S \in SUBSET (1..Len(s)) :
                        f[S] = IF S = {} THEN 0 ELSE f[S \ {Max(S)}] + s[Max(S)]
                  /\ Total(s) = f[1..Len(s)]
<1> DEFINE Def(f) == [S \in SUBSET DOMAIN s |->
                         IF S = {} THEN 0 ELSE f[S \ {Max(S)}] + s[Max(S)]]
           f == CHOOSE f : f = Def(f)
<1>1. Total(s) = f[DOMAIN s]
  BY Zenon DEF Total, FoldLeft, MapThenFoldSet
<1>2. \E g : g = Def(g)
  <2>1. Plus(s) \in [1..Len(s) -> [Int -> Int]] /\ DOMAIN s = 1..Len(s)
    BY DEF Plus
  <2>2. PICK g \in [SUBSET (1..Len(s)) -> Int] : Unfolds(g, 0, Plus(s), Len(s))
    <3>1. 0 \in Int /\ Len(s) \in Nat
      OBVIOUS
    <3> QED
      BY <2>1, <3>1, FoldExists
  <2>3. ASSUME NEW S \in SUBSET (1..Len(s)), S # {}
        PROVE  /\ Max(S) \in 1..Len(s)
               /\ S \ {Max(S)} \in SUBSET (1..Len(s))
    <3>1. S \in SUBSET Nat /\ Len(s) \in Nat /\ \A x \in S : x <= Len(s)
      OBVIOUS
    <3>2. Max(S) \in S
      BY <2>3, <3>1, GreatestNumber
    <3> QED
      BY <3>2
  <2>4. ASSUME NEW S \in SUBSET (1..Len(s))
        PROVE  g[S] = IF S = {} THEN 0 ELSE g[S \ {Max(S)}] + s[Max(S)]
    <3>1. CASE S = {}
      BY <2>2, <3>1 DEF Unfolds
    <3>2. CASE S # {}
      <4>1. g[S] = Plus(s)[Max(S)][g[S \ {Max(S)}]]
        BY <2>2, <3>2 DEF Unfolds
      <4>2. g[S \ {Max(S)}] \in Int
        BY <2>2, <2>3, <3>2
      <4> QED
        BY <2>3, <3>2, <4>1, <4>2 DEF Plus
    <3> QED
      BY <3>1, <3>2
  <2>5. g = Def(g)
    BY <2>1, <2>2, <2>4
  <2> QED
    BY <2>5
<1>3. f = Def(f)
  BY <1>2, Zenon
<1> HIDE DEF f
<1>4. \A S \in SUBSET (DOMAIN s) : f[S] = IF S = {} THEN 0 ELSE f[S \ {Max(S)}] + s[Max(S)]
  BY <1>3
<1>5. DOMAIN s = 1..Len(s)
  OBVIOUS
<1> QED
  BY <1>1, <1>4, <1>5

\* The total, by the totals of the prefixes.
SumsOfPrefixes(h, s) ==
    /\ h[0] = 0
    /\ \A k \in 1..Len(s) : h[k] = h[k - 1] + s[k]

LEMMA TotalByPrefixes ==
    ASSUME NEW s \in Seq(Int), NEW h, SumsOfPrefixes(h, s)
    PROVE  Total(s) = h[Len(s)]
<1>1. PICK f : /\ \A S \in SUBSET (1..Len(s)) :
                     f[S] = IF S = {} THEN 0 ELSE f[S \ {Max(S)}] + s[Max(S)]
               /\ Total(s) = f[1..Len(s)]
  BY TotalUnfolds
<1> DEFINE Same == {k \in Nat : k <= Len(s) => f[1..k] = h[k]}
<1>2. 0 \in Same
  <2>1. 1..0 = {} /\ 1..0 \in SUBSET (1..Len(s))
    OBVIOUS
  <2>2. f[1..0] = 0
    BY <1>1, <2>1
  <2> QED
    BY <2>2 DEF SumsOfPrefixes
<1>3. ASSUME NEW k \in Nat, k \in Same PROVE k + 1 \in Same
  <2> SUFFICES ASSUME k + 1 <= Len(s) PROVE f[1..(k + 1)] = h[k + 1]
    OBVIOUS
  <2>1. f[1..k] = h[k]
    BY <1>3
  <2>2. Len(s) \in Nat /\ k + 1 \in 1..Len(s) /\ (k + 1) - 1 = k
    OBVIOUS
  <2>3. /\ 1..(k + 1) \in SUBSET (1..Len(s)) /\ 1..(k + 1) # {}
        /\ (1..(k + 1)) \ {k + 1} = 1..k
        /\ Max(1..(k + 1)) = k + 1
    BY <2>2, FirstIndices
  <2>4. f[1..(k + 1)] = f[1..k] + s[k + 1]
    BY <1>1, <2>2, <2>3
  <2>5. h[k + 1] = h[k] + s[k + 1]
    BY <2>2 DEF SumsOfPrefixes
  <2> QED
    BY <2>1, <2>4, <2>5
<1> HIDE DEF Same
<1>4. \A k \in Nat : k \in Same
  BY <1>2, <1>3, NumbersByInduction
<1>5. Len(s) \in Nat
  OBVIOUS
<1>6. f[1..Len(s)] = h[Len(s)]
  BY <1>4, <1>5 DEF Same
<1> QED
  BY <1>1, <1>6

LEMMA PrefixTotals ==
    ASSUME NEW s \in Seq(Int)
    PROVE  \E h : /\ SumsOfPrefixes(h, s)
                  /\ \A k \in 0..Len(s) : h[k] \in Int
                  /\ Total(s) = h[Len(s)]
<1>1. PICK f : /\ \A S \in SUBSET (1..Len(s)) :
                     f[S] = IF S = {} THEN 0 ELSE f[S \ {Max(S)}] + s[Max(S)]
               /\ Total(s) = f[1..Len(s)]
  BY TotalUnfolds
<1>0. Len(s) \in Nat
  OBVIOUS
<1> DEFINE h == [k \in 0..Len(s) |-> f[1..k]]
<1>2. \A k \in 0..Len(s) : h[k] = f[1..k]
  OBVIOUS
<1> HIDE DEF h
<1>3. h[0] = 0
  <2>1. 1..0 = {} /\ 1..0 \in SUBSET (1..Len(s)) /\ 0 \in 0..Len(s)
    BY <1>0
  <2> QED
    BY <1>1, <1>2, <2>1
<1>4. ASSUME NEW k \in 1..Len(s) PROVE h[k] = h[k - 1] + s[k]
  <2>2. k - 1 \in 0..Len(s) /\ k \in 0..Len(s)
    BY <1>0, FirstIndices
  <2>3. /\ 1..k \in SUBSET (1..Len(s)) /\ 1..k # {}
        /\ (1..k) \ {k} = 1..(k - 1)
        /\ Max(1..k) = k
    BY <1>0, FirstIndices
  <2>4. f[1..k] = f[1..(k - 1)] + s[k]
    BY <1>1, <2>2, <2>3
  <2> QED
    BY <1>2, <2>2, <2>4
<1>5. SumsOfPrefixes(h, s)
  BY <1>3, <1>4 DEF SumsOfPrefixes
<1> DEFINE Whole == {k \in Nat : k <= Len(s) => h[k] \in Int}
<1>6. 0 \in Whole
  BY <1>3
<1>7. ASSUME NEW k \in Nat, k \in Whole PROVE k + 1 \in Whole
  <2> SUFFICES ASSUME k + 1 <= Len(s) PROVE h[k + 1] \in Int
    BY <1>0
  <2>1. k <= Len(s) /\ k + 1 \in 1..Len(s) /\ (k + 1) - 1 = k
    BY <1>0
  <2>2. h[k] \in Int /\ h[k + 1] = h[k] + s[k + 1] /\ s[k + 1] \in Int
    BY <1>4, <1>7, <2>1
  <2> QED
    BY <2>2
<1> HIDE DEF Whole
<1>8. \A k \in Nat : k \in Whole
  BY <1>6, <1>7, NumbersByInduction
<1>9. \A k \in 0..Len(s) : h[k] \in Int
  <2> TAKE k \in 0..Len(s)
  <2>1. k \in Nat /\ k <= Len(s)
    BY <1>0
  <2> QED
    BY <1>8, <2>1 DEF Whole
<1>10. 1..Len(s) = 1..Len(s) /\ Len(s) \in 0..Len(s)
  BY <1>0
<1> QED
  BY <1>1, <1>2, <1>5, <1>9, <1>10

LEMMA TotalIsInt == ASSUME NEW s \in Seq(Int) PROVE Total(s) \in Int
<1>1. Len(s) \in 0..Len(s)
  OBVIOUS
<1> QED
  BY <1>1, PrefixTotals

LEMMA TotalOfNone == Total(<<>>) = 0
<1>1. <<>> \in Seq(Int) /\ Len(<<>>) = 0
  OBVIOUS
<1>2. PICK h : SumsOfPrefixes(h, <<>>) /\ Total(<<>>) = h[Len(<<>>)]
  BY <1>1, PrefixTotals
<1> QED
  BY <1>1, <1>2 DEF SumsOfPrefixes

LEMMA TotalOfOne == ASSUME NEW x \in Int PROVE Total(<<x>>) = x
<1>1. <<x>> \in Seq(Int) /\ Len(<<x>>) = 1 /\ <<x>>[1] = x /\ 1 \in 1..1 /\ 1 - 1 = 0
  OBVIOUS
<1>2. PICK h : SumsOfPrefixes(h, <<x>>) /\ Total(<<x>>) = h[Len(<<x>>)]
  BY <1>1, PrefixTotals
<1>3. h[0] = 0 /\ h[1] = h[0] + x
  BY <1>1, <1>2 DEF SumsOfPrefixes
<1> QED
  BY <1>1, <1>2, <1>3

\* The total of two sequences in a row.
LEMMA TotalOfConcat ==
    ASSUME NEW s \in Seq(Int), NEW t \in Seq(Int)
    PROVE  Total(s \o t) = Total(s) + Total(t)
<1>0. /\ Len(s) \in Nat /\ Len(t) \in Nat /\ s \o t \in Seq(Int) /\ Len(s \o t) = Len(s) + Len(t)
      /\ \A k \in 1..Len(s) : (s \o t)[k] = s[k]
      /\ \A k \in 1..Len(t) : (s \o t)[Len(s) + k] = t[k]
  OBVIOUS
<1>1. PICK f : /\ SumsOfPrefixes(f, s)
               /\ \A k \in 0..Len(s) : f[k] \in Int
               /\ Total(s) = f[Len(s)]
  BY PrefixTotals
<1>2. PICK g : /\ SumsOfPrefixes(g, t)
               /\ \A k \in 0..Len(t) : g[k] \in Int
               /\ Total(t) = g[Len(t)]
  BY PrefixTotals
<1> DEFINE h == [k \in 0..(Len(s) + Len(t)) |->
                    IF k <= Len(s) THEN f[k] ELSE f[Len(s)] + g[k - Len(s)]]
<1>3. /\ \A k \in 0..Len(s) : h[k] = f[k]
      /\ \A k \in (Len(s) + 1)..(Len(s) + Len(t)) : h[k] = f[Len(s)] + g[k - Len(s)]
  <2>1. ASSUME NEW k \in 0..Len(s) PROVE k \in 0..(Len(s) + Len(t)) /\ k <= Len(s)
    BY <1>0
  <2>2. ASSUME NEW k \in (Len(s) + 1)..(Len(s) + Len(t))
        PROVE  k \in 0..(Len(s) + Len(t)) /\ ~ (k <= Len(s))
    BY <1>0
  <2> QED
    BY <2>1, <2>2
<1> HIDE DEF h
<1>4. h[Len(s)] = f[Len(s)] + g[0]
  <2>1. Len(s) \in 0..Len(s)
    BY <1>0
  <2> QED
    BY <1>1, <1>2, <1>3, <2>1 DEF SumsOfPrefixes
<1>5. \A k \in 0..Len(t) : h[Len(s) + k] = f[Len(s)] + g[k]
  <2> TAKE k \in 0..Len(t)
  <2>1. CASE k = 0
    BY <1>0, <1>4, <2>1
  <2>2. CASE k # 0
    <3>1. Len(s) + k \in (Len(s) + 1)..(Len(s) + Len(t)) /\ (Len(s) + k) - Len(s) = k
      BY <1>0, <2>2
    <3> QED
      BY <1>3, <3>1
  <2> QED
    BY <2>1, <2>2
<1>6. ASSUME NEW k \in 1..Len(s \o t) PROVE h[k] = h[k - 1] + (s \o t)[k]
  <2>1. CASE k <= Len(s)
    <3>1. k \in 1..Len(s) /\ k \in 0..Len(s) /\ k - 1 \in 0..Len(s)
      BY <1>0, <2>1
    <3> QED
      BY <1>0, <1>1, <1>3, <3>1 DEF SumsOfPrefixes
  <2>2. CASE k > Len(s)
    <3>1. PICK n : n = k - Len(s)
      OBVIOUS
    <3>2. /\ n \in 1..Len(t) /\ n \in 0..Len(t) /\ n - 1 \in 0..Len(t)
          /\ k = Len(s) + n /\ k - 1 = Len(s) + (n - 1)
      BY <1>0, <2>2, <3>1
    <3>3. h[k] = f[Len(s)] + g[n] /\ h[k - 1] = f[Len(s)] + g[n - 1]
      BY <1>5, <3>2
    <3>4. g[n] = g[n - 1] + t[n] /\ (s \o t)[k] = t[n] /\ t[n] \in Int
      BY <1>0, <1>2, <3>2 DEF SumsOfPrefixes
    <3>5. f[Len(s)] \in Int /\ g[n - 1] \in Int
      BY <1>0, <1>1, <1>2, <3>2
    <3> QED
      BY <3>3, <3>4, <3>5
  <2> QED
    BY <1>0, <2>1, <2>2
<1>7. h[0] = 0
  <2>1. 0 \in 0..Len(s)
    BY <1>0
  <2> QED
    BY <1>1, <1>3, <2>1 DEF SumsOfPrefixes
<1>8. Total(s \o t) = h[Len(s) + Len(t)]
  <2>1. SumsOfPrefixes(h, s \o t)
    BY <1>6, <1>7 DEF SumsOfPrefixes
  <2> QED
    BY <1>0, <2>1, TotalByPrefixes
<1>9. Len(t) \in 0..Len(t)
  BY <1>0
<1> QED
  BY <1>1, <1>2, <1>5, <1>8, <1>9

-----------------------------------------------------------------------------
(* Totals of durations.                                                    *)

\* The total of n durations of at most m is n times m at most.
LEMMA TotalAtMost ==
    ASSUME NEW s \in Seq(Nat), NEW m \in Nat, \A i \in DOMAIN s : s[i] <= m
    PROVE  Total(s) \in Nat /\ Total(s) <= Len(s) * m
<1>0. s \in Seq(Int) /\ Len(s) \in Nat /\ \A k \in 1..Len(s) : s[k] \in Nat /\ s[k] <= m
  OBVIOUS
<1>1. PICK h : SumsOfPrefixes(h, s) /\ Total(s) = h[Len(s)]
  BY <1>0, PrefixTotals
<1> DEFINE Bounded == {k \in Nat : k <= Len(s) => h[k] \in Nat /\ h[k] <= k * m}
<1>2. 0 \in Bounded
  BY <1>1 DEF SumsOfPrefixes
<1>3. ASSUME NEW k \in Nat, k \in Bounded PROVE k + 1 \in Bounded
  <2> SUFFICES ASSUME k + 1 <= Len(s) PROVE h[k + 1] \in Nat /\ h[k + 1] <= (k + 1) * m
    OBVIOUS
  <2>1. k <= Len(s) /\ k + 1 \in 1..Len(s) /\ (k + 1) - 1 = k
    BY <1>0
  <2>2. h[k + 1] = h[k] + s[k + 1]
    BY <1>1, <2>1 DEF SumsOfPrefixes
  <2>3. h[k] \in Nat /\ h[k] <= k * m
    BY <1>3, <2>1
  <2>4. s[k + 1] \in Nat /\ s[k + 1] <= m
    BY <1>0, <2>1
  <2>5. (k + 1) * m = k * m + m /\ k * m \in Nat
    OBVIOUS
  <2> QED
    BY <2>2, <2>3, <2>4, <2>5
<1> HIDE DEF Bounded
<1>4. \A k \in Nat : k \in Bounded
  BY <1>2, <1>3, NumbersByInduction
<1>5. h[Len(s)] \in Nat /\ h[Len(s)] <= Len(s) * m
  BY <1>0, <1>4 DEF Bounded
<1> QED
  BY <1>1, <1>5

LEMMA TotalIsNat == ASSUME NEW s \in Seq(Nat) PROVE Total(s) \in Nat
<1>0. s \in Seq(Int) /\ Len(s) \in Nat /\ \A k \in 1..Len(s) : s[k] \in Nat
  OBVIOUS
<1>1. PICK h : SumsOfPrefixes(h, s) /\ Total(s) = h[Len(s)]
  BY <1>0, PrefixTotals
<1> DEFINE Whole == {k \in Nat : k <= Len(s) => h[k] \in Nat}
<1>2. 0 \in Whole
  BY <1>1 DEF SumsOfPrefixes
<1>3. ASSUME NEW k \in Nat, k \in Whole PROVE k + 1 \in Whole
  <2> SUFFICES ASSUME k + 1 <= Len(s) PROVE h[k + 1] \in Nat
    OBVIOUS
  <2>1. k <= Len(s) /\ k + 1 \in 1..Len(s) /\ (k + 1) - 1 = k
    BY <1>0
  <2>2. h[k + 1] = h[k] + s[k + 1]
    BY <1>1, <2>1 DEF SumsOfPrefixes
  <2> QED
    BY <1>0, <1>3, <2>1, <2>2
<1> HIDE DEF Whole
<1>4. \A k \in Nat : k \in Whole
  BY <1>2, <1>3, NumbersByInduction
<1> QED
  BY <1>0, <1>1, <1>4 DEF Whole

\* What remains when one element is taken out.
LEMMA Removed ==
    ASSUME NEW T, NEW s \in Seq(T), NEW i \in 1..Len(s)
    PROVE  /\ RemoveAt(s, i) \in Seq(T)
           /\ Len(RemoveAt(s, i)) = Len(s) - 1
           /\ \A k \in 1..(Len(s) - 1) :
                  RemoveAt(s, i)[k] = IF k < i THEN s[k] ELSE s[k + 1]
<1> DEFINE left == SubSeq(s, 1, i - 1)
           right == SubSeq(s, i + 1, Len(s))
<1>0. Len(s) \in Nat /\ i \in Nat
  OBVIOUS
<1>1. /\ left \in Seq(T) /\ Len(left) = i - 1
      /\ \A k \in 1..(i - 1) : left[k] = s[k]
  OBVIOUS
<1>2. /\ right \in Seq(T) /\ Len(right) = Len(s) - i
      /\ \A k \in 1..(Len(s) - i) : right[k] = s[i + k]
  <2>1. right \in Seq(T)
    OBVIOUS
  <2>2. Len(right) = Len(s) - i
    BY <1>0
  <2>3. \A k \in 1..(Len(s) - i) : right[k] = s[i + k]
    BY <1>0
  <2> QED
    BY <2>1, <2>2, <2>3
<1>3. RemoveAt(s, i) = left \o right
  BY DEF RemoveAt
<1> HIDE DEF left, right
<1>4. left \o right \in Seq(T) /\ Len(left \o right) = Len(s) - 1
  <2>1. left \o right \in Seq(T) /\ Len(left \o right) = Len(left) + Len(right)
    BY <1>1, <1>2, ConcatProperties
  <2> QED
    BY <1>0, <1>1, <1>2, <2>1
<1>5. ASSUME NEW k \in 1..(Len(s) - 1)
      PROVE  (left \o right)[k] = IF k < i THEN s[k] ELSE s[k + 1]
  <2>1. CASE k < i
    <3>1. k \in 1..(i - 1)
      BY <1>0, <2>1
    <3>2. (left \o right)[k] = left[k]
      BY <1>0, <1>1, <1>2, <3>1
    <3> QED
      BY <1>1, <2>1, <3>1, <3>2
  <2>2. CASE ~ (k < i)
    <3>1. k - (i - 1) \in 1..(Len(s) - i) /\ i + (k - (i - 1)) = k + 1
      BY <1>0, <2>2
    <3>2. (left \o right)[k] = right[k - (i - 1)]
      BY <1>0, <1>1, <1>2, <2>2
    <3> QED
      BY <1>2, <2>2, <3>1, <3>2
  <2> QED
    BY <2>1, <2>2
<1> QED
  BY <1>3, <1>4, <1>5

\* A sequence, cut at one of its elements.
LEMMA CutAt ==
    ASSUME NEW T, NEW s \in Seq(T), NEW i \in 1..Len(s)
    PROVE  s = (SubSeq(s, 1, i - 1) \o <<s[i]>>) \o SubSeq(s, i + 1, Len(s))
<1> DEFINE left == SubSeq(s, 1, i - 1)
           right == SubSeq(s, i + 1, Len(s))
           all == (left \o <<s[i]>>) \o right
<1>0. Len(s) \in Nat /\ i \in Nat /\ s[i] \in T
  OBVIOUS
<1>1. /\ left \in Seq(T) /\ Len(left) = i - 1
      /\ \A k \in 1..(i - 1) : left[k] = s[k]
  OBVIOUS
<1>2. /\ right \in Seq(T) /\ Len(right) = Len(s) - i
      /\ \A k \in 1..(Len(s) - i) : right[k] = s[i + k]
  <2>1. right \in Seq(T)
    OBVIOUS
  <2>2. Len(right) = Len(s) - i
    BY <1>0
  <2>3. \A k \in 1..(Len(s) - i) : right[k] = s[i + k]
    BY <1>0
  <2> QED
    BY <2>1, <2>2, <2>3
<1> HIDE DEF left, right
<1>3. /\ left \o <<s[i]>> \in Seq(T) /\ Len(left \o <<s[i]>>) = i
      /\ \A k \in 1..(i - 1) : (left \o <<s[i]>>)[k] = left[k]
      /\ (left \o <<s[i]>>)[i] = s[i]
  BY <1>0, <1>1
<1>4. all \in Seq(T) /\ Len(all) = Len(s)
  <2>1. all \in Seq(T) /\ Len(all) = Len(left \o <<s[i]>>) + Len(right)
    BY <1>2, <1>3, ConcatProperties
  <2> QED
    BY <1>0, <1>2, <1>3, <2>1
<1>5. ASSUME NEW k \in 1..Len(s) PROVE all[k] = s[k]
  <2>1. CASE k <= i
    <3>1. all[k] = (left \o <<s[i]>>)[k]
      BY <1>0, <1>2, <1>3, <2>1
    <3>2. k = i \/ k \in 1..(i - 1)
      BY <1>0, <2>1
    <3> QED
      BY <1>1, <1>3, <3>1, <3>2
  <2>2. CASE k > i
    <3>1. k - i \in 1..(Len(s) - i) /\ i + (k - i) = k
      BY <1>0, <2>2
    <3>2. all[k] = right[k - i]
      BY <1>0, <1>2, <1>3, <2>2
    <3> QED
      BY <1>2, <3>1, <3>2
  <2>3. k <= i \/ k > i
    BY <1>0
  <2> QED
    BY <2>1, <2>2, <2>3
<1> HIDE DEF all
<1>6. s = all
  BY <1>4, <1>5, SeqEqual
<1> QED
  BY <1>6 DEF all, left, right

\* The total of the others.
LEMMA TotalOfRemoved ==
    ASSUME NEW s \in Seq(Int), NEW i \in 1..Len(s)
    PROVE  Total(RemoveAt(s, i)) = Total(s) - s[i]
<1>1. PICK left, right : left = SubSeq(s, 1, i - 1) /\ right = SubSeq(s, i + 1, Len(s))
  OBVIOUS
<1>2. left \in Seq(Int) /\ right \in Seq(Int) /\ s[i] \in Int /\ <<s[i]>> \in Seq(Int)
  BY <1>1
<1>3. left \o <<s[i]>> \in Seq(Int)
  BY <1>2
<1>4. s = (left \o <<s[i]>>) \o right
  BY <1>1, CutAt
<1>5. Total((left \o <<s[i]>>) \o right) = Total(left) + s[i] + Total(right)
  <2>1. Total((left \o <<s[i]>>) \o right) = Total(left \o <<s[i]>>) + Total(right)
    BY <1>2, <1>3, TotalOfConcat
  <2>2. Total(left \o <<s[i]>>) = Total(left) + Total(<<s[i]>>)
    BY <1>2, TotalOfConcat
  <2>3. Total(<<s[i]>>) = s[i]
    BY <1>2, TotalOfOne
  <2> QED
    BY <2>1, <2>2, <2>3
<1>6. Total(left \o right) = Total(left) + Total(right)
  BY <1>2, TotalOfConcat
<1>7. RemoveAt(s, i) = left \o right
  BY <1>1 DEF RemoveAt
<1>8. Total(left) \in Int /\ Total(right) \in Int
  BY <1>2, TotalIsInt
<1>9. Total(s) = Total(left) + s[i] + Total(right)
  BY <1>4, <1>5, Zenon
<1> QED
  BY <1>2, <1>6, <1>7, <1>8, <1>9

-----------------------------------------------------------------------------
(* The smoothed duration of the probes.                                    *)

Extend(s) ==
    [i \in 1..Len(s) |->
        [v \in Seq(Nat \ {0}) |-> IF s[i] > 0 THEN Append(v, s[i]) ELSE v]]

\* Only positive durations are averaged.
LEMMA PositiveOnly ==
    ASSUME NEW s \in Seq(Nat)
    PROVE  Positive(s) \in Seq(Nat \ {0})
<1> DEFINE V == Seq(Nat \ {0})
           Def(f) == [S \in SUBSET DOMAIN s |->
                         IF S = {} THEN <<>>
                         ELSE IF s[Max(S)] > 0 THEN Append(f[S \ {Max(S)}], s[Max(S)])
                         ELSE f[S \ {Max(S)}]]
           f == CHOOSE f : f = Def(f)
<1>0. Len(s) \in Nat /\ DOMAIN s = 1..Len(s) /\ \A i \in 1..Len(s) : s[i] \in Nat
  OBVIOUS
<1>1. Positive(s) = f[DOMAIN s]
  BY Zenon DEF Positive, FoldLeft, MapThenFoldSet
<1>2. \E g : g = Def(g)
  <2>1. Extend(s) \in [1..Len(s) -> [V -> V]]
    <3>1. ASSUME NEW i \in 1..Len(s), NEW v \in V
          PROVE  (IF s[i] > 0 THEN Append(v, s[i]) ELSE v) \in V
      <4>1. CASE s[i] > 0
        <5>1. s[i] \in Nat \ {0}
          BY <1>0, <4>1
        <5>2. Append(v, s[i]) \in V
          BY <5>1
        <5> QED
          BY <4>1, <5>2
      <4>2. CASE ~ (s[i] > 0)
        BY <4>2
      <4> QED
        BY <4>1, <4>2
    <3> HIDE DEF V
    <3>2. \A i \in 1..Len(s) :
             [v \in V |-> IF s[i] > 0 THEN Append(v, s[i]) ELSE v] \in [V -> V]
      BY <3>1, Zenon
    <3> QED
      BY <3>2, Zenon DEF Extend, V
  <2>2. PICK g \in [SUBSET (1..Len(s)) -> V] : Unfolds(g, <<>>, Extend(s), Len(s))
    <3>1. <<>> \in V
      OBVIOUS
    <3> HIDE DEF V
    <3> QED
      BY <1>0, <2>1, <3>1, FoldExists
  <2>3. ASSUME NEW S \in SUBSET (1..Len(s)), S # {}
        PROVE  /\ Max(S) \in 1..Len(s)
               /\ S \ {Max(S)} \in SUBSET (1..Len(s))
    <3>1. S \in SUBSET Nat /\ Len(s) \in Nat /\ \A x \in S : x <= Len(s)
      BY <1>0
    <3>2. Max(S) \in S
      BY <2>3, <3>1, GreatestNumber
    <3> QED
      BY <3>2
  <2>4. ASSUME NEW S \in SUBSET (1..Len(s)), S # {}
        PROVE  g[S] = IF s[Max(S)] > 0 THEN Append(g[S \ {Max(S)}], s[Max(S)])
                      ELSE g[S \ {Max(S)}]
    <3>1. g[S] = Extend(s)[Max(S)][g[S \ {Max(S)}]]
      BY <2>2, <2>4 DEF Unfolds
    <3>2. g[S \ {Max(S)}] \in Seq(Nat \ {0}) /\ Max(S) \in 1..Len(s)
      BY <2>2, <2>3, <2>4
    <3> QED
      BY <3>1, <3>2, Zenon DEF Extend
  <2>5. g[{}] = <<>>
    BY <2>2 DEF Unfolds
  <2>6. ASSUME NEW S \in SUBSET (1..Len(s)) PROVE g[S] = Def(g)[S]
    BY <1>0, <2>4, <2>5, <2>6
  <2>7. g = Def(g)
    <3> DEFINE G == Def(g)
    <3>1. DOMAIN g = SUBSET (1..Len(s)) /\ DOMAIN G = SUBSET (1..Len(s))
      BY <1>0, <2>2
    <3> QED
      BY <1>0, <2>2, <2>4, <2>5, Zenon
  <2> QED
    BY <2>7
<1>3. f = Def(f)
  BY <1>2, Zenon
<1> HIDE DEF f
<1>4. \A S \in SUBSET (1..Len(s)) :
         f[S] = IF S = {} THEN <<>>
                ELSE IF s[Max(S)] > 0 THEN Append(f[S \ {Max(S)}], s[Max(S)])
                ELSE f[S \ {Max(S)}]
  BY <1>0, <1>3, Zenon
<1> DEFINE Fine == {k \in Nat : k <= Len(s) => f[1..k] \in V}
<1>5. 0 \in Fine
  <2>1. 1..0 = {} /\ 1..0 \in SUBSET (1..Len(s)) /\ <<>> \in V
    OBVIOUS
  <2> QED
    BY <1>4, <2>1
<1>6. ASSUME NEW k \in Nat, k \in Fine PROVE k + 1 \in Fine
  <2> SUFFICES ASSUME k + 1 <= Len(s) PROVE f[1..(k + 1)] \in V
    OBVIOUS
  <2>1. k + 1 \in 1..Len(s) /\ k <= Len(s) /\ (k + 1) - 1 = k
    BY <1>0
  <2>2. /\ 1..(k + 1) \in SUBSET (1..Len(s)) /\ 1..(k + 1) # {}
        /\ (1..(k + 1)) \ {k + 1} = 1..k
        /\ Max(1..(k + 1)) = k + 1
    BY <1>0, <2>1, FirstIndices
  <2>3. f[1..(k + 1)] = IF s[k + 1] > 0 THEN Append(f[1..k], s[k + 1]) ELSE f[1..k]
    BY <1>4, <2>2, Zenon
  <2>4. f[1..k] \in Seq(Nat \ {0}) /\ s[k + 1] \in Nat
    BY <1>0, <1>6, <2>1
  <2> QED
    BY <2>3, <2>4
<1> HIDE DEF Fine
<1>7. \A k \in Nat : k \in Fine
  BY <1>5, <1>6, NumbersByInduction
<1>8. f[1..Len(s)] \in V
  BY <1>0, <1>7 DEF Fine
<1> QED
  BY <1>0, <1>1, <1>8

\* Some durations have a smallest and a largest one.
LEMMA Extremes ==
    ASSUME NEW p \in Seq(Nat), Len(p) >= 1
    PROVE  /\ \E i \in 1..Len(p) : p[i] = Min(ToSet(p))
           /\ \E i \in 1..Len(p) : p[i] = Max(ToSet(p))
           /\ \A i \in 1..Len(p) : p[i] \in Nat /\ Min(ToSet(p)) <= p[i] /\ p[i] <= Max(ToSet(p))
           /\ Min(ToSet(p)) \in Nat /\ Max(ToSet(p)) \in Nat
<1>0. /\ Len(p) \in Nat /\ DOMAIN p = 1..Len(p) /\ 1 \in 1..Len(p) /\ p \in Seq(Int)
      /\ \A k \in 1..Len(p) : p[k] \in Nat
  OBVIOUS
<1>1. ToSet(p) \in SUBSET Nat /\ ToSet(p) # {}
  BY <1>0 DEF ToSet
<1>2. Min(ToSet(p)) \in ToSet(p) /\ \A y \in ToSet(p) : Min(ToSet(p)) <= y
  BY <1>1, SmallestNumber
<1>3. Total(p) \in Nat /\ \A y \in ToSet(p) : y <= Total(p)
  <2>1. ASSUME NEW i \in 1..Len(p) PROVE p[i] <= Total(p)
    <3>1. Total(RemoveAt(p, i)) = Total(p) - p[i]
      BY <1>0, TotalOfRemoved
    <3>2. Total(RemoveAt(p, i)) \in Nat /\ Total(p) \in Nat
      BY Removed, TotalIsNat
    <3> QED
      BY <1>0, <3>1, <3>2
  <2> QED
    BY <1>0, <2>1, TotalIsNat DEF ToSet
<1>4. Max(ToSet(p)) \in ToSet(p) /\ \A y \in ToSet(p) : y <= Max(ToSet(p))
  BY <1>1, <1>3, GreatestNumber
<1>5. \A i \in 1..Len(p) : p[i] \in ToSet(p)
  BY <1>0 DEF ToSet
<1>6. \A y \in ToSet(p) : \E i \in 1..Len(p) : p[i] = y
  BY <1>0 DEF ToSet
<1> QED
  BY <1>0, <1>1, <1>2, <1>4, <1>5, <1>6

\* The smallest and the largest of some durations are two of them.
LEMMA TwoExtremes ==
    ASSUME NEW p \in Seq(Nat), Len(p) >= 2, NEW i \in 1..Len(p), p[i] = Max(ToSet(p))
    PROVE  \E j \in 1..Len(RemoveAt(p, i)) : RemoveAt(p, i)[j] = Min(ToSet(p))
<1>0. Len(p) \in Nat /\ Len(p) >= 1
  OBVIOUS
<1>3. PICK k \in 1..Len(p) : p[k] = Min(ToSet(p))
  BY <1>0, Extremes
<1>4. \A n \in 1..Len(p) : n # i /\ p[n] = Min(ToSet(p))
         => \E j \in 1..Len(RemoveAt(p, i)) : RemoveAt(p, i)[j] = Min(ToSet(p))
  <2> SUFFICES ASSUME NEW n \in 1..Len(p), n # i, p[n] = Min(ToSet(p))
               PROVE  \E j \in 1..Len(RemoveAt(p, i)) : RemoveAt(p, i)[j] = Min(ToSet(p))
    OBVIOUS
  <2>0. /\ Len(RemoveAt(p, i)) = Len(p) - 1
        /\ \A j \in 1..(Len(p) - 1) :
               RemoveAt(p, i)[j] = IF j < i THEN p[j] ELSE p[j + 1]
    BY Removed
  <2>1. CASE n < i
    <3>1. n \in 1..(Len(p) - 1)
      BY <1>0, <2>1
    <3> QED
      BY <2>0, <2>1, <3>1
  <2>2. CASE n > i
    <3>1. n - 1 \in 1..(Len(p) - 1) /\ ~ (n - 1 < i) /\ (n - 1) + 1 = n
      BY <1>0, <2>2
    <3> QED
      BY <2>0, <3>1
  <2> QED
    BY <2>1, <2>2
<1>5. CASE k # i
  BY <1>3, <1>4, <1>5
<1>6. CASE k = i
  <2>1. \A n \in 1..Len(p) : p[n] = p[i]
    <3> TAKE n \in 1..Len(p)
    <3>1. p[n] \in Nat /\ p[i] <= p[n] /\ p[n] <= p[i] /\ p[i] \in Nat
      BY <1>0, <1>3, <1>6, Extremes
    <3> QED
      BY <3>1
  <2>2. \E n \in 1..Len(p) : n # i
    <3>1. 1 \in 1..Len(p) /\ 2 \in 1..Len(p)
      BY <1>0
    <3> QED
      BY <3>1
  <2> QED
    BY <1>3, <1>4, <1>6, <2>1, <2>2
<1> QED
  BY <1>5, <1>6
\* The smallest and the largest duration left out, the others remain.
LEMMA Trimmed ==
    ASSUME NEW p \in Seq(Nat), Len(p) >= 3, NEW i \in 1..Len(p), p[i] = Max(ToSet(p))
    PROVE  \E t \in Seq(Nat) :
              /\ Len(t) = Len(p) - 2
              /\ Total(t) = Total(p) - Min(ToSet(p)) - Max(ToSet(p))
              /\ \A k \in 1..Len(t) : \E n \in 1..Len(RemoveAt(p, i)) : t[k] = RemoveAt(p, i)[n]
<1>0. Len(p) \in Nat /\ Len(p) >= 2 /\ p \in Seq(Int)
  OBVIOUS
<1>1. PICK r : r = RemoveAt(p, i)
  OBVIOUS
<1>2. r \in Seq(Nat) /\ Len(r) = Len(p) - 1
  BY <1>1, Removed
<1>3. PICK j \in 1..Len(r) : r[j] = Min(ToSet(p))
  BY <1>0, <1>1, TwoExtremes
<1>4. PICK t : t = RemoveAt(r, j)
  OBVIOUS
<1>5. /\ t \in Seq(Nat) /\ Len(t) = Len(r) - 1
      /\ \A k \in 1..(Len(r) - 1) : t[k] = IF k < j THEN r[k] ELSE r[k + 1]
  BY <1>2, <1>4, Removed
<1>6. Total(r) = Total(p) - Max(ToSet(p))
  BY <1>0, <1>1, TotalOfRemoved
<1>7. Total(t) = Total(r) - Min(ToSet(p))
  <2>1. r \in Seq(Int)
    BY <1>2
  <2> QED
    BY <1>3, <1>4, <2>1, TotalOfRemoved
<1>8. Total(p) \in Int /\ Min(ToSet(p)) \in Nat /\ Max(ToSet(p)) \in Nat
  <2>1. Len(p) >= 1
    BY <1>0
  <2> QED
    BY <1>0, <2>1, Extremes, TotalIsInt
<1>9. Total(t) = Total(p) - Min(ToSet(p)) - Max(ToSet(p)) /\ Len(t) = Len(p) - 2
  BY <1>0, <1>2, <1>5, <1>6, <1>7, <1>8
<1>10. ASSUME NEW k \in 1..Len(t) PROVE \E n \in 1..Len(r) : t[k] = r[n]
  <2>1. k \in 1..(Len(r) - 1) /\ k \in 1..Len(r) /\ k + 1 \in 1..Len(r)
    BY <1>0, <1>2, <1>5
  <2> QED
    BY <1>5, <2>1
<1> QED
  BY <1>1, <1>5, <1>9, <1>10

\* A smoothed duration is a mean.
LEMMA SmoothedIsMean ==
    ASSUME NEW s \in Seq(Nat)
    PROVE  smoothed_probe_ms(s) \in [num : Nat, den : Nat \ {0}]
<1>1. PICK p : p = Positive(s)
  OBVIOUS
<1>2. p \in Seq(Nat \ {0}) /\ p \in Seq(Nat) /\ Len(p) \in Nat
  <2>1. p \in Seq(Nat \ {0})
    BY <1>1, PositiveOnly
  <2> QED
    BY <2>1, SeqMonotonic
<1>3. smoothed_probe_ms(s) =
         IF p = <<>> THEN [num |-> 0, den |-> 1]
         ELSE IF Len(p) < 3 THEN [num |-> Total(p), den |-> Len(p)]
         ELSE [num |-> Total(p) - Min(ToSet(p)) - Max(ToSet(p)), den |-> Len(p) - 2]
  BY <1>1, Zenon DEF smoothed_probe_ms
<1>4. CASE p = <<>>
  BY <1>3, <1>4
<1>5. CASE p # <<>> /\ Len(p) < 3
  <2>1. Len(p) \in Nat \ {0}
    BY <1>2, <1>5, EmptySeq
  <2>2. Total(p) \in Nat
    BY <1>2, TotalIsNat
  <2> QED
    BY <1>3, <1>5, <2>1, <2>2
<1>6. CASE p # <<>> /\ ~ (Len(p) < 3)
  <2>0. \A n \in Nat : ~ (n < 3) => n >= 1 /\ n >= 3 /\ n - 2 \in Nat \ {0}
    OBVIOUS
  <2>1. Len(p) >= 1 /\ Len(p) >= 3 /\ Len(p) - 2 \in Nat \ {0}
    BY <1>2, <1>6, <2>0
  <2>2. PICK i \in 1..Len(p) : p[i] = Max(ToSet(p))
    BY <1>2, <2>1, Extremes
  <2>3. PICK t \in Seq(Nat) : Total(t) = Total(p) - Min(ToSet(p)) - Max(ToSet(p))
    BY <1>2, <2>1, <2>2, Trimmed
  <2>4. Total(p) - Min(ToSet(p)) - Max(ToSet(p)) \in Nat
    BY <2>3, TotalIsNat
  <2> QED
    BY <1>3, <1>6, <2>1, <2>4
<1> QED
  BY <1>4, <1>5, <1>6

\* The windows of the batches, whatever samples they are computed from.
LEMMA WindowFromSamples ==
    ASSUME samples \in Seq(Durations)
    PROVE  WaitMs \in MinWait..MaxWait
<1>1. samples \in Seq(Nat)
  BY ProbeWaitAssumption, SeqMonotonic
<1>2. smoothed_probe_ms(samples) \in [num : Nat, den : Nat \ {0}]
  BY <1>1, SmoothedIsMean
<1>3. [num |-> 0, den |-> 1] \in [num : Nat, den : Nat \ {0}]
  OBVIOUS
<1>4. PICK probe \in [num : Nat, den : Nat \ {0}] : WaitMs = duration_wait_ms(probe)
  BY <1>2, <1>3, Zenon DEF WaitMs
<1> QED
  BY <1>4, WindowIsClamped

\* Of three samples and more, one outlier does not stretch the mean.
LEMMA OutlierLeftOut == samples \in Seq(Nat) => OutlierTrimmed
<1> SUFFICES ASSUME samples \in Seq(Nat),
                    NEW p, p = Positive(samples), Len(p) >= 3,
                    NEW i \in DOMAIN p, p[i] = Max(ToSet(p))
             PROVE  LET smoothed == smoothed_probe_ms(samples)
                    IN  smoothed.num <= smoothed.den * Max(ToSet(RemoveAt(p, i)))
  BY Zenon DEF OutlierTrimmed
<1>1. p \in Seq(Nat) /\ Len(p) \in Nat /\ i \in 1..Len(p) /\ p # <<>> /\ ~ (Len(p) < 3)
  <2>1. p \in Seq(Nat \ {0})
    BY PositiveOnly
  <2>2. p \in Seq(Nat)
    BY <2>1, SeqMonotonic
  <2> QED
    BY <2>2
<1>2. smoothed_probe_ms(samples) =
         [num |-> Total(p) - Min(ToSet(p)) - Max(ToSet(p)), den |-> Len(p) - 2]
  BY <1>1, Zenon DEF smoothed_probe_ms
<1>3. PICK r : r = RemoveAt(p, i)
  OBVIOUS
<1>4. r \in Seq(Nat) /\ Len(r) = Len(p) - 1 /\ Len(r) >= 1
  BY <1>1, <1>3, Removed
<1>5. PICK t \in Seq(Nat) :
         /\ Len(t) = Len(p) - 2
         /\ Total(t) = Total(p) - Min(ToSet(p)) - Max(ToSet(p))
         /\ \A k \in 1..Len(t) : \E n \in 1..Len(r) : t[k] = r[n]
  <2>1. \E t \in Seq(Nat) :
           /\ Len(t) = Len(p) - 2
           /\ Total(t) = Total(p) - Min(ToSet(p)) - Max(ToSet(p))
           /\ \A k \in 1..Len(t) : \E n \in 1..Len(RemoveAt(p, i)) : t[k] = RemoveAt(p, i)[n]
    BY <1>1, Trimmed
  <2> QED
    BY <1>3, <2>1
<1>6. Max(ToSet(r)) \in Nat /\ \A n \in 1..Len(r) : r[n] <= Max(ToSet(r))
  BY <1>4, Extremes
<1>7. \A k \in DOMAIN t : t[k] <= Max(ToSet(r))
  <2> TAKE k \in DOMAIN t
  <2>1. k \in 1..Len(t)
    BY <1>5
  <2>2. PICK n \in 1..Len(r) : t[k] = r[n]
    BY <1>5, <2>1
  <2> QED
    BY <1>6, <2>2
<1>8. Total(t) <= Len(t) * Max(ToSet(r))
  BY <1>6, <1>7, TotalAtMost
<1> QED
  BY <1>2, <1>3, <1>5, <1>8

-----------------------------------------------------------------------------
(* The types and the windows.                                              *)

\* The inductive invariant: a due time is bounded because it lies on the grid,
\* the channel because there is one probe.
TypeInv == TypeOK /\ GridInv /\ ProbeInv

\* The samples remain durations, SmoothingSamples at most.
LEMMA SampleRecorded ==
    ASSUME samples \in Seq(Durations), Len(samples) <= SmoothingSamples, NEW d \in Durations
    PROVE  record_probe_sample(d) \in Seq(Durations) /\ Len(record_probe_sample(d)) <= SmoothingSamples
<1>0. SmoothingSamples \in Nat /\ Len(samples) \in Nat
  BY ProbeWaitAssumption
<1>1. PICK s : s = Append(samples, d)
  OBVIOUS
<1>2. s \in Seq(Durations) /\ Len(s) = Len(samples) + 1
  BY <1>1
<1>3. record_probe_sample(d) = IF Len(s) > SmoothingSamples THEN Tail(s) ELSE s
  BY <1>1, Zenon DEF record_probe_sample
<1>4. s # <<>>
  BY <1>0, <1>2, EmptySeq
<1>5. Tail(s) \in Seq(Durations) /\ Len(Tail(s)) = Len(s) - 1
  BY <1>2, <1>4, HeadTailProperties
<1> QED
  BY <1>0, <1>2, <1>3, <1>5

DueBounded == stage # "gone" => nextProbe \in 0..(MaxTime + Interval + Offset)

\* On the grid, the next probe is due at most one interval and the jitter
\* after the last instant.
LEMMA DueIsBounded == GridInv => DueBounded
<1> SUFFICES ASSUME GridInv, stage # "gone"
             PROVE  nextProbe \in 0..(MaxTime + Interval + Offset)
  BY DEF DueBounded
<1>0. Interval \in Nat \ {0} /\ Offset \in Nat /\ MaxTime \in Nat
  BY ProbeWaitAssumption
<1>1. PICK n \in Nat : nextProbe = spawned + Offset + Interval * (n + 1)
  BY DEF GridInv
<1>2. /\ now \in Nat /\ now <= MaxTime /\ spawned \in Nat /\ spawned <= now
      /\ nextProbe > spawned + Interval + Offset => nextProbe <= now + Interval
  BY <1>0 DEF GridInv
<1>3. Interval * (n + 1) \in Nat
  BY <1>0, <1>1
<1>4. nextProbe \in Nat
  BY <1>0, <1>1, <1>2, <1>3
<1> QED
  BY <1>0, <1>2, <1>4

LEMMA TypeInvInit == Init => TypeInv
<1> SUFFICES ASSUME Init PROVE TypeInv
  OBVIOUS
<1>1. GridInv
  BY ProbeWaitAssumption DEF Init, GridInv
<1>2. ProbeInv
  BY ProbeInvInit
<1>3. <<>> \in Seq(Durations) /\ Len(<<>>) = 0 /\ <<>> \in Seq(Feedback)
  OBVIOUS
<1>4. TypeOK
  <2>1. /\ MaxWait \in Nat /\ MaxTime \in Nat /\ Interval \in Nat /\ Offset \in Nat
        /\ SmoothingSamples \in Nat /\ WarmupProbes \in Nat
    BY ProbeWaitAssumption
  <2>2. samples = <<>> /\ feedback = <<>>
    BY DEF Init
  <2>3. samples \in Seq(Durations) /\ Len(samples) <= SmoothingSamples
    BY <1>3, <2>1, <2>2
  <2>4. feedback \in Seq(Feedback) /\ Len(feedback) <= Capacity
    BY <1>3, <2>1, <2>2 DEF Capacity
  <2>5. stage = "gone" /\ now = 0 /\ nextProbe = 0 /\ probing = FALSE
        /\ probes = 0 /\ wait = 0 /\ spawned = 0 /\ recorded = 0
    BY DEF Init
  <2>6. /\ now \in 0..MaxTime /\ nextProbe \in 0..(MaxTime + Interval + Offset) /\ probes \in Nat
        /\ wait \in 0..MaxWait /\ spawned \in 0..MaxTime /\ recorded \in 0..WarmupProbes
    BY <2>1, <2>5
  <2>7. stage \in {"gone", "idle", "collect"} /\ probing \in BOOLEAN
    BY <2>5
  <2> QED
    BY <2>3, <2>4, <2>6, <2>7, Zenon DEF TypeOK
<1> QED
  BY <1>1, <1>2, <1>4 DEF TypeInv

\* What bounds the due time and the channel is what the other two parts say.
LEMMA TypeInvStep == TypeInv /\ [Next]_vars => TypeInv'
<1> SUFFICES ASSUME TypeInv, [Next]_vars PROVE TypeInv'
  OBVIOUS
<1>0. TypeOK /\ GridInv /\ ProbeInv /\ GridInv' /\ ProbeInv'
  BY GridStep, ProbeInvStep DEF TypeInv
<1>c. /\ MinWait \in Nat /\ MaxWait \in Nat /\ MaxTime \in Nat /\ Interval \in Nat /\ Offset \in Nat
      /\ SmoothingSamples \in Nat /\ WarmupProbes \in Nat
  BY ProbeWaitAssumption
<1>1. stage' \in {"gone", "idle", "collect"} /\ now' \in 0..MaxTime
  BY <1>0 DEF GridInv
<1>2. nextProbe' \in 0..(MaxTime + Interval + Offset)
  <2>0. DueBounded'
    BY <1>0, DueIsBounded, PTL
  <2>1. CASE stage' # "gone"
    BY <2>0, <2>1 DEF DueBounded
  <2>2. CASE stage' = "gone"
    <3>1. nextProbe' = nextProbe
      BY <2>2 DEF Next, vars, Spawn, IdleTimeout, RecvFeedback, ProbeSubmitted, ProbeRejected,
         ProbeOversized, ProbeFlushed, ShouldProbe, Collect, Flush, FlushAndReturn, Report, Tick
    <3> QED
      BY <1>0, <3>1 DEF TypeOK
  <2> QED
    BY <2>1, <2>2
<1>3. probing' \in BOOLEAN
  BY <1>0 DEF Next, vars, TypeOK, Spawn, IdleTimeout, RecvFeedback, ProbeSubmitted, ProbeRejected,
     ProbeOversized, ProbeFlushed, Collect, Flush, FlushAndReturn, Return, Report, Tick
<1>4. samples' \in Seq(Durations) /\ Len(samples') <= SmoothingSamples
  <2>1. CASE RecvFeedback
    <3>1. Head(feedback) \in Feedback
      BY <1>0, <2>1, HeadTailProperties DEF RecvFeedback, TypeOK
    <3>2. CASE Head(feedback) = Failure
      BY <1>0, <2>1, <3>2 DEF RecvFeedback, TypeOK
    <3>3. CASE Head(feedback) # Failure
      <4>1. Head(feedback) \in Durations
        BY <3>1, <3>3 DEF Feedback
      <4> QED
        BY <1>0, <2>1, <3>3, <4>1, SampleRecorded DEF RecvFeedback, TypeOK
    <3> QED
      BY <3>2, <3>3
  <2>2. CASE Spawn
    <3>1. <<>> \in Seq(Durations) /\ Len(<<>>) = 0
      OBVIOUS
    <3> QED
      BY <1>c, <2>2, <3>1 DEF Spawn
  <2>3. CASE ~ RecvFeedback /\ ~ Spawn
    <3>1. samples' = samples
      BY <2>3 DEF Next, vars, IdleTimeout, ProbeSubmitted, ProbeRejected,
         ProbeOversized, ProbeFlushed, Collect, Flush, FlushAndReturn, Report, Tick
    <3> QED
      BY <1>0, <3>1 DEF TypeOK
  <2> QED
    BY <2>1, <2>2, <2>3
<1>5. feedback' \in Seq(Feedback) /\ Len(feedback') <= Capacity /\ probes' \in Nat
  <2>1. feedback' \in Seq(Feedback) /\ probes' \in Nat /\ probes' + Len(feedback') <= 1
    BY <1>0 DEF ProbeInv, ProbesTyped
  <2>2. Len(feedback') \in Nat
    BY <2>1
  <2> QED
    BY <1>c, <2>1, <2>2 DEF Capacity
<1>6. wait' \in 0..MaxWait
  <2>1. CASE Collect
    <3>1. WaitMs \in MinWait..MaxWait
      BY <1>0, WindowFromSamples DEF TypeOK
    <3> QED
      BY <1>c, <2>1, <3>1 DEF Collect
  <2>2. CASE ~ Collect
    <3>1. wait' = wait
      BY <2>2 DEF Next, vars, Spawn, IdleTimeout, RecvFeedback, ProbeSubmitted, ProbeRejected,
         ProbeOversized, ProbeFlushed, Flush, FlushAndReturn, Report, Tick
    <3> QED
      BY <1>0, <3>1 DEF TypeOK
  <2> QED
    BY <2>1, <2>2
<1>7. spawned' \in 0..MaxTime
  <2>1. spawned' \in {spawned, now}
    BY DEF Next, vars, Spawn, IdleTimeout, RecvFeedback, ProbeSubmitted, ProbeRejected,
       ProbeOversized, ProbeFlushed, Collect, Flush, FlushAndReturn, Report, Tick
  <2> QED
    BY <1>0, <2>1 DEF TypeOK
<1>8. recorded' \in 0..WarmupProbes
  <2>1. recorded' \in {recorded, 0, Min({recorded + 1, WarmupProbes})}
    BY DEF Next, vars, Spawn, IdleTimeout, RecvFeedback, ProbeSubmitted, ProbeRejected,
       ProbeOversized, ProbeFlushed, Collect, Flush, FlushAndReturn, Report, Tick
  <2>2. recorded \in Nat /\ recorded <= WarmupProbes
    BY <1>0, <1>c DEF TypeOK
  <2>3. Min({recorded + 1, WarmupProbes}) \in Nat /\ Min({recorded + 1, WarmupProbes}) <= WarmupProbes
    <3>1. {recorded + 1, WarmupProbes} \in SUBSET Nat /\ {recorded + 1, WarmupProbes} # {}
      BY <1>c, <2>2
    <3> QED
      BY <3>1, SmallestNumber
  <2> QED
    BY <1>c, <2>1, <2>2, <2>3
<1>9. TypeOK'
  BY <1>1, <1>2, <1>3, <1>4, <1>5, <1>6, <1>7, <1>8 DEF TypeOK, Capacity
<1> QED
  BY <1>0, <1>9 DEF TypeInv

\* The variables hold what they may hold: the samples are durations and no
\* more than smoothingSamples, the clock, the due times, the channel and the
\* windows stay within their limits.
THEOREM TypeCorrect == Spec => []TypeOK
<1>1. TypeInv => TypeOK
  BY DEF TypeInv
<1> QED
  BY <1>1, TypeInvInit, TypeInvStep, PTL DEF Spec

\* Only Collect sets the window of a batch.
LEMMA WaitWithinLimitsStep == TypeInv /\ WaitWithinLimits /\ [Next]_vars => WaitWithinLimits'
<1> SUFFICES ASSUME TypeInv, WaitWithinLimits, [Next]_vars, stage' = "collect"
             PROVE  wait' \in MinWait..MaxWait
  BY DEF WaitWithinLimits
<1>1. CASE Collect
  <2>1. WaitMs \in MinWait..MaxWait
    BY WindowFromSamples DEF TypeInv, TypeOK
  <2> QED
    BY <1>1, <2>1 DEF Collect
<1>2. CASE ~ Collect
  <2>1. stage = "collect" /\ wait' = wait
    BY <1>2 DEF Next, vars, Spawn, IdleTimeout, RecvFeedback, ProbeSubmitted, ProbeRejected,
       ProbeOversized, ProbeFlushed, ShouldProbe, Flush, FlushAndReturn, Return, Report, Tick
  <2> QED
    BY <2>1 DEF WaitWithinLimits
<1> QED
  BY <1>1, <1>2

\* The window of every batch lies between minWaitMs and maxWaitMs, for every
\* fraction, window of samples and duration of the probes.
THEOREM WaitsWithinLimits == Spec => []WaitWithinLimits
<1>1. Init => WaitWithinLimits
  BY DEF Init, WaitWithinLimits
<1> QED
  BY <1>1, WaitWithinLimitsStep, TypeInvInit, TypeInvStep, PTL DEF Spec

LEMMA SamplesMean == TypeInv => OutlierTrimmed
<1> SUFFICES ASSUME TypeInv PROVE OutlierTrimmed
  OBVIOUS
<1>1. samples \in Seq(Nat)
  BY ProbeWaitAssumption, SeqMonotonic DEF TypeInv, TypeOK
<1> QED
  BY <1>1, OutlierLeftOut

\* Of three samples and more, one outlier does not stretch the window,
\* whatever the samples are.
THEOREM OutliersTrimmed == Spec => []OutlierTrimmed
  BY SamplesMean, TypeInvInit, TypeInvStep, PTL DEF Spec

\* A report, by a job that ends or by a flush that is rejected, finds room in
\* the feedback channel at once, however small the smoothing window: so no job
\* keeps its permit of the invocation semaphore to wait for the batcher task.
THEOREM ReportsHaveRoom == Spec => [](Len(feedback) < Capacity)
<1>1. ProbeInv => Len(feedback) < Capacity
  <2> SUFFICES ASSUME ProbeInv PROVE Len(feedback) < Capacity
    OBVIOUS
  <2>1. probes \in Nat /\ Len(feedback) \in Nat /\ probes + Len(feedback) <= 1
    BY DEF ProbeInv, ProbesTyped
  <2> QED
    BY <2>1, ProbeWaitAssumption DEF Capacity
<1> QED
  BY <1>1, ProbeInvInit, ProbeInvStep, PTL DEF Spec

-----------------------------------------------------------------------------
(* Warm-up, and the probe that never reports.                              *)

\* While the task lives, each counted sample is still in the window.
CountedInv == stage # "gone" => recorded <= Len(samples)

LEMMA SampleCounted ==
    ASSUME samples \in Seq(Durations), NEW d \in Durations
    PROVE  Len(record_probe_sample(d)) =
               IF Len(samples) + 1 > SmoothingSamples THEN Len(samples) ELSE Len(samples) + 1
<1>0. SmoothingSamples \in Nat /\ Len(samples) \in Nat
  BY ProbeWaitAssumption
<1>1. PICK s : s = Append(samples, d)
  OBVIOUS
<1>2. s \in Seq(Durations) /\ Len(s) = Len(samples) + 1
  BY <1>1
<1>3. record_probe_sample(d) = IF Len(s) > SmoothingSamples THEN Tail(s) ELSE s
  BY <1>1, Zenon DEF record_probe_sample
<1>4. s # <<>>
  BY <1>0, <1>2, EmptySeq
<1>5. Len(Tail(s)) = Len(s) - 1
  BY <1>2, <1>4, HeadTailProperties
<1> QED
  BY <1>0, <1>2, <1>3, <1>5

LEMMA CountedStep ==
    ASSUME WarmupProbes <= SmoothingSamples
    PROVE  TypeInv /\ CountedInv /\ [Next]_vars => CountedInv'
<1> SUFFICES ASSUME TypeInv, CountedInv, [Next]_vars, stage' # "gone"
             PROVE  recorded' <= Len(samples')
  BY DEF CountedInv
<1>0. /\ recorded \in Nat /\ recorded <= WarmupProbes /\ WarmupProbes \in Nat /\ SmoothingSamples \in Nat
      /\ samples \in Seq(Durations) /\ Len(samples) \in Nat /\ feedback \in Seq(Feedback)
  BY ProbeWaitAssumption DEF TypeInv, TypeOK
<1>1. CASE RecvFeedback
  <2>1. recorded <= Len(samples) /\ Head(feedback) \in Feedback
    BY <1>0, <1>1, HeadTailProperties DEF RecvFeedback, CountedInv
  <2>2. CASE Head(feedback) = Failure
    BY <1>1, <2>1, <2>2 DEF RecvFeedback
  <2>3. CASE Head(feedback) # Failure
    <3>1. Head(feedback) \in Durations
      BY <2>1, <2>3 DEF Feedback
    <3>2. /\ samples' = record_probe_sample(Head(feedback))
          /\ recorded' = Min({recorded + 1, WarmupProbes})
      BY <1>1, <2>3 DEF RecvFeedback
    <3>3. Len(samples') =
             IF Len(samples) + 1 > SmoothingSamples THEN Len(samples) ELSE Len(samples) + 1
      BY <1>0, <3>1, <3>2, SampleCounted
    <3>4. /\ recorded' \in Nat /\ recorded' <= recorded + 1 /\ recorded' <= WarmupProbes
      <4>1. {recorded + 1, WarmupProbes} \in SUBSET Nat /\ {recorded + 1, WarmupProbes} # {}
        BY <1>0
      <4>2. /\ Min({recorded + 1, WarmupProbes}) \in Nat
            /\ \A x \in {recorded + 1, WarmupProbes} : Min({recorded + 1, WarmupProbes}) <= x
        BY <4>1, SmallestNumber
      <4> QED
        BY <3>2, <4>2
    <3> QED
      BY <1>0, <2>1, <3>3, <3>4
  <2> QED
    BY <2>2, <2>3
<1>2. CASE Spawn
  <2>1. samples' = <<>> /\ recorded' = 0 /\ Len(<<>>) = 0
    BY <1>2 DEF Spawn
  <2> QED
    BY <2>1
<1>3. CASE ~ RecvFeedback /\ ~ Spawn
  <2>1. samples' = samples /\ recorded' = recorded /\ (stage = "gone" => stage' = "gone")
    BY <1>3 DEF Next, vars, IdleTimeout, ProbeSubmitted, ProbeRejected, ProbeOversized,
       ProbeFlushed, ShouldProbe, Collect, Flush, FlushAndReturn, Return, Report, Tick
  <2> QED
    BY <2>1 DEF CountedInv
<1> QED
  BY <1>1, <1>2, <1>3

\* The promise of warmupProbes, which the code breaks, holds wherever the
\* window has room for the samples of the warm-up: the comparison of the two,
\* which the validation does not make, is all that is missing.
THEOREM WarmUpEndsIfWindowAllows ==
    ASSUME WarmupProbes <= SmoothingSamples
    PROVE  Spec => []WarmAfterWarmup
<1>1. Init => CountedInv
  BY DEF Init, CountedInv
<1>2. TypeInv /\ CountedInv => WarmAfterWarmup
  <2> SUFFICES ASSUME TypeInv, CountedInv, stage # "gone", recorded = WarmupProbes
               PROVE  Len(samples) >= WarmupProbes
    BY DEF WarmAfterWarmup, Warm
  <2>1. WarmupProbes \in Nat /\ Len(samples) \in Nat /\ recorded <= Len(samples)
    BY ProbeWaitAssumption DEF TypeInv, TypeOK, CountedInv
  <2> QED
    BY <2>1
<1> QED
  BY <1>1, <1>2, CountedStep, TypeInvInit, TypeInvStep, PTL DEF Spec

\* No probe under way and no report of one.
LEMMA Stuck ==
    ASSUME ProbeInv, ~ ProbingEnds
    PROVE  stage # "gone" /\ probing /\ probes = 0 /\ feedback = <<>>
<1>1. /\ probes \in Nat /\ feedback \in Seq(Feedback) /\ Len(feedback) \in Nat
      /\ ~ (probes + Len(feedback) > 0) /\ stage # "gone" /\ probing
  BY DEF ProbeInv, ProbesTyped, ProbingEnds
<1>2. probes = 0 /\ Len(feedback) = 0
  BY <1>1
<1> QED
  BY <1>1, <1>2, EmptySeq

LEMMA StuckStep ==
    ASSUME ProbeInv, [Next]_vars, ProbingEnds, ~ ProbingEnds'
    PROVE  ProbeOversized
<1>0. /\ probes \in Nat /\ feedback \in Seq(Feedback) /\ Len(feedback) \in Nat
      /\ stage' # "gone" /\ probing' /\ ~ (probes' + Len(feedback') > 0)
      /\ stage # "gone" /\ probing => probes + Len(feedback) > 0
  BY DEF ProbeInv, ProbesTyped, ProbingEnds
<1>1. CASE ProbeSubmitted
  BY <1>0, <1>1 DEF ProbeSubmitted
<1>2. ASSUME NEW f \in Feedback, feedback' = Append(feedback, f), probes' \in Nat PROVE FALSE
  <2>1. Len(feedback') = Len(feedback) + 1
    BY <1>0, <1>2
  <2> QED
    BY <1>0, <1>2, <2>1
<1>3. CASE ProbeRejected
  BY <1>0, <1>2, <1>3 DEF ProbeRejected, Feedback
<1>4. CASE \E f \in Feedback : Report(f)
  <2>1. PICK f \in Feedback : Report(f)
    BY <1>4
  <2>2. feedback' = Append(feedback, f) /\ probes' \in Nat
    BY <1>0, <2>1 DEF Report
  <2> QED
    BY <1>2, <2>2
<1>5. CASE Spawn \/ IdleTimeout \/ RecvFeedback \/ FlushAndReturn
  BY <1>0, <1>5 DEF Spawn, IdleTimeout, RecvFeedback, FlushAndReturn, Return
<1>6. CASE Collect \/ Flush \/ Tick \/ UNCHANGED vars
  <2>1. /\ UNCHANGED <<probing, probes, feedback>>
        /\ stage' # "gone" => stage # "gone"
    BY <1>6 DEF Collect, Flush, Tick, vars
  <2> QED
    BY <1>0, <2>1
<1> QED
  BY <1>1, <1>3, <1>4, <1>5, <1>6 DEF Next

\* probe_inflight is left set by an oversized probe, and by nothing else: a
\* probe that is submitted, rejected, answered or failed is always reported.
THEOREM OnlyOversizedSticks == Spec => [][ProbingEnds /\ ~ ProbingEnds' => ProbeOversized]_vars
<1>1. ProbeInv /\ [Next]_vars => [ProbingEnds /\ ~ ProbingEnds' => ProbeOversized]_vars
  BY StuckStep
<1> QED
  BY <1>1, ProbeInvInit, ProbeInvStep, PTL DEF Spec

\* Left set, it stays so, and no probe is flushed, until the task ends.
THEOREM StuckUntilReturn ==
    Spec => [][~ ProbingEnds => ~ ProbeFlushed /\ (stage' = "gone" \/ ~ ProbingEnds')]_vars
<1>1. ProbeInv /\ [Next]_vars =>
         [~ ProbingEnds => ~ ProbeFlushed /\ (stage' = "gone" \/ ~ ProbingEnds')]_vars
  <2> SUFFICES ASSUME ProbeInv, [Next]_vars, ~ ProbingEnds
               PROVE  ~ ProbeFlushed /\ (stage' = "gone" \/ ~ ProbingEnds')
    OBVIOUS
  <2>0. stage # "gone" /\ probing /\ probes = 0 /\ feedback = <<>>
    BY Stuck
  <2>1. ~ ProbeFlushed
    BY <2>0 DEF ProbeFlushed, ShouldProbe
  <2>2. ~ Spawn /\ ~ RecvFeedback /\ ~ \E f \in Feedback : Report(f)
    BY <2>0 DEF Spawn, RecvFeedback, Report
  <2>3. stage' = "gone" \/ (stage' # "gone" /\ UNCHANGED <<probing, probes, feedback>>)
    BY <2>0, <2>1, <2>2 DEF Next, vars, IdleTimeout, ProbeSubmitted, ProbeRejected, ProbeOversized,
       Collect, Flush, FlushAndReturn, Return, Tick
  <2> QED
    BY <2>0, <2>1, <2>3 DEF ProbingEnds
<1> QED
  BY <1>1, ProbeInvInit, ProbeInvStep, PTL DEF Spec
=============================================================================
