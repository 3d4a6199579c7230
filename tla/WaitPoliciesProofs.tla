------------------------- MODULE WaitPoliciesProofs -------------------------
(* Proofs about WaitPolicies, for every configuration of the two waits.     *)
EXTENDS WaitPolicies, ProbeWaitProofs, FiniteSetTheorems, TLAPS

\* A durationWait task leaves these loops alone; in the others the armed timer
\* is the one that the present wait began with, and it is not overdue.
TimersInv ==
    /\ now \in Nat /\ since \in Nat /\ deadline \in Nat
    /\ policy = "duration" => phase = "gone"
    /\ phase = "idle" => deadline = since + IdleTtl /\ now <= deadline
    /\ phase = "collect" =>
           wait \in Nat /\ wait <= MaxWait /\ deadline = since + wait /\ now <= deadline

\* A timer armed at one time is due at that time or later.
LEMMA DueLater == \A t, w \in Nat : t + w \in Nat /\ t <= t + w
  OBVIOUS

\* Half of an interval, rounded, is at most the interval.
LEMMA MiddleBounded ==
    ASSUME NEW x \in Nat
    PROVE  Rounded(x, 2) \in Nat /\ Rounded(x, 2) <= x
<1>1. (2 * x + 2) \div 4 \in Nat /\ (2 * x + 2) \div 4 <= x
  OBVIOUS
<1> QED
  BY <1>1 DEF Rounded

\* Whatever the estimated rate, the window of a batch is at most maxWaitMs.
LEMMA WindowBounded ==
    ASSUME NEW w \in Windows
    PROVE  w \in Nat /\ w <= MaxWait
<1> USE ProbeWaitAssumption DEF ProbeWaitAssumption
<1>1. ASSUME NEW rate PROVE \A v \in sigmoid_wait_ms(rate) : v \in Nat /\ v <= MaxWait
  <2> DEFINE middle == MinWait + Rounded(MaxWait - MinWait, 2)
  <2>1. MaxWait - MinWait \in Nat
    OBVIOUS
  <2>2. middle \in Nat /\ middle <= MaxWait
    BY <2>1, MiddleBounded
  <2>3. \A v \in {MaxWait} \cup {middle} \cup (MinWait..middle) \cup (middle..MaxWait) :
            v \in Nat /\ v <= MaxWait
    BY <2>2
  <2> QED
    BY <2>3 DEF sigmoid_wait_ms
<1> QED
  BY <1>1 DEF Windows

\* TimersInv holds at the start.
LEMMA TimersInvInit == PolicyInit => TimersInv
  BY DEF PolicyInit, Init, TimersInv

\* A step of a durationWait task leaves these loops alone; its clock counts on.
LEMMA DurationStep ==
    ASSUME TimersInv, policy = "duration", Next, UNCHANGED policyVars
    PROVE  TimersInv'
<1>1. now' \in Nat
  BY DEF TimersInv, Next, Spawn, IdleTimeout, RecvFeedback, ProbeSubmitted, ProbeRejected,
         ProbeOversized, ProbeFlushed, Collect, Flush, FlushAndReturn, Report, Tick
<1> QED
  BY <1>1 DEF TimersInv, policyVars

\* Every step preserves it: timers are armed where a wait begins, and the clock
\* stops for a timer that is due.
LEMMA TimersInvStep == TimersInv /\ [PolicyNext]_<<vars, policyVars>> => TimersInv'
<1> SUFFICES ASSUME TimersInv, [PolicyNext]_<<vars, policyVars>> PROVE TimersInv'
  OBVIOUS
<1> USE WaitPoliciesAssumption DEF WaitPoliciesAssumption, TimersInv
<1>1. CASE policy = "duration" /\ Next /\ UNCHANGED policyVars
  BY <1>1, DurationStep
<1>2. CASE SpawnTask
  BY <1>2 DEF SpawnTask, WaitForFirst
<1>3. CASE IdleOut
  BY <1>3 DEF IdleOut
<1>4. CASE FirstRequest
  <2>1. wait' \in Nat /\ wait' <= MaxWait
    BY <1>4, WindowBounded DEF FirstRequest
  <2>2. /\ phase = "idle" /\ phase' = "collect" /\ since' = now /\ deadline' = now + wait'
        /\ UNCHANGED <<policy, now>>
    BY <1>4 DEF FirstRequest
  <2> HIDE DEF TimersInv
  <2>3. policy # "duration" /\ now \in Nat
    BY <2>2 DEF TimersInv
  <2>4. deadline' \in Nat /\ now' <= deadline'
    <3>1. wait' \in Nat
      BY <2>1
    <3>2. deadline' = now + wait' /\ now' = now
      BY <2>2
    <3>3. now \in Nat
      BY <2>3
    <3> QED
      BY <3>1, <3>2, <3>3, DueLater
  <2>5. now' \in Nat /\ since' \in Nat
    BY <2>2, <2>3
  <2>6. policy' # "duration" /\ phase' # "idle"
    BY <2>2, <2>3
  <2>7. deadline' = since' + wait'
    BY <2>2
  <2> QED
    BY <2>1, <2>4, <2>5, <2>6, <2>7 DEF TimersInv
<1>5. CASE MoreRequests
  BY <1>5 DEF MoreRequests
<1>6. CASE Sample
  BY <1>6 DEF Sample, Ticks
<1>7. CASE FlushTask
  BY <1>7 DEF FlushTask, WaitForFirst
<1>8. CASE ChannelCloses
  BY <1>8 DEF ChannelCloses
<1>9. CASE TimePasses
  BY <1>9 DEF TimePasses, policyVars
<1>10. CASE UNCHANGED <<vars, policyVars>>
  BY <1>10 DEF vars, policyVars
<1> QED
  BY <1>1, <1>2, <1>3, <1>4, <1>5, <1>6, <1>7, <1>8, <1>9, <1>10 DEF PolicyNext

\* For every configuration, a task waits idle for at most idle_ttl and holds the
\* first request of a batch for at most the window fixed for it, however the
\* sampler's ticks and further requests fall.
THEOREM TimersAlwaysHold == PolicySpec => []TimersHold
<1>1. TimersInv => TimersHold
  BY DEF TimersInv, TimersHold
<1> QED
  BY <1>1, TimersInvInit, TimersInvStep, PTL DEF PolicySpec

-----------------------------------------------------------------------------
(* The loop of durationWait, beside the other two.                         *)

\* The other two loops do not use what the loop of durationWait keeps.
LoopsApart == policy # "duration" => stage = "gone"

DurationInv == TypeInv /\ LoopsApart /\ WaitWithinLimits

\* What a step of another loop does to the clock and to the window.
LEMMA OtherLoop ==
    ASSUME TypeInv, PolicyNext, ~ (policy = "duration" /\ Next /\ UNCHANGED policyVars)
    PROVE  /\ UNCHANGED <<policy, durationVars>>
           /\ now' \in 0..MaxTime /\ now <= now'
           /\ wait' \in 0..MaxWait
           /\ wait' = wait \/ phase = "idle"
<1>0. now \in 0..MaxTime /\ wait \in 0..MaxWait /\ MaxTime \in Nat
  BY ProbeWaitAssumption DEF TypeInv, TypeOK
<1>1. CASE TimePasses
  BY <1>0, <1>1 DEF TimePasses, policyVars
<1>2. CASE FirstRequest
  <2>1. wait' \in Windows /\ phase = "idle" /\ now' = now /\ UNCHANGED <<policy, durationVars>>
    BY <1>2 DEF FirstRequest
  <2>2. wait' \in 0..MaxWait
    BY <2>1, WindowBounded, ProbeWaitAssumption
  <2> QED
    BY <1>0, <2>1, <2>2
<1>3. CASE SpawnTask \/ IdleOut \/ MoreRequests \/ Sample \/ FlushTask \/ ChannelCloses
  <2>1. now' = now /\ wait' = wait /\ UNCHANGED <<policy, durationVars>>
    BY <1>3 DEF SpawnTask, IdleOut, MoreRequests, Sample, Ticks, FlushTask, ChannelCloses
  <2> QED
    BY <1>0, <2>1
<1> QED
  BY <1>1, <1>2, <1>3 DEF PolicyNext

LEMMA OtherLoopTypes ==
    ASSUME TypeInv, UNCHANGED durationVars, now' \in 0..MaxTime, now <= now', wait' \in 0..MaxWait
    PROVE  TypeInv'
<1>0. TypeOK /\ GridInv /\ ProbeInv
  BY DEF TypeInv
<1>1. UNCHANGED <<stage, nextProbe, probing, samples, feedback, probes, spawned, recorded>>
  BY DEF durationVars
<1>2. TypeOK'
  BY <1>0, <1>1 DEF TypeOK
<1>3. ProbeInv'
  BY <1>0, <1>1 DEF ProbeInv, ProbesTyped
<1>4. GridInv'
  <2>0. Interval \in Nat \ {0} /\ Offset \in Nat /\ MaxTime \in Nat
    BY ProbeWaitAssumption
  <2>1. ASSUME stage # "gone"
        PROVE  /\ spawned \in Nat /\ spawned <= now'
               /\ nextProbe > spawned + Interval + Offset => nextProbe <= now' + Interval
    <3>1. PICK n \in Nat : nextProbe = spawned + Offset + Interval * (n + 1)
      BY <1>0, <2>1 DEF GridInv
    <3>2. spawned \in Nat /\ Interval * (n + 1) \in Nat /\ nextProbe \in Nat /\ now \in Nat
      BY <1>0, <2>0, <2>1, <3>1 DEF GridInv
    <3>3. spawned <= now /\ (nextProbe > spawned + Interval + Offset => nextProbe <= now + Interval)
      BY <1>0, <2>1 DEF GridInv
    <3>4. now' \in Int /\ now <= now' /\ now \in Int
      BY <2>0, <3>2
    <3>5. spawned <= now'
      BY <3>2, <3>3, <3>4
    <3>6. ASSUME nextProbe > spawned + Interval + Offset PROVE nextProbe <= now' + Interval
      <4>1. nextProbe <= now + Interval /\ Interval \in Int /\ nextProbe \in Int
        BY <2>0, <3>2, <3>3, <3>6
      <4>2. \A a, b, c, d \in Int : a <= b + c /\ b <= d => a <= d + c
        OBVIOUS
      <4> QED
        BY <3>4, <4>1, <4>2
    <3> QED
      BY <3>2, <3>5, <3>6
  <2> QED
    BY <1>0, <1>1, <2>1 DEF GridInv
<1> QED
  BY <1>2, <1>3, <1>4 DEF TypeInv

LEMMA DurationInvInit == PolicyInit => DurationInv
  BY TypeInvInit DEF PolicyInit, DurationInv, LoopsApart, Init, WaitWithinLimits

LEMMA DurationInvStep ==
    DurationInv /\ TimersInv /\ [PolicyNext]_<<vars, policyVars>> => DurationInv'
<1> SUFFICES ASSUME DurationInv, TimersInv, [PolicyNext]_<<vars, policyVars>> PROVE DurationInv'
  OBVIOUS
<1>0. TypeInv /\ LoopsApart /\ WaitWithinLimits
  BY DEF DurationInv
<1>1. CASE (policy = "duration" /\ Next /\ UNCHANGED policyVars) \/ UNCHANGED <<vars, policyVars>>
  <2>1. [Next]_vars /\ policy' = policy /\ (policy = "duration" \/ UNCHANGED vars)
    BY <1>1 DEF policyVars
  <2>2. TypeInv' /\ WaitWithinLimits'
    BY <1>0, <2>1, TypeInvStep, WaitWithinLimitsStep
  <2>3. LoopsApart'
    BY <1>0, <2>1 DEF LoopsApart, vars
  <2> QED
    BY <2>2, <2>3 DEF DurationInv
<1>2. CASE PolicyNext /\ ~ (policy = "duration" /\ Next /\ UNCHANGED policyVars)
  <2>1. /\ UNCHANGED <<policy, durationVars>>
        /\ now' \in 0..MaxTime /\ now <= now'
        /\ wait' \in 0..MaxWait
        /\ wait' = wait \/ phase = "idle"
    BY <1>0, <1>2, OtherLoop
  <2>2. TypeInv'
    BY <1>0, <2>1, OtherLoopTypes
  <2>3. LoopsApart' /\ stage' = stage
    BY <1>0, <2>1 DEF LoopsApart, durationVars
  <2>4. WaitWithinLimits'
    <3>1. CASE wait' = wait
      BY <1>0, <2>3, <3>1 DEF WaitWithinLimits
    <3>2. CASE phase = "idle"
      <4>1. stage = "gone"
        BY <1>0, <3>2 DEF TimersInv, LoopsApart
      <4> QED
        BY <2>3, <4>1 DEF WaitWithinLimits
    <3> QED
      BY <2>1, <3>1, <3>2
  <2> QED
    BY <2>2, <2>3, <2>4 DEF DurationInv
<1> QED
  BY <1>1, <1>2

\* What holds of the loop of durationWait alone holds of a task with any of the
\* three policies: the types, one probe under way, probes on their grid, windows
\* within the limits, outliers left out.
THEOREM LoopsKeepTheirLimits ==
    PolicySpec => [](TypeOK /\ OneProbeUnderWay /\ ScheduleOnGrid /\ WaitWithinLimits /\ OutlierTrimmed)
<1>1. DurationInv =>
         TypeOK /\ OneProbeUnderWay /\ ScheduleOnGrid /\ WaitWithinLimits /\ OutlierTrimmed
  BY ProbeInvMeans, GridInvMeans, SamplesMean DEF DurationInv, TypeInv
<1> QED
  BY <1>1, DurationInvInit, DurationInvStep, TimersInvInit, TimersInvStep, PTL DEF PolicySpec

-----------------------------------------------------------------------------
(* The rate of requests.                                                   *)

\* When the interval of rates[k + 1] began (of the present interval, if k is
\* the last index).
Began(k) == sampleAt - SamplingInterval * (Len(rates) + 1 - k)

\* The requests are cut into intervals: those up to c[0] are forgotten, those
\* from there to c[k] are counted in the first k rates, the others in count.
Cuts(c) ==
    /\ \A k \in 1..Len(rates) : rates[k] = c[k] - c[k - 1]
    /\ count = Len(received) - c[Len(rates)]
    /\ \A k \in 0..Len(rates), i \in 1..Len(received) :
           IF i <= c[k] THEN received[i] <= Began(k) ELSE received[i] >= Began(k)

\* The inductive invariant: while the estimator runs there are such cuts, and
\* the clock is within the present interval.
RatesTyped ==
    /\ rates \in Seq(Int) /\ Len(rates) <= RateSamples
    /\ received \in Seq(Nat)
    /\ sampleAt \in Nat

RateInv ==
    /\ now \in Nat
    /\ policy = "dynamic" /\ phase # "gone" =>
        /\ RatesTyped
        /\ sampleAt - SamplingInterval <= now /\ now <= sampleAt
        /\ \A i \in 1..Len(received) : received[i] <= now
        /\ \E c \in [0..Len(rates) -> 0..Len(received)] : Cuts(c)

\* An interval more.
LEMMA IntervalMore ==
    ASSUME NEW n \in Int
    PROVE  /\ SamplingInterval * n \in Int
           /\ SamplingInterval * (n + 1) = SamplingInterval * n + SamplingInterval
           /\ n >= 1 => SamplingInterval * n >= SamplingInterval
<1>0. SamplingInterval \in Nat \ {0}
  BY WaitPoliciesAssumption
<1>1. SamplingInterval * n \in Int /\ SamplingInterval * (n + 1) = SamplingInterval * n + SamplingInterval
  BY <1>0
<1>2. ASSUME n >= 1 PROVE SamplingInterval * n >= SamplingInterval
  <2>1. n - 1 \in Nat
    BY <1>2
  <2>2. SamplingInterval * (n - 1) \in Nat
    BY <1>0, <2>1
  <2>3. SamplingInterval * n = SamplingInterval * (n - 1) + SamplingInterval
    BY <1>0
  <2> QED
    BY <1>0, <2>2, <2>3
<1> QED
  BY <1>1, <1>2

\* The number of indices beyond a cut.
LEMMA Beyond ==
    ASSUME NEW n \in Nat, NEW a \in 0..n
    PROVE  Cardinality((a + 1)..n) = n - a /\ IsFiniteSet((a + 1)..n) /\ IsFiniteSet(1..n)
<1>1. a + 1 \in Int /\ n \in Int /\ 1 \in Int
  OBVIOUS
<1>2. /\ IsFiniteSet((a + 1)..n) /\ IsFiniteSet(1..n)
      /\ Cardinality((a + 1)..n) = IF a + 1 > n THEN 0 ELSE n - (a + 1) + 1
  BY <1>1, FS_Interval
<1> QED
  BY <1>2

\* With the cuts, the rates add up to the requests after the first cut.
LEMMA CountedSinceCut ==
    ASSUME RatesTyped, NEW c \in [0..Len(rates) -> 0..Len(received)], Cuts(c)
    PROVE  Total(rates) + count = Len(received) - c[0]
<1>0. Len(rates) \in Nat /\ Len(received) \in Nat /\ rates \in Seq(Int)
  BY DEF RatesTyped
<1>1. PICK h : h = [k \in 0..Len(rates) |-> c[k] - c[0]]
  OBVIOUS
<1>2. \A k \in 0..Len(rates) : h[k] = c[k] - c[0] /\ c[k] \in Int
  BY <1>0, <1>1
<1>3. SumsOfPrefixes(h, rates)
  <2>1. h[0] = 0
    BY <1>0, <1>2
  <2>2. ASSUME NEW k \in 1..Len(rates) PROVE h[k] = h[k - 1] + rates[k]
    <3>1. k \in 0..Len(rates) /\ k - 1 \in 0..Len(rates) /\ 0 \in 0..Len(rates)
      BY <1>0
    <3>2. rates[k] = c[k] - c[k - 1]
      BY DEF Cuts
    <3> QED
      BY <1>2, <3>1, <3>2
  <2> QED
    BY <2>1, <2>2 DEF SumsOfPrefixes
<1>4. Total(rates) = h[Len(rates)]
  BY <1>0, <1>3, TotalByPrefixes
<1>5. Len(rates) \in 0..Len(rates) /\ 0 \in 0..Len(rates)
  BY <1>0
<1>6. count = Len(received) - c[Len(rates)]
  BY DEF Cuts
<1> QED
  BY <1>0, <1>2, <1>4, <1>5, <1>6

\* RateInv is what RateIsRecent claims: the first cut lies between the requests
\* before the first interval and those after its beginning.
LEMMA RecentByCuts == RateInv => RateIsRecent
<1> DEFINE from == sampleAt - SamplingInterval * (Len(rates) + 1)
           after == {i \in DOMAIN received : received[i] > from}
           notBefore == {i \in DOMAIN received : received[i] >= from}
<1> SUFFICES ASSUME RateInv, policy = "dynamic", phase # "gone"
             PROVE  /\ Len(rates) <= RateSamples
                    /\ Total(rates) + count >= Cardinality(after)
                    /\ Total(rates) + count <= Cardinality(notBefore)
  BY Zenon DEF RateIsRecent
<1>0. RatesTyped
  BY DEF RateInv
<1>1. PICK c \in [0..Len(rates) -> 0..Len(received)] : Cuts(c)
  BY DEF RateInv
<1>2. /\ Len(rates) \in Nat /\ Len(received) \in Nat /\ DOMAIN received = 1..Len(received)
      /\ \A i \in 1..Len(received) : received[i] \in Nat
  BY <1>0 DEF RatesTyped
<1>3. 0 \in 0..Len(rates) /\ c[0] \in 0..Len(received)
  BY <1>2
<1>4. from \in Int /\ Began(0) = from
  <2>1. SamplingInterval * (Len(rates) + 1) \in Int
    BY <1>2, IntervalMore
  <2> QED
    BY <1>0, <1>2, <2>1 DEF Began, RatesTyped
<1> HIDE DEF from
<1>5. \A i \in 1..Len(received) :
         IF i <= c[0] THEN received[i] <= from ELSE received[i] >= from
  BY <1>1, <1>3, <1>4 DEF Cuts
<1>6. after \subseteq (c[0] + 1)..Len(received)
  BY <1>2, <1>3, <1>4, <1>5
<1>7. (c[0] + 1)..Len(received) \subseteq notBefore
  BY <1>2, <1>3, <1>4, <1>5
<1>8. /\ Cardinality((c[0] + 1)..Len(received)) = Len(received) - c[0]
      /\ IsFiniteSet((c[0] + 1)..Len(received)) /\ IsFiniteSet(1..Len(received))
  BY <1>2, <1>3, Beyond
<1>9. Cardinality(after) <= Len(received) - c[0] /\ Cardinality(after) \in Nat
  BY <1>6, <1>8, FS_Subset, FS_CardinalityType
<1>10. Len(received) - c[0] <= Cardinality(notBefore) /\ Cardinality(notBefore) \in Nat
  <2>1. notBefore \subseteq 1..Len(received)
    BY <1>2
  <2>2. IsFiniteSet(notBefore)
    BY <1>8, <2>1, FS_Subset
  <2> HIDE DEF notBefore
  <2> QED
    BY <1>7, <1>8, <2>2, FS_Subset, FS_CardinalityType
<1>11. Total(rates) + count = Len(received) - c[0]
  BY <1>0, <1>1, CountedSinceCut
<1> HIDE DEF after, notBefore
<1> QED
  BY <1>0, <1>9, <1>10, <1>11 DEF RatesTyped

\* What RateInv says of a running estimator.
Running == policy = "dynamic" /\ phase # "gone"

\* One request more: it belongs to the present interval, after every cut.
LEMMA ReceivedInv ==
    ASSUME RateInv, Running, Receive, UNCHANGED <<policy, now, sampleAt, rates>>
    PROVE  RateInv'
<1>0. /\ RatesTyped /\ now \in Nat
      /\ sampleAt - SamplingInterval <= now /\ now <= sampleAt
      /\ \A i \in 1..Len(received) : received[i] <= now
  BY DEF RateInv, Running
<1>c. PICK c \in [0..Len(rates) -> 0..Len(received)] : Cuts(c)
  BY DEF RateInv, Running
<1>1. /\ rates \in Seq(Int) /\ Len(rates) \in Nat /\ received \in Seq(Nat) /\ Len(received) \in Nat
      /\ sampleAt \in Nat
      /\ rates' = rates /\ sampleAt' = sampleAt /\ now' = now
  BY <1>0 DEF RatesTyped
<1>2. received' = Append(received, now) /\ count' = count + 1
  BY DEF Receive, Counted, Running
<1>3. /\ received' \in Seq(Nat) /\ Len(received') = Len(received) + 1
      /\ \A i \in 1..Len(received) : received'[i] = received[i]
      /\ received'[Len(received) + 1] = now
  BY <1>0, <1>1, <1>2
<1>4. RatesTyped'
  BY <1>0, <1>1, <1>3 DEF RatesTyped
<1>5. \A i \in 1..Len(received') : i \in 1..Len(received) \/ i = Len(received) + 1
  BY <1>1, <1>3
<1>6. \A i \in 1..Len(received') : received'[i] <= now'
  <2> TAKE i \in 1..Len(received')
  <2>1. CASE i \in 1..Len(received)
    BY <1>0, <1>1, <1>3, <2>1
  <2>2. CASE i = Len(received) + 1
    BY <1>0, <1>1, <1>3, <2>2
  <2> QED
    BY <1>5, <2>1, <2>2
<1>7. \A k \in 0..Len(rates) : Began(k)' = Began(k) /\ Began(k) <= now /\ Began(k) \in Int
  <2> TAKE k \in 0..Len(rates)
  <2>1. Len(rates) + 1 - k \in Int /\ Len(rates) + 1 - k >= 1
    BY <1>1
  <2>2. /\ SamplingInterval * (Len(rates) + 1 - k) \in Int
        /\ SamplingInterval * (Len(rates) + 1 - k) >= SamplingInterval
    BY <2>1, IntervalMore
  <2>3. Began(k) = sampleAt - SamplingInterval * (Len(rates) + 1 - k)
    BY DEF Began
  <2>4. SamplingInterval \in Nat
    BY WaitPoliciesAssumption
  <2>5. Began(k) <= now /\ Began(k) \in Int
    <3>1. PICK x : x = SamplingInterval * (Len(rates) + 1 - k)
      OBVIOUS
    <3>2. x \in Int /\ x >= SamplingInterval /\ Began(k) = sampleAt - x
      BY <2>2, <2>3, <3>1
    <3> QED
      BY <1>0, <1>1, <2>4, <3>2
  <2> QED
    BY <1>1, <2>3, <2>5 DEF Began
<1>8. c \in [0..Len(rates') -> 0..Len(received')]
  BY <1>1, <1>3
<1>9. Cuts(c)'
  <2>1. \A k \in 1..Len(rates') : rates'[k] = c[k] - c[k - 1]
    BY <1>1, <1>c DEF Cuts
  <2>2. count' = Len(received') - c[Len(rates')]
    <3>1. count = Len(received) - c[Len(rates)]
      BY <1>c DEF Cuts
    <3>2. c[Len(rates)] \in Nat
      BY <1>1
    <3> QED
      BY <1>1, <1>2, <1>3, <3>1, <3>2
  <2>3. ASSUME NEW k \in 0..Len(rates), NEW i \in 1..Len(received')
        PROVE  IF i <= c[k] THEN received'[i] <= Began(k)' ELSE received'[i] >= Began(k)'
    <3>1. CASE i \in 1..Len(received)
      <4>1. IF i <= c[k] THEN received[i] <= Began(k) ELSE received[i] >= Began(k)
        BY <1>c, <3>1 DEF Cuts
      <4> QED
        BY <1>3, <1>7, <3>1, <4>1
    <3>2. CASE i = Len(received) + 1
      <4>1. c[k] \in 0..Len(received)
        OBVIOUS
      <4>2. ~ (i <= c[k])
        BY <1>1, <3>2, <4>1
      <4>3. received'[i] = now
        BY <1>3, <3>2
      <4> QED
        BY <1>0, <1>7, <4>2, <4>3
    <3> QED
      BY <1>5, <3>1, <3>2
  <2>4. \A k \in 0..Len(rates'), i \in 1..Len(received') :
           IF i <= c[k] THEN received'[i] <= Began(k)' ELSE received'[i] >= Began(k)'
    BY <1>1, <2>3
  <2> QED
    BY <2>1, <2>2, <2>4 DEF Cuts
<1>10. \E d \in [0..Len(rates') -> 0..Len(received')] : Cuts(d)'
  BY <1>8, <1>9
<1> QED
  BY <1>0, <1>1, <1>4, <1>6, <1>10 DEF RateInv

\* A tick: the present interval ends here with the last request received, and
\* the oldest interval is forgotten when there are too many.
LEMMA SampledInv ==
    ASSUME RateInv, Running, now >= sampleAt, rates' = SampledRates, count' = 0,
           sampleAt' = sampleAt + SamplingInterval, UNCHANGED <<policy, now, received>>
    PROVE  RateInv'
<1>0. /\ RatesTyped /\ now \in Nat
      /\ sampleAt - SamplingInterval <= now /\ now <= sampleAt
      /\ \A i \in 1..Len(received) : received[i] <= now
  BY DEF RateInv, Running
<1>c. PICK c \in [0..Len(rates) -> 0..Len(received)] : Cuts(c)
  BY DEF RateInv, Running
<1>n. SamplingInterval \in Nat \ {0} /\ RateSamples \in Nat \ {0}
  BY WaitPoliciesAssumption
<1>1. PICK n : n = Len(rates)
  OBVIOUS
<1>2. PICK m : m = Len(received)
  OBVIOUS
<1>3. /\ rates \in Seq(Int) /\ n \in Nat /\ received \in Seq(Nat) /\ m \in Nat
      /\ sampleAt \in Nat /\ now = sampleAt /\ n <= RateSamples
      /\ received' = received /\ now' = now
  BY <1>0, <1>1, <1>2 DEF RatesTyped
<1>4. PICK e : e = [k \in 0..(n + 1) |-> IF k = n + 1 THEN m ELSE c[k]]
  OBVIOUS
<1>5. /\ \A k \in 0..n : e[k] = c[k]
      /\ e[n + 1] = m
      /\ \A k \in 0..(n + 1) : e[k] \in 0..m
  <2>1. \A k \in 0..n : k \in 0..(n + 1) /\ k # n + 1
    BY <1>3
  <2>2. n + 1 \in 0..(n + 1) /\ m \in 0..m
    BY <1>3
  <2>3. \A k \in 0..(n + 1) : k = n + 1 \/ k \in 0..n
    BY <1>3
  <2> QED
    BY <1>1, <1>2, <1>4, <2>1, <2>2, <2>3
<1>6. PICK s : s = Append(rates, count)
  OBVIOUS
<1>7. /\ count = m - c[n] /\ count \in Int
      /\ \A k \in 1..n : rates[k] = c[k] - c[k - 1]
  <2>1. c[n] \in 0..m
    BY <1>1, <1>2, <1>3
  <2>2. count = m - c[n] /\ \A k \in 1..n : rates[k] = c[k] - c[k - 1]
    BY <1>1, <1>2, <1>c DEF Cuts
  <2> QED
    BY <1>3, <2>1, <2>2
<1>8. s \in Seq(Int) /\ Len(s) = n + 1 /\ \A k \in 1..n : s[k] = rates[k]
  BY <1>1, <1>3, <1>6, <1>7
<1>9. s[n + 1] = count
  BY <1>1, <1>3, <1>6, <1>7
<1>10. \A k \in 1..(n + 1) : s[k] = e[k] - e[k - 1]
  <2> TAKE k \in 1..(n + 1)
  <2>1. CASE k = n + 1
    <3>1. k - 1 = n /\ n \in 0..n
      BY <1>3, <2>1
    <3> QED
      BY <1>5, <1>7, <1>9, <2>1, <3>1
  <2>2. CASE k # n + 1
    <3>1. k \in 1..n /\ k \in 0..n /\ k - 1 \in 0..n
      BY <1>3, <2>2
    <3> QED
      BY <1>5, <1>7, <1>8, <3>1
  <2> QED
    BY <2>1, <2>2
<1> DEFINE B(k) == sampleAt - SamplingInterval * (n + 1 - k)
<1>11. \A k \in 0..(n + 1) : SamplingInterval * (n + 1 - k) \in Int /\ B(k) \in Int
  <2> TAKE k \in 0..(n + 1)
  <2>1. n + 1 - k \in Int
    BY <1>3
  <2>2. SamplingInterval * (n + 1 - k) \in Int
    BY <2>1, IntervalMore
  <2> QED
    BY <1>3, <2>2
<1>12. ASSUME NEW k \in 0..(n + 1), NEW i \in 1..m
       PROVE  IF i <= e[k] THEN received[i] <= B(k) ELSE received[i] >= B(k)
  <2>1. CASE k = n + 1
    <3>1. SamplingInterval * (n + 1 - k) = 0
      BY <1>n, <1>3, <2>1
    <3>2. B(k) = sampleAt
      BY <1>3, <3>1
    <3>3. e[k] = m /\ i <= m /\ received[i] <= now
      BY <1>0, <1>2, <1>5, <2>1
    <3> QED
      BY <1>3, <3>2, <3>3
  <2>2. CASE k # n + 1
    <3>1. k \in 0..n
      BY <1>3, <2>2
    <3>2. IF i <= c[k] THEN received[i] <= Began(k) ELSE received[i] >= Began(k)
      BY <1>1, <1>2, <1>c, <3>1 DEF Cuts
    <3>3. Began(k) = B(k)
      BY <1>1 DEF Began
    <3> QED
      BY <1>5, <3>1, <3>2, <3>3
  <2> QED
    BY <2>1, <2>2
<1>13. rates' = IF Len(s) > RateSamples THEN Tail(s) ELSE s
  BY <1>6, Zenon DEF SampledRates
<1>14. sampleAt' \in Nat /\ sampleAt' - SamplingInterval <= now' /\ now' <= sampleAt'
  BY <1>n, <1>3
<1>15. \A i \in 1..Len(received') : received'[i] <= now'
  BY <1>0, <1>3
<1>16. /\ rates' \in Seq(Int) /\ Len(rates') <= RateSamples
       /\ \E d \in [0..Len(rates') -> 0..Len(received')] : Cuts(d)'
  <2>1. CASE Len(s) > RateSamples
    <3>1. rates' = Tail(s) /\ s # <<>>
      BY <1>n, <1>3, <1>8, <1>13, <2>1, EmptySeq
    <3>2. /\ rates' \in Seq(Int) /\ Len(rates') = n
          /\ \A k \in 1..n : rates'[k] = s[k + 1]
      <4>1. /\ Tail(s) \in Seq(Int) /\ Len(Tail(s)) = Len(s) - 1
            /\ \A k \in 1..Len(Tail(s)) : Tail(s)[k] = s[k + 1]
        BY <1>8, <3>1, HeadTailProperties
      <4> QED
        BY <1>3, <1>8, <3>1, <4>1
    <3>3. PICK d : d = [k \in 0..n |-> e[k + 1]]
      OBVIOUS
    <3>4. \A k \in 0..n : d[k] = e[k + 1] /\ k + 1 \in 0..(n + 1)
      BY <1>3, <3>3
    <3>5. d \in [0..n -> 0..m]
      BY <1>5, <3>3, <3>4
    <3>6. ASSUME NEW k \in 1..n PROVE rates'[k] = d[k] - d[k - 1]
      <4>1. k \in 0..n /\ k - 1 \in 0..n /\ k + 1 \in 1..(n + 1) /\ (k - 1) + 1 = k /\ (k + 1) - 1 = k
        BY <1>3
      <4>2. d[k] = e[k + 1] /\ d[k - 1] = e[k]
        BY <3>4, <4>1
      <4> QED
        BY <1>10, <3>2, <4>1, <4>2
    <3>7. count' = m - d[n]
      <4>1. n \in 0..n
        BY <1>3
      <4> QED
        BY <1>3, <1>5, <3>4, <4>1
    <3>8. ASSUME NEW k \in 0..n PROVE Began(k)' = B(k + 1)
      <4>1. n - k \in Int /\ n + 1 - (k + 1) = n - k /\ n + 1 - k = (n - k) + 1
        BY <1>3
      <4>2. /\ SamplingInterval * (n - k) \in Int
            /\ SamplingInterval * ((n - k) + 1) = SamplingInterval * (n - k) + SamplingInterval
        BY <4>1, IntervalMore
      <4>3. Began(k)' = (sampleAt + SamplingInterval) - SamplingInterval * (n + 1 - k)
        BY <3>2 DEF Began
      <4>4. SamplingInterval * (n + 1 - k) = SamplingInterval * (n - k) + SamplingInterval
        BY <4>1, <4>2
      <4>5. B(k + 1) = sampleAt - SamplingInterval * (n - k)
        BY <4>1
      <4> QED
        BY <1>n, <1>3, <4>2, <4>3, <4>4, <4>5
    <3> HIDE DEF B
    <3>9. ASSUME NEW k \in 0..n, NEW i \in 1..m
          PROVE  IF i <= d[k] THEN received[i] <= Began(k)' ELSE received[i] >= Began(k)'
      <4>1. IF i <= e[k + 1] THEN received[i] <= B(k + 1) ELSE received[i] >= B(k + 1)
        BY <1>12, <3>4
      <4> QED
        BY <3>4, <3>8, <4>1
    <3>10. Cuts(d)'
      BY <1>2, <1>3, <3>2, <3>6, <3>7, <3>9 DEF Cuts
    <3> QED
      BY <1>2, <1>3, <3>2, <3>5, <3>10
  <2>2. CASE ~ (Len(s) > RateSamples)
    <3>1. rates' = s /\ Len(rates') = n + 1 /\ rates' \in Seq(Int) /\ n + 1 <= RateSamples
      BY <1>n, <1>3, <1>8, <1>13, <2>2
    <3>2. e \in [0..(n + 1) -> 0..m]
      BY <1>4, <1>5
    <3>3. count' = m - e[n + 1]
      BY <1>3, <1>5
    <3>4. ASSUME NEW k \in 0..(n + 1) PROVE Began(k)' = B(k)
      <4>1. n + 1 - k \in Int /\ (n + 1) + 1 - k = (n + 1 - k) + 1
        BY <1>3
      <4>2. /\ SamplingInterval * (n + 1 - k) \in Int
            /\ SamplingInterval * ((n + 1 - k) + 1) = SamplingInterval * (n + 1 - k) + SamplingInterval
        BY <4>1, IntervalMore
      <4>3. Began(k)' = (sampleAt + SamplingInterval) - SamplingInterval * ((n + 1) + 1 - k)
        BY <3>1 DEF Began
      <4> QED
        BY <1>n, <1>3, <4>1, <4>2, <4>3
    <3> HIDE DEF B
    <3>5. ASSUME NEW k \in 0..(n + 1), NEW i \in 1..m
          PROVE  IF i <= e[k] THEN received[i] <= Began(k)' ELSE received[i] >= Began(k)'
      BY <1>12, <3>4
    <3>6. Cuts(e)'
      BY <1>2, <1>3, <1>10, <3>1, <3>3, <3>5 DEF Cuts
    <3> QED
      BY <1>2, <1>3, <3>1, <3>2, <3>6
  <2> QED
    BY <2>1, <2>2
<1>17. RatesTyped'
  BY <1>3, <1>14, <1>16 DEF RatesTyped
<1> QED
  BY <1>3, <1>14, <1>15, <1>16, <1>17 DEF RateInv
\* A step that leaves the estimator alone while time stays within the interval.
LEMMA EstimatorAlone ==
    ASSUME RateInv, UNCHANGED <<policy, sampleAt, count, rates, received>>,
           phase' # "gone" => phase # "gone",
           now' \in Nat, now <= now',
           Running => now' <= sampleAt
    PROVE  RateInv'
<1> SUFFICES ASSUME Running'
             PROVE  /\ RatesTyped'
                    /\ sampleAt' - SamplingInterval <= now' /\ now' <= sampleAt'
                    /\ \A i \in 1..Len(received') : received'[i] <= now'
                    /\ \E c \in [0..Len(rates') -> 0..Len(received')] : Cuts(c)'
  BY DEF RateInv, Running
<1>1. Running
  BY DEF Running
<1>2. /\ RatesTyped /\ now \in Nat /\ SamplingInterval \in Nat
      /\ sampleAt - SamplingInterval <= now
      /\ \A i \in 1..Len(received) : received[i] <= now /\ received[i] \in Nat
  BY <1>1, WaitPoliciesAssumption DEF RateInv, Running, RatesTyped
<1>3. PICK c \in [0..Len(rates) -> 0..Len(received)] : Cuts(c)
  BY <1>1 DEF RateInv, Running
<1>4. RatesTyped' /\ sampleAt \in Nat
  BY <1>2 DEF RatesTyped
<1>5. sampleAt' - SamplingInterval <= now' /\ now' <= sampleAt'
  BY <1>1, <1>2, <1>4
<1>6. \A i \in 1..Len(received') : received'[i] <= now'
  BY <1>2
<1>7. Cuts(c)'
  BY <1>3 DEF Cuts, Began
<1> QED
  BY <1>3, <1>4, <1>5, <1>6, <1>7

\* A task begins: nothing received, nothing counted.
LEMMA SpawnedInv ==
    ASSUME RateInv, SpawnTask
    PROVE  RateInv'
<1>0. SamplingInterval \in Nat /\ RateSamples \in Nat \ {0}
  BY WaitPoliciesAssumption
<1>1. /\ rates' = <<>> /\ received' = <<>> /\ count' = 0 /\ now' = now /\ now \in Nat
      /\ sampleAt' = now + SamplingInterval
  BY DEF SpawnTask, RateInv
<1>2. Len(rates') = 0 /\ Len(received') = 0 /\ rates' \in Seq(Int) /\ received' \in Seq(Nat)
  BY <1>1
<1>3. sampleAt' \in Nat /\ sampleAt' - SamplingInterval <= now' /\ now' <= sampleAt'
  BY <1>0, <1>1
<1>4. PICK c : c = [k \in 0..0 |-> 0]
  OBVIOUS
<1>5. c \in [0..0 -> 0..0] /\ c[0] = 0
  BY <1>4
<1>6. Cuts(c)'
  BY <1>1, <1>2, <1>5 DEF Cuts
<1>7. RatesTyped'
  BY <1>0, <1>2, <1>3 DEF RatesTyped
<1>8. \E d \in [0..Len(rates') -> 0..Len(received')] : Cuts(d)'
  BY <1>2, <1>5, <1>6
<1> QED
  BY <1>1, <1>2, <1>3, <1>7, <1>8 DEF RateInv

LEMMA RateInvInit == PolicyInit => RateInv
  BY DEF PolicyInit, Init, RateInv

\* Every step preserves it: only a request, a tick and a new task touch the
\* estimator.
LEMMA RateInvStep == RateInv /\ [PolicyNext]_<<vars, policyVars>> => RateInv'
<1> SUFFICES ASSUME RateInv, [PolicyNext]_<<vars, policyVars>> PROVE RateInv'
  OBVIOUS
<1>0. now \in Nat /\ (Running => now <= sampleAt /\ sampleAt \in Nat)
  BY DEF RateInv, Running, RatesTyped
<1>1. CASE policy = "duration" /\ Next /\ UNCHANGED policyVars
  <2>1. now' = now \/ now' = now + 1
    BY <1>1 DEF Next, Spawn, IdleTimeout, RecvFeedback, ProbeSubmitted, ProbeRejected,
       ProbeOversized, ProbeFlushed, Collect, Flush, FlushAndReturn, Report, Tick
  <2>2. /\ UNCHANGED <<policy, sampleAt, count, rates, received, phase>>
        /\ ~ Running
    BY <1>1 DEF policyVars, Running
  <2>3. now' \in Nat /\ now <= now'
    BY <1>0, <2>1
  <2> QED
    BY <2>2, <2>3, EstimatorAlone
<1>2. CASE SpawnTask
  BY <1>2, SpawnedInv
<1>3. CASE FirstRequest \/ MoreRequests
  <2>1. /\ Receive /\ UNCHANGED <<policy, now, sampleAt, rates>>
        /\ phase # "gone" /\ phase' # "gone"
    BY <1>3 DEF FirstRequest, MoreRequests
  <2>2. CASE Running
    BY <2>1, <2>2, ReceivedInv
  <2>3. CASE ~ Running
    BY <1>0, <2>1, <2>3 DEF Running, RateInv
  <2> QED
    BY <2>2, <2>3
<1>4. CASE Sample
  <2>1. /\ Running /\ now >= sampleAt /\ rates' = SampledRates /\ count' = 0
        /\ sampleAt' = sampleAt + SamplingInterval /\ UNCHANGED <<policy, now, received>>
    BY <1>4 DEF Sample, Ticks, Running
  <2> QED
    BY <2>1, SampledInv
<1>5. CASE TimePasses
  <2>1. /\ now' = now + 1 /\ UNCHANGED <<policy, sampleAt, count, rates, received, phase>>
        /\ Running => now < sampleAt
    BY <1>5 DEF TimePasses, policyVars, Running
  <2>2. now' \in Nat /\ now <= now' /\ (Running => now' <= sampleAt)
    BY <1>0, <2>1
  <2> QED
    BY <2>1, <2>2, EstimatorAlone
<1>6. CASE IdleOut \/ FlushTask \/ ChannelCloses \/ UNCHANGED <<vars, policyVars>>
  <2>1. /\ UNCHANGED <<policy, now, sampleAt, count, rates, received>>
        /\ phase' # "gone" => phase # "gone"
    BY <1>6 DEF IdleOut, FlushTask, ChannelCloses, vars, policyVars
  <2>2. now' \in Nat /\ now <= now' /\ (Running => now' <= sampleAt)
    BY <1>0, <2>1
  <2> QED
    BY <2>1, <2>2, EstimatorAlone
<1> QED
  BY <1>1, <1>2, <1>3, <1>4, <1>5, <1>6 DEF PolicyNext

\* The estimate of dynamicWait counts each request of its last sampling
\* intervals once and none of earlier ones, however requests, ticks and
\* flushes interleave, for every interval and number of samples.
THEOREM RatesAreRecent == PolicySpec => []RateIsRecent
  BY RecentByCuts, RateInvInit, RateInvStep, PTL DEF PolicySpec
=============================================================================
