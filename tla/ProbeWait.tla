------------------------------ MODULE ProbeWait ------------------------------
(***************************************************************************)
(* A batcher task with durationWait (scheduler.rs, batcher_task_duration): *)
(* now and then it sends the first request of a batch alone, as a probe;   *)
(* the invocation job of the probe reports how long it took through a      *)
(* bounded channel of the task's own (probe_feedback.rs), and the window   *)
(* in which later batches are collected follows the smoothed durations     *)
(* (wait_policy.rs).  Other requests, queues and jobs are those of Batching*)
(* and Invocation; here only their probes matter.                          *)
(*                                                                         *)
(* Time is counted in milliseconds of a small scale.  Durations of probes  *)
(* are whole milliseconds, as in the code; the floating point of the       *)
(* smoothing is exact here (a numerator over a denominator).               *)
(***************************************************************************)
EXTENDS Naturals, Sequences, SequencesExt, FiniteSetsExt

CONSTANTS
    MinWait, MaxWait,              \* minWaitMs, maxWaitMs
    FractionNum, FractionDen,      \* fraction
    Interval, Offset,              \* probeIntervalMs, the key's stable jitter
    SmoothingSamples, WarmupProbes,
    Durations,                     \* the durations a probe may take
    Failure,                       \* the report of a failed probe
    MaxTime                        \* bound: the clock stops here

\* What the validation of x-khone.durationWait (spec.rs) lets through.
ASSUME ProbeWaitAssumption ==
    /\ MinWait \in Nat /\ MaxWait \in Nat /\ MinWait <= MaxWait
    /\ FractionNum \in Nat /\ FractionDen \in Nat \ {0}
    /\ Interval \in Nat \ {0} /\ Offset \in Nat
    /\ SmoothingSamples \in Nat \ {0} /\ WarmupProbes \in Nat \ {0}
    /\ Durations \subseteq Nat /\ Failure \notin Durations
    /\ MaxTime \in Nat

VARIABLES
    stage,     \* "gone" (no task for the key), "idle", "collect"
    now,       \* the monotonic clock
    nextProbe, \* next_probe_at
    probing,   \* probe_inflight
    samples,   \* probe_samples_ms
    feedback,  \* the feedback channel
    probes,    \* probe jobs under way that will report to this channel
    wait,      \* wait_ms of the batch being collected
    spawned,   \* history: when the task was spawned
    recorded   \* history: samples recorded since, counted up to WarmupProbes

vars == <<stage, now, nextProbe, probing, samples, feedback, probes, wait, spawned, recorded>>

\* A failed probe carries no duration that anyone reads.
Feedback == Durations \cup {Failure}

Capacity == SmoothingSamples + 2

\* What the variables may hold.
TypeOK ==
    /\ stage \in {"gone", "idle", "collect"}
    /\ now \in 0..MaxTime
    /\ nextProbe \in 0..(MaxTime + Interval + Offset)
    /\ probing \in BOOLEAN
    /\ samples \in Seq(Durations) /\ Len(samples) <= SmoothingSamples
    /\ feedback \in Seq(Feedback) /\ Len(feedback) <= Capacity
    /\ probes \in Nat
    /\ wait \in 0..MaxWait
    /\ spawned \in 0..MaxTime
    /\ recorded \in 0..WarmupProbes

Init ==
    /\ stage = "gone"
    /\ now = 0
    /\ nextProbe = 0
    /\ probing = FALSE
    /\ samples = <<>>
    /\ feedback = <<>>
    /\ probes = 0
    /\ wait = 0
    /\ spawned = 0
    /\ recorded = 0

-----------------------------------------------------------------------------
(* wait_policy.rs.                                                         *)

Total(s) == FoldLeft(LAMBDA sum, d : sum + d, 0, s)

Positive(s) == FoldLeft(LAMBDA p, d : IF d > 0 THEN Append(p, d) ELSE p, <<>>, s)

\* Mutant: the mean of all samples.
PlainMean(s) ==
    LET p == Positive(s) IN
    IF p = <<>> THEN [num |-> 0, den |-> 1] ELSE [num |-> Total(p), den |-> Len(p)]

\* The mean of the positive samples; of three and more, the smallest and the
\* largest are left out.
smoothed_probe_ms(s) ==
    LET p == Positive(s) IN
    IF p = <<>> THEN [num |-> 0, den |-> 1]
    ELSE IF Len(p) < 3 THEN [num |-> Total(p), den |-> Len(p)]
    ELSE [num |-> Total(p) - Min(ToSet(p)) - Max(ToSet(p)), den |-> Len(p) - 2]

\* round() of num / den: halves go up.
Rounded(num, den) == (2 * num + den) \div (2 * den)

\* Mutant: the window is not held below maxWaitMs.
UnclampedWait(probe) ==
    LET base == IF probe.num > 0 THEN probe ELSE [num |-> MinWait, den |-> 1] IN
    Max({MinWait, Rounded(base.num * (FractionDen + FractionNum), base.den * FractionDen)})

\* base * (1 + fraction), rounded, between minWaitMs and maxWaitMs; the base
\* is the probe's duration, or minWaitMs when there is none.
duration_wait_ms(probe) ==
    LET base == IF probe.num > 0 THEN probe ELSE [num |-> MinWait, den |-> 1]
        computed == Rounded(base.num * (FractionDen + FractionNum), base.den * FractionDen)
    IN IF MaxWait <= MinWait THEN MaxWait ELSE Min({MaxWait, Max({MinWait, computed})})

Warm == Len(samples) >= WarmupProbes

WaitMs == duration_wait_ms(IF Warm THEN smoothed_probe_ms(samples) ELSE [num |-> 0, den |-> 1])

\* Mutant: the oldest sample stays.
UnboundedWindow(d) == Append(samples, d)

\* The window after one more sample.
record_probe_sample(d) ==
    LET s == Append(samples, d) IN IF Len(s) > SmoothingSamples THEN Tail(s) ELSE s

-----------------------------------------------------------------------------
(* The task.                                                               *)

\* BatcherManager::enqueue spawns a task, with a channel of its own.
Spawn ==
    /\ stage = "gone"
    /\ stage' = "idle"
    /\ nextProbe' = now + Interval + Offset
    /\ probing' = FALSE
    /\ samples' = <<>>
    /\ spawned' = now
    /\ recorded' = 0
    /\ UNCHANGED <<now, feedback, probes, wait>>

\* The task returns (idle, or its request channel is closed): its channels
\* are dropped, and reports of probes under way find nobody.
Return ==
    /\ stage' = "gone"
    /\ feedback' = <<>>
    /\ probes' = 0

IdleTimeout ==
    /\ stage = "idle"
    /\ Return
    /\ UNCHANGED <<now, nextProbe, probing, samples, wait, spawned, recorded>>

\* Both select loops take feedback while they wait for requests.
RecvFeedback ==
    /\ stage \in {"idle", "collect"}
    /\ feedback # <<>>
    /\ feedback' = Tail(feedback)
    /\ probing' = FALSE
    /\ samples' = IF Head(feedback) = Failure THEN samples ELSE record_probe_sample(Head(feedback))
    /\ recorded' = IF Head(feedback) = Failure THEN recorded ELSE Min({recorded + 1, WarmupProbes})
    /\ UNCHANGED <<stage, now, nextProbe, probes, wait, spawned>>

ProbeDue == now >= nextProbe

\* Mutant: the next probe is due one interval from now.
DriftingProbe == IF ProbeDue THEN now + Interval ELSE nextProbe

\* A due time that has come, used or not, moves on by whole intervals.
AdvancedProbe ==
    IF ProbeDue THEN nextProbe + Interval * ((now - nextProbe) \div Interval + 1) ELSE nextProbe

\* Mutant: a probe is started whenever it is due.
ShouldProbeWhenDue == stage = "idle" /\ ProbeDue

\* A first request arrives when a probe is due and none is under way.
ShouldProbe == stage = "idle" /\ ProbeDue /\ ~ probing

ProbeFlushed ==
    /\ ShouldProbe
    /\ nextProbe' = AdvancedProbe
    /\ probing' = TRUE
    /\ UNCHANGED <<stage, now, samples, wait, spawned, recorded>>

\* flush_batch hands the probe to the invocation stage.
ProbeSubmitted == ProbeFlushed /\ probes' = probes + 1 /\ UNCHANGED feedback

\* The invocation queue is full: job.fail reports the failure.
ProbeRejected ==
    /\ ProbeFlushed
    /\ Len(feedback) < Capacity
    /\ feedback' = Append(feedback, Failure)
    /\ UNCHANGED probes

\* The request alone exceeds the payload limit: the plan fails, no job.
ProbeOversized == ProbeFlushed /\ UNCHANGED <<feedback, probes>>

\* A first request that is no probe opens a batch.
Collect ==
    /\ stage = "idle"
    /\ ~ ShouldProbe
    /\ stage' = "collect"
    /\ nextProbe' = AdvancedProbe
    /\ wait' = WaitMs
    /\ UNCHANGED <<now, probing, samples, feedback, probes, spawned, recorded>>

\* The batch is full or its time is up.
Flush ==
    /\ stage = "collect"
    /\ stage' = "idle"
    /\ UNCHANGED <<now, nextProbe, probing, samples, feedback, probes, wait, spawned, recorded>>

\* The request channel is closed: the batch is flushed and the task returns.
FlushAndReturn ==
    /\ stage = "collect"
    /\ Return
    /\ UNCHANGED <<now, nextProbe, probing, samples, wait, spawned, recorded>>

-----------------------------------------------------------------------------
\* report_async, at the end of the probe's job: waits for room.
Report(f) ==
    /\ probes > 0
    /\ Len(feedback) < Capacity
    /\ feedback' = Append(feedback, f)
    /\ probes' = probes - 1
    /\ UNCHANGED <<stage, now, nextProbe, probing, samples, wait, spawned, recorded>>

Tick ==
    /\ now < MaxTime
    /\ now' = now + 1
    /\ UNCHANGED <<stage, nextProbe, probing, samples, feedback, probes, wait, spawned, recorded>>

Next ==
    \/ Spawn \/ IdleTimeout \/ RecvFeedback
    \/ ProbeSubmitted \/ ProbeRejected \/ ProbeOversized
    \/ Collect \/ Flush \/ FlushAndReturn
    \/ \E f \in Feedback : Report(f)
    \/ Tick

Spec == Init /\ [][Next]_vars

-----------------------------------------------------------------------------
\* A task has at most one probe under way, its report included, and knows of
\* it: so a report never waits for room in the channel (it would wait with a
\* permit of the invocation semaphore in hand).
OneProbeUnderWay ==
    stage # "gone" =>
        /\ probes + Len(feedback) <= 1
        /\ probes + Len(feedback) = 1 => probing

\* However late a request or a report comes, probes are due on the grid set
\* when the task was spawned, never more than one interval ahead.
ScheduleOnGrid ==
    stage # "gone" =>
        /\ \E n \in 0..(MaxTime + Interval) : nextProbe = spawned + Offset + Interval * (n + 1)
        /\ nextProbe > spawned + Interval + Offset => nextProbe <= now + Interval

\* The window of a batch lies between minWaitMs and maxWaitMs.
WaitWithinLimits == stage = "collect" => wait \in MinWait..MaxWait

\* With three samples and more, one outlier among them does not stretch the
\* window: the smoothed duration is at most the second largest sample.
OutlierTrimmed ==
    LET p == Positive(samples)
        smoothed == smoothed_probe_ms(samples)
    IN Len(p) >= 3 =>
           \A i \in DOMAIN p :
               LET rest == RemoveAt(p, i)
               IN p[i] = Max(ToSet(p)) => smoothed.num <= smoothed.den * Max(ToSet(rest))

\* "How often to force a single-request probe flush per batch key": probing
\* stands for a probe that will report, so it never keeps later ones away.
ProbingEnds == stage # "gone" /\ probing => probes + Len(feedback) > 0

\* "Number of scheduled probe samples required before using duration-derived
\* waits": when as many are recorded, they are used.
WarmAfterWarmup == stage # "gone" /\ recorded = WarmupProbes => Warm
=============================================================================
