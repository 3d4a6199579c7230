---------------------------- MODULE WaitPolicies ----------------------------
(***************************************************************************)
(* A batcher task under any of the three wait policies: batcher_task       *)
(* (scheduler.rs) runs one of three loops.  The loop of durationWait is    *)
(* ProbeWait; here are the loops of a fixed wait and of dynamicWait, which *)
(* sets the window of a batch by the rate of requests that its estimator   *)
(* (wait_policy.rs) saw in the last sampling intervals.                    *)
(*                                                                         *)
(* These two loops live by their timers, and the clock does not pass a     *)
(* time at which an armed timer is due: the runtime is never late.  What   *)
(* is ready at one instant is taken in any order, as tokio::select! does.  *)
(***************************************************************************)
EXTENDS ProbeWait, FiniteSets

CONSTANTS
    IdleTtl,          \* how long a task waits for a first request
    MaxBatchSize,     \* maxBatchSize
    SamplingInterval, \* samplingIntervalMs
    RateSamples,      \* smoothingSamples of dynamicWait
    TargetRate,       \* targetRps, in requests per sampling interval
    MaxRequests       \* bound: the requests that one task receives

\* What the validation of x-khone (spec.rs) lets through.
ASSUME WaitPoliciesAssumption ==
    /\ IdleTtl \in Nat /\ MaxBatchSize \in Nat \ {0}
    /\ SamplingInterval \in Nat \ {0} /\ RateSamples \in Nat \ {0}
    /\ TargetRate \in Nat /\ MaxRequests \in Nat

VARIABLES
    policy,    \* which loop batcher_task runs: "duration", "dynamic", "fixed"
    phase,     \* the task: "gone", "idle", "collect"
    deadline,  \* when the idle timer, or the flush timer, is due
    size,      \* requests in the batch
    sampleAt,  \* when the sampler ticks next
    count,     \* requests since its last tick
    rates,     \* samples_rps, as requests per interval
    since,     \* history: when the task began to wait, or the batch was opened
    received   \* history: when the requests of this task were received

durationVars == <<stage, nextProbe, probing, samples, feedback, probes, spawned, recorded>>

policyVars == <<policy, phase, deadline, size, sampleAt, count, rates, since, received>>

PolicyInit ==
    /\ Init
    /\ policy \in {"duration", "dynamic", "fixed"}
    /\ phase = "gone"
    /\ deadline = 0
    /\ size = 0
    /\ sampleAt = 0
    /\ count = 0
    /\ rates = <<>>
    /\ since = 0
    /\ received = <<>>

-----------------------------------------------------------------------------
(* wait_policy.rs.                                                         *)

\* DynamicRateEstimator::smoothed_rps, in requests per interval.
smoothed_rps ==
    IF rates = <<>> THEN [num |-> 0, den |-> 1] ELSE [num |-> Total(rates), den |-> Len(rates)]

\* The windows that sigmoid_wait_ms may give: at the target rate the middle of
\* the limits, below it the lower half, above it the upper half.  How far from
\* the middle depends on the steepness.
sigmoid_wait_ms(rate) ==
    LET middle == MinWait + Rounded(MaxWait - MinWait, 2)
        target == TargetRate * rate.den
    IN IF MaxWait <= MinWait THEN {MaxWait}
       ELSE IF rate.num = target THEN {middle}
       ELSE IF rate.num < target THEN MinWait..middle
       ELSE middle..MaxWait

\* The window of a batch whose first request comes now.
Windows == IF policy = "dynamic" THEN sigmoid_wait_ms(smoothed_rps) ELSE {MaxWait}

\* DynamicRateEstimator::record_request; a fixed wait has no estimator.
Counted == IF policy = "dynamic" THEN count + 1 ELSE count

\* DynamicRateEstimator::tick: the last RateSamples samples.
SampledRates ==
    LET s == Append(rates, count) IN IF Len(s) > RateSamples THEN Tail(s) ELSE s

-----------------------------------------------------------------------------
(* The two loops.                                                          *)

\* A new round of the loop: the idle timer is armed once.
WaitForFirst ==
    /\ phase' = "idle"
    /\ deadline' = now + IdleTtl
    /\ since' = now
    /\ size' = 0

\* BatcherManager::enqueue spawns a task.  The first tick of the sampler, which
\* comes at once, is taken before the loop.
SpawnTask ==
    /\ policy # "duration" /\ phase = "gone"
    /\ WaitForFirst
    /\ sampleAt' = now + SamplingInterval
    /\ count' = 0
    /\ rates' = <<>>
    /\ received' = <<>>
    /\ UNCHANGED <<policy, now, wait, durationVars>>

\* Nothing came until the idle timer was due.
IdleOut ==
    /\ phase = "idle" /\ now >= deadline
    /\ phase' = "gone"
    /\ UNCHANGED <<policy, now, wait, deadline, size, sampleAt, count, rates, since, received,
                   durationVars>>

Receive ==
    /\ Len(received) < MaxRequests
    /\ received' = Append(received, now)
    /\ count' = Counted

\* The first request opens a batch, and its window is fixed then.
FirstRequest ==
    /\ phase = "idle"
    /\ Receive
    /\ phase' = "collect"
    /\ wait' \in Windows
    /\ deadline' = now + wait'
    /\ since' = now
    /\ size' = 1
    /\ UNCHANGED <<policy, now, sampleAt, rates, durationVars>>

\* A fixed wait of nothing takes no further request.
MoreRequests ==
    /\ phase = "collect" /\ size < MaxBatchSize
    /\ policy = "fixed" => wait > 0
    /\ Receive
    /\ size' = size + 1
    /\ UNCHANGED <<policy, phase, now, wait, deadline, sampleAt, rates, since, durationVars>>

\* The sampler ticks in either wait of dynamicWait.
Ticks ==
    /\ policy = "dynamic" /\ now >= sampleAt
    /\ \/ phase = "idle"
       \/ phase = "collect" /\ size < MaxBatchSize
    /\ rates' = SampledRates
    /\ sampleAt' = sampleAt + SamplingInterval
    /\ UNCHANGED <<policy, phase, now, wait, size, since, received, durationVars>>

\* Mutant: the timers are made anew in each round of select!.
SampleRearms ==
    /\ Ticks
    /\ count' = 0
    /\ deadline' = now + (IF phase = "idle" THEN IdleTtl ELSE wait)

\* Mutant: the requests of one interval count for the next as well.
SampleKeepsCount == Ticks /\ UNCHANGED <<count, deadline>>

\* The estimator starts a new interval; the timer of the wait is not touched.
Sample == Ticks /\ count' = 0 /\ UNCHANGED deadline

\* The batch is full or its time is up.
FlushTask ==
    /\ phase = "collect"
    /\ size = MaxBatchSize \/ now >= deadline
    /\ WaitForFirst
    /\ UNCHANGED <<policy, now, wait, sampleAt, count, rates, received, durationVars>>

\* All senders of the request channel are gone: what is collected is flushed,
\* and the task returns.
ChannelCloses ==
    /\ phase \in {"idle", "collect"}
    /\ phase' = "gone"
    /\ UNCHANGED <<policy, now, wait, deadline, size, sampleAt, count, rates, since, received,
                   durationVars>>

\* The clock moves on when no armed timer is due.
TimePasses ==
    /\ policy # "duration" /\ now < MaxTime
    /\ phase # "gone" => now < deadline
    /\ phase # "gone" /\ policy = "dynamic" => now < sampleAt
    /\ phase = "collect" => size < MaxBatchSize
    /\ now' = now + 1
    /\ UNCHANGED <<policyVars, wait, durationVars>>

PolicyNext ==
    \/ policy = "duration" /\ Next /\ UNCHANGED policyVars
    \/ SpawnTask \/ IdleOut \/ FirstRequest \/ MoreRequests \/ Sample \/ FlushTask
    \/ ChannelCloses \/ TimePasses

PolicySpec == PolicyInit /\ [][PolicyNext]_<<vars, policyVars>>

-----------------------------------------------------------------------------
\* However many ticks and requests come meanwhile, a task waits idle for at most
\* idle_ttl, and the first request of a batch waits for at most the window that
\* was fixed for it, which is at most maxWaitMs.
TimersHold ==
    /\ phase = "idle" => now <= since + IdleTtl
    /\ phase = "collect" => wait <= MaxWait /\ now <= since + wait

\* The estimator remembers RateSamples intervals at most; it counts each of their
\* requests and those since once, and none of earlier ones.  A request at the
\* very end of an interval counts for that interval or for the next.
RateIsRecent ==
    LET from == sampleAt - SamplingInterval * (Len(rates) + 1)
        counted == Total(rates) + count
    IN policy = "dynamic" /\ phase # "gone" =>
           /\ Len(rates) <= RateSamples
           /\ counted >= Cardinality({i \in DOMAIN received : received[i] > from})
           /\ counted <= Cardinality({i \in DOMAIN received : received[i] >= from})
=============================================================================
