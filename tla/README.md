# A TLA+ model of khone

khone puts a gateway in front of AWS Lambda functions. The gateway groups HTTP
requests of one *batch key* into a batch, invokes the function once for the
whole batch, and gives every client its own part of the answer. On the Lambda
side an adapter (or the layer proxy, for functions that know nothing of
batches) takes the batch apart again.

This directory holds TLA+ modules for the concurrent core of that program,
configurations for the model checker TLC, and proofs for TLAPS. `PROJECT.json`
lists, for each definition, the source lines it stands for; for each run, what
it checks; and for each property a mutation of the model that violates it.

1. [Inventory](#1-inventory) -- the parts of the system
2. [Modules](#2-modules) -- how state and actions correspond to the code
3. [Runs](#3-runs) -- what is checked, the bounds, the fairness
4. [Disagreements](#4-disagreements) -- between the code and what is said of it
5. [Proofs](#5-proofs)
6. [What is left out](#6-what-is-left-out)
7. [Plan](#7-plan)

## 1. Inventory

Paths are relative to `src/`; `batching/` stands for `gateway/src/batching/`.

| Component | State | Operations | Hard to get right |
|---|---|---|---|
| HTTP handler (`gateway/src/server.rs`, `handle_any`) | an admission permit, the receiving end of a one-shot reply channel | admit, read the body, enqueue, wait for the reply, time out | a client may leave, or the timer fire, while its request is queued, batched or invoked |
| Streamed body (`PermitStream` in `gateway/src/server.rs`) | the permit and the pending metric of a request whose handler has returned | pass chunks on, end, be dropped | permit and metric outlive the handler and must end with the body, once |
| Batcher registry (`batching/mod.rs`) | map from batch key to the `Sender` of a task | `enqueue`: look up or spawn, `try_send`, retry once | handlers keep clones of old senders; removals do not look at what they remove |
| Batcher task (`batching/scheduler.rs`) | request channel, batch, wait policy state | receive, collect, flush, idle eviction | the idle timer races arrivals; a probe may be under way when the task ends |
| Flush and planner (`batching/flush.rs`, `planner.rs`) | none of its own | halve what exceeds the payload limit, submit, reject | one piece of a batch fails and others go on |
| Invocation stage (`batching/invocation.rs`) | job channel, semaphore | dispatch, invoke, answer all requests of the job | a job held while waiting for a permit; permits returned on each way out |
| Buffered answers (`response_dispatch/buffered.rs`) | pending map of the job | one record per request, 502 for the rest | missing, malformed, duplicate and unknown records |
| Streamed answers (`response_dispatch/stream.rs`) | pending map with two senders each | head, chunk, end, error, terminal record; failure of all | records of several requests in any order; slow clients block the loop |
| Wait policies, probe feedback (`wait_policy.rs`, `probe_feedback.rs`) | samples, next due time, a feedback channel | smooth, compute the window, report | one probe at a time, late reports, few samples |
| Layer proxy (`bootstrap/layer-proxy/src/`) | active invocation, fetch flag, a `Notify` | `/next`, `/response`, `/error`, finalizer | several workers sleep on one `Notify`; the upstream call is outside the lock; completions are repeated |
| Node and Rust adapters (`lambda-kit/`) | an index into the batch, the items under way, a response stream | take an item, call the handler, write records, end | several workers write to one stream and wait for one `drain`; the Rust stream makes progress only when polled |
| Lambda client (`gateway/src/lambda.rs`) | a task and a channel for each streamed call | invoke, forward a response stream, drain it | the stream breaks behind queued payloads; the reader stops while the task waits for room |
| Routes, specification and batch keys (`gateway/src/spec.rs`, `BatchKey` in `batching/mod.rs`) | immutable | validate, match, compute a key | the key is made of the headers that were sent, the function sees those that are forwarded; values that pass validation one by one and do not fit together |
| Configuration (`gateway/src/config.rs`) | immutable | read, validate | -- |
| Metrics (`gateway/src/metrics.rs`) | a gauge of active requests | emit counters, gauges and durations | the request metric of a streamed body is deferred |
| Macro, publisher, benchmark, website | -- | deployment and presentation | -- |

How they interact: a handler and the batcher task of its key share the
registry entry and the task's channel; the task hands jobs to the one
dispatcher through a bounded channel with `try_send`, so it never waits for it;
the dispatcher waits for a permit of the invocation semaphore and spawns the
job; the job answers through the one-shot channels that the handlers created.
So a request travels handler -> queue -> batch -> plan -> job -> handler, and
its reply sender travels with it. Buffered and streamed requests compete for the
same admission permits; a streamed one holds its permit until its body is over.
A probe's job also reports to the task that
sent it, through a channel of that task's own. Behind the Lambda service, the
layer proxy stands between the Runtime API and the workers of the function.

What makes each part correct:

* handler: permits are conserved, and each admitted client that stays is
  answered exactly once;
* registry and tasks: an entry leads to a living task of its key; keys never
  mix; no sender is lost or in two places; what is idle ends;
* planner: segments partition the batch, and none is empty;
* invocation stage: the semaphore is conserved, and a failed job answers all;
* streamed answers: senders stay reachable, no chunk is lost, every client gets
  to the end of its response, and only then are its permit and metric released;
* probes: one at a time, due on a grid, windows within their limits;
* forwarder: the dispatcher sees every payload, and a failure as the last thing,
  as long as it listens; then the rest of the stream is drained;
* layer proxy: one outer invocation served at a time, one record per item, and someone
  always asks for the next invocation;
* adapters: each item gets one whole answer, whatever the others do, the
  buffer of the response stream is bounded, and the response ends.

## 2. Modules

| Module | Stands for |
|---|---|
| `Responder` | the one-shot reply channel of a buffered request |
| `Batching` | handlers, registry, batcher tasks up to the flush |
| `Invocation` | job channel, dispatcher, running jobs, buffered answers |
| `Gateway` | `Batching` and `Invocation` joined by flush and planner; the properties of the buffered path |
| `BatchKey` | specification, route match, header policy, and the key of a request |
| `KeyedGateway` | `Gateway` with the keys of `BatchKey` |
| `RequestReply` | abstract: what the gateway promises its clients |
| `LambdaStream` | the task that forwards one Lambda response stream, and its channel |
| `StreamDispatch` | streamed invocations, one after the other: `LambdaStream` joined with job, dispatcher, handlers and body channels |
| `StreamGateway` | `StreamDispatch` from the admission of a request to the end of its body, beside buffered requests |
| `ProbeWait` | the probe cycle and the collection window of `durationWait` |
| `WaitPolicies` | a batcher task under any wait policy: `ProbeWait`, or the loops of a fixed wait and of `dynamicWait` with its rate estimator |
| `LayerProxy` | the layer proxy between the Runtime API and the workers |
| `BatchService` | abstract: what the layer proxy promises the Runtime API of one outer invocation |
| `Adapter` | the Node and the Rust adapter on one batch |
| `MCGateway`, `MCStreamGateway`, `MCProbeWait`, `MCWaitPolicies`, `MCLayerProxy`, `MCAdapter`, `MCKeyedGateway` | instances for TLC |
| `GatewayProofs`, `GatewayKeysProofs`, `KeyedGatewayProofs`, `StreamGatewayProofs`, `ProbeWaitProofs`, `WaitPoliciesProofs`, `LayerProxyProofs`, `AdapterProofs` | theorems |

**The grain of atomicity.** An action is a stretch of code between two points
at which another thread can see or change something: a lock of the registry's
shard, a channel operation, an `await`. `enqueue` is therefore four steps (look
up or spawn, `try_send`, remove, retry) and the end of a batcher task is three
(the timer fires, the receiver is dropped, the entry is removed). Nothing can be
observed within a step. Timers are not measured: a timer may fire whenever the
code awaits it, except in `ProbeWait` and `WaitPolicies`, which are about time and have a clock.

### Responder, Batching, Invocation, Gateway

`slot[r]` is the sending half of the reply channel of request `r`: not created,
open, dropped, or used with a status. `pc[r]` is the place of the handler,
`target[r]` the `Sender` it has cloned, `tries[r]` the closed channels found.
`batchers[k]` is the registry. A task `t` is `free`, `idle` (waiting for a first
request), `collect`, `flush`, `exiting` (its loop returned) or `closed` (its
receiver is gone and its entry is still to be removed). Names of tasks are used
again once no sender refers to them.

`SelectTimer` distinguishes the wait loops: `timeout(idle_ttl, rx.recv())` polls
the channel first, so it cannot time out with a request queued; `select!` (the
loops of `dynamicWait` and `durationWait`) takes any branch that is ready.

The planner is pure and flush handles its plans from left to right, so a flush
is a worklist of segments: the first one is halved, failed, submitted or
rejected. That gives the same plans in the same order, and lets other threads
act between two plans, as they can in the code.

A job is the set of requests whose senders it carries. The answer of Lambda is
a choice: a failure of the whole (502 for all), or a batch response in which any
subset has well-formed records. An unknown or second record is ignored by the
code, and so adds no outcome.

`RequestReply` is the abstract specification: at most `Limit` requests are
served at a time, a refusal for load happens only at the limit, an admitted
request gets exactly one answer or its client leaves. `Gateway` defines the
refinement mapping (`Phase`) and `ContractSpec`, the abstract specification with
its fairness.

### BatchKey, KeyedGateway

Pure operators with the names of what they translate: which operations a
specification may have (`Accepted`, `Conflict`), how a path and a method find
one (`RouteMatch`), what of the headers is forwarded (`Forwarded`: the policy,
then the last readable value) and what enters the key (`KeyHeader`: the first
value, forwarded or not). `matchit`'s preference for literal segments is
external. `KeyedGateway` gives every request of `Gateway` the message its client
sent. The map of batchers only compares keys, so `KeyOf` may name them by any
values that are equal exactly when the computed keys are
(`KeyedGatewayAssumption`).

### LambdaStream, StreamDispatch, StreamGateway

A streamed request that is enqueued is in `waiting`: the batcher has its senders.
What the batcher does with them is what `Batching` and `Gateway` allow: they are
refused (`BatchRefused`), destroyed with a queue (`Evicted`), or put into a job
(`StartJob`). Jobs are run one after the other; each makes the call (`dpc =
"invoke"`). `InvokeFails` also stands for a function that answers with a buffered
response, and fails the batch as the code does. `InvokeStarts` spawns the
forwarder of `LambdaStream`: `fwd` is what it awaits (an event, room in the
channel for a payload or an error, the rest of the stream), `pipe` the channel,
`reader` whether the dispatcher still holds its receiver. One payload is one
record; the line buffer that cuts the bytes into records keeps their order and is
left out, except that a record which is too long breaks the batch (`Broken`), and
that what follows the last newline is parsed as a record too and fails the batch
if it is none (`BadTail`).

`pending` is the dispatcher's map, `init[r]` the one-shot channel for the head,
`bodyTx` the living body senders, `bodyQ[r]` the body channel of capacity
`BodyCapacity`. A chunk that finds the channel full takes its entry out of the
map and waits (`dpc = "push"`, `cur`), and the whole dispatcher waits with it,
and then the forwarder. History variables serve the properties: `spoke`, the
requests with a usable record or in flight in a batch that failed; `unread`, the
chunks written for a request and not read by its client; and `total`, `handled`
and `erred` of the forwarder.

`StreamGateway` adds the front of `handle_any` (`front[r]`: admission, body,
enqueue) and what the end of a request means: the handler releases the permit
with a complete answer (`Finish`), a streamed body takes it along (`StartBody`)
until it has ended (`EndBody`) or is dropped (`DropBody`). `counted` is the
request metric, deferred in the same way. The semaphore is shared with the
buffered requests `Others`, of which the module knows only what `RequestReply`
says and `Gateway` was shown to implement: they take a permit, hold it, and end.
`ContractSpec` is again the refinement of `RequestReply`, for both kinds together.

### ProbeWait

One key with `durationWait`. The clock counts a small scale of milliseconds.
Smoothing and window are computed exactly (numerator over denominator), where
the code uses floating point on whole milliseconds. A probe that is flushed may
become a job (`ProbeSubmitted`), be rejected by a full job channel
(`ProbeRejected`, reported as a failure) or exceed the payload limit
(`ProbeOversized`). `spawned` and `recorded` are history variables.

### WaitPolicies

`batcher_task` runs one of three loops, chosen by `policy`. That of
`durationWait` is `ProbeWait`, whose steps are taken over as they are; the other
two share `phase`, `deadline` (the one timer that is armed: idle, or flush) and
the requests received. With `dynamicWait` the sampler ticks in both waits
(`Sample`), closes an interval of the estimator and touches neither timer. The
window of a batch is fixed by its first request (`FirstRequest`), from the
intervals that were closed before it. The sigmoid is known by the half its value
lies in: at the target rate the middle between the limits, below and above it any
window of the lower or the upper half. In these two loops the clock does not pass
a due time: a runtime that polls late holds a request longer than any of its
timers say. `since` and `received` are history variables.

### LayerProxy

`active` is the variant of `ActiveInvocation`, `fetching` the flag, `wpc[w]` the
place of worker `w`: `take`, `check`, `presleep` and `asleep` are the loop of
`handle_next`; `presleep` is the moment after the state was examined and before the
`Notified` future exists. `notify_waiters` (`Woken`) wakes the workers that are
`asleep` and stores nothing for the others. A worker may lose the
acknowledgement of a completion and post it again, because the handlers are HTTP
servers whose client may retry. `MaxFetches` bounds how often the Runtime API
answers. `outer` is the last outer invocation as the proxy has treated it: `out`
while it has it to answer, `idle` when it has answered it, and `abandoned` when
a call to the Runtime API failed and the proxy goes on without: `/next` broke off
with an invocation handed out (`FetchFails`), the error of a malformed envelope
could not be posted (`RejectMalformed`), or the outer response failed, which the
finalizer only logs (`Finalize`). In each case the flag, or `active`, is cleared as
if it had succeeded, and a worker calls `/next` with the invocation perhaps
unanswered; what the Runtime API does then is its choice (another invocation or an
error). `OneOuterAtATime` therefore says only that the proxy never asks while it
has an invocation to answer, not that the last one was answered. An item of `BadIds` has an id that is no header value: it is put in
flight, and then the worker gets 502 instead of it (`TakeBadItem`), so its batch
stays open until Lambda ends the invocation; `OtherItemsAnswered` says what this
must not cost the others.

`BatchService` is the abstract specification: one outer invocation is open at a
time, its items are begun once and answered after they are begun, in any order
and once each, and it closes only when none is left. In the refinement mapping
(`ServedWaiting`, `ServedRunning`, `ServedAnswers`) what waits is in the queue,
what runs is in flight, and the answers are the records; a passed-through
invocation is its own only item, and its answer is forwarded as that of the
whole (`AnswerWhole`). An answer is what the proxy gave to the outer response; that
the response arrives is not promised. The fetches, the sleeps, lost wake-ups and repeated
completions are stutters. It says nothing of when an invocation closes:
that is `ActiveIsAnswered`, and it cannot be promised for a batch with an
item of `BadIds`.

### Adapter

`kit` and `mode` are chosen in `Init`: which library, and whether it returns one
value (`buffered`), writes one line for each item (`records`) or a head, chunks
and an end (`interleaved`). A worker of the pool is represented by the item it
runs: `stage[i]` is the place of item `i`, `waits` the items whose worker awaits
`drain`, `dead` those whose worker ended with an exception. `buffered` counts
the lines in the response stream. What a handler returns is a choice between
an answer, an error, chunks and a failing body.

The Node pool takes `next++` when a worker is free. It has two particulars.
Every worker that saw `write()` return false listens for the next `drain`, and
one `drain` wakes all (`Sent`). And interleaved mode maps status, headers and
cookies outside the `try` block: what cannot be converted rejects the worker's
promise, `Promise.all` rejects, and `finally` ends the stream while other workers
go on and write to a stream that refuses (`MappingThrows`, `End`,
`WriteRefused`).

The Rust stream starts items at the beginning of a poll only. A poll that finds
no line drops the finished streams (`lapsed`) and returns Pending (`parked`), so
their places stay empty until an active stream wakes the consumer; an empty set
is filled at once. `buffer_unordered` has no such gap. In the Rust adapter a
body cannot fail, and lines that are asked for are not buffered.

## 3. Runs

| Run | Instance | Shows |
|---|---|---|
| `gateway_races` | 3 requests of a key, 2 permits, 2 tasks, queues and job channel of 1, `select!` loops, one request too large alone | permits and semaphore conserved, each open sender in exactly one place, registry sound, batches in their bounds |
| `gateway_keys` | the same with two tenants of a route whose header is not forwarded, fixed wait, only one request small enough for a payload | keys, and what clients sent, never mix in a task or an invocation |
| `gateway_live` | 2 requests, 1 permit, no two fit one payload | every sender resolved without the handler's timer, tasks reclaimed, `ContractSpec` implemented |
| `gateway_depth` | 3 requests of a key, fixed wait | `QueueDepthPerKey` violated |
| `gateway_eviction` | the same | `EvictionLosesNothing` violated |
| `stream_records` | 2 streamed requests and a buffered one, 2 permits, 4 records for each invocation, all channels of 1 | no lost payload or chunk, failures passed on last, senders tracked, no invented answer; permits conserved over both kinds, each request counted once, `ContractSpec` implemented; dispatcher and forwarder finish |
| `wait_policies` | 12 ticks; probes: interval 2, jitter 1, window of 4 samples, warm-up 2, one zero and one outlier duration; fixed and dynamic wait: 4 requests, batches of 3, `idle_ttl` 3, 2 intervals of 2 ticks | one probe under way, grid kept, window in its limits, outlier trimmed; timers hold, the rate counts each recent request once |
| `probe_stuck` | the probes alone, 9 ticks | `ProbingEnds` violated |
| `probe_warmup` | window of 1 sample, warm-up of 2 probes | `WarmAfterWarmup` violated |
| `layer_calls` | 3 workers, 3 item ids, one of which is no header value, 3 fetches | calls to the Runtime API may fail; one record per item, never a `/next` while an invocation is to be answered, one worker per item, flag sound, what is served comes to an end, an item that cannot be handed out costs the others nothing; `BatchService` implemented (`ServiceSpec`) |
| `layer_wedge` | 2 workers, 2 fetches | `SomeoneAsksAgain` violated |
| `adapter_items` | 3 items, concurrency 2, mark of 2 lines, 2 chunks, both libraries, 3 modes | each item's records follow the protocol, each item is answered, buffer bounded, the response ends |

**Why the bounds are enough.** The races of the registry need an old task, a
new one and a handler that holds a sender of the old one; two task names, used
again when free, give all of these, and three requests are one to be evicted,
one to find the closed channel and one to meet the successor. Queues and job
channel of one are full as soon as they are used. `maxBatchSize` 2 with a third
request queued behind is the boundary of collection; weights 1, 1, 3 against a
limit of 2 make a pair that fits, a pair that is split, and a single that fails.
One invocation slot makes the dispatcher wait. In the stream, capacity one makes
the second chunk wait, and of two clients one is waited for while the other waits
behind it; four records fill the body channel, the dispatcher's hands, the
forwarder's channel and its hands, so that the forwarder waits for room as well.
Two permits for three requests make each kind be refused because of the other.
Three items for two workers make one be taken when another ends, and one of two
workers that wait for `drain` is the one a wrong wake-up would forget. In
`gateway_keys` the mixing of tenants would show in a task, before the payload is
made, so two of its requests may fail there. In `ProbeWait` the clock covers five
intervals, so that due times pass unused and are made up. In `WaitPolicies` an idle wait
and a window are both longer than a sampling interval, so that ticks fall inside
them, and the estimator forgets an interval before the clock stops. In the proxy, three workers are one
that fetches, one that sleeps and one that is between its check and its sleep,
and three fetches let a batch follow another kind of invocation.

**Deadlock** is checked for the gateway (whose `Quiescent` step marks the only
place to stop), for `ProbeWait` and for `WaitPolicies`. It is off for the proxy,
which waits for the Runtime API after `MaxFetches` answers, and for the stream
and the adapter, which end with their invocation.

**Symmetry** is used only where no liveness is checked. Tasks are
interchangeable; `r1` and `r2` have the same key and weight, and differ from
`r3` in the same header.

**Fairness.** `Gateway!Fairness`: the runtime polls every ready task, timers of
batcher tasks fire, reading a body ends, and the Lambda client answers or fails
every invocation (the SDK has timeouts). Arrivals, a client's hanging up and the
handler's own timeout are not fair, so that liveness never rests on the timeout.
`StreamGateway!Fairness`: bodies are read, batchers flush what they hold, the
call returns and the Lambda stream ends (an invocation has a maximal duration),
job and forwarder run, a client that stays reads its response, and buffered
requests end, as `gateway_live` shows. Neither the handler's timeout nor a
client's leaving is relied on. `Adapter!Fairness`: handlers and bodies end (the function
has a time limit), the consumer polls the Rust stream when it is woken, and the
platform reads the response. Strong fairness for handlers and bodies of the
Rust stream, because what they produce is taken at a poll, and a poll that
returns Pending lies between.
`LayerProxy!Fairness`: the proxy's tasks run, handlers end, and a completion that is posted
again and again is once forwarded and once acknowledged (strong fairness for the
forward, because it is enabled anew at each attempt); the Runtime API need not
hand out anything, and the proxy's own posts may fail every time. That a repeated
completion is accepted in the end is an assumption about the runtime and the
Runtime API, and `ActiveIsAnswered` and `OtherItemsAnswered` rest on it. It leaves
out a completion whose body is over the 2 MB that axum's extractor takes, which is
refused each time, and one that the Runtime API accepted without the proxy getting
the reply, if it refuses the repetition.

## 4. Disagreements

Each of these is a run in which TLC finds the statement violated. `PROJECT.json`
quotes the statement.

* **A second queue for a key** (`gateway_depth`). The end of a task, and a
  handler that found a closed channel, remove the registry entry of the key
  without looking at it. If a successor was registered meanwhile, it goes on
  with its queue and without an entry, and the next request spawns another task:
  the key has more than `MaxQueueDepthPerKey` requests queued. `RegistrySound`,
  `SenderHasOneHolder` and `EventuallyReclaimed` show that nothing worse
  follows: requests of the orphan are served, and it ends.
* **Requests lost to eviction** (`gateway_eviction`). Between the idle timer and
  the drop of the receiver the channel accepts requests, which are destroyed
  with it; their clients get 502. The retry in `enqueue` covers only a channel
  that is closed already. `timeout()` has this window too; `select!` may also
  prefer the timer to a request that is there.
* **A proxy nobody asks for** (`layer_wedge`). The `Notified` future of
  `handle_next` is created after the state was examined. A worker that sees
  `KhoneFinalizing` and is then overtaken by the finalizer sleeps; if the others
  sleep already, no worker calls the Runtime API again. The same window lets
  fewer workers than are free run a batch; `ActiveIsAnswered` shows that the
  batch is still finished, by the worker that fetched it.
* **Probing that stops** (`probe_stuck`). A probe whose request alone exceeds the
  payload limit becomes no job and reports nothing; `probe_inflight` stays set.
* **A warm-up that never ends** (`probe_warmup`). `warmupProbes` is compared with
  the number of samples in a window that holds at most `smoothingSamples`; both
  are validated, but not against each other.

Three more things the models made visible. Of a header that is sent twice the
key takes the first value and the function gets the last, so a request can be
batched with one tenant and be seen as another's; `InvocationsHomogeneous`
speaks of headers that were sent once. A value that the interleaved Node
adapter cannot convert ends the response of the whole batch; the properties of
`Adapter` say what still holds then (`dead`). And the interleaved Rust stream can
run fewer items than its concurrency while it waits; `ResponseEnds` shows that
it does not stop for good.

Two statements of the documentation were found to differ from the code while
it was translated, and the model follows the code: a stream that fails ends
a response whose head was sent without a 502 (`StreamDispatch!FailAll`), and the
window of `durationWait` is the duration times one *plus* `fraction`, also
before the first probe, when the base is `minWaitMs`
(`ProbeWait!duration_wait_ms`).

## 5. Proofs

The theorems hold for every number of requests, keys and tasks, and every value
of the limits that the named assumptions allow. Those assumptions
(`BatchingAssumption`, `InvocationAssumption`, `GatewayAssumption`,
`BatchKeyAssumption`, `KeyedGatewayAssumption`, `LambdaStreamAssumption`,
`StreamAssumption`, `StreamGatewayAssumption`, `ProbeWaitAssumption`,
`WaitPoliciesAssumption`, `LayerProxyAssumption`, `AdapterAssumption`) are what `GatewayConfig::validate` and the validation of
`x-khone` enforce (limits and `maxBatchSize` positive, `minWaitMs <= maxWaitMs`,
positive interval, window and warm-up, no two routes of one shape), and that a
behaviour has finitely many requests, each of which matched an operation.

| Theorem | Statement | Argument |
|---|---|---|
| `GatewayProofs!TypeCorrect` | `[]TypeOK` | one step per action; the values of `SendAll` and `Return` by lemma |
| `GatewayProofs!BatchesStayBounded` | `[]BatchesBounded` | inductive with the types; halving a sequence of length `n >= 2` gives two of length `1..n-1` |
| `GatewayProofs!AdmissionIsConserved` | `[]AdmissionConserved` | the handlers that hold a permit gain or lose one element exactly when `permits` loses or gains one; needs finite `Requests` |
| `GatewayProofs!GatewayImplementsContract` | `Contract!Spec` | every action is a step of one request or a stutter (`StepKinds`); `HandlerInv` |
| `GatewayKeysProofs!RegistryIsSound` | `[]RegistrySound` | part of `RouteInv` |
| `GatewayKeysProofs!BatchesAreIsolated` | `[]BatchIsolation` | `RouteInv`, with what tasks and jobs hold |
| `GatewayKeysProofs!SenderIsHeldOnce` | `[]SenderHasOneHolder` | `SenderInv` |
| `GatewayKeysProofs!InvocationsAreConserved` | `[]InvocationsConserved` | the jobs are disjoint by `SenderInv`, so a job that is spawned is a new element of `running` |
| `GatewayKeysProofs!QueuesStayBounded` | each task's own queue is within the depth | inductive with the types |
| `GatewayKeysProofs!DepthHoldsWithOneQueue` | `QueueDepthPerKey` wherever one task of the key has requests queued | `QueuesBounded`; what is queued for the key is one task's queue |
| `GatewayKeysProofs!OnlyRemovalsOrphan` | a task at work loses its entry only to another task's `Unregister` or to `RemoveStale` | one step per action, from `RouteInv` |
| `GatewayKeysProofs!OnlyEvictionLoses` | a waiting client's sender is destroyed only by `DropReceiver` of the task that has it queued | one step per action, from `SenderInv` |
| `KeyedGatewayProofs!RequestsAreHomogeneous` | `[]InvocationsHomogeneous` | isolation of keys, and `KeysTellApart`: equal keys come from the same operation and the same values |
| `StreamGatewayProofs!TypeCorrect` | `[]TypeOK` | part of `DispatchInv` and `FrontInv` |
| `StreamGatewayProofs!NoPayloadLost` | `[]PipeIntact` | `PipeInv`, part of `DispatchInv` |
| `StreamGatewayProofs!SendersAreTracked` | `[]SendersTracked` | `SenderInv`, part of `DispatchInv` |
| `StreamGatewayProofs!ChunksAreKept` | `[]NoChunkLost` | `ChunkInv`, part of `DispatchInv` |
| `StreamGatewayProofs!AnswersWritten` | `[]AnswersAreWritten` | `AnswerInv`, part of `DispatchInv` |
| `StreamGatewayProofs!PermitsConserved` | `[]AdmissionConserved` | `FrontInv` |
| `StreamGatewayProofs!CountedOnce` | `[]RequestsCountedOnce` | `FrontInv` |
| `StreamGatewayProofs!StreamImplementsContract` | `Contract!Spec` | every action is a step of one request or a stutter; `DispatchInv` and `FrontInv` |
| `ProbeWaitProofs!TypeCorrect` | `[]TypeOK` | part of `TypeInv` |
| `ProbeWaitProofs!WaitsWithinLimits` | `[]WaitWithinLimits` | the window is clamped, and the smoothed duration is a number, by the lemmas about sums |
| `ProbeWaitProofs!OutliersTrimmed` | `[]OutlierTrimmed` | `Trimmed`: removing a smallest and a largest of three samples or more |
| `ProbeWaitProofs!OneProbe` | `[]OneProbeUnderWay` | `ProbeInv` |
| `ProbeWaitProofs!ScheduleStaysOnGrid` | `[]ScheduleOnGrid` | `GridInv` |
| `ProbeWaitProofs!WindowIsClamped` | the window lies in `MinWait..MaxWait` | a minimum and a maximum of two numbers |
| `ProbeWaitProofs!ReportsHaveRoom` | the feedback channel has room for a report | `ProbeInv` |
| `ProbeWaitProofs!WarmUpEndsIfWindowAllows` | `[]WarmAfterWarmup` if `WarmupProbes <= SmoothingSamples` | `CountedInv` |
| `ProbeWaitProofs!OnlyOversizedSticks` | only `ProbeOversized` ends `ProbingEnds` | `ProbeInv` |
| `ProbeWaitProofs!StuckUntilReturn` | without `ProbingEnds` no probe is flushed and nothing restores it but the end of the task | `ProbeInv` |
| `WaitPoliciesProofs!LoopsKeepTheirLimits` | the five properties of `ProbeWait` hold of `PolicySpec` | `DurationInv`: a loop of another policy leaves the state of `durationWait` alone |
| `WaitPoliciesProofs!RatesAreRecent` | `[]RateIsRecent` | `RateInv` |
| `WaitPoliciesProofs!TimersAlwaysHold` | `[]TimersHold` | `TimersInv` |
| `LayerProxyProofs!TypeCorrect` | `[]TypeOK` | `ProxyInv` |
| `LayerProxyProofs!OneOuter` | `[]OneOuterAtATime` | `AskerInv`, part of `ProxyInv` |
| `LayerProxyProofs!FlagIsSound` | `[]FetchFlagSound` | `AskerInv` |
| `LayerProxyProofs!OneRecord` | `[]OneRecordPerItem` | `ItemsInv`, part of `ProxyInv` |
| `LayerProxyProofs!OneWorker` | `[]OneWorkerPerInvocation` | `HoldInv`, part of `ProxyInv` |
| `LayerProxyProofs!ProxyImplementsService` | `ServiceSpec` | every action is a step of `BatchService` or a stutter; `ProxyInv` and `ForwardInv` |
| `LayerProxyProofs!OnlySleepLosesPoller` | only `Sleep`, with nothing active and no fetch under way, ends `SomeoneAsksAgain` | one step per action, from `ProxyInv` |
| `LayerProxyProofs!LostPollerIsForever` | every step is taken where `SomeoneAsksAgain` holds | the other places of a worker enable nothing |
| `AdapterProofs!TypeCorrect` | `[]TypeOK` | one step per action, flags and data apart |
| `AdapterProofs!BackpressureHolds` | `[]BufferBounded` | `PoolInv` |
| `AdapterProofs!ProtocolIsFollowed` | `[]ItemsFollowProtocol` | `AnswersInv` |
| `AdapterProofs!ItemsAreAnswered` | `[]EveryItemAnswered` | `AnswersInv` |
| `AdapterProofs!WholeUnlessMapped` | each item has its whole answer when the response is over, in Rust and where Node does not map interleaved heads | `AnswersInv` (`OnlyNodeThrows`) |
| `AdapterProofs!ConcurrencyIsKept` | no more items under way than the concurrency | `PoolInv` |
| `AdapterProofs!NobodyWaitsInVain` | who waits for `drain` gets one; who returned Pending has someone to wake him | `WaitInv` |

**Why `RouteInv` is needed.** `RegistrySound` is not inductive: that a task's
owner does not change while a registry entry points to it depends on where
handlers are. A spawned task takes a free name, and that the name is not one a
handler still holds, or the registry still has, is the guard `NoSender`. `RouteInv`
therefore adds that a handler that is about to send has a target (`HasTarget`),
that the target was spawned for the handler's key (`TargetKey`), and that a
finished task holds nothing (`FinishedEmpty`), so that it can change its
owner without changing whose requests it holds. `TasksIsolated` and
`JobsIsolated` then follow the requests through queue, batch, worklist, job
channel, dispatcher and running jobs.

**Why `SenderInv` is needed.** That a living sender has one holder counts places of
seven kinds at once. `SenderInv` separates them: each place says what the others
may hold (`PlaceOf`: a request that is still being enqueued is nowhere, one that
is with a task is with no other task and with no job), the three parts of a task
hold nothing in common and repeat nothing (`TaskDistinct`), and jobs in the
channel, held or running are disjoint (`CallsDistinct`). The last also gives
`InvocationsConserved`, since `running` is a set of jobs.

**Why `HandlerInv` and `FrontInv` are needed.** The contract says of a reply that
the request had none, and of a refusal that the limit is used up. So a handler
that has not returned must have answered nothing, and the permits must be
conserved: no free permit means as many requests in service as the limit. For
the streamed path `FrontInv` also ties the front of a request to the rest of
it: it is `in` exactly when its handler is with `StreamDispatch`.

**Why `DispatchInv` is needed.** That a failure of the function never looks like a
clean end needs that nothing is sent behind an error and that the forwarder
only gives up sending when nobody reads (`PipeInv`). That senders are tracked
needs that the dispatcher has requests only during an invocation, and that a
used `init` sender is not with the batcher; that answers were written needs it
of what the `init` channels hold, not only of what clients got (`AnswerInv`).

**Why `ProxyInv` is needed.** That the Runtime API sees one `/next` depends on the
flag *and* on `active`: a worker that fetches, or refuses what it fetched, finds
no invocation active, and while none is active and none is refused the proxy has
none to answer (`AskerInv`). One record per item needs that the queue, the
items in flight and the records partition the batch and repeat nothing
(`ItemsInv`), and that nobody runs what is still queued (`HoldInv`). For the
refinement of `BatchService` a worker that forwards a completion must still find
its pass-through invocation active (`ForwardInv`): otherwise the acknowledgement
could close another one.

**Why `ProbeInv` and `GridInv` are needed.** That at most one probe is under way depends on the
flag: `OneProbeUnderWay` counts jobs and reports together and ties them to
`probing`; the types of the counters and of the feedback channel are the rest,
and a channel that holds one report of one probe has room for it.
For the grid, the due time is a whole number of intervals after the first one,
and past the first one at most one interval ahead of the clock, which a step over
several missed due times must restore. The type of the due time needs the same:
`TypeInv` joins the types, the grid and the probes, because a due time is bounded
only by the grid, and a channel only by the one probe.

**Sums and sorted samples.** `Total` is a fold, and what a fold gives for every
sequence needs induction, which the library states for an operator that the
provers cannot instantiate. `ProbeWaitProofs` argues by a least counterexample
instead: a set of natural numbers that is not empty has a least element
(`LeastNumber`, from the well-foundedness of `<`), so a *set* that contains 0 and
with each number the next one contains all (`NumbersByInduction`). From it come
that the function a fold chooses exists (`FoldExists`), that a sum is that
of the prefix and the last element (`TotalByPrefixes`), and the sum of a sequence
with one element left out (`TotalOfRemoved`). A trimmed sample is then the
original without one smallest and one largest element (`TwoExtremes`,
`Trimmed`), so its mean is at most the largest of the rest: one outlier does not
stretch the window.

**Why `CountedInv` is needed.** The warm-up counts the samples that are kept. As
long as the window has room for the warm-up, a sample is forgotten only when the
window is full, and then it holds as many as the warm-up needs. This is the hypothesis
`WarmupProbes <= SmoothingSamples` of the theorem, which the validation does not
check; `probe_warmup` shows what happens without it.

**Why `RateInv` is needed.** The estimator keeps counts, and `RateIsRecent`
speaks of the times at which requests came. `RateInv` says that there are cuts: for
each kept interval a position in the history of requests, such that as many
requests lie between two cuts as were counted in the interval, those up to a cut
came no later than it and those past it no earlier (`Cuts`). A request moves no cut, a tick adds
one at the end, and when the oldest count is forgotten the cuts are shifted by one.

**Why `TimersInv` is needed.** That no wait is too long depends on what the armed
timer is due for: `TimersInv` says that it is the one the present wait began with,
which every step between must preserve, and that the window a batch was given is
at most `maxWaitMs` whatever the rate (`WindowBounded`).

**Why `PoolInv` and `AnswersInv` are needed.** That the buffer holds at most one
line per worker past the mark is not inductive: a line past the mark is written
only by an item that then waits, so `PoolInv` counts those lines against the
items in `waits`, and these against the pool's limit. That every item is answered
at the end needs that the items taken are the first ones of the batch and no
others (`TakenInOrder`), that an item that is not finished keeps the response
from ending (`EndsLast`), that only a Node worker in interleaved mode can throw
(`OnlyNodeThrows`), and for each stage the records an item may have by then
(`ItemLines`).

**Why `WaitInv` is needed.** That the response ends is liveness, but what could
keep it from ending is not: a worker that waits for a `drain` when none is owed, or
a Rust stream that returned Pending with no active item to wake its consumer.
`WaitInv` adds that the Rust stream buffers nothing, so that no `drain` is awaited
there.

**The causes of the disagreements.** A run that finds a property violated shows
one way to break it. For each of the five, theorems say which steps or states it
takes, for every value of the constants: `DepthHoldsWithOneQueue` and
`OnlyRemovalsOrphan` (`gateway_depth`), `OnlyEvictionLoses` (`gateway_eviction`),
`OnlySleepLosesPoller` (`layer_wedge`, with at least one worker),
`OnlyOversizedSticks` (`probe_stuck`), `WarmUpEndsIfWindowAllows`
(`probe_warmup`). `LostPollerIsForever` and `StuckUntilReturn` say that the
harm is lasting. The bad states are named in the proof modules: `Orphan(t)`, a task
at work without its entry; `Lost(r)`, a waiting client whose sender was dropped.

**Only model-checked**: liveness (`EverySenderResolved`, `EventuallyReclaimed`,
`ActiveIsAnswered`, `OtherItemsAnswered`, `InvocationsEnd`, `ResponseEnds`), and
with it the fair part of the two `ContractSpec`, whose safety part is proved:
`ENABLED`, and so fairness, is out of the prover's reach. Every other property of
the passing runs is proved for every value of the constants.

## 6. What is left out

* The SDK call of `gateway/src/lambda.rs`: its answers are choices. The cost
  report of a profiled call goes through a one-shot channel nobody waits for.
* How records are cut into payloads, except for what it means for a batch
  (`Broken`, `BadTail`).
* Streamed invocations that run side by side: their jobs share nothing but the
  invocation semaphore, which is that of `Invocation`, and the admission
  semaphore. `StreamDispatch` runs one at a time, so it says nothing of how many
  slots slow clients can hold.
* The registry on the streamed path: it is that of `Batching`, and appears in
  `StreamDispatch` as the outcomes it can have for a sender.
* A worker of the layer proxy that drops its connection while its call fetches:
  the flag would stay set for ever. A Lambda runtime waits for `/next` without a
  timeout, and one that dies takes the execution environment with it.
* The shape of the sigmoid of `dynamicWait` beyond the side of its middle. A
  window of any length is a behaviour of `Batching`, so the wait policies cannot
  break the properties of the gateway, and the modules are not composed.
* The wire format, and the building of a batch event: text without state.
* The demultiplexing of a buffered response by record is abstracted to the set
  of requests with well-formed records.
* In the adapters: the normalisation of headers, cookies and bodies, and a Rust
  panic, which ends the invocation.
* Text: the spelling of templates, ARNs, header names and numbers, and the parsing
  and fetching of the configuration. Of `config.rs` only what `validate` promises
  is used, as assumptions.
* Metrics other than the request metric (the gauge of active requests follows a
  guard that is created before the permit and moves with it into the body; nothing
  depends on its value), logging,
  deployment code, benchmark and website: no state of the protocol. The
  config publisher and the macro answer one CloudFormation event each and keep
  nothing in between.
* Crashes: the gateway and the proxy keep nothing on disk; a restart begins in
  `Init`, and clients see a closed connection.

## 7. Plan

Done: the buffered path and the streamed path with their abstract specification,
routes and keys, the wait policies, the layer proxy with its abstract specification,
the adapters; all safety properties of the passing runs proved, the safety part of
the three refinements, and the cause of each disagreement.

What could follow, in this order:

1. The semaphore of invocations shared by buffered and streamed jobs, with
   several streamed jobs at once: how long slow clients can keep others waiting.
2. `BufferedDispatch`: a batch response as a sequence of records with
   duplicates, unknown ids and malformed ones, shown to give the outcomes of
   `JobResponds`.
3. `Planner`: `plan_invocations` as a recursive function, against the worklist
   of `Gateway` over bounded batches: same segments, same order.
