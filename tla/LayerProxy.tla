----------------------------- MODULE LayerProxy ------------------------------
(***************************************************************************)
(* The Mode A layer proxy (bootstrap/layer-proxy/src/proxy.rs, state.rs):  *)
(* it stands between a Lambda runtime and the Runtime API.  The workers of *)
(* the runtime ask it for invocations; it fetches one outer invocation at  *)
(* a time, hands a batch out item by item as virtual invocations, streams  *)
(* one record per item back, and fetches again when the outer response is  *)
(* complete.                                                               *)
(*                                                                         *)
(* Every request of a worker runs in a task of its own.  An action is the  *)
(* code between two points where another task can be observed: a critical  *)
(* section of state.inner, an await, or the creation of a Notified future  *)
(* (which receives the wake-ups that come after its creation only).        *)
(***************************************************************************)
EXTENDS Naturals, Sequences, FiniteSets, SequencesExt

CONSTANTS
    Workers,   \* concurrent pollers of the runtime (KHONE_MAX_CONCURRENCY)
    Ids,        \* invocation ids, of batch items and of outer invocations
    BadIds,     \* the batch items whose id is no value of an HTTP header
    NoId,       \* no invocation id
    MaxFetches  \* bound: answers of the upstream /next in a behaviour

ASSUME LayerProxyAssumption ==
    /\ NoId \notin Ids
    /\ BadIds \subseteq Ids
    /\ IsFiniteSet(Ids)
    /\ MaxFetches \in Nat

VARIABLES
    wpc,       \* wpc[w]: where the call of worker w is
    holds,     \* holds[w]: the invocation id worker w is running, or NoId
    fetching,  \* inner.fetching_outer
    active,    \* the variant of inner.active
    passing,   \* PassThroughInvocation.request_id
    delivered, \* PassThroughInvocation.delivered
    queue,     \* KhoneBatchInvocation.queue
    inflight,  \* KhoneBatchInvocation.inflight
    batch,     \* the ids of the batch being served
    records,   \* the records written to the outer response stream
    outer,     \* the last outer invocation: "out" while the proxy has it to
               \* answer, "idle" when it has answered it (or had none), and
               \* "abandoned" when the attempt to receive or to answer it
               \* failed, and Lambda may still wait for the answer
    fetched    \* answers of the upstream /next

vars == <<wpc, holds, fetching, active, passing, delivered, queue, inflight, batch, records, outer, fetched>>

Variants == {"None", "PassThrough", "KhoneBatch", "KhoneFinalizing"}

WorkerStates ==
    {"take", "check", "fetch", "reject", "notify", "presleep", "asleep", "busy", "forward"}

\* What the variables may hold.
TypeOK ==
    /\ wpc \in [Workers -> WorkerStates]
    /\ holds \in [Workers -> Ids \cup {NoId}]
    /\ fetching \in BOOLEAN
    /\ active \in Variants
    /\ passing \in Ids \cup {NoId}
    /\ active = "PassThrough" => passing # NoId
    /\ delivered \in BOOLEAN
    /\ queue \in Seq(Ids)
    /\ inflight \in SUBSET Ids
    /\ batch \in SUBSET Ids
    /\ records \in Seq(Ids)
    /\ outer \in {"idle", "out", "abandoned"}
    /\ fetched \in 0..MaxFetches

Init ==
    /\ wpc = [w \in Workers |-> "take"]
    /\ holds = [w \in Workers |-> NoId]
    /\ fetching = FALSE
    /\ active = "None"
    /\ passing = NoId
    /\ delivered = FALSE
    /\ queue = <<>>
    /\ inflight = {}
    /\ batch = {}
    /\ records = <<>>
    /\ outer = "idle"
    /\ fetched = 0

-----------------------------------------------------------------------------
(* handle_next.                                                            *)

\* notify_waiters: every created Notified future completes.
Woken(pcs) == [w \in Workers |-> IF pcs[w] = "asleep" THEN "take" ELSE pcs[w]]

\* try_take_next, nothing to hand out.
TakeNothing(w) ==
    /\ wpc[w] = "take"
    /\ active = "PassThrough" => delivered
    /\ active = "KhoneBatch" => queue = <<>>
    /\ wpc' = [wpc EXCEPT ![w] = "check"]
    /\ UNCHANGED <<holds, fetching, active, passing, delivered, queue, inflight, batch, records, outer, fetched>>

TakePassThrough(w) ==
    /\ wpc[w] = "take"
    /\ active = "PassThrough"
    /\ ~ delivered
    /\ delivered' = TRUE
    /\ holds' = [holds EXCEPT ![w] = passing]
    /\ wpc' = [wpc EXCEPT ![w] = "busy"]
    /\ UNCHANGED <<fetching, active, passing, queue, inflight, batch, records, outer, fetched>>

\* Mutant: the item is left in the queue.
TakeItemKeeps(w) ==
    /\ wpc[w] = "take"
    /\ active = "KhoneBatch"
    /\ queue # <<>>
    /\ Head(queue) \notin BadIds
    /\ inflight' = inflight \cup {Head(queue)}
    /\ holds' = [holds EXCEPT ![w] = Head(queue)]
    /\ wpc' = [wpc EXCEPT ![w] = "busy"]
    /\ UNCHANGED <<fetching, active, passing, delivered, queue, batch, records, outer, fetched>>

TakeItem(w) ==
    /\ wpc[w] = "take"
    /\ active = "KhoneBatch"
    /\ queue # <<>>
    /\ Head(queue) \notin BadIds
    /\ queue' = Tail(queue)
    /\ inflight' = inflight \cup {Head(queue)}
    /\ holds' = [holds EXCEPT ![w] = Head(queue)]
    /\ wpc' = [wpc EXCEPT ![w] = "busy"]
    /\ UNCHANGED <<fetching, active, passing, delivered, batch, records, outer, fetched>>

\* Mutant: the worker that got the error does not ask again.
TakeBadItemBlocks(w) ==
    /\ wpc[w] = "take"
    /\ active = "KhoneBatch"
    /\ queue # <<>>
    /\ Head(queue) \in BadIds
    /\ queue' = Tail(queue)
    /\ inflight' = inflight \cup {Head(queue)}
    /\ wpc' = [wpc EXCEPT ![w] = "asleep"]
    /\ UNCHANGED <<holds, fetching, active, passing, delivered, batch, records, outer, fetched>>

\* The id fits no header: the item is in flight by now, the worker gets 502
\* and asks again, and nobody will complete the item.
TakeBadItem(w) ==
    /\ wpc[w] = "take"
    /\ active = "KhoneBatch"
    /\ queue # <<>>
    /\ Head(queue) \in BadIds
    /\ queue' = Tail(queue)
    /\ inflight' = inflight \cup {Head(queue)}
    /\ UNCHANGED <<wpc, holds, fetching, active, passing, delivered, batch, records, outer, fetched>>

\* Mutant: the flag of a fetch under way is not looked at.
CheckIgnoresFlag(w) ==
    /\ wpc[w] = "check"
    /\ fetching' = (fetching \/ active = "None")
    /\ wpc' = [wpc EXCEPT ![w] = IF active = "None" THEN "fetch" ELSE "presleep"]
    /\ UNCHANGED <<holds, active, passing, delivered, queue, inflight, batch, records, outer, fetched>>

\* should_fetch: the one that finds no active invocation and no fetch under
\* way fetches; the others are about to wait.
Check(w) ==
    /\ wpc[w] = "check"
    /\ fetching' = (fetching \/ active = "None")
    /\ wpc' = [wpc EXCEPT ![w] = IF active = "None" /\ ~ fetching THEN "fetch" ELSE "presleep"]
    /\ UNCHANGED <<holds, active, passing, delivered, queue, inflight, batch, records, outer, fetched>>

\* notify.notified() is created.
Sleep(w) ==
    /\ wpc[w] = "presleep"
    /\ wpc' = [wpc EXCEPT ![w] = "asleep"]
    /\ UNCHANGED <<holds, fetching, active, passing, delivered, queue, inflight, batch, records, outer, fetched>>

\* Ids are unique: one that no worker holds any more stands for a new one.
FreshIds == Ids \ {holds[w] : w \in Workers}

\* The upstream /next answers with a batch of distinct ids; the streaming
\* outer response is started.  The wake-up follows after the unlock.  It may
\* do so behind an abandoned invocation, whose end Lambda sees to.
FetchBatch(w) ==
    /\ wpc[w] = "fetch"
    /\ fetched < MaxFetches
    /\ \E n \in 1..Cardinality(FreshIds) : \E q \in [1..n -> FreshIds] :
         /\ IsInjective(q)
         /\ queue' = q
         /\ batch' = ToSet(q)
    /\ active' = "KhoneBatch"
    /\ inflight' = {}
    /\ records' = <<>>
    /\ fetching' = FALSE
    /\ outer' = "out" /\ fetched' = fetched + 1
    /\ wpc' = [wpc EXCEPT ![w] = "notify"]
    /\ UNCHANGED <<holds, passing, delivered>>

\* Mutant: the id of the invocation is not kept.
FetchPassThroughForgets(w) ==
    /\ wpc[w] = "fetch"
    /\ fetched < MaxFetches
    /\ active' = "PassThrough"
    /\ delivered' = FALSE
    /\ fetching' = FALSE
    /\ outer' = "out" /\ fetched' = fetched + 1
    /\ wpc' = [wpc EXCEPT ![w] = "notify"]
    /\ UNCHANGED <<holds, passing, queue, inflight, batch, records>>

\* It answers with anything that is not a batch envelope.
FetchPassThrough(w) ==
    /\ wpc[w] = "fetch"
    /\ fetched < MaxFetches
    /\ active' = "PassThrough"
    /\ passing' \in FreshIds
    /\ delivered' = FALSE
    /\ fetching' = FALSE
    /\ outer' = "out" /\ fetched' = fetched + 1
    /\ wpc' = [wpc EXCEPT ![w] = "notify"]
    /\ UNCHANGED <<holds, queue, inflight, batch, records>>

\* It answers with a malformed batch envelope: post_outer_parse_error starts.
FetchMalformed(w) ==
    /\ wpc[w] = "fetch"
    /\ fetched < MaxFetches
    /\ outer' = "out" /\ fetched' = fetched + 1
    /\ wpc' = [wpc EXCEPT ![w] = "reject"]
    /\ UNCHANGED <<holds, fetching, active, passing, delivered, queue, inflight, batch, records>>

\* The outer error is posted and the worker's call goes on, or it cannot be
\* posted: then the worker gets 502 and asks again.  The flag is cleared in
\* both cases.
RejectMalformed(w) ==
    /\ wpc[w] = "reject"
    /\ outer' \in {"idle", "abandoned"}
    /\ fetching' = FALSE
    /\ wpc' = [Woken(wpc) EXCEPT ![w] = "take"]
    /\ UNCHANGED <<holds, active, passing, delivered, queue, inflight, batch, records, fetched>>

\* Mutant: the flag stays set when the upstream /next fails.
FetchFailsKeepsFlag(w) ==
    /\ wpc[w] = "fetch"
    /\ fetched < MaxFetches
    /\ fetched' = fetched + 1
    /\ outer' \in {outer, "abandoned"}
    /\ wpc' = [Woken(wpc) EXCEPT ![w] = "take"]
    /\ UNCHANGED <<holds, fetching, active, passing, delivered, queue, inflight, batch, records>>

\* The upstream /next fails, perhaps with an invocation handed out (its head
\* has no id, its body breaks off): 502, and the worker asks again.
FetchFails(w) ==
    /\ wpc[w] = "fetch"
    /\ fetched < MaxFetches
    /\ fetched' = fetched + 1
    /\ outer' \in {outer, "abandoned"}
    /\ fetching' = FALSE
    /\ wpc' = [Woken(wpc) EXCEPT ![w] = "take"]
    /\ UNCHANGED <<holds, active, passing, delivered, queue, inflight, batch, records>>

\* notify_waiters after a successful fetch, then the loop starts over.
NotifyFetched(w) ==
    /\ wpc[w] = "notify"
    /\ wpc' = [Woken(wpc) EXCEPT ![w] = "take"]
    /\ UNCHANGED <<holds, fetching, active, passing, delivered, queue, inflight, batch, records, outer, fetched>>

-----------------------------------------------------------------------------
(* handle_response and handle_error: both end an invocation the same way.  *)

\* Mutant: a completion seen for the first time or again writes a record.
CompleteTwice(w) ==
    /\ wpc[w] = "busy"
    /\ active = "KhoneBatch"
    /\ records' = Append(records, holds[w])
    /\ inflight' = inflight \ {holds[w]}
    /\ active' = IF queue = <<>> /\ inflight' = {} THEN "KhoneFinalizing" ELSE active
    /\ \/ holds' = [holds EXCEPT ![w] = NoId] /\ wpc' = [wpc EXCEPT ![w] = "take"]
       \/ UNCHANGED <<holds, wpc>>
    /\ UNCHANGED <<fetching, passing, delivered, queue, batch, outer, fetched>>

\* Mutant: the batch is taken for finished when its queue is empty.
CompleteItemEarly(w) ==
    /\ wpc[w] = "busy"
    /\ active = "KhoneBatch"
    /\ holds[w] \in inflight
    /\ inflight' = inflight \ {holds[w]}
    /\ records' = Append(records, holds[w])
    /\ active' = IF queue = <<>> THEN "KhoneFinalizing" ELSE active
    /\ \/ holds' = [holds EXCEPT ![w] = NoId] /\ wpc' = [wpc EXCEPT ![w] = "take"]
       \/ UNCHANGED <<holds, wpc>>
    /\ UNCHANGED <<fetching, passing, delivered, queue, batch, outer, fetched>>

\* The item in flight is removed, its record (the response, or an error
\* record) is sent to the stream; the last one closes the stream and starts
\* the finalizer.  The worker gets 202, or loses the answer and posts again.
CompleteItem(w) ==
    /\ wpc[w] = "busy"
    /\ active = "KhoneBatch"
    /\ holds[w] \in inflight
    /\ inflight' = inflight \ {holds[w]}
    /\ records' = Append(records, holds[w])
    /\ active' = IF queue = <<>> /\ inflight' = {} THEN "KhoneFinalizing" ELSE active
    /\ \/ holds' = [holds EXCEPT ![w] = NoId] /\ wpc' = [wpc EXCEPT ![w] = "take"]
       \/ UNCHANGED <<holds, wpc>>
    /\ UNCHANGED <<fetching, passing, delivered, queue, batch, outer, fetched>>

\* Unknown id, finalizing, or no active invocation: accepted and ignored.
CompleteUnknown(w) ==
    /\ wpc[w] = "busy"
    /\ ~ (active = "KhoneBatch" /\ holds[w] \in inflight)
    /\ ~ (active = "PassThrough" /\ holds[w] = passing)
    /\ holds' = [holds EXCEPT ![w] = NoId]
    /\ wpc' = [wpc EXCEPT ![w] = "take"]
    /\ UNCHANGED <<fetching, active, passing, delivered, queue, inflight, batch, records, outer, fetched>>

\* The completion of the passed-through invocation goes upstream.
ForwardPassThrough(w) ==
    /\ wpc[w] = "busy"
    /\ active = "PassThrough"
    /\ holds[w] = passing
    /\ wpc' = [wpc EXCEPT ![w] = "forward"]
    /\ UNCHANGED <<holds, fetching, active, passing, delivered, queue, inflight, batch, records, outer, fetched>>

\* The worker gets 202, or loses the answer and posts again.
ForwardSucceeds(w) ==
    /\ wpc[w] = "forward"
    /\ outer' = "idle"
    /\ active' = "None"
    /\ \/ holds' = [holds EXCEPT ![w] = NoId] /\ wpc' = [Woken(wpc) EXCEPT ![w] = "take"]
       \/ UNCHANGED holds /\ wpc' = [Woken(wpc) EXCEPT ![w] = "busy"]
    /\ UNCHANGED <<fetching, passing, delivered, queue, inflight, batch, records, fetched>>

\* The upstream fails or refuses, or its answer is lost: 502, the invocation
\* stays active, and the runtime posts again.
ForwardFails(w) ==
    /\ wpc[w] = "forward"
    /\ wpc' = [wpc EXCEPT ![w] = "busy"]
    /\ UNCHANGED <<holds, fetching, active, passing, delivered, queue, inflight, batch, records, outer, fetched>>

\* Mutant: the next invocation is awaited with the finished one in place.
FinalizeKeepsActive ==
    /\ active = "KhoneFinalizing"
    /\ outer = "out"
    /\ outer' \in {"idle", "abandoned"}
    /\ wpc' = Woken(wpc)
    /\ UNCHANGED <<holds, fetching, active, passing, delivered, queue, inflight, batch, records, fetched>>

\* spawn_finalize_task: the outer response is complete, or failed (which is
\* logged, and makes no difference to the proxy).
Finalize ==
    /\ active = "KhoneFinalizing"
    /\ active' = "None"
    /\ outer' \in {"idle", "abandoned"}
    /\ wpc' = Woken(wpc)
    /\ UNCHANGED <<holds, fetching, passing, delivered, queue, inflight, batch, records, fetched>>

-----------------------------------------------------------------------------
NextCall(w) ==
    \/ TakeNothing(w) \/ TakePassThrough(w) \/ TakeItem(w) \/ TakeBadItem(w) \/ Check(w)
    \/ Sleep(w) \/ RejectMalformed(w) \/ NotifyFetched(w)

Fetch(w) ==
    FetchBatch(w) \/ FetchPassThrough(w) \/ FetchMalformed(w) \/ FetchFails(w)

Completion(w) ==
    CompleteItem(w) \/ CompleteUnknown(w) \/ ForwardPassThrough(w) \/ ForwardSucceeds(w)
        \/ ForwardFails(w)

Next ==
    \/ \E w \in Workers : NextCall(w) \/ Fetch(w) \/ Completion(w)
    \/ Finalize

Spec == Init /\ [][Next]_vars

(***************************************************************************)
(* Fairness: the proxy's tasks run, handlers end, and a completion that is *)
(* posted again and again is once forwarded and once acknowledged.  The    *)
(* Runtime API need not hand out anything, and any post of the proxy's own *)
(* may fail.                                                               *)
(***************************************************************************)
Fairness ==
    /\ \A w \in Workers :
         /\ WF_vars(NextCall(w))
         /\ WF_vars(Completion(w))
         /\ WF_vars(CompleteUnknown(w))
         /\ SF_vars(ForwardSucceeds(w))
    /\ WF_vars(Finalize)

FairSpec == Spec /\ Fairness

-----------------------------------------------------------------------------
\* The outer response carries each item of the batch exactly once: an item
\* is queued, in flight or answered, never two of them, through concurrent
\* workers and repeated completions; the stream is closed only when every
\* item is answered.
OneRecordPerItem ==
    /\ active = "KhoneBatch" =>
         /\ batch = ToSet(queue) \cup inflight \cup ToSet(records)
         /\ Cardinality(batch) = Len(queue) + Cardinality(inflight) + Len(records)
    /\ active = "KhoneFinalizing" =>
         /\ batch = ToSet(records)
         /\ Cardinality(batch) = Len(records)

\* The proxy serves one outer invocation at a time.  It never asks for
\* another while it has one to answer, and only one worker asks, so that the
\* Runtime API does not see two /next calls.  It gives an invocation up, and
\* asks again without having answered it, only when the attempt to receive or
\* to answer it has failed; what it serves it has not given up.
OneOuterAtATime ==
    /\ \A w \in Workers : wpc[w] = "fetch" => active = "None" /\ outer # "out"
    /\ \A v, w \in Workers : wpc[v] \in {"fetch", "reject"} /\ wpc[w] \in {"fetch", "reject"} => v = w
    /\ active # "None" => outer = "out"

\* An invocation is run by one worker at a time.
OneWorkerPerInvocation ==
    \A v, w \in Workers : holds[v] = holds[w] /\ holds[v] # NoId => v = w

\* The flag of a fetch is set only while a worker fetches, so that a failed
\* fetch does not keep the others from fetching.
FetchFlagSound == fetching <=> \E w \in Workers : wpc[w] \in {"fetch", "reject"}

\* The README of the proxy: it "lets unmodified handlers process virtual
\* invocations".  With no invocation active and none being fetched, some
\* worker is awake to ask for the next one.
SomeoneAsksAgain ==
    active = "None" /\ ~ fetching => \E w \in Workers : wpc[w] # "asleep"

\* Each item of the batch, if it is one, can be handed out.
Answerable == active = "KhoneBatch" => batch \cap BadIds = {}

\* What the proxy serves, batch or not, comes to an end whatever the workers do
\* and miss: its answer is complete, or has failed upstream.  But a batch with
\* an item that cannot be handed out stays open until Lambda's own timeout ends
\* it.
ActiveIsAnswered == active # "None" /\ Answerable ~> active = "None"

\* The outer invocation as the Runtime API sees it: what waits, runs and is
\* answered is in the queue, in flight and recorded; a passed-through
\* invocation is the only item of itself.
ServedWaiting ==
    IF active = "KhoneBatch" THEN ToSet(queue)
    ELSE IF active = "PassThrough" /\ ~ delivered THEN {passing}
    ELSE {}

ServedRunning ==
    IF active = "KhoneBatch" THEN inflight
    ELSE IF active = "PassThrough" /\ delivered THEN {passing}
    ELSE {}

ServedAnswers == IF active \in {"KhoneBatch", "KhoneFinalizing"} THEN records ELSE <<>>

Service == INSTANCE BatchService WITH
    Items <- Ids,
    open <- active # "None",
    waiting <- ServedWaiting,
    running <- ServedRunning,
    answers <- ServedAnswers

\* The proxy keeps the promise of BatchService: no invocation is replaced
\* before it is over, no item is answered that was not handed out or was
\* answered, and none is left behind when the outer response ends.
ServiceSpec == Service!Spec

\* An item that cannot be handed out costs the other items of its batch
\* nothing: each of them gets its record.
OtherItemsAnswered ==
    \A i \in Ids \ BadIds : active = "KhoneBatch" /\ i \in batch ~> i \in ToSet(records)
=============================================================================
