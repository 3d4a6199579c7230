------------------------------ MODULE Batching -------------------------------
(***************************************************************************)
(* HTTP handlers (server.rs, handle_any), the registry of batcher tasks    *)
(* (batching/mod.rs, BatcherManager::enqueue) and the batcher tasks        *)
(* themselves (batching/scheduler.rs) up to the moment a batch is handed   *)
(* to the planner.                                                         *)
(*                                                                         *)
(* Handlers and batcher tasks run on different threads of the runtime.     *)
(* Each action is a stretch of code between two points where another       *)
(* thread can be observed: a registry operation (one lock of the map's     *)
(* shard), a channel operation, or an await.  Timers are not measured: a   *)
(* timer may fire whenever the code awaits it.                             *)
(***************************************************************************)
EXTENDS Responder, Naturals, Sequences, FiniteSets, SequencesExt

CONSTANTS
    Keys,                 \* batch keys
    KeyOf,                \* KeyOf[r]: the batch key of request r
    Tasks,                \* names for the batcher tasks alive at one time
    NoTask,               \* no batcher task
    MaxInflightRequests,  \* permits of the handler's admission semaphore
    QueueDepth,           \* MaxQueueDepthPerKey
    MaxBatchSize,         \* x-khone maxBatchSize
    SelectTimer           \* TRUE: the wait loop is a select! (dynamicWait or
                          \* durationWait), FALSE: timeout(idle_ttl, recv())

ASSUME BatchingAssumption ==
    /\ KeyOf \in [Requests -> Keys]
    /\ NoTask \notin Tasks
    /\ MaxInflightRequests \in Nat \ {0}
    /\ QueueDepth \in Nat \ {0}
    /\ MaxBatchSize \in Nat \ {0}
    /\ SelectTimer \in BOOLEAN
    /\ Keys # {}
    /\ IsFiniteSet(Requests)

VARIABLES
    pc,        \* pc[r]: where the handler of r is
    tries,     \* tries[r]: enqueue attempts that found a closed channel
    target,    \* target[r]: the task whose Sender the handler has cloned
    reply,     \* reply[r]: the status returned to the client, or "none"
    permits,   \* free permits of the admission semaphore
    batchers,  \* batchers[k]: the task whose Sender the registry holds
    owner,     \* owner[t]: the key task t was spawned for
    stage,     \* stage[t]: where batcher task t is
    queue,     \* queue[t]: the requests in t's channel
    batch,     \* batch[t]: the batch t is collecting
    work       \* work[t]: what t has flushed and not yet planned

handlerVars == <<pc, tries, target, reply, permits>>
taskVars    == <<owner, stage, queue, batch, work>>

-----------------------------------------------------------------------------
Replies == {"200", "413", "429", "502", "504"}

\* A handler holds an admission permit from "body" to "await".
Enqueueing == {"entry", "try_send", "remove"}
Admitted   == {"body", "await"} \cup Enqueueing

\* Stages of a task that still owns its receiver.
Listening == {"idle", "collect", "flush", "exiting"}

BatchingTypeOK ==
    /\ pc \in [Requests -> {"idle", "done"} \cup Admitted]
    /\ tries \in [Requests -> 0..2]
    /\ target \in [Requests -> Tasks \cup {NoTask}]
    /\ reply \in [Requests -> {"none"} \cup Replies]
    /\ permits \in Nat
    /\ batchers \in [Keys -> Tasks \cup {NoTask}]
    /\ owner \in [Tasks -> Keys]
    /\ stage \in [Tasks -> {"free", "closed"} \cup Listening]
    /\ queue \in [Tasks -> Seq(Requests)]
    /\ batch \in [Tasks -> Seq(Requests)]
    /\ work \in [Tasks -> Seq(Seq(Requests))]

BatchingInit ==
    /\ pc = [r \in Requests |-> "idle"]
    /\ tries = [r \in Requests |-> 0]
    /\ target = [r \in Requests |-> NoTask]
    /\ reply = [r \in Requests |-> "none"]
    /\ permits = MaxInflightRequests
    /\ batchers = [k \in Keys |-> NoTask]
    /\ owner = [t \in Tasks |-> CHOOSE k \in Keys : TRUE]
    /\ stage = [t \in Tasks |-> "free"]
    /\ queue = [t \in Tasks |-> <<>>]
    /\ batch = [t \in Tasks |-> <<>>]
    /\ work = [t \in Tasks |-> <<>>]

-----------------------------------------------------------------------------
(* The handler.                                                            *)

\* The handler returns `code`; its permit is released.
Return(r, code) ==
    /\ pc' = [pc EXCEPT ![r] = "done"]
    /\ reply' = [reply EXCEPT ![r] = code]
    /\ permits' = permits + 1

Admit(r) ==
    /\ pc[r] = "idle"
    /\ permits > 0
    /\ pc' = [pc EXCEPT ![r] = "body"]
    /\ permits' = permits - 1
    /\ UNCHANGED <<slot, tries, target, reply, batchers, taskVars>>

\* Mutant: refuses while one permit is still free.
RefuseEarly(r) ==
    /\ pc[r] = "idle"
    /\ permits <= 1
    /\ pc' = [pc EXCEPT ![r] = "done"]
    /\ reply' = [reply EXCEPT ![r] = "429"]
    /\ UNCHANGED <<slot, tries, target, permits, batchers, taskVars>>

\* No permit: 429 "too many requests".
RefuseAdmission(r) ==
    /\ pc[r] = "idle"
    /\ permits = 0
    /\ pc' = [pc EXCEPT ![r] = "done"]
    /\ reply' = [reply EXCEPT ![r] = "429"]
    /\ UNCHANGED <<slot, tries, target, permits, batchers, taskVars>>

\* The body is read within the limit; the reply channel is created.
ReadBody(r) ==
    /\ pc[r] = "body"
    /\ pc' = [pc EXCEPT ![r] = "entry"]
    /\ slot' = [slot EXCEPT ![r] = "open"]
    /\ UNCHANGED <<tries, target, reply, permits, batchers, taskVars>>

BodyTooLarge(r) ==
    /\ pc[r] = "body"
    /\ Return(r, "413")
    /\ UNCHANGED <<slot, tries, target, batchers, taskVars>>

\* The client goes away while the handler awaits: its future is dropped.
Disconnect(r) ==
    /\ pc[r] \in {"body", "await"}
    /\ pc' = [pc EXCEPT ![r] = "done"]
    /\ permits' = permits + 1
    /\ UNCHANGED <<slot, tries, target, reply, batchers, taskVars>>

Receive(r) ==
    /\ pc[r] = "await"
    /\ slot[r] \in SentCodes
    /\ Return(r, slot[r])
    /\ UNCHANGED <<slot, tries, target, batchers, taskVars>>

\* The sender was destroyed: 502 "dropped response".
ReceiveDropped(r) ==
    /\ pc[r] = "await"
    /\ slot[r] = "dropped"
    /\ Return(r, "502")
    /\ UNCHANGED <<slot, tries, target, batchers, taskVars>>

\* Mutant: the handler returns 504 and keeps its permit.
TimeoutKeepsPermit(r) ==
    /\ pc[r] = "await"
    /\ slot[r] = "open"
    /\ pc' = [pc EXCEPT ![r] = "done"]
    /\ reply' = [reply EXCEPT ![r] = "504"]
    /\ UNCHANGED <<slot, tries, target, permits, batchers, taskVars>>

\* timeout(..) polls the channel before the timer, so the slot is still open.
Timeout(r) ==
    /\ pc[r] = "await"
    /\ slot[r] = "open"
    /\ Return(r, "504")
    /\ UNCHANGED <<slot, tries, target, batchers, taskVars>>

-----------------------------------------------------------------------------
(* BatcherManager::enqueue, called by the handler of r.                    *)

\* No Sender of t's channel is left.
NoSender(t) ==
    /\ \A k \in Keys : batchers[k] # t
    /\ \A r \in Requests : target[r] # t

\* Mutant: the lookup ignores the key's isolation dimensions.
FindAnyBatcher(r) ==
    /\ pc[r] = "entry"
    /\ \E k \in Keys :
         /\ batchers[k] # NoTask
         /\ target' = [target EXCEPT ![r] = batchers[k]]
    /\ pc' = [pc EXCEPT ![r] = "try_send"]
    /\ UNCHANGED <<slot, tries, reply, permits, batchers, taskVars>>

\* batchers.entry(key), occupied: clone the registered Sender.
FindBatcher(r) ==
    /\ pc[r] = "entry"
    /\ batchers[KeyOf[r]] # NoTask
    /\ target' = [target EXCEPT ![r] = batchers[KeyOf[r]]]
    /\ pc' = [pc EXCEPT ![r] = "try_send"]
    /\ UNCHANGED <<slot, tries, reply, permits, batchers, taskVars>>

\* batchers.entry(key), vacant: create the channel and spawn a task.
SpawnBatcher(r, t) ==
    /\ pc[r] = "entry"
    /\ batchers[KeyOf[r]] = NoTask
    /\ stage[t] = "free"
    /\ NoSender(t)
    /\ batchers' = [batchers EXCEPT ![KeyOf[r]] = t]
    /\ owner' = [owner EXCEPT ![t] = KeyOf[r]]
    /\ stage' = [stage EXCEPT ![t] = "idle"]
    /\ target' = [target EXCEPT ![r] = t]
    /\ pc' = [pc EXCEPT ![r] = "try_send"]
    /\ UNCHANGED <<slot, tries, reply, permits, queue, batch, work>>

\* try_send succeeds; the handler drops its Sender and awaits the reply.
Enqueue(r) ==
    LET t == target[r] IN
    /\ pc[r] = "try_send"
    /\ stage[t] \in Listening
    /\ Len(queue[t]) < QueueDepth
    /\ queue' = [queue EXCEPT ![t] = Append(@, r)]
    /\ target' = [target EXCEPT ![r] = NoTask]
    /\ pc' = [pc EXCEPT ![r] = "await"]
    /\ UNCHANGED <<slot, tries, reply, permits, batchers, owner, stage, batch, work>>

\* try_send fails with Full: 429 "queue full".
QueueFull(r) ==
    LET t == target[r] IN
    /\ pc[r] = "try_send"
    /\ stage[t] \in Listening
    /\ Len(queue[t]) >= QueueDepth
    /\ target' = [target EXCEPT ![r] = NoTask]
    /\ DropAll({r})
    /\ Return(r, "429")
    /\ UNCHANGED <<tries, batchers, taskVars>>

\* try_send fails with Closed: the receiver is gone.
FindClosed(r) ==
    /\ pc[r] = "try_send"
    /\ stage[target[r]] \notin Listening
    /\ pc' = [pc EXCEPT ![r] = "remove"]
    /\ tries' = [tries EXCEPT ![r] = @ + 1]
    /\ UNCHANGED <<slot, target, reply, permits, batchers, taskVars>>

\* Mutant: retries for as long as it finds a closed channel.
RetryForever(r) ==
    /\ pc[r] = "remove"
    /\ batchers' = [batchers EXCEPT ![KeyOf[r]] = NoTask]
    /\ target' = [target EXCEPT ![r] = NoTask]
    /\ pc' = [pc EXCEPT ![r] = "entry"]
    /\ UNCHANGED <<slot, reply, permits, tries, taskVars>>

\* batchers.remove(&key), whatever the registry holds for the key by now;
\* then retry once, or give up with 429 "batcher closed".
RemoveStale(r) ==
    /\ pc[r] = "remove"
    /\ batchers' = [batchers EXCEPT ![KeyOf[r]] = NoTask]
    /\ target' = [target EXCEPT ![r] = NoTask]
    /\ \/ /\ tries[r] < 2
          /\ pc' = [pc EXCEPT ![r] = "entry"]
          /\ UNCHANGED <<slot, reply, permits>>
       \/ /\ tries[r] = 2
          /\ DropAll({r})
          /\ Return(r, "429")
    /\ UNCHANGED <<tries, taskVars>>

-----------------------------------------------------------------------------
(* The batcher task t.                                                     *)

\* The idle loop receives the first request of a batch.
RecvFirst(t) ==
    /\ stage[t] = "idle"
    /\ queue[t] # <<>>
    /\ batch' = [batch EXCEPT ![t] = <<Head(queue[t])>>]
    /\ queue' = [queue EXCEPT ![t] = Tail(@)]
    /\ stage' = [stage EXCEPT ![t] = "collect"]
    /\ UNCHANGED <<slot, handlerVars, batchers, owner, work>>

\* Mutant: receives one request past maxBatchSize.
RecvOneTooMany(t) ==
    /\ stage[t] = "collect"
    /\ Len(batch[t]) <= MaxBatchSize
    /\ queue[t] # <<>>
    /\ batch' = [batch EXCEPT ![t] = Append(@, Head(queue[t]))]
    /\ queue' = [queue EXCEPT ![t] = Tail(@)]
    /\ UNCHANGED <<slot, handlerVars, batchers, owner, stage, work>>

RecvMore(t) ==
    /\ stage[t] = "collect"
    /\ Len(batch[t]) < MaxBatchSize
    /\ queue[t] # <<>>
    /\ batch' = [batch EXCEPT ![t] = Append(@, Head(queue[t]))]
    /\ queue' = [queue EXCEPT ![t] = Tail(@)]
    /\ UNCHANGED <<slot, handlerVars, batchers, owner, stage, work>>

\* The batch is full, the flush timer fired, a probe is due (a batch of one)
\* or every Sender is gone: flush_batch starts on the whole batch.
Flush(t) ==
    /\ stage[t] = "collect"
    /\ work' = [work EXCEPT ![t] = <<batch[t]>>]
    /\ batch' = [batch EXCEPT ![t] = <<>>]
    /\ stage' = [stage EXCEPT ![t] = "flush"]
    /\ UNCHANGED <<slot, handlerVars, batchers, owner, queue>>

\* Mutant: a task is not evicted while the registry knows it.
IdleOnlyWhenUnregistered(t) ==
    /\ stage[t] = "idle"
    /\ SelectTimer \/ queue[t] = <<>>
    /\ batchers[owner[t]] # t
    /\ stage' = [stage EXCEPT ![t] = "exiting"]
    /\ UNCHANGED <<slot, handlerVars, batchers, owner, queue, batch, work>>

\* The idle timer fires.  timeout() polls the channel first; select! picks
\* any branch that is ready.
IdleTimeout(t) ==
    /\ stage[t] = "idle"
    /\ SelectTimer \/ queue[t] = <<>>
    /\ stage' = [stage EXCEPT ![t] = "exiting"]
    /\ UNCHANGED <<slot, handlerVars, batchers, owner, queue, batch, work>>

\* recv() returns None: the channel is empty and has no Sender.
RecvNone(t) ==
    /\ stage[t] = "idle"
    /\ queue[t] = <<>>
    /\ NoSender(t)
    /\ stage' = [stage EXCEPT ![t] = "exiting"]
    /\ UNCHANGED <<slot, handlerVars, batchers, owner, queue, batch, work>>

\* The loop function returns: its Receiver is dropped with what it holds.
DropReceiver(t) ==
    /\ stage[t] = "exiting"
    /\ DropAll(ToSet(queue[t]))
    /\ queue' = [queue EXCEPT ![t] = <<>>]
    /\ stage' = [stage EXCEPT ![t] = "closed"]
    /\ UNCHANGED <<handlerVars, batchers, owner, batch, work>>

\* Mutant: the task ends and leaves its entry in the registry.
LeaveEntry(t) ==
    /\ stage[t] = "closed"
    /\ stage' = [stage EXCEPT ![t] = "free"]
    /\ UNCHANGED <<slot, handlerVars, batchers, owner, queue, batch, work>>

\* batchers.remove(&key), whatever the registry holds for the key by now.
Unregister(t) ==
    /\ stage[t] = "closed"
    /\ batchers' = [batchers EXCEPT ![owner[t]] = NoTask]
    /\ stage' = [stage EXCEPT ![t] = "free"]
    /\ UNCHANGED <<slot, handlerVars, owner, queue, batch, work>>

-----------------------------------------------------------------------------
HandlerStep(r) ==
    \/ Admit(r) \/ RefuseAdmission(r) \/ ReadBody(r) \/ BodyTooLarge(r)
    \/ Disconnect(r) \/ Receive(r) \/ ReceiveDropped(r) \/ Timeout(r)

EnqueueStep(r) ==
    \/ FindBatcher(r) \/ (\E t \in Tasks : SpawnBatcher(r, t)) \/ Enqueue(r)
    \/ QueueFull(r) \/ FindClosed(r) \/ RemoveStale(r)

TaskStep(t) ==
    \/ RecvFirst(t) \/ RecvMore(t) \/ Flush(t) \/ IdleTimeout(t)
    \/ RecvNone(t) \/ DropReceiver(t) \/ Unregister(t)
=============================================================================
