-------------------------- MODULE GatewayKeysProofs --------------------------
(***************************************************************************)
(* The registry of batcher tasks, the isolation of batch keys, the places  *)
(* of reply senders and the permits of invocations, for every set of       *)
(* requests, keys and tasks, and every value of the limits.                *)
(***************************************************************************)
EXTENDS GatewayProofs

-----------------------------------------------------------------------------
(* Senders, tasks and keys.                                                *)

\* A handler that is about to use, or to replace, a Sender has one.
HasTarget == \A r \in Requests : pc[r] \in {"try_send", "remove"} => target[r] \in Tasks

\* A cloned Sender of a live task leads to a task of the handler's key.
TargetKey ==
    \A r \in Requests : \A t \in Tasks :
        target[r] = t /\ stage[t] # "free" => owner[t] = KeyOf[r]

\* A finished task has nothing queued.
FinishedEmpty == \A t \in Tasks : stage[t] \in {"free", "closed"} => queue[t] = <<>>

RouteInv == RegistrySound /\ HasTarget /\ TargetKey /\ FinishedEmpty

LEMMA RouteInit == Init => RouteInv
BY BatchingAssumption
   DEF Init, BatchingInit, RouteInv, RegistrySound, HasTarget, TargetKey, FinishedEmpty

\* Steps that leave the registry, the owners and the tasks' stages alone and
\* at most drop a Sender.
LEMMA RouteKept ==
    ASSUME TypeInv, RouteInv, NEW r \in Requests,
           NEW p \in {"idle", "body", "entry", "await", "done"},
           pc' = [pc EXCEPT ![r] = p],
           target' = target \/ target' = [target EXCEPT ![r] = NoTask],
           batchers' = batchers \/ batchers' = [batchers EXCEPT ![KeyOf[r]] = NoTask],
           UNCHANGED taskVars
    PROVE  RouteInv'
<1> USE BatchingAssumption DEF TypeInv, TypeOK, BatchingTypeOK, RouteInv, taskVars
<1>1. RegistrySound'
  BY DEF RegistrySound
<1>2. HasTarget'
  BY DEF HasTarget
<1>3. TargetKey'
  BY DEF TargetKey
<1>4. FinishedEmpty'
  BY DEF FinishedEmpty
<1> QED
  BY <1>1, <1>2, <1>3, <1>4

LEMMA RouteHandlerStep ==
    ASSUME TypeInv, RouteInv, NEW r \in Requests, HandlerStep(r)
    PROVE  RouteInv'
<1>1. \E p \in {"idle", "body", "entry", "await", "done"} : pc' = [pc EXCEPT ![r] = p]
  BY DEF HandlerStep, Admit, RefuseAdmission, ReadBody, BodyTooLarge, Disconnect, Receive,
         ReceiveDropped, Timeout, Return
<1>2. target' = target /\ batchers' = batchers /\ UNCHANGED taskVars
  BY DEF HandlerStep, Admit, RefuseAdmission, ReadBody, BodyTooLarge, Disconnect, Receive,
         ReceiveDropped, Timeout, Return
<1> QED
  BY <1>1, <1>2, RouteKept

LEMMA RouteEnqueueStep ==
    ASSUME TypeInv, RouteInv, NEW r \in Requests, EnqueueStep(r)
    PROVE  RouteInv'
<1> USE BatchingAssumption DEF TypeInv, TypeOK, BatchingTypeOK, RouteInv
<1>1. CASE FindBatcher(r)
  <2>1. /\ batchers[KeyOf[r]] \in Tasks
        /\ target' = [target EXCEPT ![r] = batchers[KeyOf[r]]]
        /\ pc' = [pc EXCEPT ![r] = "try_send"]
        /\ UNCHANGED <<batchers, owner, stage, queue>>
    BY <1>1 DEF FindBatcher, taskVars
  <2>2. owner[batchers[KeyOf[r]]] = KeyOf[r]
    BY <2>1 DEF RegistrySound
  <2>3. HasTarget' /\ TargetKey'
    BY <2>1, <2>2 DEF HasTarget, TargetKey
  <2> QED
    BY <2>1, <2>3 DEF RegistrySound, FinishedEmpty
<1>2. ASSUME NEW t \in Tasks, SpawnBatcher(r, t)
      PROVE  RouteInv'
  <2>1. /\ stage[t] = "free" /\ NoSender(t)
        /\ batchers' = [batchers EXCEPT ![KeyOf[r]] = t]
        /\ owner' = [owner EXCEPT ![t] = KeyOf[r]]
        /\ stage' = [stage EXCEPT ![t] = "idle"]
        /\ target' = [target EXCEPT ![r] = t]
        /\ pc' = [pc EXCEPT ![r] = "try_send"]
        /\ queue' = queue
    BY <1>2 DEF SpawnBatcher
  <2>2. RegistrySound'
    BY <2>1 DEF RegistrySound, NoSender
  <2>3. HasTarget'
    BY <2>1 DEF HasTarget
  <2>4. TargetKey'
    BY <2>1 DEF TargetKey, NoSender
  <2>5. FinishedEmpty'
    BY <2>1 DEF FinishedEmpty
  <2> QED
    BY <2>2, <2>3, <2>4, <2>5
<1>3. CASE Enqueue(r)
  <2> DEFINE t == target[r]
  <2>1. /\ t \in Tasks /\ stage[t] \in Listening
        /\ queue' = [queue EXCEPT ![t] = Append(@, r)]
        /\ target' = [target EXCEPT ![r] = NoTask]
        /\ pc' = [pc EXCEPT ![r] = "await"]
        /\ UNCHANGED <<batchers, owner, stage>>
    BY <1>3 DEF Enqueue, HasTarget
  <2>2. FinishedEmpty'
    BY <2>1 DEF FinishedEmpty, Listening
  <2>3. HasTarget' /\ TargetKey'
    BY <2>1 DEF HasTarget, TargetKey
  <2> QED
    BY <2>1, <2>2, <2>3 DEF RegistrySound
<1>4. CASE QueueFull(r)
  BY <1>4, RouteKept DEF QueueFull, Return
<1>5. CASE FindClosed(r)
  <2>1. /\ pc[r] = "try_send" /\ pc' = [pc EXCEPT ![r] = "remove"]
        /\ UNCHANGED <<target, batchers, owner, stage, queue>>
    BY <1>5 DEF FindClosed, taskVars
  <2> QED
    BY <2>1 DEF RegistrySound, HasTarget, TargetKey, FinishedEmpty
<1>6. CASE RemoveStale(r)
  <2>1. \E p \in {"entry", "done"} : pc' = [pc EXCEPT ![r] = p]
    BY <1>6 DEF RemoveStale, Return
  <2> QED
    BY <1>6, <2>1, RouteKept DEF RemoveStale
<1> QED
  BY <1>1, <1>2, <1>3, <1>4, <1>5, <1>6 DEF EnqueueStep

\* Task and flush steps keep the handlers and the owners; only Unregister
\* changes the registry, and no task starts.
LEMMA RouteTaskStep ==
    ASSUME TypeInv, RouteInv, NEW t \in Tasks, TaskStep(t) \/ FlushStep(t)
    PROVE  RouteInv'
<1> USE BatchingAssumption DEF TypeInv, TypeOK, BatchingTypeOK, RouteInv
<1>1. /\ UNCHANGED <<pc, target, owner>>
      /\ stage[t] # "free"
      /\ stage' = stage \/ \E s \in Listening \cup {"closed", "free"} : stage' = [stage EXCEPT ![t] = s]
  BY DEF TaskStep, RecvFirst, RecvMore, Flush, IdleTimeout, RecvNone, DropReceiver, Unregister,
         FlushStep, SplitSegment, FailOversized, SubmitSegment, RejectSegment, NextSegment,
         handlerVars, Listening
<1>2. HasTarget' /\ TargetKey'
  BY <1>1 DEF HasTarget, TargetKey
<1>3. RegistrySound'
  <2>1. CASE Unregister(t)
    <3>1. /\ batchers' = [batchers EXCEPT ![owner[t]] = NoTask]
          /\ stage' = [stage EXCEPT ![t] = "free"]
      BY <2>1 DEF Unregister
    <3> QED
      BY <1>1, <3>1 DEF RegistrySound
  <2>2. CASE ~ Unregister(t)
    <3>1. batchers' = batchers /\ \A u \in Tasks : stage'[u] = "free" => stage[u] = "free"
      BY <2>2 DEF TaskStep, RecvFirst, RecvMore, Flush, IdleTimeout, RecvNone, DropReceiver,
             FlushStep, SplitSegment, FailOversized, SubmitSegment, RejectSegment, NextSegment
    <3> QED
      BY <1>1, <3>1 DEF RegistrySound
  <2> QED
    BY <2>1, <2>2
<1>4. FinishedEmpty'
  <2>1. CASE DropReceiver(t)
    BY <2>1 DEF DropReceiver, FinishedEmpty
  <2>2. CASE Unregister(t)
    BY <2>2 DEF Unregister, FinishedEmpty
  <2>3. CASE RecvFirst(t) \/ RecvMore(t)
    BY <2>3 DEF RecvFirst, RecvMore, FinishedEmpty
  <2>4. CASE Flush(t) \/ IdleTimeout(t) \/ RecvNone(t) \/ FlushStep(t)
    BY <2>4 DEF Flush, IdleTimeout, RecvNone, FlushStep, SplitSegment, FailOversized,
           SubmitSegment, RejectSegment, NextSegment, FinishedEmpty
  <2> QED
    BY <2>1, <2>2, <2>3, <2>4 DEF TaskStep
<1> QED
  BY <1>2, <1>3, <1>4

LEMMA RouteNext == TypeInv /\ RouteInv /\ [Next]_vars => RouteInv'
<1> SUFFICES ASSUME TypeInv, RouteInv, [Next]_vars PROVE RouteInv'
  OBVIOUS
<1>1. CASE \E r \in Requests : HandlerStep(r) \/ EnqueueStep(r)
  BY <1>1, RouteHandlerStep, RouteEnqueueStep
<1>2. CASE \E t \in Tasks : TaskStep(t) \/ FlushStep(t)
  BY <1>2, RouteTaskStep
<1>3. CASE UNCHANGED <<handlerVars, batchers, taskVars>>
  BY <1>3 DEF handlerVars, taskVars, RouteInv, RegistrySound, HasTarget, TargetKey, FinishedEmpty
<1> QED
  BY <1>1, <1>2, <1>3 DEF Next, Quiescent, vars

LEMMA RouteInvariant == Spec => []RouteInv
BY RouteInit, RouteNext, TypeInvariant, PTL DEF Spec

\* Whatever evictions and retries remove from the registry, an entry leads
\* to a task of its key that has not finished.
THEOREM RegistryIsSound == Spec => []RegistrySound
<1>1. RouteInv => RegistrySound
  BY DEF RouteInv
<1> QED
  BY <1>1, RouteInvariant, PTL

-----------------------------------------------------------------------------
(* Isolation.                                                              *)

TasksIsolated == \A t \in Tasks : \A r \in InTask(t) : KeyOf[r] = owner[t]

OneKey(j) == \A r1, r2 \in j : KeyOf[r1] = KeyOf[r2]

JobsIsolated ==
    /\ \A n \in DOMAIN jobs : OneKey(jobs[n])
    /\ OneKey(held)
    /\ \A j \in running : OneKey(j)

\* Requests enter the hands of a task only through its queue.
LEMMA InTaskHandlerStep ==
    ASSUME TypeInv, RouteInv, NEW r \in Requests, HandlerStep(r) \/ EnqueueStep(r)
    PROVE  TasksIsolated => TasksIsolated'
<1> USE DEF TypeInv, TypeOK, BatchingTypeOK, RouteInv
<1> SUFFICES ASSUME TasksIsolated PROVE TasksIsolated'
  OBVIOUS
<1>1. ASSUME NEW t \in Tasks, SpawnBatcher(r, t)
      PROVE  TasksIsolated'
  <2>1. /\ stage[t] = "free"
        /\ owner' = [owner EXCEPT ![t] = KeyOf[r]]
        /\ queue' = queue /\ batch' = batch /\ work' = work
    BY <1>1 DEF SpawnBatcher
  <2>2. queue[t] = <<>> /\ batch[t] = <<>> /\ work[t] = <<>>
    BY <2>1 DEF FinishedEmpty, BatchesBounded
  <2>3. InTask(t)' = {}
    BY <2>1, <2>2, ToSetFacts, ElementsFacts DEF InTask
  <2>4. \A u \in Tasks \ {t} : InTask(u)' = InTask(u) /\ owner'[u] = owner[u]
    BY <2>1 DEF InTask
  <2> QED
    BY <2>3, <2>4 DEF TasksIsolated
<1>2. CASE Enqueue(r)
  <2> DEFINE t == target[r]
  <2>1. /\ t \in Tasks /\ stage[t] \in Listening
        /\ queue' = [queue EXCEPT ![t] = Append(@, r)]
        /\ owner' = owner /\ batch' = batch /\ work' = work
    BY <1>2 DEF Enqueue, HasTarget
  <2>2. owner[t] = KeyOf[r]
    BY <2>1 DEF TargetKey, Listening
  <2>3. ToSet(queue'[t]) = ToSet(queue[t]) \cup {r}
    BY <2>1, ToSetFacts
  <2>4. \A u \in Tasks : InTask(u)' = IF u = t THEN InTask(u) \cup {r} ELSE InTask(u)
    <3>1. \A u \in Tasks \ {t} : queue'[u] = queue[u]
      BY <2>1
    <3> QED
      BY <2>1, <2>3, <3>1 DEF InTask
  <2> HIDE DEF t
  <2>5. ASSUME NEW u \in Tasks, NEW q \in InTask(u)' PROVE KeyOf[q] = owner'[u]
    <3>1. CASE u = t /\ q = r
      BY <2>1, <2>2, <3>1
    <3>2. CASE q \in InTask(u)
      BY <2>1, <3>2 DEF TasksIsolated
    <3> QED
      BY <2>4, <2>5, <3>1, <3>2
  <2> QED
    BY <2>5 DEF TasksIsolated
<1>3. CASE UNCHANGED taskVars
  BY <1>3 DEF taskVars, TasksIsolated, InTask
<1> QED
  BY <1>1, <1>2, <1>3 DEF HandlerStep, Admit, RefuseAdmission, ReadBody, BodyTooLarge, Disconnect,
     Receive, ReceiveDropped, Timeout, EnqueueStep, FindBatcher, QueueFull, FindClosed, RemoveStale

\* A task hands what it holds on from queue to batch to worklist, and takes
\* in nothing else.
LEMMA InTaskTaskStep ==
    ASSUME TypeInv, NEW t \in Tasks, TaskStep(t) \/ FlushStep(t)
    PROVE  owner' = owner /\ \A u \in Tasks : InTask(u)' \subseteq InTask(u)
<1> USE DEF TypeInv, TypeOK, BatchingTypeOK
<1>1. owner' = owner
  BY DEF TaskStep, RecvFirst, RecvMore, Flush, IdleTimeout, RecvNone, DropReceiver, Unregister,
         FlushStep, SplitSegment, FailOversized, SubmitSegment, RejectSegment, NextSegment
<1>2. \A u \in Tasks \ {t} :
         queue'[u] = queue[u] /\ batch'[u] = batch[u] /\ work'[u] = work[u]
  BY DEF TaskStep, RecvFirst, RecvMore, Flush, IdleTimeout, RecvNone, DropReceiver, Unregister,
         FlushStep, SplitSegment, FailOversized, SubmitSegment, RejectSegment, NextSegment
<1>3. InTask(t)' \subseteq InTask(t)
  <2>1. CASE RecvFirst(t)
    <3>1. /\ queue[t] # <<>> /\ queue'[t] = Tail(queue[t])
          /\ batch'[t] = <<Head(queue[t])>> /\ work'[t] = work[t]
      BY <2>1 DEF RecvFirst
    <3> QED
      BY <3>1, ToSetFacts DEF InTask
  <2>2. CASE RecvMore(t)
    <3>1. /\ queue[t] # <<>> /\ queue'[t] = Tail(queue[t])
          /\ batch'[t] = Append(batch[t], Head(queue[t])) /\ work'[t] = work[t]
      BY <2>2 DEF RecvMore
    <3>2. Head(queue[t]) \in Requests
      BY <3>1
    <3>3. ToSet(batch'[t]) = ToSet(batch[t]) \cup {Head(queue[t])}
      <4>1. batch[t] \in Seq(Requests)
        OBVIOUS
      <4> QED
        BY <3>1, <3>2, <4>1, ToSetFacts
    <3>4. Head(queue[t]) \in ToSet(queue[t]) /\ ToSet(queue'[t]) \subseteq ToSet(queue[t])
      BY <3>1, ToSetFacts
    <3> DEFINE q == queue[t]
                qn == queue'[t]
                b == batch[t]
                bn == batch'[t]
    <3>5. ToSet(bn) \cup ToSet(qn) \subseteq ToSet(b) \cup ToSet(q)
      BY <3>3, <3>4
    <3>6. Elements(work'[t]) = Elements(work[t])
      BY <3>1
    <3> HIDE DEF q, qn, b, bn
    <3>7. /\ InTask(t) = ToSet(q) \cup ToSet(b) \cup Elements(work[t])
          /\ InTask(t)' = ToSet(qn) \cup ToSet(bn) \cup Elements(work'[t])
      BY DEF InTask, q, qn, b, bn
    <3> QED
      BY <3>5, <3>6, <3>7
  <2>3. CASE Flush(t)
    <3>1. queue'[t] = queue[t] /\ batch'[t] = <<>> /\ work'[t] = <<batch[t]>>
      BY <2>3 DEF Flush
    <3>2. Elements(work'[t]) = ToSet(batch[t])
      BY <3>1, ElementsFacts
    <3> QED
      BY <3>1, <3>2, ToSetFacts DEF InTask
  <2>4. CASE DropReceiver(t)
    <3>1. queue'[t] = <<>> /\ batch'[t] = batch[t] /\ work'[t] = work[t]
      BY <2>4 DEF DropReceiver
    <3> QED
      BY <3>1, ToSetFacts DEF InTask
  <2>5. CASE IdleTimeout(t) \/ RecvNone(t) \/ Unregister(t)
    BY <2>5 DEF IdleTimeout, RecvNone, Unregister, InTask
  <2>6. CASE FlushStep(t)
    <3>1. queue'[t] = queue[t] /\ batch'[t] = batch[t] /\ stage[t] = "flush"
      BY <2>6 DEF FlushStep, SplitSegment, FailOversized, SubmitSegment, RejectSegment,
                  NextSegment
    <3>2. \/ work'[t] = Tail(work[t])
          \/ /\ work'[t] = <<LeftHalf(Head(work[t])), RightHalf(Head(work[t]))>> \o Tail(work[t])
             /\ Len(Head(work[t])) > 1
      BY <2>6 DEF FlushStep, SplitSegment, FailOversized, SubmitSegment, RejectSegment,
                  NextSegment
    <3>3. work[t] \in Seq(Seq(Requests)) /\ work[t] # <<>>
      BY <3>1 DEF BatchesBounded
    <3>4. Elements(work'[t]) \subseteq Elements(work[t])
      BY <3>2, <3>3, ElementsFacts
    <3> QED
      BY <3>1, <3>4 DEF InTask
  <2> QED
    BY <2>1, <2>2, <2>3, <2>4, <2>5, <2>6 DEF TaskStep
<1>4. \A u \in Tasks \ {t} : InTask(u)' \subseteq InTask(u)
  BY <1>2 DEF InTask
<1> QED
  BY <1>1, <1>3, <1>4

\* A job is made of the requests of one segment of one task.
LEMMA JobsNext ==
    ASSUME TypeInv, [Next]_vars, TasksIsolated, JobsIsolated
    PROVE  JobsIsolated'
<1> USE DEF TypeInv, TypeOK, InvocationTypeOK
<1>1. ASSUME NEW t \in Tasks, SubmitSegment(t)
      PROVE  JobsIsolated'
  <2> DEFINE j == ToSet(Head(work[t]))
  <2>1. /\ jobs' = Append(jobs, j) /\ held' = held /\ running' = running
        /\ stage[t] = "flush"
    BY <1>1 DEF SubmitSegment, SubmitJob, NextSegment
  <2>2. work[t] \in Seq(Seq(Requests)) /\ work[t] # <<>>
    BY <2>1 DEF BatchesBounded, BatchingTypeOK
  <2>3. j \subseteq InTask(t)
    BY <2>2, ElementsFacts DEF InTask
  <2>4. OneKey(j)
    BY <2>3 DEF TasksIsolated, OneKey
  <2> HIDE DEF j
  <2>5. \A n \in DOMAIN jobs' : OneKey(jobs'[n])
    <3>1. /\ DOMAIN jobs' = 1..(Len(jobs) + 1) /\ DOMAIN jobs = 1..Len(jobs)
          /\ Len(jobs) \in Nat
          /\ jobs'[Len(jobs) + 1] = j
          /\ \A n \in 1..Len(jobs) : jobs'[n] = jobs[n]
      BY <2>1
    <3>2. \A n \in 1..(Len(jobs) + 1) : n \in 1..Len(jobs) \/ n = Len(jobs) + 1
      BY <3>1
    <3> QED
      BY <2>4, <3>1, <3>2 DEF JobsIsolated
  <2> QED
    BY <2>1, <2>5 DEF JobsIsolated
<1>2. CASE DispatcherRecv
  <2>1. /\ jobs # <<>> /\ held' = jobs[1] /\ jobs' = Tail(jobs) /\ running' = running
    BY <1>2 DEF DispatcherRecv
  <2>2. \A n \in DOMAIN jobs' : jobs'[n] = jobs[n + 1] /\ n + 1 \in DOMAIN jobs
    BY <2>1
  <2>3. 1 \in DOMAIN jobs
    BY <2>1
  <2> QED
    BY <2>1, <2>2, <2>3 DEF JobsIsolated
<1>3. CASE SpawnJob
  <2>1. jobs' = jobs /\ running' = running \cup {held} /\ held' = {}
    BY <1>3 DEF SpawnJob, NoJob
  <2> QED
    BY <2>1 DEF JobsIsolated, OneKey
<1>4. ASSUME jobs' = jobs, held' = held, running' \subseteq running
      PROVE  JobsIsolated'
  BY <1>4 DEF JobsIsolated
<1>5. CASE InvocationStep
  BY <1>2, <1>3, <1>4, <1>5 DEF InvocationStep, JobResponds, JobFails
<1>6. CASE UNCHANGED invocationVars
  BY <1>4, <1>6 DEF invocationVars
<1>7. ASSUME NEW t \in Tasks, FlushStep(t)
      PROVE  JobsIsolated'
  BY <1>1, <1>6, <1>7 DEF FlushStep, SplitSegment, FailOversized, RejectSegment, RejectJob,
                          invocationVars
<1> QED
  BY <1>5, <1>6, <1>7 DEF Next, Quiescent, vars

LEMMA TasksNext == TypeInv /\ RouteInv /\ TasksIsolated /\ [Next]_vars => TasksIsolated'
<1> SUFFICES ASSUME TypeInv, RouteInv, TasksIsolated, [Next]_vars PROVE TasksIsolated'
  OBVIOUS
<1>1. CASE \E r \in Requests : HandlerStep(r) \/ EnqueueStep(r)
  BY <1>1, InTaskHandlerStep
<1>2. CASE \E t \in Tasks : TaskStep(t) \/ FlushStep(t)
  BY <1>2, InTaskTaskStep DEF TasksIsolated
<1>3. CASE UNCHANGED <<handlerVars, batchers, taskVars>>
  BY <1>3 DEF taskVars, TasksIsolated, InTask
<1> QED
  BY <1>1, <1>2, <1>3 DEF Next, Quiescent, vars

\* Requests of different batch keys never meet in a batcher task or in an
\* invocation, whatever the interleaving of enqueues, evictions and retries.
THEOREM BatchesAreIsolated == Spec => []BatchIsolation
<1> DEFINE Inv == TasksIsolated /\ JobsIsolated
<1>1. Init => Inv
  <2> SUFFICES ASSUME Init PROVE Inv
    OBVIOUS
  <2>1. \A t \in Tasks : InTask(t) = {}
    BY ToSetFacts, ElementsFacts DEF Init, BatchingInit, InTask
  <2> QED
    BY <2>1 DEF Init, InvocationInit, NoJob, TasksIsolated, JobsIsolated, OneKey
<1>2. TypeInv /\ RouteInv /\ Inv /\ [Next]_vars => Inv'
  BY TasksNext, JobsNext
<1>3. TypeInv /\ Inv => BatchIsolation
  BY DEF TypeInv, TypeOK, InvocationTypeOK, BatchIsolation, TasksIsolated, JobsIsolated, OneKey,
         ToSet
<1> QED
  BY <1>1, <1>2, <1>3, TypeInvariant, RouteInvariant, PTL DEF Spec

-----------------------------------------------------------------------------
(* The places of the senders.                                              *)

\* The request r is in the invocation stage.
InCall(r) ==
    \/ \E n \in DOMAIN jobs : r \in jobs[n]
    \/ r \in held
    \/ \E j \in running : r \in j

\* Nobody is twice in the hands of task t.
TaskDistinct(t) ==
    /\ NoRepeat(queue[t]) /\ NoRepeat(batch[t]) /\ Flat(work[t])
    /\ ToSet(queue[t]) \cap (ToSet(batch[t]) \cup Elements(work[t])) = {}

CallsDistinct ==
    /\ \A m, n \in DOMAIN jobs : m # n => jobs[m] \cap jobs[n] = {}
    /\ \A n \in DOMAIN jobs : jobs[n] \cap held = {}
    /\ \A n \in DOMAIN jobs : \A j \in running : jobs[n] \cap j = {}
    /\ \A j \in running : j \cap held = {}
    /\ \A j, k \in running : j # k => j \cap k = {}

\* The sender of r is with its handler, with a task, or in the invocation
\* stage; while it is alive it is in one of them, and only in one.
PlaceOf(r) ==
    /\ slot[r] = "open" <=> pc[r] \in Enqueueing \/ InCall(r) \/ \E t \in Tasks : r \in InTask(t)
    /\ pc[r] \in {"idle", "body"} => slot[r] = "none"
    /\ pc[r] \in Enqueueing => ~ InCall(r) /\ \A t \in Tasks : r \notin InTask(t)
    /\ \A t \in Tasks : r \in InTask(t) => ~ InCall(r) /\ \A u \in Tasks \ {t} : r \notin InTask(u)

SenderInv ==
    /\ \A r \in Requests : PlaceOf(r)
    /\ \A t \in Tasks : TaskDistinct(t)
    /\ CallsDistinct

LEMMA SenderInit == Init => SenderInv
<1> SUFFICES ASSUME Init PROVE SenderInv
  OBVIOUS
<1>1. /\ jobs = <<>> /\ held = {} /\ running = {}
      /\ slot = [r \in Requests |-> "none"] /\ pc = [r \in Requests |-> "idle"]
      /\ \A t \in Tasks : queue[t] = <<>> /\ batch[t] = <<>> /\ work[t] = <<>>
  BY DEF Init, SlotInit, BatchingInit, InvocationInit, NoJob
<1>2. \A t \in Tasks : InTask(t) = {} /\ TaskDistinct(t)
  BY <1>1, ToSetFacts, ElementsFacts DEF InTask, TaskDistinct, NoRepeat, Flat
<1>3. CallsDistinct /\ \A r \in Requests : ~ InCall(r)
  BY <1>1 DEF CallsDistinct, InCall
<1> QED
  BY <1>1, <1>2, <1>3 DEF SenderInv, PlaceOf, Enqueueing

\* Tasks and invocations keep what they have.
TasksKeep == UNCHANGED <<queue, batch, work>>
CallsKeep == UNCHANGED <<jobs, held, running>>

LEMMA KeepFacts ==
    /\ TasksKeep => \A t \in Tasks : InTask(t)' = InTask(t) /\ (TaskDistinct(t) => TaskDistinct(t)')
    /\ CallsKeep => (CallsDistinct => CallsDistinct') /\ \A r \in Requests : InCall(r)' <=> InCall(r)
<1>1. TasksKeep => \A t \in Tasks : InTask(t)' = InTask(t) /\ (TaskDistinct(t) => TaskDistinct(t)')
  BY Zenon DEF TasksKeep, InTask, TaskDistinct
<1>2. CallsKeep => (CallsDistinct => CallsDistinct') /\ \A r \in Requests : InCall(r)' <=> InCall(r)
  BY Zenon DEF CallsKeep, CallsDistinct, InCall
<1> QED
  BY <1>1, <1>2

\* A step of a handler, or of a task, that moves no sender.
LEMMA SenderUnmoved ==
    ASSUME SenderInv, TasksKeep, CallsKeep, slot' = slot,
           \A r \in Requests : /\ pc'[r] \in Enqueueing <=> pc[r] \in Enqueueing
                               /\ pc'[r] \in {"idle", "body"} => pc[r] \in {"idle", "body"}
    PROVE  SenderInv'
<1>1. \A r \in Requests : PlaceOf(r)'
  BY KeepFacts DEF SenderInv, PlaceOf
<1> QED
  BY <1>1, KeepFacts DEF SenderInv

\* The handler of r creates its sender, or drops it.
LEMMA SenderAtHandler ==
    ASSUME SenderInv, TypeOK, TasksKeep, CallsKeep, NEW r \in Requests,
           \A s \in Requests \ {r} : slot'[s] = slot[s] /\ pc'[s] = pc[s],
           \/ pc[r] = "body" /\ pc'[r] = "entry" /\ slot'[r] = "open"
           \/ pc[r] \in Enqueueing /\ pc'[r] = "done" /\ slot'[r] # "open"
    PROVE  SenderInv'
<1>0. /\ \A s \in Requests : InCall(s)' <=> InCall(s)
      /\ \A t \in Tasks : InTask(t)' = InTask(t)
  BY KeepFacts, Zenon
<1>1. ASSUME NEW s \in Requests \ {r} PROVE PlaceOf(s)'
  <2>1. PlaceOf(s) /\ slot'[s] = slot[s] /\ pc'[s] = pc[s]
    BY DEF SenderInv
  <2> QED
    BY <1>0, <2>1 DEF PlaceOf
<1>2. ~ InCall(r)' /\ \A t \in Tasks : r \notin InTask(t)'
  <2>1. pc[r] \in {"idle", "body"} \/ pc[r] \in Enqueueing
    OBVIOUS
  <2>2. ~ InCall(r) /\ \A t \in Tasks : r \notin InTask(t)
    BY <2>1 DEF SenderInv, PlaceOf
  <2> QED
    BY <1>0, <2>2, Zenon
<1>3. ASSUME pc[r] = "body" /\ pc'[r] = "entry" /\ slot'[r] = "open" PROVE PlaceOf(r)'
  <2>1. pc'[r] \in Enqueueing /\ pc'[r] \notin {"idle", "body"}
    BY <1>3 DEF Enqueueing
  <2> QED
    BY <1>2, <1>3, <2>1, Zenon DEF PlaceOf
<1>4. ASSUME pc[r] \in Enqueueing /\ pc'[r] = "done" /\ slot'[r] # "open" PROVE PlaceOf(r)'
  <2>1. pc'[r] \notin Enqueueing /\ pc'[r] \notin {"idle", "body"}
    BY <1>4 DEF Enqueueing
  <2> QED
    BY <1>2, <1>4, <2>1, Zenon DEF PlaceOf
<1>5. PlaceOf(r)'
  BY <1>3, <1>4
<1> QED
  BY <1>1, <1>5, KeepFacts DEF SenderInv

LEMMA SenderHandlerStep ==
    ASSUME TypeInv, SenderInv, NEW r \in Requests, HandlerStep(r), UNCHANGED invocationVars
    PROVE  SenderInv'
<1>0. /\ pc \in [Requests -> {"idle", "done"} \cup Admitted] /\ slot \in [Requests -> SlotValues]
      /\ CallsKeep /\ TypeOK
  BY DEF TypeInv, TypeOK, SlotTypeOK, BatchingTypeOK, CallsKeep, invocationVars
<1>1. TasksKeep
  BY Zenon DEF HandlerStep, Admit, RefuseAdmission, ReadBody, BodyTooLarge, Disconnect, Receive,
               ReceiveDropped, Timeout, taskVars, TasksKeep
<1>2. CASE ReadBody(r)
  <2>1. /\ pc[r] = "body" /\ pc' = [pc EXCEPT ![r] = "entry"] /\ slot' = [slot EXCEPT ![r] = "open"]
    BY <1>2 DEF ReadBody
  <2>2. /\ pc'[r] = "entry" /\ slot'[r] = "open"
        /\ \A s \in Requests \ {r} : slot'[s] = slot[s] /\ pc'[s] = pc[s]
    BY <1>0, <2>1
  <2> QED
    BY <1>0, <1>1, <2>1, <2>2, SenderAtHandler
<1>3. CASE HandlerStep(r) /\ ~ ReadBody(r)
  <2>1. slot' = slot
    BY <1>3, Zenon DEF HandlerStep, Admit, RefuseAdmission, BodyTooLarge, Disconnect, Receive,
                       ReceiveDropped, Timeout
  <2>2. \/ pc[r] = "idle" /\ pc' = [pc EXCEPT ![r] = "body"]
        \/ pc[r] \in {"idle", "body", "await"} /\ pc' = [pc EXCEPT ![r] = "done"]
    BY <1>3 DEF HandlerStep, Admit, RefuseAdmission, BodyTooLarge, Disconnect, Receive,
                ReceiveDropped, Timeout, Return
  <2>3. \A s \in Requests : /\ pc'[s] \in Enqueueing <=> pc[s] \in Enqueueing
                            /\ pc'[s] \in {"idle", "body"} => pc[s] \in {"idle", "body"}
    BY <1>0, <2>2 DEF Enqueueing
  <2> QED
    BY <1>0, <1>1, <2>1, <2>3, SenderUnmoved
<1> QED
  BY <1>2, <1>3

\* The request r goes from its handler into the queue of a task.
LEMMA SenderEnqueue ==
    ASSUME TypeInv, RouteInv, SenderInv, NEW r \in Requests, Enqueue(r), UNCHANGED invocationVars
    PROVE  SenderInv'
<1>0. /\ CallsKeep
      /\ pc \in [Requests -> {"idle", "done"} \cup Admitted] /\ slot \in [Requests -> SlotValues]
      /\ queue \in [Tasks -> Seq(Requests)]
  BY DEF TypeInv, TypeOK, SlotTypeOK, BatchingTypeOK, CallsKeep, invocationVars
<1>t. PICK t \in Tasks : t = target[r]
  BY DEF Enqueue, RouteInv, HasTarget
<1>1. /\ pc[r] = "try_send" /\ slot' = slot
      /\ pc' = [pc EXCEPT ![r] = "await"]
      /\ queue' = [queue EXCEPT ![t] = Append(@, r)]
      /\ batch' = batch /\ work' = work
  BY <1>t DEF Enqueue
<1>2. ~ InCall(r) /\ slot[r] = "open" /\ \A u \in Tasks : r \notin InTask(u)
  BY <1>1 DEF SenderInv, PlaceOf, Enqueueing
<1>3. /\ queue'[t] = Append(queue[t], r) /\ queue[t] \in Seq(Requests)
      /\ \A u \in Tasks \ {t} : queue'[u] = queue[u]
  BY <1>0, <1>1
<1>4. ToSet(queue'[t]) = ToSet(queue[t]) \cup {r}
  BY <1>3, ToSetFacts
<1>5. InTask(t)' = InTask(t) \cup {r} /\ \A u \in Tasks \ {t} : InTask(u)' = InTask(u)
  BY <1>1, <1>3, <1>4 DEF InTask
<1>6. \A u \in Tasks : TaskDistinct(u)'
  <2>1. \A u \in Tasks \ {t} : TaskDistinct(u)'
    BY <1>1, <1>3 DEF SenderInv, TaskDistinct
  <2>2. r \notin ToSet(queue[t]) /\ r \notin ToSet(batch[t]) /\ r \notin Elements(work[t])
    BY <1>1, <1>2 DEF InTask
  <2>3. NoRepeat(queue'[t])
    BY <1>1, <1>3, <2>2, NoRepeatFacts DEF SenderInv, TaskDistinct
  <2>4. TaskDistinct(t)'
    BY <1>1, <1>4, <2>2, <2>3 DEF SenderInv, TaskDistinct
  <2> QED
    BY <2>1, <2>4
<1>7. CallsDistinct' /\ \A s \in Requests : InCall(s)' <=> InCall(s)
  BY <1>0, KeepFacts DEF SenderInv
<1>8. ASSUME NEW s \in Requests \ {r} PROVE PlaceOf(s)'
  <2>1. PlaceOf(s) /\ slot'[s] = slot[s] /\ pc'[s] = pc[s]
    BY <1>0, <1>1 DEF SenderInv
  <2>2. \A u \in Tasks : s \in InTask(u)' <=> s \in InTask(u)
    BY <1>5
  <2> QED
    BY <1>7, <2>1, <2>2 DEF PlaceOf
<1>9. PlaceOf(r)'
  <2>1. pc'[r] = "await" /\ slot'[r] = "open" /\ ~ InCall(r)'
    BY <1>0, <1>1, <1>2, <1>7
  <2>2. r \in InTask(t)' /\ \A u \in Tasks \ {t} : r \notin InTask(u)'
    BY <1>2, <1>5
  <2>3. pc'[r] \notin Enqueueing /\ pc'[r] \notin {"idle", "body"}
    BY <2>1 DEF Enqueueing
  <2> QED
    BY <1>1, <2>1, <2>2, <2>3 DEF PlaceOf
<1> QED
  BY <1>6, <1>7, <1>8, <1>9 DEF SenderInv

LEMMA SenderEnqueueStep ==
    ASSUME TypeInv, RouteInv, SenderInv, NEW r \in Requests, EnqueueStep(r),
           UNCHANGED invocationVars
    PROVE  SenderInv'
<1>0. /\ pc \in [Requests -> {"idle", "done"} \cup Admitted] /\ slot \in [Requests -> SlotValues]
      /\ CallsKeep /\ TypeOK
  BY DEF TypeInv, TypeOK, SlotTypeOK, BatchingTypeOK, CallsKeep, invocationVars
<1>1. ASSUME TasksKeep, slot' = slot, pc[r] \in Enqueueing, NEW p \in Enqueueing,
             pc' = [pc EXCEPT ![r] = p]
      PROVE  SenderInv'
  <2>1. \A s \in Requests : /\ pc'[s] \in Enqueueing <=> pc[s] \in Enqueueing
                            /\ pc'[s] \in {"idle", "body"} => pc[s] \in {"idle", "body"}
    BY <1>0, <1>1 DEF Enqueueing
  <2> QED
    BY <1>0, <1>1, <2>1, SenderUnmoved
<1>2. ASSUME TasksKeep, DropAll({r}), pc[r] \in Enqueueing, pc' = [pc EXCEPT ![r] = "done"]
      PROVE  SenderInv'
  <2>1. /\ pc'[r] = "done" /\ slot'[r] # "open"
        /\ \A s \in Requests \ {r} : slot'[s] = slot[s] /\ pc'[s] = pc[s]
    BY <1>0, <1>2 DEF DropAll, SendAll
  <2> QED
    BY <1>0, <1>2, <2>1, SenderAtHandler
<1>3. CASE FindBatcher(r) \/ FindClosed(r) \/ \E t \in Tasks : SpawnBatcher(r, t)
  <2>1. TasksKeep /\ slot' = slot
    BY <1>3, Zenon DEF FindBatcher, FindClosed, SpawnBatcher, taskVars, TasksKeep
  <2>2. pc[r] \in Enqueueing /\ \E p \in Enqueueing : pc' = [pc EXCEPT ![r] = p]
    BY <1>3 DEF FindBatcher, FindClosed, SpawnBatcher, Enqueueing
  <2> QED
    BY <1>1, <2>1, <2>2
<1>4. CASE QueueFull(r)
  <2>1. TasksKeep /\ DropAll({r})
    BY <1>4, Zenon DEF QueueFull, taskVars, TasksKeep
  <2>2. pc[r] \in Enqueueing /\ pc' = [pc EXCEPT ![r] = "done"]
    BY <1>4 DEF QueueFull, Return, Enqueueing
  <2> QED
    BY <1>2, <2>1, <2>2
<1>5. CASE RemoveStale(r)
  <2>1. TasksKeep /\ pc[r] \in Enqueueing
    BY <1>5 DEF RemoveStale, taskVars, TasksKeep, Enqueueing
  <2>2. \/ slot' = slot /\ pc' = [pc EXCEPT ![r] = "entry"]
        \/ DropAll({r}) /\ pc' = [pc EXCEPT ![r] = "done"]
    BY <1>5 DEF RemoveStale, Return
  <2>3. "entry" \in Enqueueing
    BY DEF Enqueueing
  <2> QED
    BY <1>1, <1>2, <2>1, <2>2, <2>3
<1> QED
  BY <1>3, <1>4, <1>5, SenderEnqueue DEF EnqueueStep


\* What a step of task t takes out of its hands loses its sender, or is
\* nothing.
LEMMA SenderTaskEffect ==
    ASSUME TypeInv, SenderInv, NEW t \in Tasks, NEW S \in SUBSET InTask(t), CallsKeep, pc' = pc,
           \A u \in Tasks \ {t} : queue'[u] = queue[u] /\ batch'[u] = batch[u] /\ work'[u] = work[u],
           TaskDistinct(t)', InTask(t)' = InTask(t) \ S,
           \A r \in Requests : IF r \in S THEN slot'[r] # "open" ELSE slot'[r] = slot[r]
    PROVE  SenderInv'
<1>1. \A u \in Tasks \ {t} : InTask(u)' = InTask(u) /\ TaskDistinct(u)'
  BY DEF SenderInv, InTask, TaskDistinct
<1>2. CallsDistinct' /\ \A r \in Requests : InCall(r)' <=> InCall(r)
  BY KeepFacts DEF SenderInv
<1>3. ASSUME NEW r \in Requests, r \notin S PROVE PlaceOf(r)'
  <2>1. PlaceOf(r) /\ slot'[r] = slot[r] /\ pc'[r] = pc[r]
    BY <1>3 DEF SenderInv
  <2>2. \A u \in Tasks : r \in InTask(u)' <=> r \in InTask(u)
    BY <1>1, <1>3
  <2> QED
    BY <1>2, <2>1, <2>2 DEF PlaceOf
<1>4. ASSUME NEW r \in Requests, r \in S PROVE PlaceOf(r)'
  <2>1. PlaceOf(r) /\ r \in InTask(t) /\ slot'[r] # "open" /\ pc'[r] = pc[r]
    BY <1>4 DEF SenderInv
  <2>2. slot[r] = "open" /\ ~ InCall(r) /\ \A u \in Tasks \ {t} : r \notin InTask(u)
    BY <2>1 DEF PlaceOf
  <2>3. pc[r] \notin {"idle", "body"} /\ pc[r] \notin Enqueueing
    BY <2>1, <2>2 DEF PlaceOf
  <2>4. \A u \in Tasks : r \notin InTask(u)'
    BY <1>1, <1>4, <2>2
  <2> QED
    BY <1>2, <2>1, <2>2, <2>3, <2>4 DEF PlaceOf
<1> QED
  BY <1>1, <1>2, <1>3, <1>4 DEF SenderInv

LEMMA SenderTaskStep ==
    ASSUME TypeInv, SenderInv, NEW t \in Tasks, TaskStep(t), UNCHANGED invocationVars
    PROVE  SenderInv'
<1>0. /\ queue[t] \in Seq(Requests) /\ batch[t] \in Seq(Requests) /\ work[t] \in Seq(Seq(Requests))
      /\ queue \in [Tasks -> Seq(Requests)] /\ batch \in [Tasks -> Seq(Requests)]
      /\ work \in [Tasks -> Seq(Seq(Requests))]
      /\ slot \in [Requests -> SlotValues]
      /\ CallsKeep
  BY DEF TypeInv, TypeOK, SlotTypeOK, BatchingTypeOK, CallsKeep, invocationVars
<1>1. pc' = pc
  BY Zenon DEF TaskStep, RecvFirst, RecvMore, Flush, IdleTimeout, RecvNone, DropReceiver, Unregister,
               handlerVars
<1>2. \A u \in Tasks \ {t} : queue'[u] = queue[u] /\ batch'[u] = batch[u] /\ work'[u] = work[u]
  BY <1>0 DEF TaskStep, RecvFirst, RecvMore, Flush, IdleTimeout, RecvNone, DropReceiver, Unregister
<1>3. /\ NoRepeat(queue[t]) /\ NoRepeat(batch[t]) /\ Flat(work[t])
      /\ ToSet(queue[t]) \cap (ToSet(batch[t]) \cup Elements(work[t])) = {}
      /\ InTask(t) = ToSet(queue[t]) \cup ToSet(batch[t]) \cup Elements(work[t])
  BY DEF SenderInv, TaskDistinct, InTask
<1>4. ASSUME NEW q, NEW b, NEW w, queue'[t] = q, batch'[t] = b, work'[t] = w,
             NoRepeat(q), NoRepeat(b), Flat(w), ToSet(q) \cap (ToSet(b) \cup Elements(w)) = {},
             NEW S \in SUBSET InTask(t), ToSet(q) \cup ToSet(b) \cup Elements(w) = InTask(t) \ S,
             \A r \in Requests : IF r \in S THEN slot'[r] # "open" ELSE slot'[r] = slot[r]
      PROVE  SenderInv'
  <2>1. TaskDistinct(t)' /\ InTask(t)' = InTask(t) \ S
    BY <1>4 DEF TaskDistinct, InTask
  <2> QED
    BY <1>0, <1>1, <1>2, <1>4, <2>1, SenderTaskEffect
<1>5. ASSUME NEW q, NEW b, NEW w, queue'[t] = q, batch'[t] = b, work'[t] = w,
             NoRepeat(q), NoRepeat(b), Flat(w), ToSet(q) \cap (ToSet(b) \cup Elements(w)) = {},
             ToSet(q) \cup ToSet(b) \cup Elements(w) = InTask(t), slot' = slot
      PROVE  SenderInv'
  <2>1. {} \in SUBSET InTask(t) /\ InTask(t) \ {} = InTask(t)
    OBVIOUS
  <2> QED
    BY <1>4, <1>5, <2>1
<1>6. CASE RecvFirst(t) \/ RecvMore(t)
  <2> DEFINE h == Head(queue[t])
  <2>1. /\ queue[t] # <<>> /\ slot' = slot
        /\ queue'[t] = Tail(queue[t]) /\ work'[t] = work[t]
        /\ batch'[t] = <<h>> \/ batch'[t] = Append(batch[t], h)
        /\ RecvFirst(t) => stage[t] = "idle" /\ batch'[t] = <<h>>
        /\ RecvMore(t) => batch'[t] = Append(batch[t], h)
    BY <1>0, <1>6 DEF RecvFirst, RecvMore
  <2>2. /\ NoRepeat(Tail(queue[t])) /\ h \in ToSet(queue[t])
        /\ ToSet(Tail(queue[t])) = ToSet(queue[t]) \ {h}
    BY <1>0, <1>3, <2>1, NoRepeatFacts
  <2>3. h \in Requests
    BY <1>0, <2>1
  <2> HIDE DEF h
  <2>4. h \notin ToSet(batch[t]) /\ h \notin Elements(work[t])
    BY <1>3, <2>2
  <2>5. NoRepeat(batch'[t]) /\ ToSet(batch'[t]) = ToSet(batch[t]) \cup {h}
    <3>1. CASE RecvMore(t)
      <4>1. batch'[t] = Append(batch[t], h) /\ batch[t] \in Seq(Requests) /\ NoRepeat(batch[t])
        BY <1>0, <1>3, <2>1, <3>1
      <4>2. ToSet(Append(batch[t], h)) = ToSet(batch[t]) \cup {h}
        BY <2>3, <4>1, ToSetFacts
      <4>3. NoRepeat(Append(batch[t], h))
        BY <2>3, <2>4, <4>1, NoRepeatFacts
      <4> QED
        BY <4>1, <4>2, <4>3
    <3>2. CASE RecvFirst(t)
      <4>1. batch[t] = <<>>
        BY <2>1, <3>2 DEF TypeInv, BatchesBounded
      <4>2. NoRepeat(<<h>>)
        BY DEF NoRepeat
      <4> QED
        BY <2>1, <3>2, <4>1, <4>2, ToSetFacts
    <3> QED
      BY <1>6, <3>1, <3>2
  <2>6. ToSet(Tail(queue[t])) \cap (ToSet(batch'[t]) \cup Elements(work[t])) = {}
    BY <1>3, <2>2, <2>5
  <2>7. ToSet(Tail(queue[t])) \cup ToSet(batch'[t]) \cup Elements(work[t]) = InTask(t)
    BY <1>3, <2>2, <2>5
  <2> QED
    BY <1>3, <1>5, <2>1, <2>2, <2>5, <2>6, <2>7
<1>7. CASE Flush(t)
  <2>1. queue'[t] = queue[t] /\ batch'[t] = <<>> /\ work'[t] = <<batch[t]>> /\ slot' = slot
    BY <1>0, <1>7 DEF Flush
  <2>2. work[t] = <<>>
    BY <1>7 DEF Flush, TypeInv, BatchesBounded
  <2>3. /\ Elements(<<batch[t]>>) = ToSet(batch[t]) /\ Elements(work[t]) = {} /\ ToSet(<<>>) = {}
    BY <1>0, <2>2, ToSetFacts, ElementsFacts
  <2>4. NoRepeat(<<>>) /\ Flat(<<batch[t]>>)
    BY <1>3 DEF NoRepeat, Flat
  <2>5. ToSet(queue[t]) \cap (ToSet(<<>>) \cup Elements(<<batch[t]>>)) = {}
    BY <1>3, <2>3
  <2>6. ToSet(queue[t]) \cup ToSet(<<>>) \cup Elements(<<batch[t]>>) = InTask(t)
    BY <1>3, <2>3
  <2> QED
    BY <1>3, <1>5, <2>1, <2>4, <2>5, <2>6
<1>8. CASE DropReceiver(t)
  <2>1. queue'[t] = <<>> /\ batch'[t] = batch[t] /\ work'[t] = work[t] /\ DropAll(ToSet(queue[t]))
    BY <1>0, <1>8 DEF DropReceiver
  <2>2. \A r \in Requests :
           IF r \in ToSet(queue[t]) THEN slot'[r] # "open" ELSE slot'[r] = slot[r]
    BY <2>1 DEF DropAll, SendAll
  <2>3. NoRepeat(<<>>) /\ ToSet(<<>>) = {}
    BY ToSetFacts DEF NoRepeat
  <2>4. ToSet(<<>>) \cap (ToSet(batch[t]) \cup Elements(work[t])) = {}
    BY <2>3
  <2>5. ToSet(<<>>) \cup ToSet(batch[t]) \cup Elements(work[t]) = InTask(t) \ ToSet(queue[t])
    BY <1>3, <2>3
  <2>6. ToSet(queue[t]) \in SUBSET InTask(t)
    BY <1>3
  <2> QED
    BY <1>3, <1>4, <2>1, <2>2, <2>3, <2>4, <2>5, <2>6
<1>9. CASE IdleTimeout(t) \/ RecvNone(t) \/ Unregister(t)
  <2>1. queue'[t] = queue[t] /\ batch'[t] = batch[t] /\ work'[t] = work[t] /\ slot' = slot
    BY <1>9, Zenon DEF IdleTimeout, RecvNone, Unregister
  <2> QED
    BY <1>3, <1>5, <2>1
<1> QED
  BY <1>6, <1>7, <1>8, <1>9 DEF TaskStep


\* A segment goes from the hands of task t into the job channel.
LEMMA SenderSubmit ==
    ASSUME TypeInv, SenderInv, NEW t \in Tasks, NEW S \in SUBSET InTask(t), S \subseteq Requests,
           SubmitJob(S), pc' = pc,
           \A u \in Tasks \ {t} : queue'[u] = queue[u] /\ batch'[u] = batch[u] /\ work'[u] = work[u],
           TaskDistinct(t)', InTask(t)' = InTask(t) \ S
    PROVE  SenderInv'
<1>1. /\ jobs \in Seq(Jobs) /\ jobs' = Append(jobs, S) /\ UNCHANGED <<slot, held, running>>
  BY DEF SubmitJob, TypeInv, TypeOK, InvocationTypeOK
<1>2. /\ DOMAIN jobs = 1..Len(jobs) /\ Len(jobs) \in Nat
      /\ DOMAIN jobs' = 1..(Len(jobs) + 1) /\ jobs'[Len(jobs) + 1] = S
      /\ \A n \in 1..Len(jobs) : jobs'[n] = jobs[n] /\ n \in DOMAIN jobs'
  BY <1>1
<1>3. \A n \in DOMAIN jobs' : n = Len(jobs) + 1 \/ n \in DOMAIN jobs
  BY <1>2
<1>4. \A r \in Requests : InCall(r)' <=> InCall(r) \/ r \in S
  <2>1. ASSUME NEW r \in Requests, InCall(r)' PROVE InCall(r) \/ r \in S
    BY <1>1, <1>2, <1>3, <2>1 DEF InCall
  <2>2. ASSUME NEW r \in Requests, InCall(r) PROVE InCall(r)'
    BY <1>1, <1>2, <2>2 DEF InCall
  <2>3. ASSUME NEW r \in Requests, r \in S PROVE InCall(r)'
    <3>1. Len(jobs) + 1 \in DOMAIN jobs'
      BY <1>2
    <3> QED
      BY <1>2, <2>3, <3>1 DEF InCall
  <2> QED
    BY <2>1, <2>2, <2>3
<1>5. \A r \in S : PlaceOf(r) /\ ~ InCall(r) /\ r \in InTask(t)
  BY DEF SenderInv, PlaceOf
<1>6. CallsDistinct'
  <2>1. /\ \A n \in DOMAIN jobs : jobs[n] \cap S = {}
        /\ held \cap S = {} /\ \A j \in running : j \cap S = {}
    BY <1>5 DEF InCall
  <2>2. \A m, n \in DOMAIN jobs' : m # n => jobs'[m] \cap jobs'[n] = {}
    <3> SUFFICES ASSUME NEW m \in DOMAIN jobs', NEW n \in DOMAIN jobs', m # n
                 PROVE  jobs'[m] \cap jobs'[n] = {}
      OBVIOUS
    <3>1. CASE m \in DOMAIN jobs /\ n \in DOMAIN jobs
      BY <1>2, <3>1 DEF SenderInv, CallsDistinct
    <3>2. CASE m \in DOMAIN jobs /\ n = Len(jobs) + 1
      BY <1>2, <2>1, <3>2
    <3>3. CASE m = Len(jobs) + 1 /\ n \in DOMAIN jobs
      BY <1>2, <2>1, <3>3
    <3> QED
      BY <1>3, <3>1, <3>2, <3>3
  <2>3. \A n \in DOMAIN jobs' : jobs'[n] \cap held = {} /\ \A j \in running : jobs'[n] \cap j = {}
    BY <1>2, <1>3, <2>1 DEF SenderInv, CallsDistinct
  <2> QED
    BY <1>1, <2>2, <2>3 DEF SenderInv, CallsDistinct
<1>7. \A u \in Tasks \ {t} : InTask(u)' = InTask(u) /\ TaskDistinct(u)'
  BY DEF SenderInv, InTask, TaskDistinct
<1>8. ASSUME NEW r \in Requests, r \notin S PROVE PlaceOf(r)'
  <2>1. PlaceOf(r) /\ slot'[r] = slot[r] /\ pc'[r] = pc[r]
    BY <1>1 DEF SenderInv
  <2>2. \A u \in Tasks : r \in InTask(u)' <=> r \in InTask(u)
    BY <1>7, <1>8
  <2> QED
    BY <1>4, <1>8, <2>1, <2>2 DEF PlaceOf
<1>9. ASSUME NEW r \in Requests, r \in S PROVE PlaceOf(r)'
  <2>1. PlaceOf(r) /\ slot'[r] = slot[r] /\ pc'[r] = pc[r] /\ r \in InTask(t)
    BY <1>1, <1>5, <1>9
  <2>2. /\ slot[r] = "open" /\ pc[r] \notin {"idle", "body"} /\ pc[r] \notin Enqueueing
        /\ \A u \in Tasks \ {t} : r \notin InTask(u)
    BY <2>1 DEF PlaceOf
  <2>3. InCall(r)' /\ \A u \in Tasks : r \notin InTask(u)'
    BY <1>4, <1>7, <1>9, <2>2
  <2> QED
    BY <2>1, <2>2, <2>3 DEF PlaceOf
<1> QED
  BY <1>6, <1>7, <1>8, <1>9 DEF SenderInv

LEMMA SenderFlushStep ==
    ASSUME TypeInv, SenderInv, NEW t \in Tasks, FlushStep(t)
    PROVE  SenderInv'
<1> DEFINE w == work[t]
           S == ToSet(Head(w))
<1>0. /\ w \in Seq(Seq(Requests)) /\ work \in [Tasks -> Seq(Seq(Requests))]
      /\ slot \in [Requests -> SlotValues]
  BY DEF TypeInv, TypeOK, SlotTypeOK, BatchingTypeOK
<1>1. /\ stage[t] = "flush" /\ pc' = pc /\ queue' = queue /\ batch' = batch
  BY DEF FlushStep, SplitSegment, FailOversized, SubmitSegment, RejectSegment, NextSegment,
         handlerVars
<1>2. w # <<>> /\ batch[t] = <<>>
  BY <1>1 DEF TypeInv, BatchesBounded
<1>3. /\ NoRepeat(queue[t]) /\ NoRepeat(batch[t]) /\ Flat(w)
      /\ ToSet(queue[t]) \cap Elements(w) = {} /\ ToSet(batch[t]) = {}
      /\ InTask(t) = ToSet(queue[t]) \cup Elements(w)
  BY <1>2, ToSetFacts DEF SenderInv, TaskDistinct, InTask
<1>4. /\ S \subseteq Elements(w) /\ Flat(Tail(w)) /\ Elements(Tail(w)) = Elements(w) \ S
      /\ S \subseteq InTask(t)
  <2>1. S \subseteq Elements(w) /\ Flat(Tail(w)) /\ Elements(Tail(w)) = Elements(w) \ S
    BY <1>0, <1>2, <1>3, FlatFacts
  <2> QED
    BY <1>3, <2>1
<1>5. S \subseteq Requests
  <2>1. Head(w) \in Seq(Requests)
    BY <1>0, <1>2, HeadTailProperties
  <2> QED
    BY <2>1 DEF ToSet
<1> HIDE DEF S
<1>6. ASSUME NextSegment(t)
      PROVE  /\ TaskDistinct(t)' /\ InTask(t)' = InTask(t) \ S
             /\ \A u \in Tasks \ {t} : work'[u] = work[u]
  <2>1. work' = [work EXCEPT ![t] = Tail(w)]
    BY <1>6 DEF NextSegment
  <2>2. work'[t] = Tail(w) /\ \A u \in Tasks \ {t} : work'[u] = work[u]
    BY <1>0, <2>1
  <2>3. ToSet(queue[t]) \cup ToSet(batch[t]) \cup Elements(Tail(w)) = InTask(t) \ S
    BY <1>3, <1>4
  <2>4. ToSet(queue[t]) \cap (ToSet(batch[t]) \cup Elements(Tail(w))) = {}
    BY <1>3, <1>4
  <2>5. TaskDistinct(t)'
    BY <1>1, <1>3, <1>4, <2>2, <2>4 DEF TaskDistinct
  <2>6. InTask(t)' = InTask(t) \ S
    BY <1>1, <2>2, <2>3 DEF InTask
  <2> QED
    BY <2>2, <2>5, <2>6
<1>7. CASE SplitSegment(t)
  <2> DEFINE v == <<LeftHalf(Head(w)), RightHalf(Head(w))>> \o Tail(w)
  <2>1. work' = [work EXCEPT ![t] = v] /\ Len(Head(w)) > 1 /\ slot' = slot /\ CallsKeep
    BY <1>7 DEF SplitSegment, invocationVars, CallsKeep
  <2>2. Flat(v) /\ Elements(v) = Elements(w)
    BY <1>0, <1>2, <1>3, <2>1, FlatFacts
  <2> HIDE DEF v
  <2>3. work'[t] = v /\ \A u \in Tasks \ {t} : work'[u] = work[u]
    BY <1>0, <2>1
  <2>4. TaskDistinct(t)' /\ InTask(t)' = InTask(t) \ {}
    BY <1>1, <1>3, <2>2, <2>3 DEF TaskDistinct, InTask
  <2>5. {} \in SUBSET InTask(t)
    OBVIOUS
  <2> QED
    BY <1>1, <2>1, <2>3, <2>4, <2>5, SenderTaskEffect
<1>8. ASSUME NextSegment(t), NEW code \in {"502", "429"}, SendAll(S, code), CallsKeep
      PROVE  SenderInv'
  <2>1. \A r \in Requests : IF r \in S THEN slot'[r] # "open" ELSE slot'[r] = slot[r]
    BY <1>8 DEF SendAll
  <2>2. S \in SUBSET InTask(t)
    BY <1>4
  <2> QED
    BY <1>1, <1>6, <1>8, <2>1, <2>2, SenderTaskEffect
<1>9. CASE FailOversized(t)
  <2>1. NextSegment(t) /\ SendAll(S, "502") /\ CallsKeep
    BY <1>9 DEF FailOversized, invocationVars, CallsKeep, S
  <2> QED
    BY <1>8, <2>1
<1>10. CASE RejectSegment(t)
  <2>1. NextSegment(t) /\ SendAll(S, "429") /\ CallsKeep
    BY <1>10 DEF RejectSegment, RejectJob, invocationVars, CallsKeep, S
  <2> QED
    BY <1>8, <2>1
<1>11. CASE SubmitSegment(t)
  <2>1. NextSegment(t) /\ SubmitJob(S)
    BY <1>11 DEF SubmitSegment, S
  <2>2. S \in SUBSET InTask(t)
    BY <1>4
  <2> QED
    BY <1>1, <1>5, <1>6, <2>1, <2>2, SenderSubmit
<1> QED
  BY <1>7, <1>9, <1>10, <1>11 DEF FlushStep

\* The requests that leave the invocation stage lose their senders.
LEMMA SenderCallEffect ==
    ASSUME SenderInv, TasksKeep, pc' = pc, CallsDistinct', NEW S,
           \A r \in Requests : r \in S => InCall(r),
           \A r \in Requests : InCall(r)' <=> InCall(r) /\ r \notin S,
           \A r \in Requests : IF r \in S THEN slot'[r] # "open" ELSE slot'[r] = slot[r]
    PROVE  SenderInv'
<1>1. \A t \in Tasks : InTask(t)' = InTask(t) /\ TaskDistinct(t)'
  BY KeepFacts DEF SenderInv
<1>2. ASSUME NEW r \in Requests, r \notin S PROVE PlaceOf(r)'
  <2>1. PlaceOf(r) /\ slot'[r] = slot[r] /\ pc'[r] = pc[r] /\ (InCall(r)' <=> InCall(r))
    BY <1>2 DEF SenderInv
  <2>2. \A t \in Tasks : r \in InTask(t)' <=> r \in InTask(t)
    BY <1>1
  <2> QED
    BY <2>1, <2>2 DEF PlaceOf
<1>3. ASSUME NEW r \in Requests, r \in S PROVE PlaceOf(r)'
  <2>1. PlaceOf(r) /\ slot'[r] # "open" /\ pc'[r] = pc[r] /\ ~ InCall(r)' /\ InCall(r)
    BY <1>3 DEF SenderInv
  <2>2. /\ slot[r] = "open" /\ pc[r] \notin Enqueueing /\ pc[r] \notin {"idle", "body"}
        /\ \A t \in Tasks : r \notin InTask(t)
    BY <2>1 DEF PlaceOf
  <2>3. \A t \in Tasks : r \notin InTask(t)'
    BY <1>1, <2>2
  <2> QED
    BY <2>1, <2>2, <2>3 DEF PlaceOf
<1> QED
  BY <1>1, <1>2, <1>3 DEF SenderInv

LEMMA SenderInvocationStep ==
    ASSUME TypeInv, SenderInv, InvocationStep, UNCHANGED <<handlerVars, batchers, taskVars>>
    PROVE  SenderInv'
<1>0. /\ jobs \in Seq(Jobs) /\ held \in SUBSET Requests /\ running \in SUBSET Jobs
      /\ slot \in [Requests -> SlotValues] /\ CallsDistinct
      /\ TasksKeep /\ pc' = pc
  BY DEF TypeInv, TypeOK, InvocationTypeOK, SlotTypeOK, SenderInv, TasksKeep, taskVars, handlerVars
<1>1. ASSUME slot' = slot, CallsDistinct', \A r \in Requests : InCall(r)' <=> InCall(r)
      PROVE  SenderInv'
  <2>1. PICK S : S = {}
    OBVIOUS
  <2>2. /\ \A r \in Requests : r \in S => InCall(r)
        /\ \A r \in Requests : IF r \in S THEN slot'[r] # "open" ELSE slot'[r] = slot[r]
    BY <1>1, <2>1
  <2>3. \A r \in Requests : InCall(r)' <=> InCall(r) /\ r \notin S
    BY <1>1, <2>1
  <2> QED
    BY <1>0, <1>1, <2>2, <2>3, SenderCallEffect
<1>2. CASE DispatcherRecv
  <2>1. /\ held = {} /\ jobs # <<>> /\ held' = Head(jobs) /\ jobs' = Tail(jobs)
        /\ slot' = slot /\ running' = running
    BY <1>2 DEF DispatcherRecv, NoJob
  <2>2. /\ Len(jobs) \in Nat /\ DOMAIN jobs = 1..Len(jobs) /\ 1 \in DOMAIN jobs
        /\ held' = jobs[1]
        /\ DOMAIN jobs' = 1..(Len(jobs) - 1)
        /\ \A n \in DOMAIN jobs' : jobs'[n] = jobs[n + 1] /\ n + 1 \in DOMAIN jobs /\ n + 1 # 1
    BY <1>0, <2>1
  <2>3. \A n \in DOMAIN jobs : n = 1 \/ (n - 1 \in DOMAIN jobs' /\ jobs'[n - 1] = jobs[n])
    BY <2>2
  <2>4. \A r \in Requests : InCall(r)' <=> InCall(r)
    <3>1. ASSUME NEW r \in Requests, InCall(r) PROVE InCall(r)'
      BY <2>1, <2>2, <2>3, <3>1 DEF InCall
    <3>2. ASSUME NEW r \in Requests, InCall(r)' PROVE InCall(r)
      BY <2>1, <2>2, <3>2 DEF InCall
    <3> QED
      BY <3>1, <3>2
  <2>5. \A m, n \in DOMAIN jobs' : m # n => jobs'[m] \cap jobs'[n] = {}
    <3> SUFFICES ASSUME NEW m \in DOMAIN jobs', NEW n \in DOMAIN jobs', m # n
                 PROVE  jobs'[m] \cap jobs'[n] = {}
      OBVIOUS
    <3>1. m + 1 # n + 1 /\ m + 1 \in DOMAIN jobs /\ n + 1 \in DOMAIN jobs
      BY <2>2
    <3>2. jobs[m + 1] \cap jobs[n + 1] = {}
      BY <1>0, <3>1 DEF CallsDistinct
    <3> QED
      BY <2>2, <3>2
  <2>6. \A n \in DOMAIN jobs' : /\ jobs'[n] \cap held' = {}
                                /\ \A j \in running : jobs'[n] \cap j = {}
    BY <1>0, <2>2 DEF CallsDistinct
  <2>7. \A j \in running : j \cap held' = {}
    BY <1>0, <2>2 DEF CallsDistinct
  <2>8. CallsDistinct'
    BY <1>0, <2>1, <2>5, <2>6, <2>7 DEF CallsDistinct
  <2> QED
    BY <1>1, <2>1, <2>4, <2>8
<1>3. CASE SpawnJob
  <2>1. /\ running' = running \cup {held} /\ held' = {} /\ slot' = slot /\ jobs' = jobs
    BY <1>3 DEF SpawnJob, NoJob
  <2>2. \A r \in Requests : InCall(r)' <=> InCall(r)
    BY <2>1 DEF InCall
  <2>3. CallsDistinct'
    BY <1>0, <2>1 DEF CallsDistinct
  <2> QED
    BY <1>1, <2>1, <2>2, <2>3
<1>4. ASSUME NEW j \in running, JobResponds(j) \/ JobFails(j) PROVE SenderInv'
  <2>1. running' = running \ {j} /\ jobs' = jobs /\ held' = held
    BY <1>4 DEF JobResponds, JobFails
  <2>2. \A r \in Requests : IF r \in j THEN slot'[r] # "open" ELSE slot'[r] = slot[r]
    <3>1. CASE JobFails(j)
      BY <3>1 DEF JobFails, SendAll
    <3>2. CASE JobResponds(j)
      BY <3>2 DEF JobResponds, SendResponses
    <3> QED
      BY <1>4, <3>1, <3>2
  <2>3. CallsDistinct'
    BY <1>0, <2>1 DEF CallsDistinct
  <2>4. \A r \in Requests : r \in j => InCall(r)
    BY <1>4 DEF InCall
  <2>5. \A r \in Requests : r \in j => ~ InCall(r)'
    BY <1>0, <1>4, <2>1 DEF InCall, CallsDistinct
  <2>6. \A r \in Requests : r \notin j => (InCall(r)' <=> InCall(r))
    BY <2>1 DEF InCall
  <2> QED
    BY <1>0, <2>2, <2>3, <2>4, <2>5, <2>6, SenderCallEffect
<1> QED
  BY <1>2, <1>3, <1>4 DEF InvocationStep

LEMMA SenderNext == TypeInv /\ RouteInv /\ SenderInv /\ [Next]_vars => SenderInv'
<1> SUFFICES ASSUME TypeInv, RouteInv, SenderInv, [Next]_vars PROVE SenderInv'
  OBVIOUS
<1>1. ASSUME NEW r \in Requests, HandlerStep(r) \/ EnqueueStep(r), UNCHANGED invocationVars
      PROVE  SenderInv'
  BY <1>1, SenderHandlerStep, SenderEnqueueStep
<1>2. ASSUME NEW t \in Tasks, TaskStep(t), UNCHANGED invocationVars PROVE SenderInv'
  BY <1>2, SenderTaskStep
<1>3. ASSUME NEW t \in Tasks, FlushStep(t) PROVE SenderInv'
  BY <1>3, SenderFlushStep
<1>4. CASE InvocationStep /\ UNCHANGED <<handlerVars, batchers, taskVars>>
  BY <1>4, SenderInvocationStep
<1>5. CASE UNCHANGED vars
  <2>1. TasksKeep /\ CallsKeep /\ slot' = slot /\ pc' = pc
    BY <1>5 DEF vars, taskVars, handlerVars, invocationVars, TasksKeep, CallsKeep
  <2> QED
    BY <2>1, SenderUnmoved
<1> QED
  BY <1>1, <1>2, <1>3, <1>4, <1>5 DEF Next, Quiescent

LEMMA SenderInvariant == Spec => []SenderInv
<1> QED
  BY SenderInit, SenderNext, TypeInvariant, RouteInvariant, PTL DEF Spec

\* The places where r may be in the hands of task t, and in the invocation
\* stage.
TaskPlace(r, t, h) ==
    \/ \E i \in DOMAIN queue[t] : queue[t][i] = r /\ h = <<"queue", t, i>>
    \/ \E i \in DOMAIN batch[t] : batch[t][i] = r /\ h = <<"batch", t, i>>
    \/ \E n \in DOMAIN work[t] : \E i \in DOMAIN work[t][n] :
          work[t][n][i] = r /\ h = <<"work", t, n, i>>

CallPlace(r, h) ==
    \/ \E n \in DOMAIN jobs : r \in jobs[n] /\ h = <<"jobs", n>>
    \/ r \in held /\ h = <<"held", held>>
    \/ \E j \in running : r \in j /\ h = <<"running", j>>

LEMMA HoldersAre ==
    ASSUME TypeOK, NEW r \in Requests, NEW h
    PROVE  h \in Holders(r) <=> \/ pc[r] \in Enqueueing /\ h = <<"handler", pc[r]>>
                                \/ \E t \in Tasks : TaskPlace(r, t, h)
                                \/ CallPlace(r, h)
<1> DEFINE AtHandler == {<<"handler", p>> : p \in Enqueueing \cap {pc[r]}}
           InQueue   == UNION {{<<"queue", t, i>> : i \in At(r, queue[t])} : t \in Tasks}
           InBatch   == UNION {{<<"batch", t, i>> : i \in At(r, batch[t])} : t \in Tasks}
           InWork    == UNION {UNION {{<<"work", t, n, i>> : i \in At(r, work[t][n])}
                                        : n \in DOMAIN work[t]} : t \in Tasks}
           InJobs    == {<<"jobs", i>> : i \in {n \in DOMAIN jobs : r \in jobs[n]}}
           IsHeld    == {<<"held", j>> : j \in {held} \cap {j \in SUBSET Requests : r \in j}}
           IsRunning == {<<"running", j>> : j \in {j \in running : r \in j}}
<1>1. h \in AtHandler <=> pc[r] \in Enqueueing /\ h = <<"handler", pc[r]>>
  OBVIOUS
<1>2. h \in InQueue <=>
        \E t \in Tasks : \E i \in DOMAIN queue[t] : queue[t][i] = r /\ h = <<"queue", t, i>>
  BY DEF At
<1>3. h \in InBatch <=>
        \E t \in Tasks : \E i \in DOMAIN batch[t] : batch[t][i] = r /\ h = <<"batch", t, i>>
  BY DEF At
<1>4. h \in InWork <=>
        \E t \in Tasks : \E n \in DOMAIN work[t] : \E i \in DOMAIN work[t][n] :
           work[t][n][i] = r /\ h = <<"work", t, n, i>>
  BY DEF At
<1>5. h \in InJobs <=> \E n \in DOMAIN jobs : r \in jobs[n] /\ h = <<"jobs", n>>
  OBVIOUS
<1>6. h \in IsHeld <=> r \in held /\ h = <<"held", held>>
  BY DEF TypeOK, InvocationTypeOK
<1>7. h \in IsRunning <=> \E j \in running : r \in j /\ h = <<"running", j>>
  OBVIOUS
<1>8. Holders(r) = AtHandler \cup InQueue \cup InBatch \cup InWork \cup InJobs \cup IsHeld
                   \cup IsRunning
  BY DEF Holders
<1> HIDE DEF AtHandler, InQueue, InBatch, InWork, InJobs, IsHeld, IsRunning
<1>9. (\E t \in Tasks : TaskPlace(r, t, h)) <=> h \in InQueue \/ h \in InBatch \/ h \in InWork
  BY <1>2, <1>3, <1>4, Zenon DEF TaskPlace
<1>10. CallPlace(r, h) <=> h \in InJobs \/ h \in IsHeld \/ h \in IsRunning
  BY <1>5, <1>6, <1>7, Zenon DEF CallPlace
<1> QED
  BY <1>1, <1>8, <1>9, <1>10

\* Task t has r somewhere if and only if it has it in exactly one place.
LEMMA TaskPlaces ==
    ASSUME TypeInv, SenderInv, NEW r \in Requests, NEW t \in Tasks
    PROVE  /\ r \in InTask(t) <=> \E h : TaskPlace(r, t, h)
           /\ \A g, h : TaskPlace(r, t, g) /\ TaskPlace(r, t, h) => g = h
<1>1. /\ r \in ToSet(queue[t]) <=> \E i \in DOMAIN queue[t] : queue[t][i] = r
      /\ r \in ToSet(batch[t]) <=> \E i \in DOMAIN batch[t] : batch[t][i] = r
      /\ r \in Elements(work[t]) <=>
           \E n \in DOMAIN work[t] : \E i \in DOMAIN work[t][n] : work[t][n][i] = r
  BY DEF ToSet, Elements
<1>2. r \in InTask(t) <=> \E h : TaskPlace(r, t, h)
  BY <1>1 DEF InTask, TaskPlace
<1>3. /\ NoRepeat(queue[t]) /\ NoRepeat(batch[t]) /\ Flat(work[t])
      /\ ToSet(queue[t]) \cap (ToSet(batch[t]) \cup Elements(work[t])) = {}
  BY DEF SenderInv, TaskDistinct
<1>4. batch[t] = <<>> \/ work[t] = <<>>
  BY DEF TypeInv, BatchesBounded
<1>5. ~ (r \in ToSet(batch[t]) /\ r \in Elements(work[t]))
  BY <1>1, <1>4
<1>6. \A i, k \in DOMAIN queue[t] : queue[t][i] = r /\ queue[t][k] = r => i = k
  BY <1>3 DEF NoRepeat
<1>7. \A i, k \in DOMAIN batch[t] : batch[t][i] = r /\ batch[t][k] = r => i = k
  BY <1>3 DEF NoRepeat
<1>8. \A m, n \in DOMAIN work[t] : \A i \in DOMAIN work[t][m] : \A k \in DOMAIN work[t][n] :
         work[t][m][i] = r /\ work[t][n][k] = r => m = n /\ i = k
  <2> SUFFICES ASSUME NEW m \in DOMAIN work[t], NEW n \in DOMAIN work[t],
                      NEW i \in DOMAIN work[t][m], NEW k \in DOMAIN work[t][n],
                      work[t][m][i] = r, work[t][n][k] = r
               PROVE  m = n /\ i = k
    OBVIOUS
  <2>1. r \in ToSet(work[t][m]) /\ r \in ToSet(work[t][n])
    BY DEF ToSet
  <2>2. m = n
    BY <1>3, <2>1 DEF Flat
  <2> QED
    BY <1>3, <2>2 DEF Flat, NoRepeat
<1>9. \A g, h : TaskPlace(r, t, g) /\ TaskPlace(r, t, h) => g = h
  <2> SUFFICES ASSUME NEW g, NEW h, TaskPlace(r, t, g), TaskPlace(r, t, h) PROVE g = h
    OBVIOUS
  <2>1. ASSUME r \in ToSet(queue[t]) PROVE g = h
    <3>1. r \notin ToSet(batch[t]) /\ r \notin Elements(work[t])
      BY <1>3, <2>1
    <3> QED
      BY <1>1, <1>6, <3>1 DEF TaskPlace
  <2>2. ASSUME r \in ToSet(batch[t]) PROVE g = h
    <3>1. r \notin ToSet(queue[t]) /\ r \notin Elements(work[t])
      BY <1>3, <1>5, <2>2
    <3> QED
      BY <1>1, <1>7, <3>1 DEF TaskPlace
  <2>3. ASSUME r \notin ToSet(queue[t]), r \notin ToSet(batch[t]) PROVE g = h
    <3>1. /\ \E m \in DOMAIN work[t] : \E i \in DOMAIN work[t][m] :
                work[t][m][i] = r /\ g = <<"work", t, m, i>>
          /\ \E n \in DOMAIN work[t] : \E k \in DOMAIN work[t][n] :
                work[t][n][k] = r /\ h = <<"work", t, n, k>>
      BY <1>1, <2>3, Zenon DEF TaskPlace
    <3> QED
      BY <1>8, <3>1
  <2> QED
    BY <2>1, <2>2, <2>3
<1> QED
  BY <1>2, <1>9

\* The same of the invocation stage.
LEMMA CallPlaces ==
    ASSUME CallsDistinct, NEW r \in Requests
    PROVE  /\ InCall(r) <=> \E h : CallPlace(r, h)
           /\ \A g, h : CallPlace(r, g) /\ CallPlace(r, h) => g = h
<1>1. InCall(r) <=> \E h : CallPlace(r, h)
  BY DEF InCall, CallPlace
<1>2. /\ \A m, n \in DOMAIN jobs : r \in jobs[m] /\ r \in jobs[n] => m = n
      /\ \A n \in DOMAIN jobs : r \in jobs[n] => r \notin held
      /\ \A n \in DOMAIN jobs : \A j \in running : ~ (r \in jobs[n] /\ r \in j)
      /\ \A j \in running : ~ (r \in j /\ r \in held)
      /\ \A j, k \in running : r \in j /\ r \in k => j = k
  BY DEF CallsDistinct
<1>3. \A g, h : CallPlace(r, g) /\ CallPlace(r, h) => g = h
  BY <1>2, Zenon DEF CallPlace
<1> QED
  BY <1>1, <1>3

\* Every living reply sender is in exactly one place of the pipeline, and a
\* used or destroyed one in none (SenderHasOneHolder): through eviction,
\* splitting, rejection and clients that leave, no request is forgotten and
\* none is invoked twice.
THEOREM SenderIsHeldOnce == Spec => []SenderHasOneHolder
<1>1. ASSUME TypeInv, SenderInv, NEW r \in Requests
      PROVE  /\ slot[r] = "open" <=> Holders(r) # {}
             /\ \A p, q \in Holders(r) : p = q
  <2>0. TypeOK /\ CallsDistinct /\ PlaceOf(r)
    BY <1>1 DEF TypeInv, SenderInv
  <2>1. \A h : h \in Holders(r) <=> \/ pc[r] \in Enqueueing /\ h = <<"handler", pc[r]>>
                                    \/ \E t \in Tasks : TaskPlace(r, t, h)
                                    \/ CallPlace(r, h)
    BY <1>1, <2>0, HoldersAre
  <2>2. Holders(r) # {} <=> pc[r] \in Enqueueing \/ InCall(r) \/ \E t \in Tasks : r \in InTask(t)
    <3>1. Holders(r) # {} <=> \/ pc[r] \in Enqueueing
                              \/ \E t \in Tasks : \E h : TaskPlace(r, t, h)
                              \/ \E h : CallPlace(r, h)
      <4>1. ASSUME Holders(r) # {}
            PROVE  \/ pc[r] \in Enqueueing
                   \/ \E t \in Tasks : \E h : TaskPlace(r, t, h)
                   \/ \E h : CallPlace(r, h)
        <5>1. PICK h : h \in Holders(r)
          BY <4>1
        <5>2. \/ pc[r] \in Enqueueing
              \/ \E t \in Tasks : TaskPlace(r, t, h)
              \/ CallPlace(r, h)
          BY <2>1, <5>1, Zenon
        <5> QED
          BY <5>2, Zenon
      <4>2. pc[r] \in Enqueueing => <<"handler", pc[r]>> \in Holders(r)
        BY <2>1, Zenon
      <4>3. \A t \in Tasks : \A h : TaskPlace(r, t, h) => h \in Holders(r)
        BY <2>1, Zenon
      <4>4. \A h : CallPlace(r, h) => h \in Holders(r)
        BY <2>1, Zenon
      <4> QED
        BY <4>1, <4>2, <4>3, <4>4
    <3>2. \A t \in Tasks : r \in InTask(t) <=> \E h : TaskPlace(r, t, h)
      BY <1>1, TaskPlaces
    <3>3. InCall(r) <=> \E h : CallPlace(r, h)
      BY <2>0, CallPlaces
    <3> QED
      BY <3>1, <3>2, <3>3, Zenon
  <2>3. ASSUME NEW p \in Holders(r), NEW q \in Holders(r) PROVE p = q
    <3>1. CASE pc[r] \in Enqueueing
      <4>1. ~ InCall(r) /\ \A t \in Tasks : r \notin InTask(t)
        BY <2>0, <3>1 DEF PlaceOf
      <4> QED
        BY <1>1, <2>0, <2>1, <2>3, <4>1, TaskPlaces, CallPlaces
    <3>2. ASSUME pc[r] \notin Enqueueing, NEW t \in Tasks, r \in InTask(t) PROVE p = q
      <4>1. ~ InCall(r) /\ \A u \in Tasks \ {t} : r \notin InTask(u)
        BY <2>0, <3>2 DEF PlaceOf
      <4>2. TaskPlace(r, t, p) /\ TaskPlace(r, t, q)
        BY <1>1, <2>0, <2>1, <2>3, <3>2, <4>1, TaskPlaces, CallPlaces
      <4> QED
        BY <1>1, <4>2, TaskPlaces
    <3>3. ASSUME pc[r] \notin Enqueueing, \A t \in Tasks : r \notin InTask(t) PROVE p = q
      <4>1. CallPlace(r, p) /\ CallPlace(r, q)
        BY <1>1, <2>1, <2>3, <3>3, TaskPlaces
      <4> QED
        BY <1>1, <2>0, <4>1, CallPlaces
    <3> QED
      BY <3>1, <3>2, <3>3
  <2> QED
    BY <2>0, <2>2, <2>3 DEF PlaceOf
<1>2. TypeInv /\ SenderInv => SenderHasOneHolder
  BY <1>1 DEF SenderHasOneHolder
<1> QED
  BY <1>2, TypeInvariant, SenderInvariant, PTL

-----------------------------------------------------------------------------
(* The permits of the invocation semaphore.                                *)

\* A step may spawn one job with a permit, end one and give its permit back,
\* or neither.  That the spawned job is not running already is what
\* CallsDistinct is needed for.
LEMMA InvocationEffect ==
    ASSUME TypeInv, SenderInv, [Next]_vars
    PROVE  \/ slots' = slots /\ running' = running
           \/ \E j : j \notin running /\ slots' = slots - 1 /\ running' = running \cup {j}
           \/ \E j \in running : slots' = slots + 1 /\ running' = running \ {j}
<1>1. CASE SpawnJob
  <2>1. held \notin running
    BY <1>1 DEF SpawnJob, NoJob, SenderInv, CallsDistinct
  <2> QED
    BY <1>1, <2>1 DEF SpawnJob
<1>2. ASSUME NEW j \in running, JobResponds(j) \/ JobFails(j)
      PROVE  slots' = slots + 1 /\ running' = running \ {j}
  BY <1>2 DEF JobResponds, JobFails
<1>3. CASE DispatcherRecv
  BY <1>3 DEF DispatcherRecv
<1>4. CASE UNCHANGED invocationVars
  BY <1>4 DEF invocationVars
<1>5. ASSUME NEW t \in Tasks, FlushStep(t) PROVE slots' = slots /\ running' = running
  BY <1>5 DEF FlushStep, SplitSegment, FailOversized, SubmitSegment, RejectSegment, SubmitJob,
              RejectJob, invocationVars
<1> QED
  <2>1. CASE InvocationStep
    BY <1>1, <1>2, <1>3, <2>1 DEF InvocationStep
  <2>2. CASE UNCHANGED vars
    BY <1>4, <2>2 DEF vars
  <2> QED
    BY <1>4, <1>5, <2>1, <2>2 DEF Next, Quiescent

\* No permit of the invocation semaphore is lost or released twice
\* (InvocationsConserved), so at most MaxInflightInvocations jobs run.
THEOREM InvocationsAreConserved == Spec => []InvocationsConserved
<1> DEFINE Inv == /\ IsFiniteSet(running)
                  /\ slots \in Int
                  /\ slots + Cardinality(running) = MaxInflightInvocations
<1>1. Init => Inv
  BY FS_EmptySet, InvocationAssumption DEF Init, InvocationInit
<1>2. TypeInv /\ SenderInv /\ Inv /\ [Next]_vars => Inv'
  <2> SUFFICES ASSUME TypeInv, SenderInv, Inv, [Next]_vars PROVE Inv'
    OBVIOUS
  <2>1. Cardinality(running) \in Nat
    BY FS_CardinalityType
  <2>2. CASE slots' = slots /\ running' = running
    BY <2>2
  <2>3. ASSUME NEW j, j \notin running, slots' = slots - 1, running' = running \cup {j}
        PROVE  Inv'
    <3>1. IsFiniteSet(running \cup {j}) /\ Cardinality(running \cup {j}) = Cardinality(running) + 1
      BY <2>3, FS_AddElement
    <3> QED
      BY <2>1, <2>3, <3>1
  <2>4. ASSUME NEW j \in running, slots' = slots + 1, running' = running \ {j}
        PROVE  Inv'
    <3>1. IsFiniteSet(running \ {j}) /\ Cardinality(running \ {j}) = Cardinality(running) - 1
      BY <2>4, FS_RemoveElement
    <3> QED
      BY <2>1, <2>4, <3>1
  <2> QED
    BY <2>2, <2>3, <2>4, InvocationEffect
<1>3. Inv => InvocationsConserved
  BY DEF InvocationsConserved
<1> QED
  BY <1>1, <1>2, <1>3, TypeInvariant, SenderInvariant, PTL DEF Spec

-----------------------------------------------------------------------------
(* The depth of the queues, and what an eviction takes along.              *)

QueuesBounded == \A t \in Tasks : Len(queue[t]) <= QueueDepth

LEMMA QueuesBoundedStep == TypeInv /\ RouteInv /\ QueuesBounded /\ [Next]_vars => QueuesBounded'
<1> SUFFICES ASSUME TypeInv, RouteInv, QueuesBounded, [Next]_vars PROVE QueuesBounded'
  OBVIOUS
<1>0. /\ queue \in [Tasks -> Seq(Requests)] /\ QueueDepth \in Nat
      /\ \A t \in Tasks : Len(queue[t]) \in Nat /\ Len(queue[t]) <= QueueDepth
  BY BatchingAssumption DEF TypeInv, TypeOK, BatchingTypeOK, QueuesBounded
<1>1. ASSUME NEW t \in Tasks, NEW q \in Seq(Requests), Len(q) <= QueueDepth,
             queue' = [queue EXCEPT ![t] = q]
      PROVE  QueuesBounded'
  BY <1>0, <1>1 DEF QueuesBounded
<1>2. ASSUME queue' = queue PROVE QueuesBounded'
  BY <1>2 DEF QueuesBounded
<1>3. ASSUME NEW r \in Requests, EnqueueStep(r) PROVE QueuesBounded'
  <2>1. CASE Enqueue(r)
    <3>1. PICK t \in Tasks : t = target[r]
      BY <2>1 DEF Enqueue, RouteInv, HasTarget
    <3>2. Len(queue[t]) < QueueDepth /\ queue' = [queue EXCEPT ![t] = Append(queue[t], r)]
      BY <2>1, <3>1 DEF Enqueue
    <3>3. Append(queue[t], r) \in Seq(Requests) /\ Len(Append(queue[t], r)) = Len(queue[t]) + 1
      BY <1>0
    <3>4. Len(queue[t]) \in Nat /\ Len(queue[t]) + 1 <= QueueDepth
      BY <1>0, <3>2
    <3>5. Len(Append(queue[t], r)) <= QueueDepth
      BY <3>3, <3>4
    <3> QED
      BY <1>1, <3>2, <3>3, <3>5, Zenon
  <2>2. CASE ~ Enqueue(r)
    BY <1>2, <1>3, <2>2, Zenon DEF EnqueueStep, FindBatcher, SpawnBatcher, QueueFull, FindClosed,
                                   RemoveStale, taskVars
  <2> QED
    BY <2>1, <2>2
<1>4. ASSUME NEW t \in Tasks, TaskStep(t) PROVE QueuesBounded'
  <2>1. CASE RecvFirst(t) \/ RecvMore(t)
    <3>1. queue[t] # <<>> /\ queue' = [queue EXCEPT ![t] = Tail(queue[t])]
      BY <2>1 DEF RecvFirst, RecvMore
    <3>2. Tail(queue[t]) \in Seq(Requests) /\ Len(Tail(queue[t])) = Len(queue[t]) - 1
      BY <1>0, <3>1
    <3>3. Len(queue[t]) \in Nat /\ Len(queue[t]) - 1 <= QueueDepth
      BY <1>0
    <3>4. Len(Tail(queue[t])) <= QueueDepth
      BY <3>2, <3>3
    <3> QED
      BY <1>1, <3>1, <3>2, <3>4, Zenon
  <2>2. CASE DropReceiver(t)
    <3>1. queue' = [queue EXCEPT ![t] = <<>>]
      BY <2>2 DEF DropReceiver
    <3>2. <<>> \in Seq(Requests) /\ Len(<<>>) <= QueueDepth
      BY <1>0
    <3> QED
      BY <1>1, <3>1, <3>2, Zenon
  <2>3. CASE Flush(t) \/ IdleTimeout(t) \/ RecvNone(t) \/ Unregister(t)
    BY <1>2, <2>3, Zenon DEF Flush, IdleTimeout, RecvNone, Unregister
  <2> QED
    BY <1>4, <2>1, <2>2, <2>3, Zenon DEF TaskStep
<1>5. ASSUME NEW r \in Requests, HandlerStep(r) PROVE queue' = queue
  BY <1>5, Zenon DEF HandlerStep, Admit, RefuseAdmission, ReadBody, BodyTooLarge, Disconnect,
                     Receive, ReceiveDropped, Timeout, taskVars
<1>6. ASSUME NEW t \in Tasks, FlushStep(t) PROVE queue' = queue
  BY <1>6, Zenon DEF FlushStep, SplitSegment, FailOversized, SubmitSegment, RejectSegment, NextSegment
<1>7. CASE UNCHANGED taskVars
  BY <1>2, <1>7, Zenon DEF taskVars
<1> QED
  BY <1>2, <1>3, <1>4, <1>5, <1>6, <1>7, Zenon DEF Next, Quiescent, vars

\* try_send on the bounded channel keeps each task's own queue within the
\* depth, for every depth.
THEOREM QueuesStayBounded == Spec => []QueuesBounded
<1>1. Init => QueuesBounded
  <2> SUFFICES ASSUME Init PROVE QueuesBounded
    OBVIOUS
  <2>1. \A t \in Tasks : queue[t] = <<>>
    BY DEF Init, BatchingInit
  <2> QED
    BY <2>1, BatchingAssumption DEF QueuesBounded
<1> QED
  BY <1>1, QueuesBoundedStep, TypeInvariant, RouteInvariant, PTL DEF Spec

\* No two tasks of one key have requests queued.
OneQueuePerKey ==
    \A t, u \in Tasks : owner[t] = owner[u] /\ queue[t] # <<>> /\ queue[u] # <<>> => t = u

\* The set of the elements is no larger than the sequence is long.
LEMMA ElementsAtMost ==
    ASSUME NEW S, NEW s \in Seq(S)
    PROVE  IsFiniteSet(ToSet(s)) /\ Cardinality(ToSet(s)) <= Len(s)
<1>1. Len(s) \in Nat /\ DOMAIN s = 1..Len(s)
  OBVIOUS
<1>2. \A x \in ToSet(s) : \E i \in 1..Len(s) : s[i] = x
  BY <1>1 DEF ToSet
<1>3. [i \in 1..Len(s) |-> s[i]] \in Surjection(1..Len(s), ToSet(s))
  BY <1>1, <1>2 DEF Surjection, ToSet
<1>4. IsFiniteSet(1..Len(s)) /\ Cardinality(1..Len(s)) = Len(s)
  BY <1>1, FS_Interval
<1> QED
  BY <1>3, <1>4, FS_Surjection

LEMMA DepthOfOneQueue ==
    ASSUME TypeInv, TasksIsolated, QueuesBounded, OneQueuePerKey PROVE QueueDepthPerKey
<1> SUFFICES ASSUME NEW k \in Keys
             PROVE  Cardinality({r \in Requests : KeyOf[r] = k /\ \E t \in Tasks : r \in ToSet(queue[t])})
                        <= QueueDepth
  BY DEF QueueDepthPerKey
<1> DEFINE Queued == {r \in Requests : KeyOf[r] = k /\ \E t \in Tasks : r \in ToSet(queue[t])}
<1>0. /\ queue \in [Tasks -> Seq(Requests)] /\ QueueDepth \in Nat
      /\ \A t \in Tasks : Len(queue[t]) \in Nat /\ Len(queue[t]) <= QueueDepth
  BY BatchingAssumption DEF TypeInv, TypeOK, BatchingTypeOK, QueuesBounded
<1>1. \A t \in Tasks : \A r \in ToSet(queue[t]) : KeyOf[r] = owner[t] /\ queue[t] # <<>>
  BY ToSetFacts DEF TasksIsolated, InTask
<1>2. CASE Queued = {}
  <2>1. Cardinality(Queued) = 0
    BY <1>2, FS_EmptySet, Zenon
  <2> QED
    BY <1>0, <2>1
<1>3. CASE Queued # {}
  <2>1. PICK r \in Requests, t \in Tasks : KeyOf[r] = k /\ r \in ToSet(queue[t])
    BY <1>3
  <2>2. \A s \in Queued : s \in ToSet(queue[t])
    BY <1>1, <2>1 DEF OneQueuePerKey
  <2>3. IsFiniteSet(ToSet(queue[t])) /\ Cardinality(ToSet(queue[t])) <= Len(queue[t])
    BY <1>0, ElementsAtMost
  <2>4. Queued \subseteq ToSet(queue[t])
    BY <2>2
  <2>5. IsFiniteSet(Queued) /\ Cardinality(Queued) <= Cardinality(ToSet(queue[t]))
    BY <2>3, <2>4, FS_Subset
  <2>6. Cardinality(Queued) \in Nat /\ Cardinality(ToSet(queue[t])) \in Nat
    BY <2>3, <2>5, FS_CardinalityType
  <2> QED
    BY <1>0, <2>3, <2>5, <2>6
<1> QED
  BY <1>2, <1>3

\* The cap QueueDepthPerKey, which the code breaks, is broken only while a
\* second task of the same key has requests queued: what lets it be spawned
\* is the removal of an entry that is not the task's own.
THEOREM DepthHoldsWithOneQueue == Spec => [](OneQueuePerKey => QueueDepthPerKey)
<1>1. Init => TasksIsolated
  <2> SUFFICES ASSUME Init PROVE TasksIsolated
    OBVIOUS
  <2>1. \A t \in Tasks : InTask(t) = {}
    BY ToSetFacts, ElementsFacts DEF Init, BatchingInit, InTask
  <2> QED
    BY <2>1 DEF TasksIsolated
<1>2. TypeInv /\ TasksIsolated /\ QueuesBounded => (OneQueuePerKey => QueueDepthPerKey)
  BY DepthOfOneQueue
<1> QED
  BY <1>1, <1>2, TasksNext, TypeInvariant, RouteInvariant, QueuesStayBounded, PTL DEF Spec

\* A task at work that the registry does not know: a second one may be
\* spawned for its key.
Orphan(t) == stage[t] \in {"idle", "collect", "flush"} /\ batchers[owner[t]] # t

LEMMA OrphanStep ==
    ASSUME TypeInv, RouteInv, [Next]_vars, NEW t \in Tasks, ~ Orphan(t), Orphan(t)'
    PROVE  \/ \E u \in Tasks \ {t} : Unregister(u) /\ owner[u] = owner[t]
           \/ \E r \in Requests : RemoveStale(r) /\ KeyOf[r] = owner[t]
<1> DEFINE AtWork == {"idle", "collect", "flush"}
<1>0. /\ batchers \in [Keys -> Tasks \cup {NoTask}] /\ owner \in [Tasks -> Keys]
      /\ stage \in [Tasks -> {"free", "closed"} \cup Listening]
      /\ KeyOf \in [Requests -> Keys] /\ NoTask \notin Tasks
      /\ stage[t] \in AtWork => batchers[owner[t]] = t
      /\ stage'[t] \in AtWork /\ batchers'[owner'[t]] # t
  BY BatchingAssumption DEF TypeInv, TypeOK, BatchingTypeOK, Orphan
\* The registry, the owner and the stage of t do not all stay as they are.
<1>1. ASSUME batchers' = batchers, owner' = owner,
             stage'[t] \in AtWork => stage[t] \in AtWork
      PROVE  FALSE
  BY <1>0, <1>1
<1>2. ASSUME NEW r \in Requests, EnqueueStep(r), ~ RemoveStale(r) PROVE FALSE
  <2>1. CASE \E u \in Tasks : SpawnBatcher(r, u)
    <3>1. PICK u \in Tasks : SpawnBatcher(r, u)
      BY <2>1
    <3>2. /\ batchers[KeyOf[r]] = NoTask /\ batchers' = [batchers EXCEPT ![KeyOf[r]] = u]
          /\ owner' = [owner EXCEPT ![u] = KeyOf[r]] /\ stage' = [stage EXCEPT ![u] = "idle"]
      BY <3>1 DEF SpawnBatcher
    <3>3. u # t
      BY <1>0, <3>2
    <3>4. owner'[t] = owner[t] /\ stage'[t] = stage[t]
      BY <1>0, <3>2, <3>3
    <3>5. batchers[owner[t]] = t /\ owner[t] # KeyOf[r]
      BY <1>0, <3>2, <3>4
    <3> QED
      BY <1>0, <3>2, <3>4, <3>5
  <2>2. CASE ~ \E u \in Tasks : SpawnBatcher(r, u)
    <3>1. batchers' = batchers /\ owner' = owner /\ stage' = stage
      BY <1>2, <2>2, Zenon DEF EnqueueStep, FindBatcher, Enqueue, QueueFull, FindClosed, taskVars
    <3> QED
      BY <1>1, <3>1
  <2> QED
    BY <2>1, <2>2
<1>3. ASSUME NEW u \in Tasks, TaskStep(u) \/ FlushStep(u), ~ Unregister(u) PROVE FALSE
  <2>1. batchers' = batchers /\ owner' = owner
    BY <1>3, Zenon DEF TaskStep, RecvFirst, RecvMore, Flush, IdleTimeout, RecvNone, DropReceiver,
       FlushStep, SplitSegment, FailOversized, SubmitSegment, RejectSegment, NextSegment
  <2>2. \/ stage' = stage
        \/ stage[u] \in AtWork /\ \E p : stage' = [stage EXCEPT ![u] = p]
        \/ stage' = [stage EXCEPT ![u] = "closed"]
    <3>1. CASE TaskStep(u)
      BY <1>3, <3>1 DEF TaskStep, RecvFirst, RecvMore, Flush, IdleTimeout, RecvNone, DropReceiver
    <3>2. CASE SplitSegment(u)
      BY <3>2 DEF SplitSegment
    <3>3. CASE NextSegment(u)
      BY <3>3 DEF NextSegment
    <3> QED
      BY <1>3, <3>1, <3>2, <3>3 DEF FlushStep, FailOversized, SubmitSegment, RejectSegment
  <2>3. stage'[t] \in AtWork => stage[t] \in AtWork
    BY <1>0, <2>2
  <2> QED
    BY <1>1, <2>1, <2>3
<1>4. ASSUME NEW u \in Tasks, Unregister(u) PROVE u # t /\ owner[u] = owner[t]
  <2>1. /\ batchers' = [batchers EXCEPT ![owner[u]] = NoTask] /\ owner' = owner
        /\ stage[u] = "closed" /\ stage' = [stage EXCEPT ![u] = "free"]
    BY <1>4 DEF Unregister
  <2>2. u # t /\ stage'[t] = stage[t]
    BY <1>0, <2>1
  <2> QED
    BY <1>0, <2>1, <2>2
<1>5. ASSUME NEW r \in Requests, RemoveStale(r) PROVE KeyOf[r] = owner[t]
  <2>1. batchers' = [batchers EXCEPT ![KeyOf[r]] = NoTask] /\ owner' = owner /\ stage' = stage
    BY <1>5 DEF RemoveStale, taskVars
  <2> QED
    BY <1>0, <2>1
<1>6. ASSUME NEW r \in Requests, HandlerStep(r) PROVE FALSE
  <2>1. batchers' = batchers /\ owner' = owner /\ stage' = stage
    BY <1>6, Zenon DEF HandlerStep, Admit, RefuseAdmission, ReadBody, BodyTooLarge, Disconnect,
                       Receive, ReceiveDropped, Timeout, taskVars
  <2> QED
    BY <1>1, <2>1
<1>7. ASSUME UNCHANGED <<batchers, taskVars>> PROVE FALSE
  BY <1>1, <1>7 DEF taskVars
<1> QED
  BY <1>2, <1>3, <1>4, <1>5, <1>6, <1>7 DEF Next, Quiescent, vars

\* A task at work loses its registration only to a removal that is not its
\* own: the end of another task of its key, or a late handler's.  These two
\* are what the cap on the queues of a key suffers from.
THEOREM OnlyRemovalsOrphan ==
    Spec => [][\A t \in Tasks : ~ Orphan(t) /\ Orphan(t)' =>
                   \/ \E u \in Tasks \ {t} : Unregister(u) /\ owner[u] = owner[t]
                   \/ \E r \in Requests : RemoveStale(r) /\ KeyOf[r] = owner[t]]_vars
<1>1. TypeInv /\ RouteInv /\ [Next]_vars =>
         [\A t \in Tasks : ~ Orphan(t) /\ Orphan(t)' =>
              \/ \E u \in Tasks \ {t} : Unregister(u) /\ owner[u] = owner[t]
              \/ \E r \in Requests : RemoveStale(r) /\ KeyOf[r] = owner[t]]_vars
  BY OrphanStep
<1> QED
  BY <1>1, TypeInvariant, RouteInvariant, PTL DEF Spec

\* The client of r waits for a sender that was destroyed.
Lost(r) == pc[r] = "await" /\ slot[r] = "dropped"

LEMMA LossStep ==
    ASSUME TypeInv, RouteInv, SenderInv, [Next]_vars, NEW r \in Requests, ~ Lost(r), Lost(r)'
    PROVE  \E t \in Tasks : DropReceiver(t) /\ r \in ToSet(queue[t])
<1>0. /\ pc \in [Requests -> {"idle", "done"} \cup Admitted] /\ slot \in [Requests -> SlotValues]
      /\ pc'[r] = "await" /\ slot'[r] = "dropped"
      /\ pc[r] # "await" \/ slot[r] # "dropped"
  BY DEF TypeInv, TypeOK, SlotTypeOK, BatchingTypeOK, Lost
<1>1. ASSUME NEW S, NEW code, SendAll(S, code), code # "dropped" PROVE slot[r] = "dropped"
  BY <1>0, <1>1 DEF SendAll
<1>2. ASSUME NEW q \in Requests, HandlerStep(q) PROVE FALSE
  <2>1. slot' = slot \/ slot' = [slot EXCEPT ![q] = "open"]
    BY <1>2, Zenon DEF HandlerStep, Admit, RefuseAdmission, ReadBody, BodyTooLarge, Disconnect,
                       Receive, ReceiveDropped, Timeout
  <2>2. \E p \in {"body", "entry", "done"} : pc' = [pc EXCEPT ![q] = p]
    BY <1>2 DEF HandlerStep, Admit, RefuseAdmission, ReadBody, BodyTooLarge, Disconnect,
                       Receive, ReceiveDropped, Timeout, Return
  <2>3. q # r
    BY <1>0, <2>2
  <2> QED
    BY <1>0, <2>1, <2>2, <2>3
<1>3. ASSUME NEW q \in Requests, EnqueueStep(q) PROVE FALSE
  <2>1. CASE Enqueue(q)
    <3>1. slot' = slot /\ pc[q] = "try_send" /\ pc' = [pc EXCEPT ![q] = "await"]
      BY <2>1 DEF Enqueue
    <3>2. q = r
      BY <1>0, <3>1
    <3>3. slot[r] = "open"
      BY <3>1, <3>2 DEF SenderInv, PlaceOf, Enqueueing
    <3> QED
      BY <1>0, <3>1, <3>3
  <2>2. CASE ~ Enqueue(q)
    <3>1. \E p \in {"try_send", "remove", "entry", "done"} : pc' = [pc EXCEPT ![q] = p]
      BY <1>3, <2>2 DEF EnqueueStep, FindBatcher, SpawnBatcher, QueueFull, FindClosed, RemoveStale, Return
    <3>2. slot' = slot \/ DropAll({q})
      BY <1>3, <2>2, Zenon DEF EnqueueStep, FindBatcher, SpawnBatcher, QueueFull, FindClosed, RemoveStale
    <3>3. q # r
      BY <1>0, <3>1
    <3>4. pc[r] = "await" /\ slot'[r] = slot[r]
      BY <1>0, <3>1, <3>2, <3>3 DEF DropAll, SendAll
    <3> QED
      BY <1>0, <3>4
  <2> QED
    BY <2>1, <2>2
<1>4. ASSUME NEW t \in Tasks, TaskStep(t) PROVE DropReceiver(t) /\ r \in ToSet(queue[t])
  <2>1. pc' = pc
    BY <1>4, Zenon DEF TaskStep, RecvFirst, RecvMore, Flush, IdleTimeout, RecvNone, DropReceiver,
                       Unregister, handlerVars
  <2>2. slot' # slot
    BY <1>0, <2>1
  <2>3. DropReceiver(t)
    BY <1>4, <2>2, Zenon DEF TaskStep, RecvFirst, RecvMore, Flush, IdleTimeout, RecvNone, Unregister
  <2>4. r \in ToSet(queue[t])
    BY <1>0, <2>1, <2>3 DEF DropReceiver, DropAll, SendAll
  <2> QED
    BY <2>3, <2>4
<1>5. ASSUME NEW t \in Tasks, FlushStep(t) PROVE FALSE
  <2>1. pc' = pc
    BY <1>5, Zenon DEF FlushStep, SplitSegment, FailOversized, SubmitSegment, RejectSegment,
                       NextSegment, handlerVars
  <2>2. \/ slot' = slot
        \/ \E S : SendAll(S, "502") \/ SendAll(S, "429")
    BY <1>5, Zenon DEF FlushStep, SplitSegment, FailOversized, SubmitSegment, RejectSegment,
                       SubmitJob, RejectJob
  <2> QED
    BY <1>0, <1>1, <2>1, <2>2
<1>6. ASSUME InvocationStep, UNCHANGED handlerVars PROVE FALSE
  <2>1. pc' = pc
    BY <1>6 DEF handlerVars
  <2>2. \/ slot' = slot
        \/ \E S : SendAll(S, "502")
        \/ \E S, Good : SendResponses(S, Good)
    BY <1>6, Zenon DEF InvocationStep, DispatcherRecv, SpawnJob, JobResponds, JobFails
  <2>3. ASSUME NEW S, NEW Good, SendResponses(S, Good) PROVE slot[r] = "dropped"
    BY <1>0, <2>3 DEF SendResponses
  <2> QED
    BY <1>0, <1>1, <2>1, <2>2, <2>3
<1>7. CASE UNCHANGED vars
  BY <1>0, <1>7 DEF vars, handlerVars
<1> QED
  BY <1>2, <1>3, <1>4, <1>5, <1>6, <1>7, Zenon DEF Next, Quiescent

\* The only way a waiting client's sender is destroyed is the end of the task
\* that has the request queued: a race of acceptance and eviction.  No retry,
\* split, rejection or failed invocation ever does it.
THEOREM OnlyEvictionLoses ==
    Spec => [][\A r \in Requests : ~ Lost(r) /\ Lost(r)' =>
                   \E t \in Tasks : DropReceiver(t) /\ r \in ToSet(queue[t])]_vars
<1>1. TypeInv /\ RouteInv /\ SenderInv /\ [Next]_vars =>
         [\A r \in Requests : ~ Lost(r) /\ Lost(r)' =>
              \E t \in Tasks : DropReceiver(t) /\ r \in ToSet(queue[t])]_vars
  BY LossStep
<1> QED
  BY <1>1, TypeInvariant, RouteInvariant, SenderInvariant, PTL DEF Spec
=============================================================================
