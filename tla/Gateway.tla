------------------------------- MODULE Gateway -------------------------------
(***************************************************************************)
(* The buffered path of the gateway: Batching and Invocation composed by   *)
(* flush_batch (batching/flush.rs) and plan_invocations                    *)
(* (batching/planner.rs).                                                  *)
(*                                                                         *)
(* The planner halves a batch until every piece fits the payload limit or  *)
(* is a single request.  It is pure, and flush_batch handles the resulting *)
(* plans from left to right, so planning is modelled as a worklist of      *)
(* segments: the first segment is split in two, failed, or submitted.      *)
(* Other threads may act between two plans of one flush.                   *)
(***************************************************************************)
EXTENDS Batching, Invocation

CONSTANTS Weight,      \* Weight[r]: encoded size of the batch item of r
          MaxPayload   \* MaxInvokePayloadBytes less the event's envelope

ASSUME GatewayAssumption ==
    /\ Weight \in [Requests -> Nat]
    /\ MaxPayload \in Nat

vars == <<slot, handlerVars, batchers, taskVars, invocationVars>>

-----------------------------------------------------------------------------
PayloadSize(s) == FoldLeft(LAMBDA size, r : size + Weight[r], 0, s)

Fits(s) == PayloadSize(s) <= MaxPayload

\* Mutant: the right half starts at the last item of the left one.
OverlappingHalf(s) == SubSeq(s, Len(s) \div 2, Len(s))

LeftHalf(s)  == SubSeq(s, 1, Len(s) \div 2)
RightHalf(s) == SubSeq(s, (Len(s) \div 2) + 1, Len(s))

\* flush_batch is done with the first segment; after the last one the task
\* returns to its idle loop.
NextSegment(t) ==
    /\ stage[t] = "flush"
    /\ work' = [work EXCEPT ![t] = Tail(@)]
    /\ stage' = [stage EXCEPT ![t] = IF Len(work[t]) = 1 THEN "idle" ELSE "flush"]
    /\ UNCHANGED <<handlerVars, batchers, owner, queue, batch>>

\* Too large and divisible: plan the two halves, left first.
SplitSegment(t) ==
    LET s == Head(work[t]) IN
    /\ stage[t] = "flush"
    /\ ~ Fits(s)
    /\ Len(s) > 1
    /\ work' = [work EXCEPT ![t] = <<LeftHalf(s), RightHalf(s)>> \o Tail(@)]
    /\ UNCHANGED <<slot, handlerVars, batchers, owner, stage, queue, batch, invocationVars>>

\* Too large and a single request: 502 "invoke payload too large".
FailOversized(t) ==
    LET s == Head(work[t]) IN
    /\ NextSegment(t)
    /\ ~ Fits(s)
    /\ Len(s) = 1
    /\ SendAll(ToSet(s), "502")
    /\ UNCHANGED invocationVars

SubmitSegment(t) ==
    LET s == Head(work[t]) IN
    /\ NextSegment(t)
    /\ Fits(s)
    /\ SubmitJob(ToSet(s))

RejectSegment(t) ==
    LET s == Head(work[t]) IN
    /\ NextSegment(t)
    /\ Fits(s)
    /\ RejectJob(ToSet(s))

FlushStep(t) ==
    \/ SplitSegment(t) \/ FailOversized(t) \/ SubmitSegment(t) \/ RejectSegment(t)

-----------------------------------------------------------------------------
Init == SlotInit /\ BatchingInit /\ InvocationInit

\* Every client has its answer (or is gone) and no task is left: only then
\* may the system stop.
Quiescent ==
    /\ \A r \in Requests : pc[r] = "done"
    /\ \A t \in Tasks : stage[t] = "free"
    /\ jobs = <<>> /\ held = NoJob /\ running = {}
    /\ UNCHANGED vars

Next ==
    \/ \E r \in Requests : (HandlerStep(r) \/ EnqueueStep(r)) /\ UNCHANGED invocationVars
    \/ \E t \in Tasks : TaskStep(t) /\ UNCHANGED invocationVars
    \/ \E t \in Tasks : FlushStep(t)
    \/ InvocationStep /\ UNCHANGED <<handlerVars, batchers, taskVars>>
    \/ Quiescent

Spec == Init /\ [][Next]_vars

(***************************************************************************)
(* Fairness.  The runtime polls every task that is ready; timers fire;     *)
(* reading a body ends; the Lambda client answers or fails every           *)
(* invocation.  Arrivals (Admit, RefuseAdmission) and a client's hanging   *)
(* up are the environment's: they are not fair, and neither is the         *)
(* handler's timeout, so that liveness never rests on it.                  *)
(***************************************************************************)
Fairness ==
    /\ \A r \in Requests :
         /\ WF_vars((ReadBody(r) \/ BodyTooLarge(r)) /\ UNCHANGED invocationVars)
         /\ WF_vars((Receive(r) \/ ReceiveDropped(r)) /\ UNCHANGED invocationVars)
         /\ WF_vars(EnqueueStep(r) /\ UNCHANGED invocationVars)
    /\ \A t \in Tasks :
         /\ WF_vars((RecvFirst(t) \/ IdleTimeout(t) \/ RecvNone(t)) /\ UNCHANGED invocationVars)
         /\ WF_vars(Flush(t) /\ UNCHANGED invocationVars)
         /\ WF_vars((DropReceiver(t) \/ Unregister(t)) /\ UNCHANGED invocationVars)
         /\ WF_vars(FlushStep(t))
    /\ WF_vars((DispatcherRecv \/ SpawnJob) /\ UNCHANGED <<handlerVars, batchers, taskVars>>)
    /\ \A j \in Jobs :
         WF_vars((JobResponds(j) \/ JobFails(j)) /\ UNCHANGED <<handlerVars, batchers, taskVars>>)

FairSpec == Spec /\ Fairness
-----------------------------------------------------------------------------
\* What the variables of slots, handlers, tasks and invocations may hold.
TypeOK == SlotTypeOK /\ BatchingTypeOK /\ InvocationTypeOK

\* No admission permit is lost or released twice, whichever way a handler
\* ends (reply, rejection, timeout, disconnect): the free permits and the
\* handlers between admission and return add up to MaxInflightRequests.
AdmissionConserved ==
    permits + Cardinality({r \in Requests : pc[r] \in Admitted}) = MaxInflightRequests

\* The same for the invocation semaphore: free permits and running jobs add
\* up to MaxInflightInvocations, so no more invocations run at once.
InvocationsConserved ==
    slots + Cardinality(running) = MaxInflightInvocations

\* The places where r occurs in a sequence.
At(r, s) == {i \in DOMAIN s : s[i] = r}

\* Every place that holds the reply sender of r.
Holders(r) ==
    {<<"handler", p>> : p \in Enqueueing \cap {pc[r]}}
    \cup (UNION {{<<"queue", t, i>> : i \in At(r, queue[t])} : t \in Tasks})
    \cup (UNION {{<<"batch", t, i>> : i \in At(r, batch[t])} : t \in Tasks})
    \cup (UNION {UNION {{<<"work", t, n, i>> : i \in At(r, work[t][n])}
                         : n \in DOMAIN work[t]} : t \in Tasks})
    \cup {<<"jobs", i>> : i \in {n \in DOMAIN jobs : r \in jobs[n]}}
    \cup {<<"held", j>> : j \in {held} \cap {j \in SUBSET Requests : r \in j}}
    \cup {<<"running", j>> : j \in {j \in running : r \in j}}

\* A sender that can still be used is in exactly one place of the pipeline
\* and a used or destroyed one in none: no request is forgotten, and none is
\* batched, split or submitted twice, through eviction races, planner
\* splits, rejected jobs and clients that stopped waiting.
SenderHasOneHolder ==
    \A r \in Requests :
        /\ (slot[r] = "open") <=> (Holders(r) # {})
        /\ \A p, q \in Holders(r) : p = q

\* The requests of a worklist, and those in the hands of task t.
Elements(w) == UNION {ToSet(w[n]) : n \in DOMAIN w}

InTask(t) == ToSet(queue[t]) \cup ToSet(batch[t]) \cup Elements(work[t])

\* Requests of different batch keys never share a batcher task or an
\* invocation, even though tasks are evicted and replaced under the feet of
\* handlers that hold a clone of an old Sender.
BatchIsolation ==
    /\ \A t \in Tasks : \A r \in InTask(t) : KeyOf[r] = owner[t]
    /\ \A j \in ToSet(jobs) \cup {held} \cup running :
         \A r1, r2 \in j : KeyOf[r1] = KeyOf[r2]

\* A registered Sender belongs to a task that has not finished and that
\* serves that key: the unconditional removals never leave an entry that
\* points to a finished task, which would fail every later request.
RegistrySound ==
    \A k \in Keys : batchers[k] # NoTask =>
        /\ owner[batchers[k]] = k
        /\ stage[batchers[k]] # "free"

\* A batch in collection has between one and maxBatchSize requests, and a
\* segment of a flushed batch is never empty, so every invocation carries at
\* least one request.
BatchesBounded ==
    \A t \in Tasks :
        /\ stage[t] = "collect" => Len(batch[t]) \in 1..MaxBatchSize
        /\ stage[t] # "collect" => batch[t] = <<>>
        /\ (stage[t] = "flush") <=> (work[t] # <<>>)
        /\ \A n \in DOMAIN work[t] : Len(work[t][n]) \in 1..MaxBatchSize

\* MaxQueueDepthPerKey read as the documentation states it, "per-key queue
\* cap": however many tasks serve a key, no more requests than that are
\* queued for it.
QueueDepthPerKey ==
    \A k \in Keys :
        Cardinality({r \in Requests : KeyOf[r] = k /\ \E t \in Tasks : r \in ToSet(queue[t])})
            <= QueueDepth

\* "Handle idle eviction + races by retrying": the eviction of a task takes
\* no request with it that was accepted into its queue (the client of such a
\* request gets 502 although no invocation was tried).
EvictionLosesNothing ==
    \A r \in Requests : pc[r] = "await" => slot[r] # "dropped"

\* Every sender is eventually used or destroyed, whether or not its client
\* still waits, without the help of the handler's timeout.
EverySenderResolved ==
    \A r \in Requests : slot[r] = "open" ~> slot[r] # "open"

\* When traffic stops, every batcher task ends (an orphaned one too) and the
\* registry is empty: nothing leaks.
EventuallyReclaimed ==
    <>[](\A t \in Tasks : stage[t] = "free") /\ <>[](\A k \in Keys : batchers[k] = NoTask)

-----------------------------------------------------------------------------
\* What the client sees of a request.
Phase(r) ==
    CASE pc[r] = "idle"                       -> "new"
      [] pc[r] \in Admitted                   -> "admitted"
      [] pc[r] = "done" /\ reply[r] # "none"  -> "replied"
      [] pc[r] = "done" /\ reply[r] = "none"  -> "left"

Contract == INSTANCE RequestReply
              WITH phase <- [r \in Requests |-> Phase(r)], answer <- reply,
                   Limit <- MaxInflightRequests

\* The gateway implements the contract of RequestReply, its liveness
\* included: an admitted client that stays is answered, exactly once.
ContractSpec == Contract!FairSpec
=============================================================================
