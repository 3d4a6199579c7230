----------------------------- MODULE Invocation ------------------------------
(***************************************************************************)
(* The global invocation stage (batching/invocation.rs): a bounded channel *)
(* of jobs filled with try_send by the batcher tasks, one dispatcher task  *)
(* that takes a job, waits for a permit of the invocation semaphore and    *)
(* spawns the job, and the spawned jobs, each of which holds its permit    *)
(* until the last response of its batch is dispatched.                     *)
(*                                                                         *)
(* A job is the set of requests whose senders it carries (its `pending`    *)
(* map); it is never empty.                                                *)
(***************************************************************************)
EXTENDS Responder, Naturals, Sequences, FiniteSets

CONSTANTS MaxPendingInvocations,  \* capacity of the job channel
          MaxInflightInvocations  \* permits of the invocation semaphore

ASSUME InvocationAssumption ==
    /\ MaxPendingInvocations \in Nat \ {0}
    /\ MaxInflightInvocations \in Nat \ {0}

VARIABLES jobs,     \* the job channel
          held,     \* the job the dispatcher holds while it waits, or {}
          running,  \* the spawned jobs
          slots     \* free permits of the invocation semaphore

invocationVars == <<jobs, held, running, slots>>

NoJob == {}

Jobs == (SUBSET Requests) \ {NoJob}

InvocationTypeOK ==
    /\ jobs \in Seq(Jobs)
    /\ held \in SUBSET Requests
    /\ running \in SUBSET Jobs
    /\ slots \in Nat

InvocationInit ==
    /\ jobs = <<>>
    /\ held = NoJob
    /\ running = {}
    /\ slots = MaxInflightInvocations

-----------------------------------------------------------------------------
\* invocation_tx.try_send(job), accepted.
SubmitJob(j) ==
    /\ Len(jobs) < MaxPendingInvocations
    /\ jobs' = Append(jobs, j)
    /\ UNCHANGED <<slot, held, running, slots>>

\* invocation_tx.try_send(job), Full: job.fail(429 "gateway overloaded").
RejectJob(j) ==
    /\ Len(jobs) >= MaxPendingInvocations
    /\ SendAll(j, "429")
    /\ UNCHANGED invocationVars

-----------------------------------------------------------------------------
DispatcherRecv ==
    /\ held = NoJob
    /\ jobs # <<>>
    /\ held' = Head(jobs)
    /\ jobs' = Tail(jobs)
    /\ UNCHANGED <<slot, running, slots>>

\* The dispatcher gets a permit and spawns the job with it.
SpawnJob ==
    /\ held # NoJob
    /\ slots > 0
    /\ running' = running \cup {held}
    /\ held' = NoJob
    /\ slots' = slots - 1
    /\ UNCHANGED <<slot, jobs>>

\* The invocation returns a batch response: a request with a well-formed
\* record gets it, one with a malformed record or none gets 502.  An unknown
\* id, or a second record for an id, is ignored.
JobResponds(j) ==
    /\ j \in running
    /\ \E wellFormed \in SUBSET j : SendResponses(j, wellFormed)
    /\ running' = running \ {j}
    /\ slots' = slots + 1
    /\ UNCHANGED <<jobs, held>>

\* Mutant: the permit of a failed invocation is lost.
JobFailsKeepsPermit(j) ==
    /\ j \in running
    /\ SendAll(j, "502")
    /\ running' = running \ {j}
    /\ UNCHANGED <<jobs, held, slots>>

\* The invocation fails, answers in the wrong mode, or its payload is not a
\* version-1 batch response: every request of the job gets 502.
JobFails(j) ==
    /\ j \in running
    /\ SendAll(j, "502")
    /\ running' = running \ {j}
    /\ slots' = slots + 1
    /\ UNCHANGED <<jobs, held>>

InvocationStep ==
    \/ DispatcherRecv
    \/ SpawnJob
    \/ \E j \in running : JobResponds(j) \/ JobFails(j)
=============================================================================
