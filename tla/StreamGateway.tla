---------------------------- MODULE StreamGateway -----------------------------
(***************************************************************************)
(* The streamed path from a client's request to the end of its response    *)
(* body: admission and body reading (server.rs, handle_any) before, and    *)
(* PermitStream around, what StreamDispatch models.                        *)
(*                                                                         *)
(* The admission semaphore is shared with buffered requests.  Those are    *)
(* here only what RequestReply promises of them, which Gateway implements: *)
(* they take a permit, hold it, and end.                                   *)
(***************************************************************************)
EXTENDS StreamDispatch

CONSTANTS
    Others,              \* buffered requests
    MaxInflightRequests  \* permits of the handlers' admission semaphore

ASSUME StreamGatewayAssumption ==
    /\ Requests \cap Others = {}
    /\ IsFiniteSet(Requests \cup Others)
    /\ MaxInflightRequests \in Nat \ {0}

VARIABLES
    front,    \* front[r]: how far r got: "new", "body", "in", or an end before that
    permits,  \* free permits of the admission semaphore
    counted   \* counted[r]: how often the request metric of r was emitted

frontVars == <<front, permits, counted>>
vars == <<dispatchVars, frontVars>>

Arrivals == Requests \cup Others

\* What the variables may hold.
TypeOK ==
    /\ DispatchTypeOK
    /\ front \in [Arrivals -> {"new", "body", "in", "refused", "replied", "left"}]
    /\ permits \in 0..MaxInflightRequests
    /\ counted \in [Requests -> Nat]

Init ==
    /\ DispatchInit
    /\ front = [r \in Arrivals |-> "new"]
    /\ permits = MaxInflightRequests
    /\ counted = [r \in Requests |-> 0]

-----------------------------------------------------------------------------
(* Before the request is enqueued.                                         *)

\* What follows of a buffered request is only that it is served.
Admit(r) ==
    /\ front[r] = "new"
    /\ permits > 0
    /\ front' = [front EXCEPT ![r] = IF r \in Others THEN "in" ELSE "body"]
    /\ permits' = permits - 1
    /\ UNCHANGED <<dispatchVars, counted>>

\* emit_http_server_request, once for each answer of handle_any.
Count(r) == counted' = [s \in Requests |-> IF s = r THEN counted[s] + 1 ELSE counted[s]]

\* Mutant: refuses while one permit is still free.
RefuseEarly(r) ==
    /\ front[r] = "new"
    /\ permits <= 1
    /\ front' = [front EXCEPT ![r] = "refused"]
    /\ Count(r)
    /\ UNCHANGED <<dispatchVars, permits>>

\* No permit: 429 "too many requests".
RefuseAdmission(r) ==
    /\ front[r] = "new"
    /\ permits = 0
    /\ front' = [front EXCEPT ![r] = "refused"]
    /\ Count(r)
    /\ UNCHANGED <<dispatchVars, permits>>

\* The body is too large, or enqueue finds the queue full or the batcher
\* closed: the handler answers, and both channels are dropped with it.
TurnAway(r) ==
    /\ front[r] = "body"
    /\ front' = [front EXCEPT ![r] = "replied"]
    /\ permits' = permits + 1
    /\ Count(r)
    /\ UNCHANGED dispatchVars

\* The client goes away while its body is read.
LeaveEarly(r) ==
    /\ front[r] = "body"
    /\ front' = [front EXCEPT ![r] = "left"]
    /\ permits' = permits + 1
    /\ UNCHANGED <<dispatchVars, counted>>

Enter(r) ==
    /\ front[r] = "body"
    /\ front' = [front EXCEPT ![r] = "in"]
    /\ Enqueue(r)
    /\ UNCHANGED <<permits, counted>>

\* A buffered request is over; how does not matter here.
OtherEnds(r) ==
    /\ r \in Others
    /\ front[r] = "in"
    /\ front' = [front EXCEPT ![r] = "replied"]
    /\ permits' = permits + 1
    /\ UNCHANGED <<dispatchVars, counted>>

-----------------------------------------------------------------------------
(* After: StreamDispatch, and what its steps mean for permit and metric.   *)

\* The request is over: its permit is dropped, its metric emitted.
Release(r) ==
    /\ permits' = permits + 1
    /\ Count(r)
    /\ UNCHANGED front

\* handle_any returns a complete answer.
Finish(r) == (GetReply(r) \/ GetDropped(r)) /\ Release(r)

TimeOut(r) == Timeout(r) /\ Release(r)

\* Mutant: the permit is dropped with the handler.
StartBodyReleases(r) ==
    /\ GetHead(r)
    /\ permits' = permits + 1
    /\ UNCHANGED <<front, counted>>

\* Mutant: the metric is not deferred to the end of the body.
StartBodyCounts(r) ==
    /\ GetHead(r)
    /\ Count(r)
    /\ UNCHANGED <<front, permits>>

\* handle_any returns a body: the permit moves into PermitStream, and the
\* metric is deferred (DeferHttpRequestMetric).
StartBody(r) ==
    /\ GetHead(r)
    /\ UNCHANGED frontVars

\* PermitStream is dropped: the body has ended, or its client left.
EndBody(r) == BodyEnds(r) /\ Release(r)

DropBody(r) == hpc[r] = "stream" /\ Leave(r) /\ Release(r)

\* The future of handle_any is dropped: the permit with it, and no metric.
DropHandler(r) ==
    /\ hpc[r] = "await"
    /\ Leave(r)
    /\ permits' = permits + 1
    /\ UNCHANGED <<front, counted>>

-----------------------------------------------------------------------------
FrontStep(r) == TurnAway(r) \/ Enter(r)

Arrive(r) == Admit(r) \/ RefuseAdmission(r)

\* What the handler of r, or its body, does unless the client leaves or the
\* timer fires.
Serve(r) ==
    Finish(r) \/ StartBody(r) \/ EndBody(r) \/ (ReadChunk(r) /\ UNCHANGED frontVars)

Leaves(r) == LeaveEarly(r) \/ DropHandler(r) \/ DropBody(r)

Behind == DispatcherNext /\ UNCHANGED frontVars

Next ==
    \/ \E r \in Arrivals : Arrive(r)
    \/ \E r \in Requests : FrontStep(r) \/ Serve(r) \/ TimeOut(r) \/ Leaves(r)
    \/ \E r \in Others : OtherEnds(r)
    \/ Behind

Spec == Init /\ [][Next]_vars

(***************************************************************************)
(* Fairness: a body is read, or found too large; batchers flush what they  *)
(* hold; the call returns and the Lambda stream ends (the invocation has a *)
(* maximal duration); the tasks run; a client that stays reads its         *)
(* response; buffered requests are served as Gateway shows.                *)
(* Neither the handler's timeout nor a client's leaving is relied on.      *)
(***************************************************************************)
Fairness ==
    /\ \A r \in Requests : WF_vars(FrontStep(r)) /\ WF_vars(Serve(r))
    /\ \A r \in Others : WF_vars(OtherEnds(r))
    /\ WF_vars((\E S \in SUBSET waiting : ToJob(S)) /\ UNCHANGED frontVars)
    /\ WF_vars((InvokeFails \/ InvokeStarts) /\ UNCHANGED frontVars)
    /\ WF_vars(StreamEnds /\ UNCHANGED frontVars)
    /\ WF_vars(Forwarder /\ UNCHANGED frontVars)
    /\ WF_vars(Dispatch /\ UNCHANGED frontVars)

FairSpec == Spec /\ Fairness

-----------------------------------------------------------------------------
InService(r) ==
    \/ front[r] = "body"
    \/ front[r] = "in" /\ (r \in Requests => hpc[r] # "done")

\* Each permit is free or held by exactly one request, from its admission to
\* the end of its response: not released with the handler when a body is
\* still streamed, and not lost on any of the ways a body can end.
AdmissionConserved ==
    permits + Cardinality({r \in Arrivals : InService(r)}) = MaxInflightRequests

\* What a client has got when its request is over.
Phase(r) ==
    CASE front[r] = "new"                                     -> "new"
      [] InService(r)                                         -> "admitted"
      [] front[r] \in {"refused", "replied"}                  -> "replied"
      [] front[r] = "left"                                    -> "left"
      [] front[r] = "in" /\ r \in Requests /\ hpc[r] = "done" ->
           IF answer[r] = "none" THEN "left" ELSE "replied"

\* The request metric is emitted exactly once for a request that got an
\* answer, when the answer is complete (for a streamed body, when it has
\* ended), and never for one whose client left the handler.
RequestsCountedOnce ==
    \A r \in Requests : counted[r] = IF Phase(r) = "replied" THEN 1 ELSE 0

Got(r) ==
    CASE front[r] = "refused"                             -> "429"
      [] front[r] = "replied"                             -> "complete"
      [] front[r] = "in" /\ r \in Requests /\ ~ InService(r) -> answer[r]
      [] OTHER                                            -> "none"

Contract == INSTANCE RequestReply
              WITH Requests <- Arrivals, Replies <- Sent \cup {"504", "complete"},
                   Limit <- MaxInflightRequests,
                   phase <- [r \in Arrivals |-> Phase(r)],
                   answer <- [r \in Arrivals |-> Got(r)]

\* Streamed and buffered requests together keep the contract of RequestReply:
\* a permit is held until a streamed body has ended, a request is refused only
\* while the limit is used up, and a client that stays gets to the end of its
\* response.
ContractSpec == Contract!FairSpec
=============================================================================
