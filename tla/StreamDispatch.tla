--------------------------- MODULE StreamDispatch ----------------------------
(***************************************************************************)
(* Streamed invocations, one after the other: the job that makes the call, *)
(* the dispatcher that reads NDJSON records off the forwarded Lambda       *)
(* stream (response_dispatch/stream.rs), and for every request the HTTP    *)
(* handler from the enqueued request on, then the response body            *)
(* (server.rs, handle_any and PermitStream).                               *)
(*                                                                         *)
(* A request has a one-shot `init` channel and a bounded `body` channel.   *)
(* A record is a step of the dispatcher: the target may write any record   *)
(* at any time.  An id that is not pending stands for an unknown one too.  *)
(* Chunks are counted, not named: a channel keeps their order.             *)
(***************************************************************************)
EXTENDS LambdaStream, FiniteSets

CONSTANTS
    Requests,      \* the streamed requests
    NoRequest,     \* no request
    BodyCapacity   \* capacity of a body channel

ASSUME StreamAssumption ==
    /\ NoRequest \notin Requests
    /\ BodyCapacity \in Nat \ {0}

VARIABLES
    waiting,  \* enqueued, and not yet in a job: the batcher has the senders
    dpc,      \* the job: none ("idle"), "invoke", "recv", "push" (waits for room)
    cur,      \* the request whose chunk it pushes, or NoRequest
    pending,  \* ids of the pending map
    init,     \* init[r]: sender "held", or "dropped", or what the channel holds, or "none"
    bodyTx,   \* the requests whose body sender is alive
    bodyQ,    \* bodyQ[r]: chunks in the body channel
    hpc,      \* hpc[r]: the handler is not there yet, awaits init, streams, or is done
    answer,   \* answer[r]: what the client got, or "none"
    spoke,    \* the requests of usable records, and those in flight in a failed batch
    unread    \* unread[r]: chunks written for r while it was pending, and not read

handlerVars == <<hpc, answer>>
historyVars == <<spoke, unread>>
dispatchVars ==
    <<waiting, dpc, cur, pending, init, bodyTx, bodyQ, handlerVars, historyVars, forwarderVars>>

Sent == {"stream", "reply", "502", "refused"}

DispatchTypeOK ==
    /\ LambdaStreamTypeOK
    /\ waiting \in SUBSET Requests
    /\ dpc \in {"idle", "invoke", "recv", "push"}
    /\ cur \in Requests \cup {NoRequest}
    /\ pending \in SUBSET Requests
    /\ init \in [Requests -> {"none", "held", "dropped"} \cup Sent]
    /\ bodyTx \in SUBSET Requests
    /\ bodyQ \in [Requests -> 0..BodyCapacity]
    /\ hpc \in [Requests -> {"out", "await", "stream", "done"}]
    /\ answer \in [Requests -> {"none", "504"} \cup Sent]
    /\ spoke \in SUBSET Requests
    /\ unread \in [Requests -> Nat]

DispatchInit ==
    /\ LambdaStreamInit
    /\ waiting = {}
    /\ dpc = "idle"
    /\ cur = NoRequest
    /\ pending = {}
    /\ init = [r \in Requests |-> "none"]
    /\ bodyTx = {}
    /\ bodyQ = [r \in Requests |-> 0]
    /\ hpc = [r \in Requests |-> "out"]
    /\ answer = [r \in Requests |-> "none"]
    /\ spoke = {}
    /\ unread = [r \in Requests |-> 0]

-----------------------------------------------------------------------------
(* The way to the dispatcher, as far as it concerns the senders.           *)

\* The init channels after the senders of S were used, or dropped: what is
\* sent to a handler that is gone is dropped too.
InitAfter(S, sent) ==
    [r \in Requests |->
        IF r \in S /\ init[r] = "held"
        THEN IF hpc[r] = "await" THEN sent ELSE "dropped"
        ELSE init[r]]

\* Both channels are created, and the batcher gets their senders.
Enqueue(r) ==
    /\ hpc[r] = "out"
    /\ hpc' = [hpc EXCEPT ![r] = "await"]
    /\ init' = [init EXCEPT ![r] = "held"]
    /\ bodyTx' = bodyTx \cup {r}
    /\ waiting' = waiting \cup {r}
    /\ UNCHANGED <<dpc, cur, pending, bodyQ, answer, historyVars, forwarderVars>>

\* Mutant: the body senders of a refused batch are forgotten.
LoseForgetsBodies(S, sent) ==
    /\ waiting' = waiting \ S
    /\ init' = InitAfter(S, sent)
    /\ UNCHANGED <<bodyTx, dpc, cur, pending, bodyQ, handlerVars, historyVars, forwarderVars>>

\* The senders of S end before there is a job.
Lose(S, sent) ==
    /\ waiting' = waiting \ S
    /\ init' = InitAfter(S, sent)
    /\ bodyTx' = bodyTx \ S
    /\ UNCHANGED <<dpc, cur, pending, bodyQ, handlerVars, historyVars, forwarderVars>>

\* The plan fails (413), or the job channel is full (429).
BatchRefused(S) == S # {} /\ Lose(S, "refused")

\* The batcher task is evicted with S in its queue.
Evicted(S) == S # {} /\ Lose(S, "dropped")

\* S is planned as one invocation, and its job gets a permit.
StartJob(S) ==
    /\ dpc = "idle" /\ fwd = "done"
    /\ S # {}
    /\ waiting' = waiting \ S
    /\ pending' = S
    /\ dpc' = "invoke"
    /\ UNCHANGED <<cur, init, bodyTx, bodyQ, handlerVars, historyVars, forwarderVars>>

-----------------------------------------------------------------------------
(* The dispatcher.                                                         *)

\* The next payload is a record.
Arrived == dpc = "recv" /\ pipe # <<>> /\ Head(pipe) = "bytes"

Record == Arrived /\ Take

\* init.send, then body.send, would find a receiver.
Reachable(r) == IF init[r] = "held" THEN hpc[r] = "await" ELSE hpc[r] # "done"

\* Mutant: a failed batch leaves the committed bodies open.
FailAllKeepsBodies ==
    /\ pending' = {}
    /\ init' = InitAfter(pending, "502")
    /\ dpc' = "idle"
    /\ HangUp
    /\ UNCHANGED <<waiting, cur, bodyTx>>

\* fail_all_stream: 502 where nothing is committed, and every body is closed.
FailAll ==
    /\ pending' = {}
    /\ init' = InitAfter(pending, "502")
    /\ bodyTx' = bodyTx \ pending
    /\ dpc' = "idle"
    /\ HangUp
    /\ UNCHANGED <<waiting, cur>>

\* The record of r fails: its entry has left the map, so its senders are
\* dropped, init after `sent`; then the rest of the map is failed.
FailRecord(r, sent) ==
    /\ Arrived /\ HangUp
    /\ r \in pending
    /\ pending' = {}
    /\ init' = [InitAfter(pending, "502") EXCEPT ![r] = InitAfter({r}, sent)[r]]
    /\ bodyTx' = bodyTx \ pending
    /\ dpc' = "idle"
    /\ spoke' = spoke \cup pending
    /\ UNCHANGED <<waiting, cur, bodyQ, handlerVars, unread>>

\* The entry of r is dropped and the dispatcher goes on.
DropEntry(r, sent) ==
    /\ pending' = pending \ {r}
    /\ init' = InitAfter({r}, sent)
    /\ bodyTx' = bodyTx \ {r}

\* An id that is unknown or done with, or a second head: ignored.
IgnoreRecord(r) ==
    /\ Record
    /\ r \notin pending \/ init[r] # "held"
    /\ UNCHANGED <<waiting, dpc, cur, pending, init, bodyTx, bodyQ, handlerVars, historyVars>>

\* A head or a chunk for a client that is gone.
RecordTooLate(r) ==
    /\ Record
    /\ r \in pending
    /\ ~ Reachable(r)
    /\ DropEntry(r, "dropped")
    /\ UNCHANGED <<waiting, dpc, cur, bodyQ, handlerVars, historyVars>>

HeadRecord(r) ==
    /\ Record
    /\ r \in pending
    /\ init[r] = "held" /\ Reachable(r)
    /\ init' = InitAfter({r}, "stream")
    /\ spoke' = spoke \cup {r}
    /\ UNCHANGED <<waiting, dpc, cur, pending, bodyTx, bodyQ, handlerVars, unread>>

\* A head with a bad status, header or cookie; a terminal record with a bad
\* status, header or body.
BadHeadOrReply(r) == FailRecord(r, "dropped")

\* Mutant: a chunk that finds the body channel full is lost.
ChunkLossy(r) ==
    /\ Record
    /\ r \in pending
    /\ Reachable(r)
    /\ init' = InitAfter({r}, "stream")
    /\ spoke' = spoke \cup {r}
    /\ unread' = [unread EXCEPT ![r] = @ + 1]
    /\ bodyQ' = [bodyQ EXCEPT ![r] = IF @ < BodyCapacity THEN @ + 1 ELSE @]
    /\ UNCHANGED <<waiting, dpc, cur, pending, bodyTx, handlerVars>>

\* Mutant: the body channel has no bound.
ChunkUnbounded(r) ==
    /\ Record
    /\ r \in pending
    /\ Reachable(r)
    /\ init' = InitAfter({r}, "stream")
    /\ spoke' = spoke \cup {r}
    /\ unread' = [unread EXCEPT ![r] = @ + 1]
    /\ bodyQ' = [bodyQ EXCEPT ![r] = @ + 1]
    /\ UNCHANGED <<waiting, dpc, cur, pending, bodyTx, handlerVars>>

\* A chunk: a head is made up if there was none; body.send completes at
\* once, or the dispatcher waits with the entry out of the map.
Chunk(r) ==
    /\ Record
    /\ r \in pending
    /\ Reachable(r)
    /\ init' = InitAfter({r}, "stream")
    /\ spoke' = spoke \cup {r}
    /\ unread' = [unread EXCEPT ![r] = @ + 1]
    /\ \/ /\ bodyQ[r] < BodyCapacity
          /\ bodyQ' = [bodyQ EXCEPT ![r] = @ + 1]
          /\ UNCHANGED <<dpc, cur, pending>>
       \/ /\ bodyQ[r] = BodyCapacity
          /\ dpc' = "push"
          /\ cur' = r
          /\ pending' = pending \ {r}
          /\ UNCHANGED bodyQ
    /\ UNCHANGED <<waiting, bodyTx, handlerVars>>

\* A chunk whose body does not decode: a head is made up before, unless the
\* client is gone by then (RecordTooLate).
BadChunk(r) ==
    /\ init[r] = "held" => Reachable(r)
    /\ FailRecord(r, "stream")

\* Mutant: the entry is not put back into the map after a wait.
PushedForgets ==
    /\ dpc = "push"
    /\ hpc[cur] # "done"
    /\ bodyQ[cur] < BodyCapacity
    /\ bodyQ' = [bodyQ EXCEPT ![cur] = @ + 1]
    /\ dpc' = "recv"
    /\ cur' = NoRequest
    /\ UNCHANGED <<waiting, pending, init, bodyTx, handlerVars, historyVars, forwarderVars>>

\* The client has read a chunk: the waiting one is pushed.
Pushed ==
    /\ dpc = "push"
    /\ hpc[cur] # "done"
    /\ bodyQ[cur] < BodyCapacity
    /\ bodyQ' = [bodyQ EXCEPT ![cur] = @ + 1]
    /\ pending' = pending \cup {cur}
    /\ dpc' = "recv"
    /\ cur' = NoRequest
    /\ UNCHANGED <<waiting, init, bodyTx, handlerVars, historyVars, forwarderVars>>

\* The client went away meanwhile: the entry is dropped.
PushFails ==
    /\ dpc = "push"
    /\ hpc[cur] = "done"
    /\ bodyTx' = bodyTx \ {cur}
    /\ dpc' = "recv"
    /\ cur' = NoRequest
    /\ UNCHANGED <<waiting, pending, init, bodyQ, handlerVars, historyVars, forwarderVars>>

\* "end": a head is made up if there was none; the body is closed.
End(r) ==
    /\ Record
    /\ r \in pending
    /\ DropEntry(r, "stream")
    /\ spoke' = spoke \cup {r}
    /\ UNCHANGED <<waiting, dpc, cur, bodyQ, handlerVars, unread>>

\* "error", or a terminal record: the response if none is committed; the
\* body is closed.
Reply(r) ==
    /\ Record
    /\ r \in pending
    /\ DropEntry(r, "reply")
    /\ spoke' = spoke \cup {r}
    /\ UNCHANGED <<waiting, dpc, cur, bodyQ, handlerVars, unread>>

\* An unparseable record, a wrong version, more than the buffer holds, or an
\* error of the Lambda stream.
Broken ==
    /\ dpc = "recv" /\ pipe # <<>>
    /\ FailAll
    /\ spoke' = spoke \cup pending
    /\ UNCHANGED <<bodyQ, handlerVars, unread>>

\* Mutant: requests without a record get an empty 200.
EofCommits ==
    /\ dpc = "recv" /\ pipe = <<>> /\ fwd = "done"
    /\ pending' = {}
    /\ init' = InitAfter(pending, "stream")
    /\ bodyTx' = bodyTx \ pending
    /\ dpc' = "idle"
    /\ HangUp
    /\ UNCHANGED <<waiting, cur, bodyQ, handlerVars, historyVars>>

\* What is left behind the last newline is not a record.
BadTail ==
    /\ dpc = "recv" /\ pipe = <<>> /\ fwd = "done"
    /\ handled > 0
    /\ FailAll
    /\ spoke' = spoke \cup pending
    /\ UNCHANGED <<bodyQ, handlerVars, unread>>

\* The forwarder is done and the channel empty: 502 "missing response record".
Eof ==
    /\ dpc = "recv" /\ pipe = <<>> /\ fwd = "done"
    /\ FailAll
    /\ UNCHANGED <<bodyQ, handlerVars, historyVars>>

\* The call is refused, or answered with a buffered response.
InvokeFails ==
    /\ dpc = "invoke"
    /\ FailAll
    /\ spoke' = spoke \cup pending
    /\ UNCHANGED <<bodyQ, handlerVars, unread>>

InvokeStarts ==
    /\ dpc = "invoke"
    /\ dpc' = "recv"
    /\ Spawn
    /\ UNCHANGED <<waiting, cur, pending, init, bodyTx, bodyQ, handlerVars, historyVars>>

-----------------------------------------------------------------------------
(* The handler of r, then its response body.                               *)

dispatcherVars == <<waiting, dpc, cur, pending, bodyTx, forwarderVars>>

\* init_rx has been read, or is dropped with what it holds.
ReceiverGone(r) == init' = [init EXCEPT ![r] = IF @ = "held" THEN "held" ELSE "none"]

\* The client gets `code` and nothing more; init_rx and body_rx are dropped.
Respond(r, code) ==
    /\ hpc[r] = "await"
    /\ hpc' = [hpc EXCEPT ![r] = "done"]
    /\ answer' = [answer EXCEPT ![r] = code]
    /\ ReceiverGone(r)
    /\ UNCHANGED <<bodyQ, historyVars, dispatcherVars>>

GetReply(r) == init[r] \in {"reply", "502", "refused"} /\ Respond(r, init[r])

GetDropped(r) == init[r] = "dropped" /\ Respond(r, "502")

Timeout(r) == init[r] = "held" /\ Respond(r, "504")

GetHead(r) ==
    /\ hpc[r] = "await"
    /\ init[r] = "stream"
    /\ hpc' = [hpc EXCEPT ![r] = "stream"]
    /\ answer' = [answer EXCEPT ![r] = "stream"]
    /\ ReceiverGone(r)
    /\ UNCHANGED <<bodyQ, historyVars, dispatcherVars>>

ReadChunk(r) ==
    /\ hpc[r] = "stream"
    /\ bodyQ[r] > 0
    /\ bodyQ' = [bodyQ EXCEPT ![r] = @ - 1]
    /\ unread' = [unread EXCEPT ![r] = @ - 1]
    /\ UNCHANGED <<init, hpc, answer, spoke, dispatcherVars>>

\* The body channel is empty and its sender is gone: the body ends.
BodyEnds(r) ==
    /\ hpc[r] = "stream"
    /\ bodyQ[r] = 0
    /\ r \notin bodyTx
    /\ hpc' = [hpc EXCEPT ![r] = "done"]
    /\ UNCHANGED <<init, answer, bodyQ, historyVars, dispatcherVars>>

\* The client goes away.
Leave(r) ==
    /\ hpc[r] \in {"await", "stream"}
    /\ hpc' = [hpc EXCEPT ![r] = "done"]
    /\ bodyQ' = [bodyQ EXCEPT ![r] = 0]
    /\ unread' = [unread EXCEPT ![r] = 0]
    /\ ReceiverGone(r)
    /\ UNCHANGED <<answer, spoke, dispatcherVars>>

-----------------------------------------------------------------------------
Incoming(r) ==
    \/ IgnoreRecord(r) \/ RecordTooLate(r) \/ HeadRecord(r) \/ BadHeadOrReply(r) \/ Chunk(r)
    \/ BadChunk(r) \/ End(r) \/ Reply(r)

Forwarder ==
    /\ EventArrives \/ Forward
    /\ UNCHANGED <<waiting, dpc, cur, pending, init, bodyTx, bodyQ, handlerVars, historyVars>>

StreamEnds ==
    /\ StreamBreaks \/ Complete \/ StreamEof
    /\ UNCHANGED <<waiting, dpc, cur, pending, init, bodyTx, bodyQ, handlerVars, historyVars>>

ToJob(S) == BatchRefused(S) \/ Evicted(S) \/ StartJob(S)

Dispatch ==
    \/ Broken \/ BadTail \/ Eof \/ Pushed \/ PushFails
    \/ \E r \in Requests : Incoming(r)

\* Steps that leave the handlers where they are.
DispatcherNext ==
    \/ \E S \in SUBSET waiting : ToJob(S)
    \/ InvokeFails \/ InvokeStarts \/ Forwarder \/ Dispatch

HandlerNext(r) ==
    \/ Enqueue(r) \/ GetReply(r) \/ GetDropped(r) \/ GetHead(r) \/ Timeout(r)
    \/ ReadChunk(r) \/ BodyEnds(r) \/ Leave(r)

DispatchNext == DispatcherNext \/ \E r \in Requests : HandlerNext(r)

DispatchSpec == DispatchInit /\ [][DispatchNext]_dispatchVars

-----------------------------------------------------------------------------
\* The senders of a request are alive exactly while somebody can still find
\* them: with the batcher, in the map of the dispatcher, or in its hands while
\* it waits for a slow client; and they are in one of these places.  A sender
\* that is nowhere would keep its client waiting for ever.
SendersTracked ==
    /\ \A r \in Requests :
         r \in waiting \/ r \in pending \/ (dpc = "push" /\ r = cur)
            <=> init[r] = "held" \/ r \in bodyTx
    /\ waiting \cap pending = {}
    /\ cur \notin waiting \cup pending

\* 200 is never made up for a request about which the target wrote nothing:
\* a client that gets a response or a head had a usable record, or its batch
\* was failed (a chunk that does not decode commits its head first).
AnswersAreWritten ==
    \A r \in Requests : answer[r] \in {"reply", "stream"} => r \in spoke

\* Flow control loses and repeats no chunk: every chunk written for a client
\* that is still there has been read, is in the channel, or is the one the
\* dispatcher waits to push; so a body that ends has been read whole.
NoChunkLost ==
    \A r \in Requests :
        hpc[r] # "done" => unread[r] = bodyQ[r] + (IF dpc = "push" /\ cur = r THEN 1 ELSE 0)

\* Every invocation ends and frees its slot, and the forwarder drains the
\* Lambda stream to its end, however many clients are slow or leave and
\* whenever the dispatcher stops reading.
InvocationsEnd ==
    /\ dpc # "idle" ~> dpc = "idle"
    /\ fwd # "done" ~> fwd = "done"
=============================================================================
