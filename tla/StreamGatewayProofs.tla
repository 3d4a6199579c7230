-------------------------- MODULE StreamGatewayProofs --------------------------
(***************************************************************************)
(* Safety of the streamed path for every set of requests, and every        *)
(* capacity and limit.  The dispatcher and the handlers keep DispatchInv;  *)
(* the admission and the metric are then a matter of their own.            *)
(***************************************************************************)
EXTENDS StreamGateway, FiniteSetTheorems, TLAPS

USE LambdaStreamAssumption, StreamAssumption
    DEF LambdaStreamAssumption, StreamAssumption

-----------------------------------------------------------------------------
(* The forwarder and its channel.                                          *)

\* The receiver is alive while the dispatcher reads; then nothing is sent
\* behind an error, and an error that was seen is on its way.
PipeInv ==
    /\ LambdaStreamTypeOK
    /\ reader => canSend
    /\ ~ reader => pipe = <<>>
    /\ reader /\ fwd \in {"recv", "send"} => ~ erred
    /\ reader /\ ErrorLast => fwd \in {"drain", "done"}
    /\ PipeIntact

LEMMA EmptyPipe ==
    /\ <<>> \in Seq({"bytes", "error"})
    /\ Len(<<>>) = 0 /\ 0 <= PipeCapacity
    /\ 0 \in 0..MaxRecords /\ 0 \in Nat
  OBVIOUS

LEMMA PipeInit == LambdaStreamInit => PipeInv
  <1>1. LambdaStreamInit => LambdaStreamTypeOK
    BY EmptyPipe, Zenon DEF LambdaStreamInit, LambdaStreamTypeOK
  <1>2. QED
    BY <1>1, Zenon DEF LambdaStreamInit, PipeInv, PipeIntact

LEMMA PipeSpawn == ASSUME PipeInv, ~ reader, Spawn PROVE PipeInv'
  <1>1. pipe' = <<>> /\ canSend' = TRUE /\ fwd' = "recv" /\ total' = 0 /\ handled' = 0 /\ erred' = FALSE /\ reader' = TRUE
    BY DEF Spawn, PipeInv
  <1>2. LambdaStreamTypeOK'
    BY <1>1, EmptyPipe, Zenon DEF LambdaStreamTypeOK
  <1>3. ~ ErrorLast'
    BY <1>1 DEF ErrorLast
  <1>4. PipeIntact'
    BY <1>1, <1>3 DEF PipeIntact
  <1>5. QED
    BY <1>1, <1>2, <1>3, <1>4, Zenon DEF PipeInv

LEMMA PipeHangUp == ASSUME PipeInv, HangUp PROVE PipeInv'
  <1>1. LambdaStreamTypeOK'
    BY EmptyPipe, Zenon DEF HangUp, PipeInv, LambdaStreamTypeOK
  <1>2. QED
    BY <1>1, Zenon DEF HangUp, PipeInv, PipeIntact

\* The dispatcher takes a payload.
LEMMA PipeTake == ASSUME PipeInv, reader, Take, Head(pipe) = "bytes" PROVE PipeInv'
  <1> USE DEF PipeInv
  <1>1. /\ pipe \in Seq({"bytes", "error"}) /\ pipe # <<>> /\ pipe' = Tail(pipe)
        /\ Len(pipe) \in Nat \ {0} /\ pipe[1] = "bytes"
        /\ handled \in Nat /\ handled' = handled + 1
        /\ UNCHANGED <<fwd, canSend, reader, total, erred>>
    BY DEF Take, LambdaStreamTypeOK
  <1>2. /\ pipe' \in Seq({"bytes", "error"}) /\ Len(pipe') = Len(pipe) - 1
        /\ \A i \in 1..(Len(pipe) - 1) : pipe'[i] = pipe[i + 1]
    BY <1>1
  <1>3. LambdaStreamTypeOK'
    BY <1>1, <1>2 DEF LambdaStreamTypeOK
  <1>4. ErrorLast' <=> ErrorLast
    <2>1. CASE Len(pipe) = 1
      <3>1. pipe' = <<>> /\ pipe[Len(pipe)] = "bytes"
        BY <1>1, <1>2, <2>1
      <3>2. QED
        BY <3>1, Zenon DEF ErrorLast
    <2>2. CASE Len(pipe) > 1
      <3>1. Len(pipe) - 1 \in 1..(Len(pipe) - 1) /\ (Len(pipe) - 1) + 1 = Len(pipe)
        BY <1>1, <2>2
      <3>2. pipe'[Len(pipe')] = pipe[Len(pipe)] /\ pipe' # <<>>
        BY <1>1, <1>2, <2>2, <3>1
      <3>3. QED
        BY <1>1, <3>2 DEF ErrorLast
    <2>3. Len(pipe) = 1 \/ Len(pipe) > 1
      <3>1. \A n \in Nat \ {0} : n = 1 \/ n > 1
        OBVIOUS
      <3>2. QED
        BY <1>1, <3>1, Zenon
    <2>4. QED
      BY <2>1, <2>2, <2>3, Zenon
  <1>5. \A i \in 1..(Len(pipe') - 1) : pipe'[i] = "bytes"
    BY <1>1, <1>2 DEF PipeIntact
  <1>6. total = handled' + Len(pipe') - (IF ErrorLast THEN 1 ELSE 0) + (IF fwd = "send" THEN 1 ELSE 0)
    BY <1>1, <1>2 DEF PipeIntact
  <1>7. PipeIntact'
    <2>1. reader' => (erred' => fwd' \in {"breaking", "completing"} \/ ErrorLast')
      BY <1>1, <1>4 DEF PipeIntact
    <2>2. total' = handled' + Len(pipe') - (IF ErrorLast' THEN 1 ELSE 0) + (IF fwd' = "send" THEN 1 ELSE 0)
      BY <1>1, <1>4, <1>6
    <2>3. QED
      BY <1>5, <2>1, <2>2, Zenon DEF PipeIntact
  <1>8. QED
    BY <1>1, <1>3, <1>4, <1>7, Zenon

\* What the forwarder sends comes behind everything sent before.
LEMMA PipeSend == ASSUME PipeInv, Send PROVE PipeInv'
  <1> USE DEF PipeInv
  <1> DEFINE e == IF fwd = "send" THEN "bytes" ELSE "error"
  <1>1. /\ pipe \in Seq({"bytes", "error"}) /\ pipe' = Append(pipe, e)
        /\ Len(pipe) \in Nat /\ Len(pipe) < PipeCapacity
        /\ reader /\ fwd \in {"send", "breaking", "completing"}
        /\ fwd' = AfterSend
        /\ UNCHANGED <<canSend, reader, total, handled, erred>>
    BY DEF Send, Sending, LambdaStreamTypeOK
  <1>2. e \in {"bytes", "error"}
    OBVIOUS
  <1> HIDE DEF e
  <1>3. /\ pipe' \in Seq({"bytes", "error"}) /\ Len(pipe') = Len(pipe) + 1
        /\ pipe'[Len(pipe) + 1] = e
        /\ \A i \in 1..Len(pipe) : pipe'[i] = pipe[i]
    BY <1>1, <1>2
  <1>4. fwd' = (IF fwd = "send" THEN "recv" ELSE IF fwd = "breaking" THEN "done" ELSE "drain")
    BY <1>1 DEF AfterSend
  <1>5. LambdaStreamTypeOK'
    BY <1>1, <1>3, <1>4 DEF LambdaStreamTypeOK
  <1>6. ~ ErrorLast
    BY <1>1
  <1>7. ErrorLast' <=> fwd # "send"
    <2>1. pipe' # <<>>
      BY <1>1, <1>3
    <2>2. e = "error" <=> fwd # "send"
      BY DEF e
    <2>3. pipe'[Len(pipe')] = e
      BY <1>3
    <2>4. QED
      BY <2>1, <2>2, <2>3, Zenon DEF ErrorLast
  <1>8. \A i \in 1..Len(pipe) : pipe[i] = "bytes"
    <2>1. \A i \in 1..(Len(pipe) - 1) : pipe[i] = "bytes"
      BY <1>1 DEF PipeIntact
    <2>2. CASE pipe = <<>>
      BY <2>2
    <2>3. CASE pipe # <<>>
      <3>1. Len(pipe) \in 1..Len(pipe) /\ pipe[Len(pipe)] \in {"bytes", "error"}
        BY <1>1, <2>3
      <3>2. pipe[Len(pipe)] = "bytes"
        BY <1>6, <2>3, <3>1 DEF ErrorLast
      <3>3. \A i \in 1..Len(pipe) : i \in 1..(Len(pipe) - 1) \/ i = Len(pipe)
        BY <1>1
      <3>4. QED
        BY <2>1, <3>2, <3>3
    <2>4. QED
      BY <2>2, <2>3
  <1>9. \A i \in 1..(Len(pipe') - 1) : pipe'[i] = "bytes"
    BY <1>1, <1>3, <1>8
  <1>10. total = handled + Len(pipe) + (IF fwd = "send" THEN 1 ELSE 0)
    BY <1>1, <1>6 DEF PipeIntact, LambdaStreamTypeOK
  <1>11. total' = handled' + Len(pipe') - (IF ErrorLast' THEN 1 ELSE 0) + (IF fwd' = "send" THEN 1 ELSE 0)
    <2>1. handled \in Nat
      BY DEF LambdaStreamTypeOK
    <2>2. CASE fwd = "send"
      BY <1>1, <1>3, <1>4, <1>7, <1>10, <2>1, <2>2
    <2>3. CASE fwd # "send"
      BY <1>1, <1>3, <1>4, <1>7, <1>10, <2>1, <2>3
    <2>4. QED
      BY <2>2, <2>3
  <1>12. erred => fwd # "send"
    BY <1>1
  <1>13. PipeIntact'
    BY <1>1, <1>7, <1>9, <1>11, <1>12, Zenon DEF PipeIntact
  <1>14. QED
    BY <1>1, <1>4, <1>5, <1>7, <1>12, <1>13

LEMMA PipeEvent == ASSUME PipeInv, EventArrives PROVE PipeInv'
  <1> USE DEF PipeInv
  <1>1. UNCHANGED <<canSend, pipe, reader, handled>> /\ fwd = "recv"
    BY DEF EventArrives, Payload, StreamBreaks, Complete, StreamEof
  <1>2. ErrorLast' <=> ErrorLast
    BY <1>1 DEF ErrorLast
  <1>3. CASE Payload
    BY <1>1, <1>2, <1>3 DEF Payload, LambdaStreamTypeOK, PipeIntact
  <1>4. CASE StreamBreaks
    BY <1>1, <1>2, <1>4 DEF StreamBreaks, LambdaStreamTypeOK, PipeIntact
  <1>5. CASE Complete
    BY <1>1, <1>2, <1>5 DEF Complete, LambdaStreamTypeOK, PipeIntact
  <1>6. CASE StreamEof
    BY <1>1, <1>2, <1>6 DEF StreamEof, LambdaStreamTypeOK, PipeIntact
  <1>7. QED
    BY <1>3, <1>4, <1>5, <1>6 DEF EventArrives

LEMMA PipeForward == ASSUME PipeInv, Forward PROVE PipeInv'
  <1>1. CASE SendFails
    BY <1>1 DEF PipeInv, SendFails, Sending, AfterSend, LambdaStreamTypeOK, PipeIntact
  <1>2. CASE Drained
    BY <1>2 DEF PipeInv, Drained, LambdaStreamTypeOK, PipeIntact, ErrorLast
  <1>3. QED
    BY <1>1, <1>2, PipeSend DEF Forward

-----------------------------------------------------------------------------
(* The senders.                                                            *)

InitStates == {"none", "held", "dropped"} \cup Sent

\* Where senders are, and for whom.
SenderTypes ==
    /\ waiting \in SUBSET Requests
    /\ dpc \in {"idle", "invoke", "recv", "push"}
    /\ cur \in Requests \cup {NoRequest}
    /\ pending \in SUBSET Requests
    /\ init \in [Requests -> InitStates]
    /\ bodyTx \in SUBSET Requests
    /\ hpc \in [Requests -> {"out", "await", "stream", "done"}]

\* A body sender is in exactly one place, with the init sender if that was
\* not used; the dispatcher has no request without an invocation, and a
\* request that is not enqueued has no senders.
SenderInv ==
    /\ SenderTypes
    /\ \A r \in Requests :
         /\ r \in bodyTx <=> r \in waiting \/ r \in pending \/ r = cur
         /\ init[r] = "held" => r \in waiting \/ r \in pending
         /\ ~ (r \in waiting /\ r \in pending)
         /\ hpc[r] = "out" => init[r] = "none" /\ r \notin bodyTx
    /\ cur \notin waiting /\ cur \notin pending
    /\ dpc = "push" <=> cur # NoRequest
    /\ dpc = "idle" => pending = {}

LEMMA SenderInit == DispatchInit => SenderInv
  BY DEF DispatchInit, SenderInv, SenderTypes, InitStates

\* Sending on the init channels of S, or dropping them, uses up those that
\* are alive.
LEMMA AfterInit ==
    ASSUME SenderTypes, NEW S \in SUBSET Requests, NEW sent \in Sent \cup {"dropped"}
    PROVE  /\ InitAfter(S, sent) \in [Requests -> InitStates]
           /\ \A r \in Requests :
                /\ InitAfter(S, sent)[r] = "held" <=> init[r] = "held" /\ r \notin S
                /\ InitAfter(S, sent)[r] \in {init[r], sent, "dropped"}
                /\ r \notin S \/ init[r] # "held" => InitAfter(S, sent)[r] = init[r]
  BY DEF InitAfter, SenderTypes, InitStates, Sent

\* The senders of S are used up or dropped, and nobody has S any more.
LEMMA SendersGone ==
    ASSUME SenderInv, NEW S \in SUBSET Requests,
           init' \in [Requests -> InitStates],
           \A r \in Requests :
             /\ init'[r] = "held" <=> init[r] = "held" /\ r \notin S
             /\ init[r] # "held" => init'[r] = init[r],
           bodyTx' = bodyTx \ S,
           hpc' = hpc,
           \/ waiting' = waiting \ S /\ S \subseteq waiting /\ UNCHANGED <<dpc, cur, pending>>
           \/ pending' = pending \ S /\ S \subseteq pending /\ UNCHANGED <<dpc, cur, waiting>>
           \/ pending' = {} /\ S = pending /\ dpc' = "idle" /\ dpc # "push" /\ UNCHANGED <<cur, waiting>>
           \/ dpc = "push" /\ S = {cur} /\ dpc' = "recv" /\ cur' = NoRequest /\ UNCHANGED <<waiting, pending>>
    PROVE  SenderInv'
  <1>1. SenderTypes'
    BY DEF SenderInv, SenderTypes
  <1>2. ASSUME NEW r \in Requests
        PROVE  /\ r \in bodyTx' <=> r \in waiting' \/ r \in pending' \/ r = cur'
               /\ init'[r] = "held" => r \in waiting' \/ r \in pending'
               /\ ~ (r \in waiting' /\ r \in pending')
               /\ hpc'[r] = "out" => init'[r] = "none" /\ r \notin bodyTx'
    BY DEF SenderInv, SenderTypes
  <1>3. /\ cur' \notin waiting' /\ cur' \notin pending'
        /\ dpc' = "push" <=> cur' # NoRequest
        /\ dpc' = "idle" => pending' = {}
    BY DEF SenderInv, SenderTypes
  <1>4. QED
    BY <1>1, <1>2, <1>3 DEF SenderInv

LEMMA SenderHandlerStep == ASSUME SenderInv, NEW r \in Requests, HandlerNext(r) PROVE SenderInv'
  <1> USE DEF SenderInv, SenderTypes
  <1>1. CASE Enqueue(r)
    BY <1>1 DEF Enqueue, InitStates, Sent
  <1>2. CASE ReadChunk(r)
    BY <1>2, Zenon DEF ReadChunk, dispatcherVars
  <1>3. CASE HandlerNext(r) /\ ~ Enqueue(r) /\ ~ ReadChunk(r)
    <2>1. UNCHANGED <<waiting, dpc, cur, pending, bodyTx>>
      BY <1>3, Zenon DEF HandlerNext, GetReply, GetDropped, Timeout, Respond, GetHead, BodyEnds,
                         Leave, dispatcherVars
    <2>2. hpc[r] # "out" /\ (hpc' = [hpc EXCEPT ![r] = "stream"] \/ hpc' = [hpc EXCEPT ![r] = "done"])
      BY <1>3 DEF HandlerNext, GetReply, GetDropped, Timeout, Respond, GetHead, BodyEnds, Leave
    <2>3. ReceiverGone(r) \/ init' = init
      BY <1>3, Zenon DEF HandlerNext, GetReply, GetDropped, Timeout, Respond, GetHead, BodyEnds,
                         Leave
    <2>4. init' \in [Requests -> InitStates]
      BY <2>3 DEF ReceiverGone, InitStates
    <2>5. \A s \in Requests : init'[s] = init[s] \/ (init[s] # "held" /\ init'[s] = "none")
      BY <2>3 DEF ReceiverGone
    <2>6. \A s \in Requests : hpc'[s] = "out" => hpc[s] = "out"
      BY <2>2
    <2>7. hpc' \in [Requests -> {"out", "await", "stream", "done"}]
      BY <2>2
    <2>8. QED
      BY <2>1, <2>4, <2>5, <2>6, <2>7
  <1>4. QED
    BY <1>1, <1>2, <1>3

LEMMA SenderLose ==
    ASSUME SenderInv, NEW S \in SUBSET waiting, NEW sent \in Sent \cup {"dropped"}, Lose(S, sent)
    PROVE  SenderInv'
  <1>1. S \in SUBSET Requests
    BY DEF SenderInv, SenderTypes
  <1>2. /\ init' = InitAfter(S, sent) /\ bodyTx' = bodyTx \ S /\ hpc' = hpc
        /\ waiting' = waiting \ S /\ UNCHANGED <<dpc, cur, pending>>
    BY DEF Lose, handlerVars
  <1>3. /\ init' \in [Requests -> InitStates]
        /\ \A q \in Requests :
             /\ init'[q] = "held" <=> init[q] = "held" /\ q \notin S
             /\ init[q] # "held" => init'[q] = init[q]
    BY <1>1, <1>2, AfterInit DEF SenderInv
  <1>4. QED
    BY <1>1, <1>2, <1>3, SendersGone

LEMMA SenderFailAll ==
    ASSUME SenderInv, FailAll, dpc # "push", hpc' = hpc
    PROVE  SenderInv'
  <1>1. pending \in SUBSET Requests /\ "502" \in Sent \cup {"dropped"}
    BY DEF SenderInv, SenderTypes, Sent
  <1>2. /\ init' = InitAfter(pending, "502") /\ bodyTx' = bodyTx \ pending
        /\ pending' = {} /\ dpc' = "idle" /\ UNCHANGED <<cur, waiting>>
    BY DEF FailAll
  <1>3. /\ init' \in [Requests -> InitStates]
        /\ \A q \in Requests :
             /\ init'[q] = "held" <=> init[q] = "held" /\ q \notin pending
             /\ init[q] # "held" => init'[q] = init[q]
    BY <1>1, <1>2, AfterInit DEF SenderInv
  <1>4. QED
    BY <1>1, <1>2, <1>3, SendersGone

LEMMA SenderDropEntry ==
    ASSUME SenderInv, NEW r \in pending, NEW sent \in Sent \cup {"dropped"}, DropEntry(r, sent),
           UNCHANGED <<waiting, dpc, cur, hpc>>
    PROVE  SenderInv'
  <1>1. {r} \in SUBSET Requests
    BY DEF SenderInv, SenderTypes
  <1>2. /\ init' = InitAfter({r}, sent) /\ bodyTx' = bodyTx \ {r} /\ pending' = pending \ {r}
    BY DEF DropEntry
  <1>3. /\ init' \in [Requests -> InitStates]
        /\ \A q \in Requests :
             /\ init'[q] = "held" <=> init[q] = "held" /\ q \notin {r}
             /\ init[q] # "held" => init'[q] = init[q]
    BY <1>1, <1>2, AfterInit DEF SenderInv
  <1>4. QED
    BY <1>1, <1>2, <1>3, SendersGone

LEMMA SenderFailRecord ==
    ASSUME SenderInv, NEW r \in Requests, NEW sent \in Sent \cup {"dropped"}, FailRecord(r, sent)
    PROVE  SenderInv'
  <1> DEFINE A == InitAfter(pending, "502")
             B == InitAfter({r}, sent)
  <1>1. /\ pending \in SUBSET Requests /\ {r} \in SUBSET Requests /\ r \in pending
        /\ "502" \in Sent \cup {"dropped"}
    BY DEF SenderInv, SenderTypes, Sent, FailRecord
  <1>2. /\ A \in [Requests -> InitStates] /\ B \in [Requests -> InitStates]
        /\ \A s \in Requests :
             /\ A[s] = "held" <=> init[s] = "held" /\ s \notin pending
             /\ init[s] # "held" => A[s] = init[s]
        /\ B[r] # "held"
        /\ init[r] # "held" => B[r] = init[r]
    BY <1>1, AfterInit DEF SenderInv
  <1>3. /\ init' = [A EXCEPT ![r] = B[r]] /\ bodyTx' = bodyTx \ pending
        /\ pending' = {} /\ dpc' = "idle" /\ dpc = "recv" /\ UNCHANGED <<cur, waiting, hpc>>
    BY DEF FailRecord, Arrived, handlerVars
  <1> HIDE DEF A, B
  <1>4. /\ init' \in [Requests -> InitStates]
        /\ \A s \in Requests :
             /\ init'[s] = "held" <=> init[s] = "held" /\ s \notin pending
             /\ init[s] # "held" => init'[s] = init[s]
    BY <1>1, <1>2, <1>3
  <1>5. QED
    BY <1>1, <1>3, <1>4, SendersGone

\* A head is sent; the entry of r stays, or is taken out of the map for as
\* long as its chunk waits.
LEMMA SenderHead ==
    ASSUME SenderInv, NEW r \in pending, init' = InitAfter({r}, "stream"), dpc = "recv",
           UNCHANGED <<waiting, bodyTx, hpc>>,
           \/ UNCHANGED <<dpc, cur, pending>>
           \/ dpc' = "push" /\ cur' = r /\ pending' = pending \ {r}
    PROVE  SenderInv'
  <1>1. {r} \in SUBSET Requests /\ "stream" \in Sent \cup {"dropped"}
    BY DEF SenderInv, SenderTypes, Sent
  <1>2. /\ init' \in [Requests -> InitStates]
        /\ \A s \in Requests : init'[s] = "held" => init[s] = "held" /\ s # r
        /\ \A s \in Requests : init[s] # "held" => init'[s] = init[s]
    BY <1>1, AfterInit DEF SenderInv
  <1>3. CASE UNCHANGED <<dpc, cur, pending>>
    BY <1>2, <1>3 DEF SenderInv, SenderTypes
  <1>4. CASE dpc' = "push" /\ cur' = r /\ pending' = pending \ {r}
    BY <1>2, <1>4 DEF SenderInv, SenderTypes
  <1>5. QED
    BY <1>3, <1>4

LEMMA SenderRecord == ASSUME SenderInv, NEW r \in Requests, Incoming(r) PROVE SenderInv'
  <1>1. CASE IgnoreRecord(r)
    BY <1>1, Zenon DEF IgnoreRecord, SenderInv, SenderTypes, handlerVars
  <1>2. CASE RecordTooLate(r) \/ End(r) \/ Reply(r)
    <2>1. /\ r \in pending /\ UNCHANGED <<waiting, dpc, cur, hpc>>
          /\ DropEntry(r, "dropped") \/ DropEntry(r, "stream") \/ DropEntry(r, "reply")
      BY <1>2 DEF RecordTooLate, End, Reply, handlerVars
    <2>2. QED
      BY <2>1, SenderDropEntry DEF Sent
  <1>3. CASE HeadRecord(r) \/ Chunk(r)
    <2>1. /\ r \in pending /\ init' = InitAfter({r}, "stream") /\ dpc = "recv"
          /\ UNCHANGED <<waiting, bodyTx, hpc>>
          /\ \/ UNCHANGED <<dpc, cur, pending>>
             \/ dpc' = "push" /\ cur' = r /\ pending' = pending \ {r}
      BY <1>3, Zenon DEF HeadRecord, Chunk, Record, Arrived, handlerVars
    <2>2. QED
      BY <2>1, SenderHead
  <1>4. CASE BadHeadOrReply(r) \/ BadChunk(r)
    BY <1>4, SenderFailRecord DEF BadHeadOrReply, BadChunk, Sent
  <1>5. QED
    BY <1>1, <1>2, <1>3, <1>4 DEF Incoming

LEMMA SenderDispatcherStep == ASSUME SenderInv, DispatcherNext PROVE SenderInv'
  <1>1. ASSUME NEW S \in SUBSET waiting, ToJob(S) PROVE SenderInv'
    <2>1. CASE BatchRefused(S) \/ Evicted(S)
      BY <2>1, SenderLose DEF BatchRefused, Evicted, Sent
    <2>2. CASE StartJob(S)
      <3>1. /\ waiting' = waiting \ S /\ pending' = S /\ pending = {}
            /\ dpc' = "invoke" /\ dpc = "idle" /\ UNCHANGED <<cur, init, bodyTx, hpc>>
        BY <2>2 DEF StartJob, handlerVars, SenderInv
      <3>2. QED
        BY <3>1 DEF SenderInv, SenderTypes
    <2>3. QED
      BY <1>1, <2>1, <2>2 DEF ToJob
  <1>2. CASE InvokeFails \/ Broken \/ BadTail \/ Eof
    <2>1. FailAll /\ dpc # "push" /\ hpc' = hpc
      BY <1>2 DEF InvokeFails, Broken, BadTail, Eof, handlerVars
    <2>2. QED
      BY <2>1, SenderFailAll
  <1>3. CASE InvokeStarts
    BY <1>3 DEF InvokeStarts, SenderInv, SenderTypes, handlerVars
  <1>4. CASE Forwarder
    BY <1>4, Zenon DEF Forwarder, SenderInv, SenderTypes, handlerVars
  <1>5. CASE Pushed
    <2>1. /\ pending' = pending \cup {cur} /\ cur' = NoRequest /\ dpc = "push" /\ dpc' = "recv"
          /\ UNCHANGED <<waiting, init, bodyTx, hpc>>
      BY <1>5 DEF Pushed, handlerVars
    <2>2. cur \in Requests
      BY <2>1 DEF SenderInv, SenderTypes
    <2>3. QED
      BY <2>1, <2>2 DEF SenderInv, SenderTypes
  <1>6. CASE PushFails
    <2>1. /\ bodyTx' = bodyTx \ {cur} /\ cur' = NoRequest /\ dpc = "push" /\ dpc' = "recv"
          /\ UNCHANGED <<waiting, pending, init, hpc>>
          /\ hpc[cur] = "done"
      BY <1>6 DEF PushFails, handlerVars
    <2>2. cur \in Requests
      BY <2>1 DEF SenderInv, SenderTypes
    <2>3. /\ {cur} \in SUBSET Requests /\ init[cur] # "held"
          /\ init' \in [Requests -> InitStates]
      BY <2>1, <2>2 DEF SenderInv, SenderTypes
    <2>4. QED
      BY <2>1, <2>2, <2>3, SendersGone
  <1>7. QED
    BY <1>1, <1>2, <1>3, <1>4, <1>5, <1>6, SenderRecord DEF DispatcherNext, Dispatch

-----------------------------------------------------------------------------
(* The chunks.                                                             *)

ChunkInv ==
    /\ bodyQ \in [Requests -> 0..BodyCapacity]
    /\ unread \in [Requests -> Nat]
    /\ NoChunkLost

LEMMA ChunkInit == DispatchInit => ChunkInv
  BY DEF DispatchInit, ChunkInv, NoChunkLost

\* Nothing is written, and the dispatcher does not start or end a wait.
LEMMA ChunksKept ==
    ASSUME SenderInv, ChunkInv, UNCHANGED <<bodyQ, unread, cur>>, dpc # "push", dpc' # "push",
           \A r \in Requests : hpc'[r] # "done" => hpc[r] # "done"
    PROVE  ChunkInv'
  BY DEF ChunkInv, NoChunkLost

LEMMA ChunksOutside == ASSUME ChunkInv, UNCHANGED <<bodyQ, unread, cur, dpc, hpc>> PROVE ChunkInv'
  BY Zenon DEF ChunkInv, NoChunkLost

LEMMA ChunkWritten == ASSUME SenderInv, ChunkInv, NEW r \in Requests, Chunk(r) PROVE ChunkInv'
  <1>1. /\ dpc = "recv" /\ r \in pending /\ hpc' = hpc
        /\ unread' = [unread EXCEPT ![r] = @ + 1]
    BY DEF Chunk, Record, Arrived, handlerVars
  <1>2. r \in Requests /\ cur = NoRequest
    BY <1>1 DEF SenderInv, SenderTypes
  <1>3. CASE bodyQ[r] < BodyCapacity /\ bodyQ' = [bodyQ EXCEPT ![r] = @ + 1] /\ UNCHANGED <<dpc, cur>>
    BY <1>1, <1>2, <1>3 DEF ChunkInv, NoChunkLost
  <1>4. CASE dpc' = "push" /\ cur' = r /\ UNCHANGED bodyQ
    BY <1>1, <1>2, <1>4 DEF ChunkInv, NoChunkLost
  <1>5. QED
    BY <1>3, <1>4 DEF Chunk

LEMMA ChunkDispatcherStep == ASSUME SenderInv, ChunkInv, DispatcherNext PROVE ChunkInv'
  <1>1. ASSUME NEW S \in SUBSET waiting, ToJob(S) PROVE ChunkInv'
    <2>1. CASE BatchRefused(S) \/ Evicted(S)
      BY <2>1, ChunksOutside DEF BatchRefused, Evicted, Lose, handlerVars, historyVars
    <2>2. CASE StartJob(S)
      BY <2>2, ChunksKept DEF StartJob, handlerVars, historyVars
    <2>3. QED
      BY <1>1, <2>1, <2>2 DEF ToJob
  <1>2. CASE InvokeFails \/ Broken \/ BadTail \/ Eof
    BY <1>2, ChunksKept DEF InvokeFails, Broken, BadTail, Eof, FailAll, handlerVars, historyVars
  <1>3. CASE InvokeStarts
    BY <1>3, ChunksKept DEF InvokeStarts, handlerVars, historyVars
  <1>4. CASE Forwarder
    BY <1>4, ChunksOutside DEF Forwarder, handlerVars, historyVars
  <1>5. CASE Pushed
    <2>1. /\ dpc = "push" /\ dpc' = "recv" /\ bodyQ[cur] < BodyCapacity
          /\ bodyQ' = [bodyQ EXCEPT ![cur] = @ + 1] /\ UNCHANGED <<hpc, unread>>
      BY <1>5 DEF Pushed, handlerVars, historyVars
    <2>2. cur \in Requests
      BY <2>1 DEF SenderInv, SenderTypes
    <2>3. QED
      BY <2>1, <2>2 DEF ChunkInv, NoChunkLost
  <1>6. CASE PushFails
    <2>1. /\ dpc = "push" /\ dpc' = "recv" /\ hpc[cur] = "done" /\ UNCHANGED <<bodyQ, hpc, unread>>
      BY <1>6 DEF PushFails, handlerVars, historyVars
    <2>2. QED
      BY <2>1 DEF ChunkInv, NoChunkLost
  <1>7. ASSUME NEW r \in Requests, Incoming(r) PROVE ChunkInv'
    <2>1. CASE IgnoreRecord(r) \/ RecordTooLate(r) \/ End(r) \/ Reply(r) \/ HeadRecord(r)
      BY <2>1, ChunksOutside DEF IgnoreRecord, RecordTooLate, End, Reply, HeadRecord, handlerVars, historyVars
    <2>2. CASE BadHeadOrReply(r) \/ BadChunk(r)
      BY <2>2, ChunksKept DEF BadHeadOrReply, BadChunk, FailRecord, Arrived, handlerVars, historyVars
    <2>3. QED
      BY <1>7, <2>1, <2>2, ChunkWritten DEF Incoming
  <1>8. QED
    BY <1>1, <1>2, <1>3, <1>4, <1>5, <1>6, <1>7 DEF DispatcherNext, Dispatch

LEMMA ChunkHandlerStep ==
    ASSUME SenderInv, ChunkInv, NEW r \in Requests, HandlerNext(r)
    PROVE  ChunkInv'
  <1> USE DEF ChunkInv, NoChunkLost
  <1>0. hpc \in [Requests -> {"out", "await", "stream", "done"}]
    BY DEF SenderInv, SenderTypes
  <1>1. CASE Enqueue(r)
    BY <1>0, <1>1 DEF Enqueue, historyVars
  <1>2. CASE GetReply(r) \/ GetDropped(r) \/ GetHead(r) \/ Timeout(r) \/ BodyEnds(r)
    <2>1. /\ UNCHANGED <<bodyQ, unread, dpc, cur>>
          /\ hpc[r] # "done"
          /\ hpc' = [hpc EXCEPT ![r] = "stream"] \/ hpc' = [hpc EXCEPT ![r] = "done"]
      BY <1>2 DEF GetReply, GetDropped, GetHead, Timeout, Respond, BodyEnds, historyVars, dispatcherVars
    <2>2. QED
      BY <1>0, <2>1
  <1>3. CASE ReadChunk(r)
    <2>1. /\ hpc[r] = "stream" /\ bodyQ[r] > 0 /\ UNCHANGED <<hpc, dpc, cur>>
          /\ bodyQ' = [bodyQ EXCEPT ![r] = @ - 1]
          /\ unread' = [unread EXCEPT ![r] = @ - 1]
      BY <1>3 DEF ReadChunk, dispatcherVars
    <2>2. unread[r] = bodyQ[r] + (IF dpc = "push" /\ cur = r THEN 1 ELSE 0)
      BY <2>1
    <2>3. /\ bodyQ[r] - 1 \in 0..BodyCapacity /\ unread[r] - 1 \in Nat
          /\ unread[r] - 1 = (bodyQ[r] - 1) + (IF dpc = "push" /\ cur = r THEN 1 ELSE 0)
      BY <2>1, <2>2
    <2>4. QED
      BY <2>1, <2>3
  <1>4. CASE Leave(r)
    <2>1. /\ UNCHANGED <<dpc, cur>>
          /\ hpc' = [hpc EXCEPT ![r] = "done"]
          /\ bodyQ' = [bodyQ EXCEPT ![r] = 0]
          /\ unread' = [unread EXCEPT ![r] = 0]
      BY <1>4 DEF Leave, dispatcherVars
    <2>2. QED
      BY <1>0, <2>1
  <1>5. QED
    BY <1>1, <1>2, <1>3, <1>4 DEF HandlerNext

-----------------------------------------------------------------------------
(* The answers.                                                            *)

AnswerInv ==
    /\ answer \in [Requests -> {"none", "504"} \cup Sent]
    /\ spoke \in SUBSET Requests
    /\ AnswersAreWritten
    /\ \A r \in Requests : init[r] \in {"reply", "stream"} => r \in spoke
    /\ \A r \in Requests :
         /\ hpc[r] \in {"out", "await"} => answer[r] = "none"
         /\ hpc[r] = "stream" => answer[r] = "stream"

LEMMA AnswerInit == DispatchInit => AnswerInv
  BY DEF DispatchInit, AnswerInv, AnswersAreWritten

\* What a request is sent is due to a record of it.
LEMMA AnswerSent ==
    ASSUME AnswerInv, UNCHANGED <<answer, hpc>>, spoke' \in SUBSET Requests, spoke \subseteq spoke',
           \A r \in Requests : init'[r] \in {"reply", "stream"} => init'[r] = init[r] \/ r \in spoke'
    PROVE  AnswerInv'
  BY DEF AnswerInv, AnswersAreWritten

LEMMA AnswerFailAll ==
    ASSUME SenderInv, AnswerInv, FailAll, UNCHANGED <<answer, hpc>>,
           spoke' = spoke \/ spoke' = spoke \cup pending
    PROVE  AnswerInv'
  <1>1. /\ pending \in SUBSET Requests /\ "502" \in Sent \cup {"dropped"}
        /\ init' = InitAfter(pending, "502")
    BY DEF FailAll, SenderInv, SenderTypes, Sent
  <1>2. \A r \in Requests : init'[r] \in {init[r], "502", "dropped"}
    BY <1>1, AfterInit DEF SenderInv
  <1>3. spoke' \in SUBSET Requests /\ spoke \subseteq spoke'
    BY <1>1 DEF AnswerInv
  <1>4. QED
    BY <1>2, <1>3, AnswerSent

LEMMA AnswerRecord == ASSUME SenderInv, AnswerInv, NEW r \in Requests, Incoming(r) PROVE AnswerInv'
  <1>0. \A sent \in Sent \cup {"dropped"} : \A q \in Requests :
          InitAfter({r}, sent)[q] \in {init[q], sent, "dropped"} /\ (q # r => InitAfter({r}, sent)[q] = init[q])
    BY AfterInit DEF SenderInv
  <1>1. CASE IgnoreRecord(r)
    BY <1>1, AnswerSent DEF IgnoreRecord, handlerVars, historyVars, AnswerInv
  <1>2. CASE RecordTooLate(r)
    <2>1. init' = InitAfter({r}, "dropped") /\ UNCHANGED <<answer, hpc, spoke>>
      BY <1>2 DEF RecordTooLate, DropEntry, handlerVars, historyVars
    <2>2. \A q \in Requests : init'[q] \in {init[q], "dropped"}
      BY <1>0, <2>1
    <2>3. QED
      BY <2>1, <2>2, AnswerSent DEF AnswerInv
  <1>3. CASE End(r) \/ Reply(r) \/ HeadRecord(r) \/ Chunk(r)
    <2>1. /\ init' = InitAfter({r}, "stream") \/ init' = InitAfter({r}, "reply")
          /\ UNCHANGED <<answer, hpc>> /\ spoke' = spoke \cup {r}
      BY <1>3, Zenon DEF End, Reply, HeadRecord, Chunk, DropEntry, handlerVars
    <2>2. \A q \in Requests : q # r => init'[q] = init[q]
      BY <1>0, <2>1 DEF Sent
    <2>3. QED
      BY <2>1, <2>2, AnswerSent DEF AnswerInv
  <1>4. ASSUME NEW sent \in Sent \cup {"dropped"}, FailRecord(r, sent) PROVE AnswerInv'
    <2>1. /\ init' = [InitAfter(pending, "502") EXCEPT ![r] = InitAfter({r}, sent)[r]]
          /\ UNCHANGED <<answer, hpc>> /\ spoke' = spoke \cup pending /\ r \in pending
          /\ pending \in SUBSET Requests /\ "502" \in Sent \cup {"dropped"}
      BY <1>4 DEF FailRecord, handlerVars, SenderInv, SenderTypes, Sent
    <2>2. /\ InitAfter(pending, "502") \in [Requests -> InitStates]
          /\ \A q \in Requests : InitAfter(pending, "502")[q] \in {init[q], "502", "dropped"}
      BY <2>1, AfterInit DEF SenderInv
    <2>3. \A q \in Requests : q # r => init'[q] \in {init[q], "502", "dropped"}
      BY <2>1, <2>2
    <2>4. QED
      BY <2>1, <2>3, AnswerSent DEF AnswerInv
  <1>5. CASE BadHeadOrReply(r) \/ BadChunk(r)
    BY <1>4, <1>5 DEF BadHeadOrReply, BadChunk, Sent
  <1>6. QED
    BY <1>1, <1>2, <1>3, <1>5 DEF Incoming

LEMMA AnswerDispatcherStep == ASSUME SenderInv, AnswerInv, DispatcherNext PROVE AnswerInv'
  <1>0. ASSUME UNCHANGED <<init, answer, hpc, spoke>> PROVE AnswerInv'
    BY <1>0, AnswerSent DEF AnswerInv
  <1>1. ASSUME NEW S \in SUBSET waiting, ToJob(S) PROVE AnswerInv'
    <2>1. ASSUME NEW sent \in {"refused", "dropped"}, Lose(S, sent) PROVE AnswerInv'
      <3>1. S \in SUBSET Requests /\ sent \in Sent \cup {"dropped"}
        BY DEF SenderInv, SenderTypes, Sent
      <3>2. init' = InitAfter(S, sent) /\ UNCHANGED <<answer, hpc, spoke>>
        BY <2>1 DEF Lose, handlerVars, historyVars
      <3>3. \A q \in Requests : init'[q] \in {init[q], sent, "dropped"}
        BY <3>1, <3>2, AfterInit DEF SenderInv
      <3>4. QED
        BY <3>2, <3>3, AnswerSent DEF AnswerInv
    <2>2. CASE StartJob(S)
      BY <1>0, <2>2 DEF StartJob, handlerVars, historyVars
    <2>3. QED
      BY <1>1, <2>1, <2>2 DEF ToJob, BatchRefused, Evicted
  <1>2. CASE InvokeFails \/ Broken \/ BadTail \/ Eof
    BY <1>2, AnswerFailAll DEF InvokeFails, Broken, BadTail, Eof, handlerVars, historyVars
  <1>3. CASE InvokeStarts \/ Forwarder \/ Pushed \/ PushFails
    BY <1>0, <1>3 DEF InvokeStarts, Forwarder, Pushed, PushFails, handlerVars, historyVars
  <1>4. QED
    BY <1>1, <1>2, <1>3, AnswerRecord DEF DispatcherNext, Dispatch

LEMMA AnswerHandlerStep ==
    ASSUME SenderInv, AnswerInv, NEW r \in Requests, HandlerNext(r)
    PROVE  AnswerInv'
  <1>0. /\ hpc \in [Requests -> {"out", "await", "stream", "done"}]
        /\ init \in [Requests -> InitStates]
        /\ answer \in [Requests -> {"none", "504"} \cup Sent]
    BY DEF SenderInv, SenderTypes, AnswerInv
  <1>1. CASE Enqueue(r)
    BY <1>0, <1>1 DEF Enqueue, historyVars, AnswerInv, AnswersAreWritten
  <1>2. ASSUME NEW code \in {"reply", "502", "refused", "504"}, Respond(r, code),
               code = "reply" => init[r] = "reply"
        PROVE  AnswerInv'
    <2>1. /\ hpc' = [hpc EXCEPT ![r] = "done"] /\ answer' = [answer EXCEPT ![r] = code]
          /\ \A q \in Requests : init'[q] \in {init[q], "none"}
          /\ UNCHANGED spoke
      BY <1>0, <1>2 DEF Respond, ReceiverGone, historyVars
    <2>2. answer' \in [Requests -> {"none", "504"} \cup Sent]
      BY <1>0, <2>1 DEF Sent
    <2>3. AnswersAreWritten'
      BY <1>0, <1>2, <2>1 DEF AnswerInv, AnswersAreWritten
    <2>4. QED
      BY <1>0, <2>1, <2>2, <2>3 DEF AnswerInv
  <1>3. CASE GetReply(r) \/ GetDropped(r) \/ Timeout(r)
    BY <1>2, <1>3 DEF GetReply, GetDropped, Timeout
  <1>4. CASE GetHead(r)
    <2>1. /\ hpc' = [hpc EXCEPT ![r] = "stream"] /\ answer' = [answer EXCEPT ![r] = "stream"]
          /\ \A q \in Requests : init'[q] \in {init[q], "none"}
          /\ init[r] = "stream" /\ UNCHANGED spoke
      BY <1>0, <1>4 DEF GetHead, ReceiverGone, historyVars
    <2>2. QED
      BY <1>0, <2>1 DEF AnswerInv, AnswersAreWritten, Sent
  <1>5. CASE ReadChunk(r)
    BY <1>5, Zenon DEF ReadChunk, AnswerInv, AnswersAreWritten
  <1>6. CASE BodyEnds(r) \/ Leave(r)
    <2>1. /\ hpc' = [hpc EXCEPT ![r] = "done"] /\ UNCHANGED <<answer, spoke>>
          /\ \A q \in Requests : init'[q] \in {init[q], "none"}
      BY <1>0, <1>6 DEF BodyEnds, Leave, ReceiverGone, historyVars
    <2>2. QED
      BY <1>0, <2>1 DEF AnswerInv, AnswersAreWritten
  <1>7. QED
    BY <1>1, <1>3, <1>4, <1>5, <1>6 DEF HandlerNext

-----------------------------------------------------------------------------
(* The dispatcher with the handlers.                                       *)

DispatchInv ==
    /\ PipeInv
    /\ reader <=> dpc \in {"recv", "push"}
    /\ SenderInv
    /\ ChunkInv
    /\ AnswerInv

LEMMA DispatchInvInit == DispatchInit => DispatchInv
  <1>1. DispatchInit => LambdaStreamInit /\ ~ reader /\ dpc = "idle"
    BY DEF DispatchInit, LambdaStreamInit
  <1>2. QED
    BY <1>1, PipeInit, SenderInit, ChunkInit, AnswerInit DEF DispatchInv

\* The receiver lives as long as the dispatcher reads.
LEMMA ReaderDispatcherStep ==
    ASSUME PipeInv, reader <=> dpc \in {"recv", "push"}, DispatcherNext
    PROVE  PipeInv' /\ (reader' <=> dpc' \in {"recv", "push"})
  <1>1. ASSUME UNCHANGED forwarderVars PROVE PipeInv' /\ reader' = reader
    BY <1>1, Zenon DEF forwarderVars, PipeInv, LambdaStreamTypeOK, PipeIntact, ErrorLast
  <1>2. ASSUME HangUp PROVE PipeInv' /\ reader' = FALSE
    BY <1>2, PipeHangUp DEF HangUp
  <1>3. ASSUME NEW S \in SUBSET waiting, ToJob(S)
        PROVE  UNCHANGED forwarderVars /\ (dpc' \in {"recv", "push"} <=> dpc \in {"recv", "push"})
    BY <1>3 DEF ToJob, BatchRefused, Evicted, Lose, StartJob
  <1>4. CASE InvokeFails \/ Broken \/ BadTail \/ Eof
    <2>1. HangUp /\ dpc' = "idle"
      BY <1>4, Zenon DEF InvokeFails, Broken, BadTail, Eof, FailAll
    <2>2. QED
      BY <1>2, <2>1
  <1>5. CASE InvokeStarts
    <2>1. ~ reader /\ Spawn /\ dpc' = "recv" /\ reader' = TRUE
      BY <1>5 DEF InvokeStarts, Spawn
    <2>2. QED
      BY <2>1, PipeSpawn
  <1>6. CASE Forwarder
    <2>1. dpc' = dpc /\ (EventArrives \/ Forward)
      BY <1>6, Zenon DEF Forwarder
    <2>2. reader' = reader
      BY <2>1 DEF EventArrives, Payload, StreamBreaks, Complete, StreamEof, Forward, Send,
                  SendFails, Drained
    <2>3. QED
      BY <2>1, <2>2, PipeEvent, PipeForward
  <1>7. CASE Pushed \/ PushFails
    <2>1. UNCHANGED forwarderVars /\ dpc = "push" /\ dpc' = "recv"
      BY <1>7, Zenon DEF Pushed, PushFails
    <2>2. QED
      BY <1>1, <2>1
  <1>8. ASSUME NEW r \in Requests, Incoming(r)
        PROVE  PipeInv' /\ (reader' <=> dpc' \in {"recv", "push"})
    <2>1. CASE BadHeadOrReply(r) \/ BadChunk(r)
      <3>1. HangUp /\ dpc' = "idle"
        BY <2>1, Zenon DEF BadHeadOrReply, BadChunk, FailRecord
      <3>2. QED
        BY <1>2, <3>1
    <2>2. CASE ~ (BadHeadOrReply(r) \/ BadChunk(r))
      <3>1. Record /\ dpc' \in {"recv", "push"}
        BY <1>8, <2>2 DEF Incoming, IgnoreRecord, RecordTooLate, HeadRecord, Chunk, End, Reply,
                          Record, Arrived
      <3>2. Take /\ reader /\ Head(pipe) = "bytes" /\ reader' = reader
        BY <3>1 DEF Record, Arrived, Take
      <3>3. QED
        BY <3>1, <3>2, PipeTake
    <2>3. QED
      BY <2>1, <2>2
  <1>9. QED
    BY <1>1, <1>3, <1>4, <1>5, <1>6, <1>7, <1>8 DEF DispatcherNext, Dispatch

LEMMA DispatcherStep == ASSUME DispatchInv, DispatcherNext PROVE DispatchInv'
  BY ReaderDispatcherStep, SenderDispatcherStep, ChunkDispatcherStep, AnswerDispatcherStep
     DEF DispatchInv

LEMMA HandlerStep == ASSUME DispatchInv, NEW r \in Requests, HandlerNext(r) PROVE DispatchInv'
  <1>1. UNCHANGED forwarderVars /\ dpc' = dpc
    BY Zenon DEF HandlerNext, Enqueue, GetReply, GetDropped, Timeout, Respond, GetHead, ReadChunk,
                 BodyEnds, Leave, dispatcherVars
  <1>2. PipeInv' /\ (reader' <=> dpc' \in {"recv", "push"})
    BY <1>1, Zenon DEF DispatchInv, forwarderVars, PipeInv, LambdaStreamTypeOK, PipeIntact, ErrorLast
  <1>3. QED
    BY <1>2, SenderHandlerStep, ChunkHandlerStep, AnswerHandlerStep DEF DispatchInv

LEMMA DispatchStutter == ASSUME DispatchInv, UNCHANGED dispatchVars PROVE DispatchInv'
  <1>1. PipeInv' /\ (reader' <=> dpc' \in {"recv", "push"})
    BY Zenon DEF DispatchInv, dispatchVars, forwarderVars, PipeInv, LambdaStreamTypeOK, PipeIntact,
                 ErrorLast
  <1>2. SenderInv'
    BY Zenon DEF DispatchInv, dispatchVars, handlerVars, SenderInv, SenderTypes
  <1>3. ChunkInv'
    BY Zenon DEF DispatchInv, dispatchVars, handlerVars, historyVars, ChunkInv, NoChunkLost
  <1>4. AnswerInv'
    BY Zenon DEF DispatchInv, dispatchVars, handlerVars, historyVars, AnswerInv, AnswersAreWritten
  <1>5. QED
    BY <1>1, <1>2, <1>3, <1>4 DEF DispatchInv

\* A step of the whole is one of the dispatcher and the handlers, or none.
LEMMA StepOfDispatch ==
    ASSUME [Next]_vars
    PROVE  DispatcherNext \/ (\E r \in Requests : HandlerNext(r)) \/ UNCHANGED dispatchVars
  <1>1. ASSUME NEW r \in Requests, FrontStep(r) \/ Serve(r) \/ TimeOut(r) \/ Leaves(r)
        PROVE  HandlerNext(r) \/ UNCHANGED dispatchVars
    BY <1>1, Zenon DEF FrontStep, TurnAway, Enter, Serve, Finish, StartBody, EndBody, TimeOut, Leaves,
                       LeaveEarly, DropHandler, DropBody, HandlerNext
  <1>2. ASSUME NEW r \in Arrivals, Arrive(r) PROVE UNCHANGED dispatchVars
    BY <1>2, Zenon DEF Arrive, Admit, RefuseAdmission
  <1>3. ASSUME NEW r \in Others, OtherEnds(r) PROVE UNCHANGED dispatchVars
    BY <1>3, Zenon DEF OtherEnds
  <1>4. CASE Behind
    BY <1>4 DEF Behind
  <1>5. CASE UNCHANGED vars
    BY <1>5, Zenon DEF vars
  <1>6. QED
    BY <1>1, <1>2, <1>3, <1>4, <1>5, Zenon DEF Next

LEMMA DispatchInvStep == ASSUME DispatchInv, [Next]_vars PROVE DispatchInv'
  BY StepOfDispatch, DispatcherStep, HandlerStep, DispatchStutter

LEMMA DispatcherKeepsHandlers == ASSUME DispatcherNext PROVE UNCHANGED handlerVars
  <1>1. ASSUME NEW S \in SUBSET waiting, ToJob(S) PROVE UNCHANGED handlerVars
    BY <1>1, Zenon DEF ToJob, BatchRefused, Evicted, Lose, StartJob
  <1>2. CASE InvokeFails \/ InvokeStarts \/ Forwarder
    BY <1>2, Zenon DEF InvokeFails, InvokeStarts, Forwarder
  <1>3. ASSUME NEW r \in Requests, Incoming(r) PROVE UNCHANGED handlerVars
    BY <1>3, Zenon DEF Incoming, IgnoreRecord, RecordTooLate, HeadRecord, BadHeadOrReply, BadChunk,
                       FailRecord, Chunk, End, Reply
  <1>4. CASE Broken \/ BadTail \/ Eof \/ Pushed \/ PushFails
    BY <1>4, Zenon DEF Broken, BadTail, Eof, Pushed, PushFails
  <1>5. QED
    BY <1>1, <1>2, <1>3, <1>4, Zenon DEF DispatcherNext, Dispatch

-----------------------------------------------------------------------------
(* Admission and metric.                                                   *)

Fronts == {"new", "body", "in", "refused", "replied", "left"}

\* A streamed request is with StreamDispatch from its enqueuing on.
FrontInv ==
    /\ front \in [Arrivals -> Fronts]
    /\ permits \in 0..MaxInflightRequests
    /\ counted \in [Requests -> Nat]
    /\ \A r \in Requests : front[r] = "in" <=> hpc[r] # "out"
    /\ AdmissionConserved
    /\ RequestsCountedOnce

USE StreamGatewayAssumption DEF StreamGatewayAssumption

HandlerTypes == hpc \in [Requests -> {"out", "await", "stream", "done"}]

\* Which phase a request is in.
LEMMA PhaseCases ==
    ASSUME NEW r \in Arrivals, front[r] \in Fronts,
           r \in Requests => hpc[r] \in {"out", "await", "stream", "done"}
    PROVE  /\ front[r] = "new" => Phase(r) = "new"
           /\ front[r] = "body" => Phase(r) = "admitted"
           /\ front[r] = "in" /\ (r \in Requests => hpc[r] # "done") => Phase(r) = "admitted"
           /\ front[r] = "in" /\ r \in Requests /\ hpc[r] = "done" =>
                Phase(r) = IF answer[r] = "none" THEN "left" ELSE "replied"
           /\ front[r] \in {"refused", "replied"} => Phase(r) = "replied"
           /\ front[r] = "left" => Phase(r) = "left"
           /\ InService(r) <=> Phase(r) = "admitted"
  BY DEF Phase, InService, Fronts

LEMMA Unmoved ==
    ASSUME NEW r \in Arrivals, front'[r] = front[r],
           r \in Requests => hpc'[r] = hpc[r] /\ answer'[r] = answer[r]
    PROVE  Phase(r)' = Phase(r) /\ Got(r)' = Got(r)
  BY DEF Phase, Got, InService

\* The request r goes from one phase to another, and nobody else does; a
\* metric is emitted if it was answered.
Moves(r, from, to) ==
    /\ Phase(r) = from /\ Phase(r)' = to
    /\ \A s \in Arrivals \ {r} : Phase(s)' = Phase(s) /\ Got(s)' = Got(s)
    /\ \A s \in Requests : counted'[s] = IF s = r /\ to = "replied" THEN counted[s] + 1 ELSE counted[s]

Answers == Sent \cup {"504", "complete"}

Joins(r) == Moves(r, "new", "admitted") /\ permits > 0 /\ permits' = permits - 1 /\ Got(r)' = Got(r)

IsRefused(r) == Moves(r, "new", "replied") /\ permits = 0 /\ permits' = permits /\ Got(r)' = "429"

IsAnswered(r) == Moves(r, "admitted", "replied") /\ permits' = permits + 1 /\ Got(r)' \in Answers

IsGone(r) == Moves(r, "admitted", "left") /\ permits' = permits + 1 /\ Got(r)' = Got(r)

Stays ==
    /\ \A s \in Arrivals : Phase(s)' = Phase(s) /\ Got(s)' = Got(s)
    /\ \A s \in Requests : counted'[s] = counted[s]
    /\ permits' = permits

FrontTypes == front \in [Arrivals -> Fronts] /\ counted \in [Requests -> Nat]

\* Before a request is enqueued, and buffered requests.
LEMMA FrontMoves ==
    ASSUME FrontInv, HandlerTypes, NEW r \in Arrivals, UNCHANGED <<hpc, answer>>,
           Arrive(r) \/ (r \in Requests /\ (TurnAway(r) \/ LeaveEarly(r))) \/ (r \in Others /\ OtherEnds(r))
    PROVE  FrontTypes' /\ (Joins(r) \/ IsRefused(r) \/ IsAnswered(r) \/ IsGone(r))
  <1>0. /\ front \in [Arrivals -> Fronts] /\ counted \in [Requests -> Nat]
        /\ r \in Requests \/ (r \in Others /\ r \notin Requests)
    <2>1. r \in Requests \/ (r \in Others /\ r \notin Requests)
      BY DEF Arrivals
    <2>2. QED
      BY <2>1 DEF FrontInv
  <1>1. ASSUME NEW f \in Fronts, front' = [front EXCEPT ![r] = f]
        PROVE  /\ front' \in [Arrivals -> Fronts] /\ front'[r] = f
               /\ \A s \in Arrivals \ {r} : Phase(s)' = Phase(s) /\ Got(s)' = Got(s)
    <2>1. front' \in [Arrivals -> Fronts] /\ front'[r] = f
      BY <1>0, <1>1
    <2>2. \A s \in Arrivals \ {r} : front'[s] = front[s]
      BY <1>0, <1>1
    <2>3. QED
      BY <2>1, <2>2, Unmoved
  <1>2. ASSUME Count(r)
        PROVE  /\ counted' \in [Requests -> Nat]
               /\ \A s \in Requests : counted'[s] = IF s = r THEN counted[s] + 1 ELSE counted[s]
    BY <1>0, <1>2 DEF Count
  <1>3. ASSUME front' \in [Arrivals -> Fronts]
        PROVE  /\ front'[r] = "body" => Phase(r)' = "admitted" /\ Got(r)' = "none"
               /\ front'[r] = "in" /\ r \in Others => Phase(r)' = "admitted" /\ Got(r)' = "none"
               /\ front'[r] = "refused" => Phase(r)' = "replied" /\ Got(r)' = "429"
               /\ front'[r] = "replied" => Phase(r)' = "replied" /\ Got(r)' = "complete"
               /\ front'[r] = "left" => Phase(r)' = "left" /\ Got(r)' = "none"
    BY <1>0, <1>3 DEF Phase, Got, InService, Fronts
  <1>4. /\ front[r] = "new" => Phase(r) = "new" /\ Got(r) = "none"
        /\ front[r] = "body" => Phase(r) = "admitted" /\ Got(r) = "none"
        /\ front[r] = "in" /\ r \in Others => Phase(r) = "admitted" /\ Got(r) = "none"
    BY <1>0 DEF Phase, Got, InService, Fronts
  <1>5. CASE Admit(r)
    <2>1. /\ front[r] = "new" /\ permits > 0 /\ permits' = permits - 1 /\ counted' = counted
          /\ front' = [front EXCEPT ![r] = IF r \in Others THEN "in" ELSE "body"]
      BY <1>5 DEF Admit
    <2>2. (IF r \in Others THEN "in" ELSE "body") \in Fronts
      BY DEF Fronts
    <2>3. Moves(r, "new", "admitted") /\ Got(r)' = Got(r) /\ front' \in [Arrivals -> Fronts]
      BY <1>0, <1>1, <1>3, <1>4, <2>1, <2>2 DEF Moves
    <2>4. QED
      BY <1>0, <2>1, <2>3 DEF Joins, FrontTypes
  <1>6. CASE RefuseAdmission(r)
    <2>1. /\ front[r] = "new" /\ permits = 0 /\ permits' = permits /\ Count(r)
          /\ front' = [front EXCEPT ![r] = "refused"]
      BY <1>6 DEF RefuseAdmission
    <2>2. Moves(r, "new", "replied") /\ Got(r)' = "429" /\ front' \in [Arrivals -> Fronts]
      BY <1>0, <1>1, <1>2, <1>3, <1>4, <2>1 DEF Moves, Fronts
    <2>3. QED
      BY <1>2, <2>1, <2>2 DEF IsRefused, FrontTypes
  <1>7. CASE r \in Requests /\ TurnAway(r)
    <2>1. /\ front[r] = "body" /\ permits' = permits + 1 /\ Count(r)
          /\ front' = [front EXCEPT ![r] = "replied"]
      BY <1>7 DEF TurnAway
    <2>2. Moves(r, "admitted", "replied") /\ Got(r)' = "complete" /\ front' \in [Arrivals -> Fronts]
      BY <1>0, <1>1, <1>2, <1>3, <1>4, <2>1 DEF Moves, Fronts
    <2>3. QED
      BY <1>2, <2>1, <2>2 DEF IsAnswered, Answers, FrontTypes
  <1>8. CASE r \in Requests /\ LeaveEarly(r)
    <2>1. /\ front[r] = "body" /\ permits' = permits + 1 /\ counted' = counted
          /\ front' = [front EXCEPT ![r] = "left"]
      BY <1>8 DEF LeaveEarly
    <2>2. Moves(r, "admitted", "left") /\ Got(r)' = Got(r) /\ front' \in [Arrivals -> Fronts]
      BY <1>0, <1>1, <1>3, <1>4, <2>1 DEF Moves, Fronts
    <2>3. QED
      BY <1>0, <2>1, <2>2 DEF IsGone, FrontTypes
  <1>9. CASE r \in Others /\ OtherEnds(r)
    <2>1. /\ front[r] = "in" /\ permits' = permits + 1 /\ counted' = counted
          /\ front' = [front EXCEPT ![r] = "replied"]
      BY <1>9 DEF OtherEnds
    <2>2. Moves(r, "admitted", "replied") /\ Got(r)' = "complete" /\ front' \in [Arrivals -> Fronts]
      BY <1>0, <1>1, <1>3, <1>4, <1>9, <2>1 DEF Moves, Fronts
    <2>3. QED
      BY <1>0, <2>1, <2>2 DEF IsAnswered, Answers, FrontTypes
  <1>10. QED
    BY <1>5, <1>6, <1>7, <1>8, <1>9 DEF Arrive

\* A request that is with its handler, or in its body, is over.
LEMMA Ends ==
    ASSUME FrontInv, DispatchInv, NEW r \in Requests, hpc[r] \in {"await", "stream"},
           hpc' = [hpc EXCEPT ![r] = "done"], front' = front, permits' = permits + 1,
           \A s \in Requests \ {r} : answer'[s] = answer[s],
           \/ answer'[r] = "none" /\ counted' = counted
           \/ answer'[r] \in Sent \cup {"504"} /\ Count(r)
    PROVE  FrontTypes' /\ (IsAnswered(r) \/ IsGone(r))
  <1>0. /\ front \in [Arrivals -> Fronts] /\ counted \in [Requests -> Nat]
        /\ hpc \in [Requests -> {"out", "await", "stream", "done"}]
        /\ r \in Arrivals /\ front[r] = "in"
    BY DEF FrontInv, DispatchInv, SenderInv, SenderTypes, Arrivals
  <1>1. \A s \in Arrivals \ {r} : Phase(s)' = Phase(s) /\ Got(s)' = Got(s)
    <2>1. \A s \in Requests \ {r} : hpc'[s] = hpc[s]
      BY <1>0
    <2>2. QED
      BY <2>1, Unmoved
  <1>2. Phase(r) = "admitted" /\ Got(r) = "none"
    BY <1>0 DEF Phase, Got, InService
  <1>3. Phase(r)' = (IF answer'[r] = "none" THEN "left" ELSE "replied") /\ Got(r)' = answer'[r]
    <2>1. front'[r] = "in" /\ hpc'[r] = "done"
      BY <1>0
    <2>2. QED
      BY <2>1 DEF Phase, Got, InService
  <1>4. CASE answer'[r] = "none" /\ counted' = counted
    BY <1>0, <1>1, <1>2, <1>3, <1>4 DEF IsGone, Moves, FrontTypes
  <1>5. CASE answer'[r] \in Sent \cup {"504"} /\ Count(r)
    <2>1. /\ counted' \in [Requests -> Nat]
          /\ \A s \in Requests : counted'[s] = IF s = r THEN counted[s] + 1 ELSE counted[s]
      BY <1>0, <1>5 DEF Count
    <2>2. answer'[r] # "none"
      BY <1>5 DEF Sent
    <2>3. QED
      BY <1>0, <1>1, <1>2, <1>3, <1>5, <2>1, <2>2 DEF IsAnswered, Moves, FrontTypes, Answers
  <1>6. QED
    BY <1>4, <1>5

LEMMA ServedMoves ==
    ASSUME FrontInv, DispatchInv, NEW r \in Requests,
           Finish(r) \/ TimeOut(r) \/ EndBody(r) \/ DropBody(r) \/ DropHandler(r)
    PROVE  /\ FrontTypes' /\ (IsAnswered(r) \/ IsGone(r))
           /\ front' = front /\ \A s \in Requests : hpc'[s] = "out" <=> hpc[s] = "out"
  <1>0. /\ hpc \in [Requests -> {"out", "await", "stream", "done"}]
        /\ answer \in [Requests -> {"none", "504"} \cup Sent]
        /\ hpc[r] = "await" => answer[r] = "none"
        /\ hpc[r] = "stream" => answer[r] = "stream"
    BY DEF DispatchInv, SenderInv, SenderTypes, AnswerInv
  <1>1. /\ front' = front /\ permits' = permits + 1
        /\ hpc[r] \in {"await", "stream"} /\ hpc' = [hpc EXCEPT ![r] = "done"]
    BY DEF Finish, TimeOut, EndBody, DropBody, DropHandler, Release, GetReply, GetDropped, Timeout,
           Respond, BodyEnds, Leave
  <1>2. CASE Finish(r) \/ TimeOut(r)
    <2>1. Count(r) /\ \E code \in Sent \cup {"504"} : answer' = [answer EXCEPT ![r] = code]
      BY <1>2 DEF Finish, TimeOut, Release, GetReply, GetDropped, Timeout, Respond, Sent
    <2>2. answer'[r] \in Sent \cup {"504"} /\ \A s \in Requests \ {r} : answer'[s] = answer[s]
      BY <1>0, <2>1
    <2>3. QED
      BY <1>0, <1>1, <2>1, <2>2, Ends
  <1>3. CASE EndBody(r) \/ DropBody(r)
    <2>1. Count(r) /\ answer' = answer /\ hpc[r] = "stream"
      BY <1>3 DEF EndBody, DropBody, Release, BodyEnds, Leave
    <2>2. answer'[r] \in Sent \cup {"504"}
      BY <1>0, <2>1 DEF Sent
    <2>3. QED
      BY <1>0, <1>1, <2>1, <2>2, Ends
  <1>4. CASE DropHandler(r)
    <2>1. counted' = counted /\ answer' = answer /\ answer'[r] = "none"
      BY <1>0, <1>4 DEF DropHandler, Leave
    <2>2. QED
      BY <1>0, <1>1, <2>1, Ends
  <1>5. QED
    BY <1>2, <1>3, <1>4

\* The rest of Next, and stuttering.
LEMMA OthersStay ==
    ASSUME FrontInv, DispatchInv,
           \/ \E r \in Requests : Enter(r) \/ StartBody(r) \/ (ReadChunk(r) /\ UNCHANGED frontVars)
           \/ Behind
           \/ UNCHANGED vars
    PROVE  FrontTypes' /\ Stays /\ \A s \in Requests : front'[s] = "in" <=> hpc'[s] # "out"
  <1> DEFINE Goal == FrontTypes' /\ Stays /\ \A s \in Requests : front'[s] = "in" <=> hpc'[s] # "out"
  <1>0. /\ hpc \in [Requests -> {"out", "await", "stream", "done"}]
        /\ front \in [Arrivals -> Fronts] /\ counted \in [Requests -> Nat]
        /\ \A s \in Requests : front[s] = "in" <=> hpc[s] # "out"
    BY DEF FrontInv, DispatchInv, SenderInv, SenderTypes
  <1>1. ASSUME UNCHANGED <<frontVars, hpc, answer>> PROVE Goal
    BY <1>0, <1>1, Unmoved DEF frontVars, FrontTypes, Stays
  <1>2. CASE Behind \/ UNCHANGED vars \/ \E r \in Requests : ReadChunk(r) /\ UNCHANGED frontVars
    <2>1. UNCHANGED <<frontVars, hpc, answer>>
      <3>1. CASE Behind
        <4>1. UNCHANGED handlerVars
          BY <3>1, DispatcherKeepsHandlers DEF Behind
        <4>2. QED
          BY <3>1, <4>1, Zenon DEF Behind, handlerVars
      <3>2. CASE UNCHANGED vars
        BY <3>2, Zenon DEF vars, dispatchVars, handlerVars
      <3>3. CASE \E r \in Requests : ReadChunk(r) /\ UNCHANGED frontVars
        BY <3>3, Zenon DEF ReadChunk
      <3>4. QED
        BY <1>2, <3>1, <3>2, <3>3
    <2>2. QED
      BY <1>1, <2>1
  <1>3. ASSUME NEW r \in Requests, Enter(r) PROVE Goal
    <2>1. /\ front[r] = "body" /\ front' = [front EXCEPT ![r] = "in"] /\ hpc' = [hpc EXCEPT ![r] = "await"]
          /\ UNCHANGED <<permits, counted, answer>>
      BY <1>3 DEF Enter, Enqueue
    <2>2. r \in Arrivals
      BY DEF Arrivals
    <2>3. front' \in [Arrivals -> Fronts] /\ front'[r] = "in" /\ hpc'[r] = "await"
      BY <1>0, <2>1, <2>2 DEF Fronts
    <2>4. Phase(r)' = Phase(r) /\ Got(r)' = Got(r)
      BY <2>1, <2>3 DEF Phase, Got, InService
    <2>5. \A s \in Arrivals \ {r} : front'[s] = front[s] /\ (s \in Requests => hpc'[s] = hpc[s])
      BY <1>0, <2>1
    <2>6. \A s \in Arrivals : Phase(s)' = Phase(s) /\ Got(s)' = Got(s)
      BY <2>1, <2>4, <2>5, Unmoved
    <2>7. \A s \in Requests : front'[s] = "in" <=> hpc'[s] # "out"
      BY <1>0, <2>3, <2>5 DEF Arrivals
    <2>8. QED
      BY <1>0, <2>1, <2>3, <2>6, <2>7 DEF FrontTypes, Stays
  <1>4. ASSUME NEW r \in Requests, StartBody(r) PROVE Goal
    <2>1. /\ hpc[r] = "await" /\ hpc' = [hpc EXCEPT ![r] = "stream"]
          /\ answer' = [answer EXCEPT ![r] = "stream"]
          /\ UNCHANGED <<front, permits, counted>>
      BY <1>4 DEF StartBody, GetHead, frontVars
    <2>2. front[r] = "in" /\ front'[r] = "in" /\ hpc'[r] = "stream"
      BY <1>0, <2>1
    <2>3. Phase(r)' = Phase(r) /\ Got(r)' = Got(r)
      BY <2>1, <2>2 DEF Phase, Got, InService
    <2>4. \A s \in Requests \ {r} : hpc'[s] = hpc[s] /\ answer'[s] = answer[s]
      BY <1>0, <2>1 DEF DispatchInv, AnswerInv
    <2>5. \A s \in Arrivals : Phase(s)' = Phase(s) /\ Got(s)' = Got(s)
      BY <2>1, <2>3, <2>4, Unmoved
    <2>6. QED
      BY <1>0, <2>1, <2>2, <2>4, <2>5 DEF FrontTypes, Stays
  <1>5. QED
    BY <1>2, <1>3, <1>4

-----------------------------------------------------------------------------
(* The permits: one more or one less is held.                              *)

Holding == {r \in Arrivals : Phase(r) = "admitted"}

LEMMA HoldingFinite == IsFiniteSet(Holding) /\ Cardinality(Holding) \in Nat
  <1>1. Holding \subseteq Requests \cup Others
    BY DEF Holding, Arrivals
  <1>2. QED
    BY <1>1, FS_Subset, FS_CardinalityType

LEMMA HoldingMoves ==
    ASSUME NEW r \in Arrivals, \A s \in Arrivals \ {r} : Phase(s)' = Phase(s)
    PROVE  /\ Phase(r) = "admitted" /\ Phase(r)' # "admitted" =>
                Cardinality(Holding') = Cardinality(Holding) - 1
           /\ Phase(r) # "admitted" /\ Phase(r)' = "admitted" =>
                Cardinality(Holding') = Cardinality(Holding) + 1
           /\ (Phase(r) = "admitted" <=> Phase(r)' = "admitted") => Holding' = Holding
  <1>1. Phase(r) = "admitted" /\ Phase(r)' # "admitted" => Holding' = Holding \ {r} /\ r \in Holding
    BY DEF Holding, Arrivals
  <1>2. Phase(r) # "admitted" /\ Phase(r)' = "admitted" => Holding' = Holding \cup {r} /\ r \notin Holding
    BY DEF Holding, Arrivals
  <1>3. (Phase(r) = "admitted" <=> Phase(r)' = "admitted") => Holding' = Holding
    BY DEF Holding, Arrivals
  <1>4. QED
    BY <1>1, <1>2, <1>3, HoldingFinite, FS_RemoveElement, FS_AddElement

LEMMA StepKinds ==
    ASSUME FrontInv, DispatchInv, [Next]_vars
    PROVE  /\ FrontTypes'
           /\ \A s \in Requests : front'[s] = "in" <=> hpc'[s] # "out"
           /\ Stays \/ \E r \in Arrivals : Joins(r) \/ IsRefused(r) \/ IsAnswered(r) \/ IsGone(r)
  <1> DEFINE Kept == \A s \in Requests : front'[s] = "in" <=> hpc'[s] # "out"
             Kind(r) == Joins(r) \/ IsRefused(r) \/ IsAnswered(r) \/ IsGone(r)
  <1>0. /\ HandlerTypes /\ Requests \subseteq Arrivals /\ Others \subseteq Arrivals
        /\ front \in [Arrivals -> Fronts] /\ \A s \in Requests : front[s] = "in" <=> hpc[s] # "out"
    BY DEF FrontInv, DispatchInv, SenderInv, SenderTypes, HandlerTypes, Arrivals
  <1>1. ASSUME NEW r \in Arrivals,
               Arrive(r) \/ (r \in Requests /\ (TurnAway(r) \/ LeaveEarly(r))) \/ (r \in Others /\ OtherEnds(r))
        PROVE  FrontTypes' /\ Kept /\ Kind(r)
    <2>1. UNCHANGED dispatchVars
      BY <1>1, Zenon DEF Arrive, Admit, RefuseAdmission, TurnAway, LeaveEarly, OtherEnds
    <2>2. UNCHANGED <<hpc, answer>>
      BY <2>1 DEF dispatchVars, handlerVars
    <2>3. \A s \in Requests : front'[s] = "in" <=> front[s] = "in"
      BY <1>0, <1>1 DEF Arrive, Admit, RefuseAdmission, TurnAway, LeaveEarly, OtherEnds
    <2>4. FrontTypes' /\ Kind(r)
      BY <1>0, <1>1, <2>2, FrontMoves
    <2>5. QED
      BY <1>0, <2>2, <2>3, <2>4
  <1>2. ASSUME NEW r \in Requests,
               Finish(r) \/ TimeOut(r) \/ EndBody(r) \/ DropBody(r) \/ DropHandler(r)
        PROVE  FrontTypes' /\ Kept /\ Kind(r)
    BY <1>0, <1>2, ServedMoves
  <1>3. ASSUME \/ \E r \in Requests : Enter(r) \/ StartBody(r) \/ (ReadChunk(r) /\ UNCHANGED frontVars)
               \/ Behind
               \/ UNCHANGED vars
        PROVE  FrontTypes' /\ Kept /\ Stays
    BY <1>3, OthersStay
  <1>4. QED
    BY <1>0, <1>1, <1>2, <1>3, Zenon DEF Next, FrontStep, Serve, Leaves

LEMMA FrontStepKeeps == ASSUME FrontInv, DispatchInv, [Next]_vars PROVE FrontInv'
  <1> DEFINE Balanced ==
        permits' + Cardinality(Holding') = MaxInflightRequests /\ permits' \in 0..MaxInflightRequests
  <1>0. /\ FrontTypes' /\ \A s \in Requests : front'[s] = "in" <=> hpc'[s] # "out"
        /\ Stays \/ \E r \in Arrivals : Joins(r) \/ IsRefused(r) \/ IsAnswered(r) \/ IsGone(r)
    BY StepKinds
  <1>1. permits \in 0..MaxInflightRequests /\ permits + Cardinality(Holding) = MaxInflightRequests
    <2>1. {r \in Arrivals : InService(r)} = Holding
      BY PhaseCases DEF FrontInv, DispatchInv, SenderInv, SenderTypes, Holding
    <2>2. QED
      BY <2>1 DEF FrontInv, AdmissionConserved
  <1>2. {r \in Arrivals : InService(r)}' = Holding'
    <2>1. \A r \in Arrivals : front'[r] \in Fronts
      BY <1>0 DEF FrontTypes
    <2>2. \A r \in Arrivals : InService(r)' <=> Phase(r)' = "admitted"
      BY <2>1 DEF InService, Phase, Fronts
    <2>3. QED
      BY <2>2 DEF Holding
  <1>3. Cardinality(Holding) \in Nat /\ Cardinality(Holding') \in Nat
    <2>1. IsFiniteSet(Holding')
      <3>1. Holding' \subseteq Requests \cup Others
        BY DEF Holding, Arrivals
      <3>2. QED
        BY <3>1, FS_Subset
    <2>2. QED
      BY <2>1, HoldingFinite, FS_CardinalityType
  <1>4. Balanced
    <2>1. CASE Stays
      <3>1. Holding' = Holding /\ permits' = permits
        BY <2>1 DEF Stays, Holding, Arrivals
      <3>2. QED
        BY <1>1, <3>1
    <2>2. ASSUME NEW r \in Arrivals, Joins(r) PROVE Balanced
      <3>1. Cardinality(Holding') = Cardinality(Holding) + 1 /\ permits > 0 /\ permits' = permits - 1
        BY <2>2, HoldingMoves DEF Joins, Moves
      <3>2. QED
        BY <1>1, <1>3, <3>1
    <2>3. ASSUME NEW r \in Arrivals, IsRefused(r) PROVE Balanced
      <3>1. Holding' = Holding /\ permits' = permits
        BY <2>3, HoldingMoves DEF IsRefused, Moves
      <3>2. QED
        BY <1>1, <3>1
    <2>4. ASSUME NEW r \in Arrivals, IsAnswered(r) \/ IsGone(r) PROVE Balanced
      <3>1. Cardinality(Holding') = Cardinality(Holding) - 1 /\ permits' = permits + 1
        BY <2>4, HoldingMoves DEF IsAnswered, IsGone, Moves
      <3>2. QED
        BY <1>1, <1>3, <3>1
    <2>5. QED
      BY <1>0, <2>1, <2>2, <2>3, <2>4
  <1>5. RequestsCountedOnce'
    <2>1. /\ counted \in [Requests -> Nat] /\ Requests \subseteq Arrivals
          /\ \A s \in Requests : counted[s] = IF Phase(s) = "replied" THEN 1 ELSE 0
      BY DEF FrontInv, RequestsCountedOnce, Arrivals
    <2>2. CASE Stays
      BY <2>1, <2>2 DEF Stays, RequestsCountedOnce
    <2>3. ASSUME NEW r \in Arrivals, NEW from \in {"new", "admitted"}, NEW to, Moves(r, from, to)
          PROVE  RequestsCountedOnce'
      BY <2>1, <2>3 DEF Moves, RequestsCountedOnce
    <2>4. QED
      BY <1>0, <2>2, <2>3 DEF Joins, IsRefused, IsAnswered, IsGone
  <1>6. QED
    BY <1>0, <1>2, <1>4, <1>5 DEF FrontInv, FrontTypes, AdmissionConserved

LEMMA FrontInit == Init => FrontInv
  <1> SUFFICES ASSUME Init PROVE FrontInv
    OBVIOUS
  <1>1. /\ front = [r \in Arrivals |-> "new"] /\ permits = MaxInflightRequests
        /\ counted = [r \in Requests |-> 0] /\ hpc = [r \in Requests |-> "out"]
        /\ Requests \subseteq Arrivals
    BY DEF Init, DispatchInit, Arrivals
  <1>2. \A r \in Arrivals : Phase(r) = "new" /\ ~ InService(r)
    BY <1>1 DEF Phase, InService
  <1>3. {r \in Arrivals : InService(r)} = {}
    BY <1>2
  <1>4. AdmissionConserved
    BY <1>1, <1>3, FS_EmptySet DEF AdmissionConserved
  <1>5. RequestsCountedOnce
    BY <1>1, <1>2 DEF RequestsCountedOnce
  <1>6. QED
    BY <1>1, <1>4, <1>5 DEF FrontInv, Fronts

-----------------------------------------------------------------------------
(* The theorems.                                                           *)

\* The inductive invariant of the streamed path.
Inv == DispatchInv /\ FrontInv

\* Handlers, job, dispatcher and forwarder (DispatchInv) and the admission
\* around them (FrontInv) keep the invariant, whatever their interleaving.
THEOREM StreamInvariant == Spec => []Inv
  <1>1. Init => Inv
    BY DispatchInvInit, FrontInit DEF Init, Inv
  <1>2. Inv /\ [Next]_vars => Inv'
    BY DispatchInvStep, FrontStepKeeps DEF Inv
  <1>3. QED
    BY <1>1, <1>2, PTL DEF Spec

\* Every variable keeps its type; in particular a channel never holds more
\* than its capacity, and the semaphore never more permits than it had.
THEOREM TypeCorrect == Spec => []TypeOK
  <1>1. Inv => TypeOK
    <2>1. Inv => DispatchTypeOK
      BY DEF Inv, DispatchInv, PipeInv, SenderInv, SenderTypes, InitStates, ChunkInv, AnswerInv,
             DispatchTypeOK
    <2>2. QED
      BY <2>1 DEF Inv, FrontInv, Fronts, TypeOK
  <1>2. QED
    BY <1>1, StreamInvariant, PTL

\* No payload is lost, and no failure of the function is taken for a clean
\* end, between Lambda's stream and the dispatcher.
THEOREM NoPayloadLost == Spec => []PipeIntact
  <1>1. Inv => PipeIntact
    BY DEF Inv, DispatchInv, PipeInv
  <1>2. QED
    BY <1>1, StreamInvariant, PTL

\* No sender is forgotten: a client never waits for a channel that nobody
\* can use or close any more.
THEOREM SendersAreTracked == Spec => []SendersTracked
  <1>1. Inv => SendersTracked
    <2> SUFFICES ASSUME SenderInv PROVE SendersTracked
      BY DEF Inv, DispatchInv
    <2>1. ASSUME NEW r \in Requests
          PROVE  r \in waiting \/ r \in pending \/ (dpc = "push" /\ r = cur)
                   <=> init[r] = "held" \/ r \in bodyTx
      BY <2>1 DEF SenderInv, SenderTypes
    <2>2. waiting \cap pending = {} /\ cur \notin waiting \cup pending
      BY DEF SenderInv, SenderTypes
    <2>3. QED
      BY <2>1, <2>2 DEF SendersTracked
  <1>2. QED
    BY <1>1, StreamInvariant, PTL

\* A response or a head that a client gets was written by the function, or
\* its batch was failed.
THEOREM AnswersWritten == Spec => []AnswersAreWritten
  <1>1. Inv => AnswersAreWritten
    BY DEF Inv, DispatchInv, AnswerInv
  <1>2. QED
    BY <1>1, StreamInvariant, PTL

\* Back-pressure loses no chunk, whatever the capacity of the channels.
THEOREM ChunksAreKept == Spec => []NoChunkLost
  <1>1. Inv => NoChunkLost
    BY DEF Inv, DispatchInv, ChunkInv
  <1>2. QED
    BY <1>1, StreamInvariant, PTL

\* No permit is lost or released twice, for every limit and any number of
\* streamed and buffered requests.
THEOREM PermitsConserved == Spec => []AdmissionConserved
  <1>1. Inv => AdmissionConserved
    BY DEF Inv, FrontInv
  <1>2. QED
    BY <1>1, StreamInvariant, PTL

\* The request metric is emitted once, when the answer is complete.
THEOREM CountedOnce == Spec => []RequestsCountedOnce
  <1>1. Inv => RequestsCountedOnce
    BY DEF Inv, FrontInv
  <1>2. QED
    BY <1>1, StreamInvariant, PTL

-----------------------------------------------------------------------------
(* The contract.                                                           *)

LEMMA ContractStep ==
    ASSUME Inv, [Next]_vars
    PROVE  [Contract!Next]_(Contract!contractVars)
  <1> DEFINE phase == [r \in Arrivals |-> Phase(r)]
             got   == [r \in Arrivals |-> Got(r)]
  <1>0. Stays \/ \E r \in Arrivals : Joins(r) \/ IsRefused(r) \/ IsAnswered(r) \/ IsGone(r)
    BY StepKinds DEF Inv
  <1>1. /\ permits + Contract!Cardinality(Contract!Served) = MaxInflightRequests
        /\ permits \in Nat /\ Contract!Cardinality(Contract!Served) \in Nat
        /\ MaxInflightRequests \in Nat
    <2>1. {r \in Arrivals : InService(r)} = Holding
      BY PhaseCases DEF Inv, FrontInv, DispatchInv, SenderInv, SenderTypes, Holding
    <2>2. Contract!Served = Holding
      BY DEF Contract!Served, Holding
    <2>3. Contract!Cardinality(Holding) = Cardinality(Holding)
      BY DEF Contract!Cardinality, Cardinality
    <2>4. permits + Cardinality(Holding) = MaxInflightRequests /\ permits \in Nat
      BY <2>1 DEF Inv, FrontInv, AdmissionConserved
    <2>5. QED
      BY <2>2, <2>3, <2>4, HoldingFinite
  <1>2. CASE Stays
    BY <1>2 DEF Stays, Contract!contractVars
  <1>3. ASSUME NEW r \in Arrivals, NEW from, NEW to, Moves(r, from, to)
        PROVE  /\ phase[r] = from /\ phase' = [phase EXCEPT ![r] = to]
               /\ got' = [got EXCEPT ![r] = Got(r)']
    BY <1>3 DEF Moves
  <1>4. ASSUME NEW r \in Arrivals, Joins(r) PROVE Contract!Arrive(r)
    <2>1. phase[r] = "new" /\ phase' = [phase EXCEPT ![r] = "admitted"]
      BY <1>3, <1>4 DEF Joins
    <2>2. got' = got
      BY <1>4 DEF Joins, Moves
    <2>3. permits > 0
      BY <1>4 DEF Joins
    <2>4. Contract!Cardinality(Contract!Served) < MaxInflightRequests
      BY <1>1, <2>3
    <2>5. QED
      BY <2>1, <2>2, <2>4 DEF Contract!Arrive
  <1>5. ASSUME NEW r \in Arrivals, IsRefused(r) PROVE Contract!Refuse(r)
    <2>1. phase[r] = "new" /\ phase' = [phase EXCEPT ![r] = "replied"]
      BY <1>3, <1>5 DEF IsRefused
    <2>2. got' = [got EXCEPT ![r] = "429"]
      BY <1>3, <1>5 DEF IsRefused
    <2>3. permits = 0
      BY <1>5 DEF IsRefused
    <2>4. Contract!Cardinality(Contract!Served) = MaxInflightRequests
      BY <1>1, <2>3
    <2>5. QED
      BY <2>1, <2>2, <2>4 DEF Contract!Refuse
  <1>6. ASSUME NEW r \in Arrivals, IsAnswered(r) PROVE Contract!Answer(r)
    BY <1>3, <1>6 DEF IsAnswered, Answers, Contract!Answer
  <1>7. ASSUME NEW r \in Arrivals, IsGone(r) PROVE Contract!Leave(r)
    BY <1>3, <1>7 DEF IsGone, Contract!Leave
  <1>8. QED
    BY <1>0, <1>2, <1>4, <1>5, <1>6, <1>7 DEF Contract!Next

\* The streamed path keeps the safety of the contract with the clients,
\* whatever the limits and whatever the dispatcher and the function do.
THEOREM StreamImplementsContract == Spec => Contract!Spec
  <1>1. Init => Contract!Init
    <2> SUFFICES ASSUME Init PROVE Contract!Init
      OBVIOUS
    <2>1. \A r \in Arrivals : front[r] = "new"
      BY DEF Init
    <2>2. \A r \in Arrivals : Phase(r) = "new" /\ Got(r) = "none"
      BY <2>1 DEF Phase, Got, InService
    <2>3. QED
      BY <2>2 DEF Contract!Init
  <1>2. Inv /\ [Next]_vars => [Contract!Next]_(Contract!contractVars)
    BY ContractStep
  <1>3. QED
    BY <1>1, <1>2, StreamInvariant, PTL DEF Spec, Contract!Spec

=============================================================================
