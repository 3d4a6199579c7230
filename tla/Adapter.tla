------------------------------- MODULE Adapter -------------------------------
(***************************************************************************)
(* The batch adapters inside a Lambda function (lambda-kit): they run the  *)
(* user's handler on the items of a batch, a few at a time, and write one  *)
(* record per item ("buffered", "records") or a head, chunks and an end    *)
(* ("interleaved").                                                        *)
(*                                                                         *)
(* The Node adapter runs a pool of workers that share an index; each waits *)
(* for the response stream to drain when a write says so.  The Rust stream *)
(* adapter keeps a set of active item streams that its consumer polls: it  *)
(* fills the set at the start of a poll and learns that an item's stream   *)
(* has ended only by polling it again, at a later poll.                    *)
(* An item is a position of the batch; a pool's worker is represented by   *)
(* the item it runs.                                                       *)
(***************************************************************************)
EXTENDS Naturals, Sequences, FiniteSets

CONSTANTS BatchSize,   \* items of the batch
          Limit,       \* concurrency
          HighWater,   \* lines the response stream buffers before "drain"
          MaxChunks    \* bound: chunks of one body

ASSUME AdapterAssumption ==
    /\ BatchSize \in Nat \ {0}
    /\ Limit \in Nat \ {0}
    /\ HighWater \in Nat \ {0}
    /\ MaxChunks \in Nat

VARIABLES
    kit,       \* "node" or "rust"
    mode,      \* the adapter's output, fixed when it is made
    next,      \* the first item that is not taken
    stage,     \* stage[i]: "new", "handler", "body" or "done"
    lines,     \* lines[i]: the types of the records written for item i
    waits,     \* items whose worker waits for "drain"
    dead,      \* items whose worker ended with an exception
    buffered,  \* lines in the response stream's buffer
    needDrain, \* the stream will say "drain" when it is empty
    lapsed,    \* Rust: finished items whose streams are still in the set
    parked,    \* Rust: the last poll of the stream returned Pending
    over       \* the response is complete: end() was called, or it is returned

vars == <<kit, mode, next, stage, lines, waits, dead, buffered, needDrain, lapsed, parked, over>>

select == <<lapsed, parked>>

Items == 1..BatchSize

Records == {"record", "head", "chunk", "end", "error"}

\* What the variables may hold.
TypeOK ==
    /\ kit \in {"node", "rust"}
    /\ mode \in {"buffered", "records", "interleaved"}
    /\ next \in 1..(BatchSize + 1)
    /\ stage \in [Items -> {"new", "handler", "body", "done"}]
    /\ lines \in [Items -> Seq(Records)]
    /\ waits \subseteq Items
    /\ dead \subseteq Items
    /\ buffered \in Nat
    /\ needDrain \in BOOLEAN
    /\ lapsed \subseteq Items
    /\ parked \in BOOLEAN
    /\ over \in BOOLEAN

Init ==
    /\ kit \in {"node", "rust"}
    /\ mode \in {"buffered", "records", "interleaved"}
    /\ next = 1
    /\ stage = [i \in Items |-> "new"]
    /\ lines = [i \in Items |-> <<>>]
    /\ waits = {}
    /\ dead = {}
    /\ buffered = 0
    /\ needDrain = FALSE
    /\ lapsed = {}
    /\ parked = FALSE
    /\ over = FALSE

-----------------------------------------------------------------------------
(* The pool.                                                               *)

\* Items that occupy a worker, or a place among the active streams.
Running == {i \in Items : stage[i] \in {"handler", "body"}} \cup waits

\* Mutant: the index may run one past the batch.
TakePastEnd ==
    /\ next <= BatchSize + 1
    /\ stage' = [i \in Items |-> IF i = next THEN "handler" ELSE stage[i]]
    /\ next' = next + 1
    /\ UNCHANGED <<kit, mode, lines, waits, dead, buffered, needDrain, lapsed, parked, over>>

Take ==
    /\ next <= BatchSize
    /\ stage' = [stage EXCEPT ![next] = "handler"]
    /\ next' = next + 1
    /\ UNCHANGED <<kit, mode, lines, waits, dead, buffered, needDrain, lapsed, parked, over>>

\* A worker takes next++; one that threw takes no more.
NodeTake ==
    /\ kit = "node"
    /\ Cardinality(Running \cup dead) < Limit
    /\ Take

\* buffer_unordered, and ConcurrentSelect at the start of a poll, start an
\* item when there is room; the finished streams still count.
RustTake ==
    /\ kit = "rust" /\ ~ parked
    /\ Cardinality(Running \cup lapsed) < Limit
    /\ Take

ToppedUp == next > BatchSize \/ Cardinality(Running \cup lapsed) >= Limit

\* Mutant: Pending although no active stream is left.
PollPendingOnEmpty ==
    /\ kit = "rust" /\ mode # "buffered" /\ ~ parked
    /\ ToppedUp
    /\ Running \cup lapsed # {}
    /\ lapsed' = {}
    /\ parked' = TRUE
    /\ UNCHANGED <<kit, mode, next, stage, lines, waits, dead, buffered, needDrain, over>>

\* No stream has a line: the finished ones are dropped, but their places are
\* filled at the next poll, and that comes when an active stream wakes its
\* consumer.  Only an empty set is filled at once.
PollPending ==
    /\ kit = "rust" /\ mode # "buffered" /\ ~ parked
    /\ ToppedUp
    /\ Running \cup lapsed # {}
    /\ lapsed' = {}
    /\ parked' = (Running # {})
    /\ UNCHANGED <<kit, mode, next, stage, lines, waits, dead, buffered, needDrain, over>>

Wake ==
    /\ parked /\ Running # {}
    /\ parked' = FALSE
    /\ UNCHANGED <<kit, mode, next, stage, lines, waits, dead, buffered, needDrain, lapsed, over>>

-----------------------------------------------------------------------------
(* Writing a record.                                                       *)

\* The buffered adapters keep the result.
Keep(i, type) ==
    /\ mode = "buffered"
    /\ lines' = [lines EXCEPT ![i] = Append(@, type)]
    /\ UNCHANGED <<waits, buffered, needDrain, lapsed, parked>>

\* A poll of the Rust stream yields a line.  It may have met finished streams
\* on the way; the stream of this line stays in the set.
Yield(i, type) ==
    /\ kit = "rust" /\ mode # "buffered" /\ ~ parked
    /\ ToppedUp
    /\ lines' = [lines EXCEPT ![i] = Append(@, type)]
    /\ \E left \in SUBSET lapsed :
          lapsed' = left \cup {j \in {i} : stage'[j] = "done"}
    /\ UNCHANGED <<waits, buffered, needDrain, parked>>

\* Mutant: write() is not awaited.
WriteNoWait(i, type) ==
    /\ kit = "node" /\ mode # "buffered" /\ ~ over
    /\ lines' = [lines EXCEPT ![i] = Append(@, type)]
    /\ buffered' = buffered + 1
    /\ UNCHANGED <<waits, needDrain, lapsed, parked>>

\* writeNdjsonLine: the worker waits for "drain" when the buffer is full.
WriteLine(i, type) ==
    /\ kit = "node" /\ mode # "buffered" /\ ~ over
    /\ lines' = [lines EXCEPT ![i] = Append(@, type)]
    /\ buffered' = buffered + 1
    /\ IF buffered + 1 >= HighWater
       THEN waits' = waits \cup {i} /\ needDrain' = TRUE
       ELSE UNCHANGED <<waits, needDrain>>
    /\ UNCHANGED select

\* A write after end() is refused, and no "drain" will follow.
WriteRefused(i) ==
    /\ kit = "node" /\ mode # "buffered" /\ over
    /\ waits' = waits \cup {i}
    /\ UNCHANGED <<lines, buffered, needDrain, lapsed, parked>>

Emit(i, type) == Keep(i, type) \/ Yield(i, type) \/ WriteLine(i, type) \/ WriteRefused(i)

\* The response stream sends a line; when it is empty, "drain" wakes every
\* worker that listens.
Sent ==
    /\ buffered > 0
    /\ buffered' = buffered - 1
    /\ IF buffered = 1 /\ needDrain /\ ~ over
       THEN waits' = {} /\ needDrain' = FALSE
       ELSE UNCHANGED <<waits, needDrain>>
    /\ UNCHANGED <<kit, mode, next, stage, lines, dead, lapsed, parked, over>>

-----------------------------------------------------------------------------
(* One item.                                                               *)

Step(i, from, to) ==
    /\ stage[i] = from
    /\ i \notin waits
    /\ stage' = [stage EXCEPT ![i] = to]
    /\ UNCHANGED <<kit, mode, next, dead, over>>

\* One record for the item, whatever the handler did: an error becomes 500,
\* and so does a response that cannot be mapped.
Answer(i) ==
    /\ mode # "interleaved"
    /\ Step(i, "handler", "done")
    /\ Emit(i, "record")

HandlerReturns(i) ==
    /\ mode = "interleaved"
    /\ Step(i, "handler", "body")
    /\ Emit(i, "head")

\* Mutant: the error record does not end the item.
HandlerFailsGoesOn(i) ==
    /\ mode = "interleaved"
    /\ Step(i, "handler", "body")
    /\ Emit(i, "error")

HandlerFails(i) ==
    /\ mode = "interleaved"
    /\ Step(i, "handler", "done")
    /\ Emit(i, "error")

\* Node maps status, headers and cookies outside the try block: a value that
\* cannot be converted throws, and the worker's promise is rejected.
MappingThrows(i) ==
    /\ kit = "node" /\ mode = "interleaved"
    /\ stage[i] = "handler"
    /\ stage' = [stage EXCEPT ![i] = "done"]
    /\ dead' = dead \cup {i}
    /\ UNCHANGED <<kit, mode, next, lines, waits, buffered, needDrain, lapsed, parked, over>>

Chunk(i) ==
    /\ Len(lines[i]) <= MaxChunks
    /\ Step(i, "body", "body")
    /\ Emit(i, "chunk")

BodyEnds(i) == Step(i, "body", "done") /\ Emit(i, "end")

\* The iterator of a Node body throws; a Rust body stream cannot fail.
BodyFails(i) == kit = "node" /\ Step(i, "body", "done") /\ Emit(i, "error")

\* Mutant: the response ends when the last item has been taken.
EndEarly ==
    /\ ~ over
    /\ next > BatchSize
    /\ over' = TRUE
    /\ UNCHANGED <<kit, mode, next, stage, lines, waits, dead, buffered, needDrain, lapsed, parked>>

\* Promise.all resolves when every worker has returned and rejects with the
\* first one that throws; either way the stream is ended.  The Rust stream
\* ends with the last active one.
End ==
    /\ ~ over
    /\ dead # {} \/ (next > BatchSize /\ Running \cup lapsed = {})
    /\ over' = TRUE
    /\ UNCHANGED <<kit, mode, next, stage, lines, waits, dead, buffered, needDrain, lapsed, parked>>

-----------------------------------------------------------------------------
HandlerEnds(i) == Answer(i) \/ HandlerReturns(i) \/ HandlerFails(i) \/ MappingThrows(i)

BodyCloses(i) == BodyEnds(i) \/ BodyFails(i)

Next ==
    \/ NodeTake \/ RustTake
    \/ PollPending \/ Wake
    \/ \E i \in Items : HandlerEnds(i) \/ Chunk(i) \/ BodyCloses(i)
    \/ Sent
    \/ End

Spec == Init /\ [][Next]_vars

(***************************************************************************)
(* Fairness: handlers and bodies end (the function has a time limit) and   *)
(* what they produce is polled although polls between find nothing, the    *)
(* consumer of the Rust stream polls when it is woken, and the response    *)
(* stream is read.                                                         *)
(***************************************************************************)
Fairness ==
    /\ WF_vars(NodeTake \/ RustTake)
    /\ WF_vars(PollPending) /\ WF_vars(Wake)
    /\ \A i \in Items : SF_vars(HandlerEnds(i)) /\ SF_vars(BodyCloses(i))
    /\ WF_vars(Sent)
    /\ WF_vars(End)

FairSpec == Spec /\ Fairness

-----------------------------------------------------------------------------
\* What an item may be answered with, and the beginnings of it: this is the
\* protocol that the gateway's stream dispatcher reads.
Chunks(s) == \A n \in 2..(Len(s) - 1) : s[n] = "chunk"

Whole(s) ==
    \/ s = <<"record">> /\ mode # "interleaved"
    \/ s = <<"error">> /\ mode = "interleaved"
    \/ /\ mode = "interleaved"
       /\ Len(s) >= 2
       /\ s[1] = "head" /\ Chunks(s) /\ s[Len(s)] \in {"end", "error"}

Begun(s) == s = <<>> \/ (mode = "interleaved" /\ s[1] = "head" /\ Chunks(Append(s, "end")))

\* The records of an item are a head, chunks and an end or error, or one
\* record: an item that is finished has exactly that (unless its worker
\* threw, or the stream was ended under it), one that is not has a beginning
\* of it, whatever the other items do.
ItemsFollowProtocol ==
    \A i \in Items :
        IF stage[i] = "done" /\ dead = {} THEN Whole(lines[i]) ELSE Whole(lines[i]) \/ Begun(lines[i])

\* When the response is over every item has its whole answer, unless a
\* worker threw: no item is skipped by the shared index, taken twice, or cut
\* off while its worker waits for the stream.
EveryItemAnswered ==
    over /\ dead = {} => \A i \in Items : stage[i] = "done" /\ Whole(lines[i])

\* Backpressure works with several writers: each may write one line past the
\* mark, then waits.
BufferBounded == buffered <= HighWater - 1 + Limit

\* The response ends, whichever handlers fail and however slowly the stream
\* is read: no worker waits for a "drain" that is not coming, and the Rust
\* stream never returns Pending with nobody left to wake its consumer.
ResponseEnds == <>over
=============================================================================
