---------------------------- MODULE LambdaStream -----------------------------
(***************************************************************************)
(* The task that forwards the event stream of one Lambda invocation to the *)
(* gateway's dispatcher (lambda.rs, AwsLambdaInvoker::invoke).             *)
(*                                                                         *)
(* Payloads go through a bounded channel.  When the dispatcher has stopped *)
(* reading, the task goes on draining the event stream, so that the HTTP/2 *)
(* stream is not reset.  One payload stands for one record: how records    *)
(* are cut into payloads is left out.                                      *)
(***************************************************************************)
EXTENDS Naturals, Sequences

CONSTANTS
    PipeCapacity,  \* capacity of the channel to the dispatcher
    MaxRecords     \* bound: payloads of an event stream

ASSUME LambdaStreamAssumption ==
    /\ PipeCapacity \in Nat \ {0}
    /\ MaxRecords \in Nat

VARIABLES
    fwd,      \* the forwarder: what it awaits, or "done" (not running)
    canSend,  \* can_send
    pipe,     \* the channel: "bytes", and "error" as the last
    reader,   \* the channel's receiver is alive
    total,    \* payloads Lambda has sent
    handled,  \* payloads the dispatcher has taken, while it reads
    erred     \* Lambda reported an error of the function, or its stream broke

forwarderVars == <<fwd, canSend, pipe, reader, total, handled, erred>>

LambdaStreamTypeOK ==
    /\ fwd \in {"recv", "send", "breaking", "completing", "drain", "done"}
    /\ canSend \in BOOLEAN
    /\ pipe \in Seq({"bytes", "error"})
    /\ Len(pipe) <= PipeCapacity
    /\ reader \in BOOLEAN
    /\ total \in 0..MaxRecords
    /\ handled \in Nat
    /\ erred \in BOOLEAN

LambdaStreamInit ==
    /\ fwd = "done"
    /\ canSend = TRUE
    /\ pipe = <<>>
    /\ reader = FALSE
    /\ total = 0
    /\ handled = 0
    /\ erred = FALSE

\* The call succeeded: the task is spawned, its caller gets the receiver.
Spawn ==
    /\ fwd' = "recv"
    /\ reader' = TRUE
    /\ canSend' = TRUE
    /\ total' = 0
    /\ handled' = 0
    /\ erred' = FALSE
    /\ UNCHANGED pipe

-----------------------------------------------------------------------------
(* Events of the stream.                                                   *)

Payload ==
    /\ fwd = "recv"
    /\ total < MaxRecords
    /\ total' = total + 1
    /\ fwd' = IF canSend THEN "send" ELSE "recv"
    /\ UNCHANGED <<canSend, pipe, reader, handled, erred>>

StreamBreaks ==
    /\ fwd = "recv"
    /\ fwd' = IF canSend THEN "breaking" ELSE "done"
    /\ erred' = TRUE
    /\ UNCHANGED <<canSend, pipe, reader, total, handled>>

\* Mutant: InvokeComplete ends the stream whatever its error code.
CompleteSilently ==
    /\ fwd = "recv"
    /\ fwd' = "drain"
    /\ erred' \in BOOLEAN
    /\ UNCHANGED <<canSend, pipe, reader, total, handled>>

\* InvokeComplete, with an error code or without; the rest is drained.
Complete ==
    /\ fwd = "recv"
    /\ erred' \in BOOLEAN
    /\ fwd' = IF erred' /\ canSend THEN "completing" ELSE "drain"
    /\ UNCHANGED <<canSend, pipe, reader, total, handled>>

StreamEof ==
    /\ fwd = "recv"
    /\ fwd' = "done"
    /\ UNCHANGED <<canSend, pipe, reader, total, handled, erred>>

\* End of the stream, an error, or the timer of one second.
Drained ==
    /\ fwd = "drain"
    /\ fwd' = "done"
    /\ UNCHANGED <<canSend, pipe, reader, total, handled, erred>>

-----------------------------------------------------------------------------
(* The channel.                                                            *)

Sending == fwd \in {"send", "breaking", "completing"}

AfterSend ==
    CASE fwd = "send" -> "recv" [] fwd = "breaking" -> "done" [] fwd = "completing" -> "drain"

Send ==
    /\ Sending /\ reader
    /\ Len(pipe) < PipeCapacity
    /\ pipe' = Append(pipe, IF fwd = "send" THEN "bytes" ELSE "error")
    /\ fwd' = AfterSend
    /\ UNCHANGED <<canSend, reader, total, handled, erred>>

\* The receiver is gone, before or while the task waits for room.
SendFails ==
    /\ Sending /\ ~ reader
    /\ canSend' = (canSend /\ fwd # "send")
    /\ fwd' = AfterSend
    /\ UNCHANGED <<pipe, reader, total, handled, erred>>

\* The dispatcher takes what is first in the channel ...
Take ==
    /\ pipe # <<>>
    /\ pipe' = Tail(pipe)
    /\ handled' = handled + 1
    /\ UNCHANGED <<fwd, canSend, reader, total, erred>>

\* Mutant: the receiver outlives the dispatcher.
HangUpKeepsReceiver == UNCHANGED forwarderVars

\* ... or returns, and drops the receiver with what is in the channel.
HangUp ==
    /\ reader' = FALSE
    /\ pipe' = <<>>
    /\ handled' = 0
    /\ UNCHANGED <<fwd, canSend, total, erred>>

EventArrives == Payload \/ StreamBreaks \/ Complete \/ StreamEof

Forward == Send \/ SendFails \/ Drained

ErrorLast == pipe # <<>> /\ pipe[Len(pipe)] = "error"

\* While the dispatcher listens, every payload was taken by it, is in the
\* channel or is about to be; and a failure of the function, or of the
\* stream, reaches it as the last thing, never as a clean end.
PipeIntact ==
    reader =>
        /\ \A i \in 1..(Len(pipe) - 1) : pipe[i] = "bytes"
        /\ total = handled + Len(pipe) - (IF ErrorLast THEN 1 ELSE 0) + (IF fwd = "send" THEN 1 ELSE 0)
        /\ erred => fwd \in {"breaking", "completing"} \/ ErrorLast
=============================================================================
