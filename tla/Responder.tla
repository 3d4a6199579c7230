------------------------------ MODULE Responder ------------------------------
(***************************************************************************)
(* The one-shot reply channel of a buffered request                        *)
(* (ResponseSink::Buffered): the HTTP handler keeps the receiving end and  *)
(* the PendingRequest carries the sending end through queue, batch and     *)
(* invocation job.  slot[r] is the sender's side of the channel of r:      *)
(*   "none"     the handler has not created the channel yet,               *)
(*   "open"     the sender is alive and unused,                            *)
(*   "dropped"  the sender was destroyed without sending,                  *)
(*   a status   the sender was used, once, to send a response.             *)
(***************************************************************************)
CONSTANT Requests      \* the HTTP requests of a behaviour

VARIABLE slot

SentCodes == {"200", "429", "502"}

SlotValues == {"none", "open", "dropped"} \cup SentCodes

SlotTypeOK == slot \in [Requests -> SlotValues]

SlotInit == slot = [r \in Requests |-> "none"]

\* Send status `code` to every request of S (fail_all_buffered).
SendAll(S, code) == slot' = [r \in Requests |-> IF r \in S THEN code ELSE slot[r]]

\* Destroy the senders of S without sending.
DropAll(S) == SendAll(S, "dropped")

\* Send 200 to the requests of Good and 502 to the other requests of S.
SendResponses(S, Good) ==
    slot' = [r \in Requests |-> IF r \in S
                                THEN IF r \in Good THEN "200" ELSE "502"
                                ELSE slot[r]]
=============================================================================
