---------------------------- MODULE RequestReply -----------------------------
(***************************************************************************)
(* What the gateway promises its HTTP clients, whatever happens to tasks,  *)
(* queues and invocations behind it: at most Limit requests are being      *)
(* served at a time; a request is refused for load on arrival only when    *)
(* Limit requests are being served; every request gets at most one answer, *)
(* and one that was admitted gets it unless its client leaves first.       *)
(***************************************************************************)
EXTENDS Naturals, FiniteSets

CONSTANTS Requests, Replies, Limit

VARIABLES phase, answer

contractVars == <<phase, answer>>

Served == {r \in Requests : phase[r] = "admitted"}

Init ==
    /\ phase = [r \in Requests |-> "new"]
    /\ answer = [r \in Requests |-> "none"]

Arrive(r) ==
    /\ phase[r] = "new"
    /\ Cardinality(Served) < Limit
    /\ phase' = [phase EXCEPT ![r] = "admitted"]
    /\ UNCHANGED answer

Refuse(r) ==
    /\ phase[r] = "new"
    /\ Cardinality(Served) = Limit
    /\ phase' = [phase EXCEPT ![r] = "replied"]
    /\ answer' = [answer EXCEPT ![r] = "429"]

Answer(r) ==
    /\ phase[r] = "admitted"
    /\ phase' = [phase EXCEPT ![r] = "replied"]
    /\ \E code \in Replies : answer' = [answer EXCEPT ![r] = code]

Leave(r) ==
    /\ phase[r] = "admitted"
    /\ phase' = [phase EXCEPT ![r] = "left"]
    /\ UNCHANGED answer

Next == \E r \in Requests : Arrive(r) \/ Refuse(r) \/ Answer(r) \/ Leave(r)

Spec == Init /\ [][Next]_contractVars

FairSpec == Spec /\ \A r \in Requests : WF_contractVars(Answer(r) \/ Leave(r))
=============================================================================
