---------------------------- MODULE BatchService ----------------------------
(***************************************************************************)
(* What the layer proxy promises the Runtime API about an outer            *)
(* invocation, whatever its workers do: one is served at a time; its items *)
(* are begun once and answered after they are begun, in any order and once *)
(* each; and it is over only when every item of it is answered.  An answer *)
(* is what is given to the outer response, which may still fail upstream.  *)
(***************************************************************************)
EXTENDS Sequences

CONSTANTS Items

VARIABLES
    open,     \* an outer invocation is being served
    waiting,  \* its items that were not handed out
    running,  \* its items that were handed out and not answered
    answers   \* its items that were answered, in the order of the answers

serviceVars == <<open, waiting, running, answers>>

Init ==
    /\ open = FALSE
    /\ waiting = {}
    /\ running = {}
    /\ answers = <<>>

Open ==
    /\ ~ open
    /\ open' = TRUE
    /\ waiting' \in (SUBSET Items) \ {{}}
    /\ UNCHANGED <<running, answers>>

Begin(i) ==
    /\ i \in waiting
    /\ waiting' = waiting \ {i}
    /\ running' = running \cup {i}
    /\ UNCHANGED <<open, answers>>

Answer(i) ==
    /\ i \in running
    /\ running' = running \ {i}
    /\ answers' = Append(answers, i)
    /\ UNCHANGED <<open, waiting>>

Close ==
    /\ open
    /\ waiting = {} /\ running = {}
    /\ open' = FALSE
    /\ answers' = <<>>
    /\ UNCHANGED <<waiting, running>>

\* The answer of the only item may be that of the whole invocation.
AnswerWhole(i) ==
    /\ open
    /\ waiting = {} /\ running = {i} /\ answers = <<>>
    /\ open' = FALSE
    /\ running' = {}
    /\ UNCHANGED <<waiting, answers>>

Next ==
    \/ Open \/ Close
    \/ \E i \in Items : Begin(i) \/ Answer(i) \/ AnswerWhole(i)

Spec == Init /\ [][Next]_serviceVars
=============================================================================
