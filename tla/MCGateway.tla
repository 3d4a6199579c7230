------------------------------ MODULE MCGateway ------------------------------
(* Instances of Gateway for TLC. *)
EXTENDS Gateway

CONSTANTS r1, r2, r3, k1

\* All requests have the same batch key.
OneKey == [r \in Requests |-> k1]

\* Two unit requests fit one payload; r3 alone exceeds it.
Weights == [r \in Requests |-> IF r = r3 THEN 3 ELSE 1]

\* Every request fits alone and no two fit together.
Heavy == [r \in Requests |-> 2]

\* Tasks are interchangeable, and so are r1 and r2 (same key, same weight).
Symmetry == {p @@ q : p \in Permutations(Tasks), q \in Permutations({r1, r2})}
=============================================================================
