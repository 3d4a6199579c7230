---------------------------- MODULE MCLayerProxy -----------------------------
(* The instances of LayerProxy that TLC checks.                            *)
EXTENDS LayerProxy, TLC

Symmetry == Permutations(Workers) \cup Permutations(Ids)
=============================================================================
