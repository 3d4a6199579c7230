------------------------------ MODULE MCAdapter ------------------------------
(* The instance of Adapter that TLC checks.                                *)
EXTENDS Adapter
=============================================================================
