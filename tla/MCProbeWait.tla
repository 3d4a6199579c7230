----------------------------- MODULE MCProbeWait -----------------------------
(* The instances of ProbeWait that TLC checks.                              *)
EXTENDS ProbeWait
=============================================================================
