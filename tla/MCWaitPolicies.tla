--------------------------- MODULE MCWaitPolicies ---------------------------
(* The instance of WaitPolicies that TLC checks.                            *)
EXTENDS WaitPolicies
=============================================================================
