-------------------------- MODULE MCStreamGateway ---------------------------
(* The instance of StreamGateway that TLC checks.                          *)
EXTENDS StreamGateway
=============================================================================
