------------------------------- MODULE MCWaits -------------------------------
(* A module to run Waits in: its constants are all in the configuration.   *)
EXTENDS Waits

=============================================================================
