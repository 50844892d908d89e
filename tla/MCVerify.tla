------------------------------ MODULE MCVerify ------------------------------
(* A module to run Verify in: its constants are all in the configuration.  *)
EXTENDS Verify

=============================================================================
