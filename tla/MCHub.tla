-------------------------------- MODULE MCHub --------------------------------
(* Values of the constants of Hub for TLC.                                 *)
EXTENDS Hub

CONSTANT c1

=============================================================================
