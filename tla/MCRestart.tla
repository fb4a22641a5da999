----------------------------- MODULE MCRestart -----------------------------
(***************************************************************************)
(* Restart for TLC.  There is nothing to instantiate beyond the numbers.   *)
(***************************************************************************)
EXTENDS Restart
=============================================================================
