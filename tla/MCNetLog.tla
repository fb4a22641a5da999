------------------------------ MODULE MCNetLog ------------------------------
(***************************************************************************)
(* NetLog for TLC: two tasks that print.                                   *)
(***************************************************************************)
EXTENDS NetLog

MCPrinters == {"fmb", "tls"}
=============================================================================
