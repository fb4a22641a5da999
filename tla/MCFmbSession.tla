---------------------------- MODULE MCFmbSession ----------------------------
(***************************************************************************)
(* FmbSession for TLC.  Three commands stand for all twelve: the one that  *)
(* moves tmr_send, the one that asks for a restart, and any other.  A run  *)
(* takes those that its properties tell apart.                             *)
(***************************************************************************)
EXTENDS FmbSession

MCDoReport == 8
MCCpuReset == 11
MCCmdIds == {3, MCDoReport, MCCpuReset}
MCTwoCmdIds == {MCDoReport, MCCpuReset}   \* without one of the rest
MCReset == {MCCpuReset}                   \* the restart alone
=============================================================================
