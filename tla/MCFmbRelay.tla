----------------------------- MODULE MCFmbRelay -----------------------------
(***************************************************************************)
(* FmbRelay for TLC: the two ignition relays and one other, two pins.      *)
(***************************************************************************)
EXTENDS FmbRelay

MCRelays == {1, 7, 8}
MCPins == {1, 2}
=============================================================================
