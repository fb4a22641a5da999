----------------------------- MODULE MCConfFile -----------------------------
(***************************************************************************)
(* ConfFile for TLC.  Three parameters, two of which a file must have, as  *)
(* in the code seven of eight.  The card's own file has a scenario and too *)
(* few parameters; a card can also be empty, or have the fetched file.     *)
(***************************************************************************)
EXTENDS ConfFile

MCParams == {"server", "imei", "mode"}
MCFiles  == {"new", "old", "poor"}
MCLines  == [f \in MCFiles |->
  CASE f = "new"  -> <<"server", "mode", Entry>>
    [] f = "old"  -> <<"imei", "mode", Entry>>
    [] f = "poor" -> <<Entry, "server">>]
MCMedia  == {"card", "disk"}
MCCardFiles == {"poor"}
MCDiskFiles == {"old"}
=============================================================================
