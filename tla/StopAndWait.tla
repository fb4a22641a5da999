----------------------------- MODULE StopAndWait -----------------------------
(***************************************************************************)
(* What the session promises the telemetry server: records go out one at a *)
(* time.  A record is offered only when the one before it was confirmed to *)
(* the device, and a record is confirmed only once the server has it.      *)
(* Records are counted from the start of the session; leaving the session  *)
(* forgets the counts, because nothing is retransmitted in the next one.   *)
(***************************************************************************)
EXTENDS Naturals

VARIABLES
  link,       \* "up" while records may flow
  offered,    \* records the device has sent
  received,   \* records the server has taken
  confirmed   \* records the device holds an acknowledgement for

vars == <<link, offered, received, confirmed>>

TypeOK ==
  /\ link \in {"up", "down"}
  /\ offered \in Nat /\ received \in Nat /\ confirmed \in Nat

Init == link = "down" /\ offered = 0 /\ received = 0 /\ confirmed = 0

Open == link = "down" /\ link' = "up" /\ UNCHANGED <<offered, received, confirmed>>

Offer ==
  /\ link = "up" /\ offered = confirmed
  /\ offered' = offered + 1
  /\ UNCHANGED <<link, received, confirmed>>

Receive ==
  /\ link = "up" /\ received < offered
  /\ received' = received + 1
  /\ UNCHANGED <<link, offered, confirmed>>

Confirm ==
  /\ link = "up" /\ confirmed < received
  /\ confirmed' = confirmed + 1
  /\ UNCHANGED <<link, offered, received>>

Close ==
  /\ link = "up" /\ link' = "down"
  /\ offered' = 0 /\ received' = 0 /\ confirmed' = 0

Next == Open \/ Offer \/ Receive \/ Confirm \/ Close

Spec == Init /\ [][Next]_vars

\* At most one record is on its way or unconfirmed.
OneOutstanding == confirmed <= received /\ received <= offered /\ offered <= confirmed + 1
=============================================================================
