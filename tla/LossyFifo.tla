------------------------------ MODULE LossyFifo ------------------------------
(***************************************************************************)
(* What the log server promises to those who read the log: it loses        *)
(* messages, but does not invent, repeat or reorder any.  The messages of  *)
(* one task reach the readers in the order they were printed, each at most *)
(* once and at most one reader.  Nothing is said about messages of         *)
(* different tasks.                                                        *)
(*                                                                         *)
(* A message is known by the task that printed it and its number there.    *)
(***************************************************************************)
EXTENDS Integers, Sequences

CONSTANT Tasks

VARIABLES
  made,      \* number of messages each task has printed
  transit,   \* messages of each task that may still be delivered
  seen       \* what the present reader has received

vars == <<made, transit, seen>>

Init ==
  /\ made = [t \in Tasks |-> 0] /\ transit = [t \in Tasks |-> {}] /\ seen = <<>>

\* A message may be lost as soon as it is printed.
Make(t) ==
  /\ made' = [made EXCEPT ![t] = @ + 1]
  /\ transit' \in {transit, [transit EXCEPT ![t] = @ \cup {made[t] + 1}]}
  /\ UNCHANGED seen

Lose(t) ==
  /\ \E n \in transit[t] : transit' = [transit EXCEPT ![t] = @ \ {n}]
  /\ UNCHANGED <<made, seen>>

\* The first message of the task that is not lost.
Deliver(t) ==
  /\ \E n \in transit[t] :
       /\ \A k \in transit[t] : n <= k
       /\ transit' = [transit EXCEPT ![t] = @ \ {n}]
       /\ seen' = Append(seen, <<t, n>>)
  /\ UNCHANGED made

NewReader == seen' = <<>> /\ UNCHANGED <<made, transit>>

Next == NewReader \/ \E t \in Tasks : Make(t) \/ Lose(t) \/ Deliver(t)

Spec == Init /\ [][Next]_vars
=============================================================================
