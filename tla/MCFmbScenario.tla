--------------------------- MODULE MCFmbScenario ---------------------------
(***************************************************************************)
(* FmbScenario for TLC.  The lists: the shape of conf.txt, several Parks   *)
(* and Stops, a round longer than the tank, lists that are not well formed *)
(* (no Park, a Park of one sample, a move after a Stop), the empty one, and*)
(* one with entries of no samples.                                         *)
(***************************************************************************)
EXTENDS FmbScenario

P(n) == [dir |-> "Park", kols |-> n]
M(n) == [dir |-> "Move", kols |-> n]
S(n) == [dir |-> "Stop", kols |-> n]

MCScenarios == {
  <<P(3), M(2), M(4), S(4)>>,
  <<P(2), M(5), S(1), P(2), M(3), S(2)>>,
  <<P(2), P(5), M(12), M(8), S(3)>>,
  <<P(2), M(30), S(5)>>,
  <<P(2), M(0), M(6), M(0), S(0)>>,
  <<P(1), M(3)>>,
  <<M(2), S(3), M(1)>>,
  <<>> }

\* conf.txt with fewer samples.
MCConfTxt == { <<P(5), M(2), M(2), S(5)>> }
=============================================================================
