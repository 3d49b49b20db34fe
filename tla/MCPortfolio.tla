----------------------------- MODULE MCPortfolio -----------------------------
(* Instances of Portfolio for TLC.                                         *)
EXTENDS Portfolio

Weight(s, w) == [symbol |-> s, weight |-> w]
MCWeightings == {<<Weight("a", 50), Weight("b", 50)>>, <<Weight("b", 100)>>}
MCTargets    == {[a |-> 40, b |-> 60], [a |-> 90, b |-> 0], [a |-> 0, b |-> 130]}
==============================================================================
