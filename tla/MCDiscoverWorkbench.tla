----------------------- MODULE MCDiscoverWorkbench -----------------------
(* Instances of DiscoverWorkbench: requests about one hypothesis, its case *)
(* and the actions of the case, by three people to two processes.            *)
EXTENDS DiscoverWorkbench, TLC

CONSTANTS c1, c2, c3, c4, earlier, h1, i1, i2, alice, bob, carol, p1, p2

FourCalls == {c1, c2, c3, c4}
OneHypothesis == {h1}
TwoInputs == {i1, i2}
ThreePeople == {alice, bob, carol}
TwoProcesses == {p1, p2}
ServedBy == [c \in FourCalls |-> IF c = c4 THEN p2 ELSE p1]
Alike == Permutations({c1, c2, c3}) \cup Permutations(TwoInputs) \cup Permutations(ThreePeople)
=============================================================================
