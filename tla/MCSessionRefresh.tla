--------------------------- MODULE MCSessionRefresh ---------------------------
(* An instance of SessionRefresh: calls of one session in three replicas.  *)
EXTENDS SessionRefresh, TLC

CONSTANTS c1, c2, c3

TwoCalls == {c1, c2}
ThreeCalls == {c1, c2, c3}
Replicas == Permutations(ThreeCalls)
=============================================================================
