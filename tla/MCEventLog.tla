---------------------------- MODULE MCEventLog ----------------------------
(* An instance of EventLog: two commands of one run under the same key, a  *)
(* memory write and a rebuild of that run, two runs that meet one endpoint.*)
EXTENDS EventLog, TLC

CONSTANTS r1, r2, ta, tb, tc, td, te, tf, k1, k2, url, b1, b2

TwoRuns == {r1, r2}
SixTxs == {ta, tb, tc, td, te, tf}
SixCommands == [t \in SixTxs |->
  CASE t = ta -> [kind |-> "append", run |-> r1, key |-> k1, body |-> b1]
    [] t = tb -> [kind |-> "append", run |-> r1, key |-> k1, body |-> b2]
    [] t = tc -> [kind |-> "memory", run |-> r1, key |-> k2, body |-> b1]
    [] t = td -> [kind |-> "firstUse", run |-> r1, key |-> url, body |-> b1]
    [] t = te -> [kind |-> "firstUse", run |-> r2, key |-> url, body |-> b1]
    [] t = tf -> [kind |-> "rebuild", run |-> r1, key |-> k1, body |-> b1]]
=============================================================================
