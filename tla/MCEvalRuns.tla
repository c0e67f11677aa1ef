---------------------------- MODULE MCEvalRuns ----------------------------
(* Instances of EvalRuns: runners, seals and the completion of a campaign  *)
(* around one run; creations repeated with the same datasets, with a seal  *)
(* and the reconciliations beside them; a seal that is reported on.        *)
EXTENDS EvalRuns, TLC

CONSTANTS r1, r2, r3, r4, r5, g1, g2, g3, u1, ok, bad, rep1, rep2,
          ta, tb, tc, td, te

FiveRuns == {r1, r2, r3, r4, r5}
OneUnit == {u1}
TwoResults == {ok, bad}
FiveTxs == {ta, tb, tc, td, te}
TheCampaign == [r \in FiveRuns |->
  IF r = r1 THEN g1 ELSE IF r \in {r2, r3} THEN g2 ELSE g3]
TheDataset == [r \in FiveRuns |->
  IF r = r1 THEN 1 ELSE IF r \in {r2, r4} THEN 2 ELSE 3]

Op(kind, run) ==
  [kind |-> kind, run |-> run, runs |-> <<>>, unit |-> u1, result |-> ok, report |-> rep1]
Idle == Op("idle", r1)
Record(result) == [Op("record", r1) EXCEPT !.result = result]
Seal(report) == [Op("seal", r1) EXCEPT !.report = report]
Create(a, b) == [Op("create", a) EXCEPT !.runs = <<a, b>>]

Cast(a, b, c, d, e) ==
  [op |-> ta :> a @@ tb :> b @@ tc :> c @@ td :> d @@ te :> e, born |-> {r1}]

SealCasts == {
  Cast(Record(ok), Record(bad), Op("resume", r1), Seal(rep1), Seal(rep2)),
  Cast(Record(ok), Op("pause", r1), Op("resumeChild", r1), Seal(rep1), Seal(rep2)),
  Cast(Record(ok), Op("pause", r1), Op("resumeChild", r1), Seal(rep1), Op("complete", r1))}
StoreCasts == {
  Cast(Create(r2, r3), Create(r5, r4), Op("reconcile", r1), Idle, Idle),
  Cast(Record(ok), Seal(rep1), Op("report", r1), Op("verify", r1),
       Op("reconcileTemporary", r1))}
AllCasts == SealCasts \cup StoreCasts
=============================================================================
