SPECIFICATION Spec
CONSTANTS
  r1 = r1
  r2 = r2
  r3 = r3
  r4 = r4
  r5 = r5
  g1 = g1
  g2 = g2
  g3 = g3
  u1 = u1
  ok = ok
  bad = bad
  rep1 = rep1
  rep2 = rep2
  ta = ta
  tb = tb
  tc = tc
  td = td
  te = te
  NoTx = NoTx
  NoSeal = NoSeal
  Registered = Registered
  Datasets = 3
  Txs <- FiveTxs
  Runs <- FiveRuns
  Units <- OneUnit
  Results <- TwoResults
  CampaignOf <- TheCampaign
  DatasetOf <- TheDataset
  Casts <- AllCasts
INVARIANTS ManifestsHaveObjects SealsTellTheOutcomes CompletedMeansSealed CirclesNeedAReconciler
CHECK_DEADLOCK FALSE
