SPECIFICATION FairSpec
CONSTANTS
  o1 = o1
  o2 = o2
  w1 = w1
  g1 = g1
  k1 = k1
  k2 = k2
  ca = ca
  cb = cb
  cc = cc
  cd = cd
  Seed = Seed
  Calls <- FourCalls
  Principals <- ThreePeople
  Casts <- AllCasts
  MaxCuts = 1
INVARIANTS KeysAnswerOnce FoundersFoundOnce SilentChangesRaced ReconcileLeavesTarget
PROPERTIES CallsSettle
CHECK_DEADLOCK FALSE
