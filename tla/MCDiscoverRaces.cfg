SPECIFICATION Spec
CONSTANTS
  c1 = c1
  c2 = c2
  c3 = c3
  c4 = c4
  earlier = earlier
  h1 = h1
  i1 = i1
  i2 = i2
  alice = alice
  bob = bob
  carol = carol
  p1 = p1
  p2 = p2
  None = None
  HomeOf <- ServedBy
  Calls <- FourCalls
  Earlier = earlier
  Hypotheses <- OneHypothesis
  Inputs <- TwoInputs
  Principals <- ThreePeople
  Processes <- TwoProcesses
  MaxRestarts = 1
INVARIANTS ResolvedOnce CasesListActions
PROPERTY TriageIsLegal
CHECK_DEADLOCK FALSE
