SPECIFICATION Spec
CONSTANTS
  start = start
  cancel = cancel
  bad = bad
  event = event
  w1 = w1
  w2 = w2
  Messages <- StartBadAndEvent
  Start = start
  Poison <- BadOnes
  Events <- EventOnes
  Sink = TRUE
  Workers <- TwoWorkers
  WorkerId <- SharedId
  BatchLimit = 2
  MaxAttempts = 2
  MaxFaults = 2
SYMMETRY TwoSymmetry
PROPERTIES ClaimsAreFenced
CHECK_DEADLOCK FALSE
