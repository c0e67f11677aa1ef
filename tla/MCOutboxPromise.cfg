SPECIFICATION FairSpec
CONSTANTS
  start = start
  cancel = cancel
  bad = bad
  event = event
  w1 = w1
  w2 = w2
  Messages <- StartAndSignal
  Start = start
  Poison <- NoMessages
  Events <- NoMessages
  Sink = FALSE
  Workers <- TwoWorkers
  WorkerId <- OwnIds
  BatchLimit = 2
  MaxAttempts = 2
  MaxFaults = 2
PROPERTIES KeepsPromise EveryMessageSettles
CHECK_DEADLOCK FALSE
