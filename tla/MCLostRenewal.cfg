SPECIFICATION Spec
CONSTANTS
  c1 = c1
  c2 = c2
  c3 = c3
  NoCall = NoCall
  Calls <- TwoCalls
PROPERTIES UncertainSpareTheWinner
CHECK_DEADLOCK FALSE
