SPECIFICATION FairSpec
CONSTANTS
  c1 = c1
  c2 = c2
  c3 = c3
  NoCall = NoCall
  Calls <- TwoCalls
INVARIANTS TokensAreSentOnce OkMeansRenewed
PROPERTIES RevokedIsFinal FailuresSpareTheWinner RefreshesEnd
CHECK_DEADLOCK FALSE
