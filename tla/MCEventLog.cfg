SPECIFICATION FairSpec
CONSTANTS
  r1 = r1
  r2 = r2
  ta = ta
  tb = tb
  tc = tc
  td = td
  te = te
  tf = tf
  k1 = k1
  k2 = k2
  url = url
  b1 = b1
  b2 = b2
  NoTx = NoTx
  None = None
  Runs <- TwoRuns
  Txs <- SixTxs
  Command <- SixCommands
  MaxFaults = 1
INVARIANTS LogsAreChained CommandsTakeEffectOnce CirclesNeedAMemoryWrite
PROPERTIES TransactionsSettle
CHECK_DEADLOCK FALSE
