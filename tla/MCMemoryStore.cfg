SPECIFICATION FairSpec
CONSTANTS
  a = a
  b = b
  c = c
  d = d
  e = e
  lang = lang
  editor = editor
  vim = vim
  redacted = redacted
  wa = wa
  wb = wb
  wc = wc
  r1 = r1
  r2 = r2
  q1 = q1
  q2 = q2
  NoId = NoId
  Idle = Idle
  Ids <- AllIds
  Keys <- TwoKeys
  Values <- OneValue
  Redacted = redacted
  Writers <- Three
  Input <- SharedKey
  Requests <- TwoRequests
  Ttl = 1
  MaxLost = 1
INVARIANTS OneActivePerKey LedgerTellsStatus EventsAreBacked
PROPERTIES TerminalIsFinal QueueConverges
CHECK_DEADLOCK FALSE
