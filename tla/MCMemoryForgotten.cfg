SPECIFICATION Spec
CONSTANTS
  a = a
  b = b
  c = c
  d = d
  e = e
  lang = lang
  editor = editor
  vim = vim
  redacted = redacted
  wa = wa
  wb = wb
  wc = wc
  r1 = r1
  r2 = r2
  q1 = q1
  q2 = q2
  NoId = NoId
  Idle = Idle
  Ids <- AllIds
  Keys <- TwoKeys
  Values <- OneValue
  Redacted = redacted
  Writers <- Three
  Input <- SharedKey
  Requests <- OneRequest
  Ttl = 1
  MaxLost = 1
INVARIANTS ForgottenLeavesNoValue
CHECK_DEADLOCK FALSE
