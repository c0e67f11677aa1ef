SPECIFICATION MergeSpec
CONSTANTS
  Writers = {1, 2, 3}
INVARIANTS
  AppendIsOrderFree
  NothingLost
CHECK_DEADLOCK FALSE
