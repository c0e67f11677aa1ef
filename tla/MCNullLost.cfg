SPECIFICATION MergeSpec
CONSTANTS
  Writers = {1, 2}
INVARIANTS
  NoSilentOverwrite
CHECK_DEADLOCK FALSE
