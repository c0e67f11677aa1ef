SPECIFICATION Spec
CONSTANTS
  findings = findings
  approvalField = approvalField
  noTask = noTask
  NoTask = noTask
  Tasks <- Pair
  Fields <- FindingsOnly
  MaxAttempts = 2
  Deps <- PairDeps
  ParallelSafe <- None
  Approval <- None
  Synth <- None
  Policy <- PairPolicy
  Writes <- PairNoWrites
  Outcomes <- AllOutcomes
  ApprovalField <- None
  Downgrade <- None
  CanAfter = 0
  Commands <- NoCommands
  Kind <- NoKind
  Polite = TRUE
  Timeouts = FALSE
  Ambiguity = FALSE
  RecordsMayFail = FALSE
  MaxFaults = 1
PROPERTIES NoEffectAfterUnknown
CHECK_DEADLOCK FALSE
