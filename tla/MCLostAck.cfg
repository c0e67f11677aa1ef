SPECIFICATION Spec
CONSTANTS
  findings = findings
  approvalField = approvalField
  noTask = noTask
  NoTask = noTask
  Tasks <- Pair
  Fields <- FindingsOnly
  MaxAttempts = 2
  Deps <- PairDeps
  ParallelSafe <- None
  Approval <- None
  Synth <- None
  Policy <- PairPolicy
  Writes <- PairNoWrites
  Outcomes <- AllMayFail
  ApprovalField <- None
  Downgrade <- None
  CanAfter = 0
  Commands <- NoCommands
  Kind <- NoKind
  Polite = TRUE
  Timeouts = FALSE
  Ambiguity = TRUE
  RecordsMayFail = FALSE
  MaxFaults = 1
INVARIANTS CompletedMeansEverything
CHECK_DEADLOCK FALSE
