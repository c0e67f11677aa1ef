SPECIFICATION Spec
CONSTANTS
  findings = findings
  approvalField = approvalField
  noTask = noTask
  NoTask = noTask
  Tasks <- Pair
  Fields <- FindingsOnly
  MaxAttempts = 2
  Deps <- PairDeps
  ParallelSafe <- None
  Approval <- None
  Synth <- None
  Policy <- PairPolicy
  Writes <- PairNoWrites
  Outcomes <- AllComplete
  ApprovalField <- None
  Downgrade <- None
  CanAfter = 0
  Commands <- OneCommand
  Kind <- ResumeOnly
  Polite = FALSE
  Timeouts = FALSE
  Ambiguity = FALSE
  RecordsMayFail = FALSE
  MaxFaults = 0
INVARIANTS LogReplayable
CHECK_DEADLOCK FALSE
