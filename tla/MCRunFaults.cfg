SPECIFICATION Spec
CONSTANTS
  findings = findings
  approvalField = approvalField
  noTask = noTask
  NoTask = noTask
  Tasks <- Fork
  Fields <- FindingsOnly
  MaxAttempts = 2
  Deps <- ForkDeps
  ParallelSafe <- ForkSafe
  Approval <- None
  Synth <- OnlyThird
  Policy <- ForkPolicy
  Writes <- ForkWrites
  Outcomes <- AllComplete
  ApprovalField <- None
  Downgrade <- None
  CanAfter = 1
  Commands <- TwoCommands
  Kind <- PauseCancel
  Polite = TRUE
  Timeouts = TRUE
  Ambiguity = TRUE
  RecordsMayFail = TRUE
  MaxFaults = 3
INVARIANTS DependenciesFirst CompletedMeansEverything
CHECK_DEADLOCK FALSE
