SPECIFICATION Spec
CONSTANTS
  findings = findings
  approvalField = approvalField
  noTask = noTask
  NoTask = noTask
  Tasks <- Fork
  Fields <- FindingsOnly
  MaxAttempts = 2
  Deps <- ForkDeps
  ParallelSafe <- ForkSafe
  Approval <- None
  Synth <- OnlyThird
  Policy <- ForkPolicy
  Writes <- ForkWrites
  Outcomes <- ForkOutcomes
  ApprovalField <- None
  Downgrade <- None
  CanAfter = 1
  Commands <- TwoCommands
  Kind <- PauseCancel
  Polite = TRUE
  Timeouts = TRUE
  Ambiguity = FALSE
  RecordsMayFail = FALSE
  MaxFaults = 2
INVARIANTS WorkflowFollowsLog AttemptsAreClosed
CHECK_DEADLOCK FALSE
