SPECIFICATION Spec
CONSTANTS
  findings = findings
  approvalField = approvalField
  noTask = noTask
  NoTask = noTask
  Tasks <- Chain
  Fields <- WithApproval
  MaxAttempts = 2
  Deps <- ChainDeps
  ParallelSafe <- None
  Approval <- OnlySecond
  Synth <- None
  Policy <- ChainPolicy
  Writes <- NoWrites
  Outcomes <- AllMayFail
  ApprovalField <- ApprovalOnly
  Downgrade <- None
  CanAfter = 1
  Commands <- ThreeCommands
  Kind <- PauseResumeCancel
  Polite = TRUE
  Timeouts = TRUE
  Ambiguity = FALSE
  RecordsMayFail = FALSE
  MaxFaults = 1
INVARIANT ApprovalsWereDecided
CHECK_DEADLOCK FALSE
