SPECIFICATION Spec
CONSTANTS
  findings = findings
  approvalField = approvalField
  noTask = noTask
  NoTask = noTask
  Tasks <- Chain
  Fields <- WithApproval
  MaxAttempts = 2
  Deps <- ChainDeps
  ParallelSafe <- None
  Approval <- OnlySecond
  Synth <- None
  Policy <- ChainPolicy
  Writes <- NoWrites
  Outcomes <- AllComplete
  ApprovalField <- ApprovalOnly
  Downgrade <- None
  CanAfter = 0
  Commands <- ThreeCommands
  Kind <- PauseResumePause
  Polite = TRUE
  Timeouts = FALSE
  Ambiguity = FALSE
  RecordsMayFail = FALSE
  MaxFaults = 0
INVARIANTS PauseIsVisible
CHECK_DEADLOCK FALSE
