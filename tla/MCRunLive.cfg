SPECIFICATION FairSpec
CONSTANTS
  findings = findings
  approvalField = approvalField
  noTask = noTask
  NoTask = noTask
  Tasks <- Chain
  Fields <- WithApproval
  MaxAttempts = 2
  Deps <- GateDeps
  ParallelSafe <- None
  Approval <- OnlySecond
  Synth <- None
  Policy <- ChainPolicy
  Writes <- NoWrites
  Outcomes <- AllMayFail
  ApprovalField <- ApprovalOnly
  Downgrade <- None
  CanAfter = 1
  Commands <- FourCommands
  Kind <- PauseResumePauseCancel
  Polite = TRUE
  Timeouts = TRUE
  Ambiguity = FALSE
  RecordsMayFail = FALSE
  MaxFaults = 1
INVARIANTS ApprovalsWereDecided DecisionsAreHonoured
PROPERTIES CancelEndsRun RunSettles
CHECK_DEADLOCK FALSE
