SPECIFICATION Spec
CONSTANTS
  findings = findings
  approvalField = approvalField
  noTask = noTask
  NoTask = noTask
  Tasks <- Pair
  Fields <- WithApproval
  MaxAttempts = 2
  Deps <- PairDeps
  ParallelSafe <- None
  Approval <- Pair
  Synth <- None
  Policy <- PairPolicy
  Writes <- PairNoWrites
  Outcomes <- AllComplete
  ApprovalField <- ApprovalOnly
  Downgrade <- None
  CanAfter = 0
  Commands <- NoCommands
  Kind <- NoKind
  Polite = TRUE
  Timeouts = FALSE
  Ambiguity = FALSE
  RecordsMayFail = FALSE
  MaxFaults = 0
INVARIANTS ConflictsAreLogged
CHECK_DEADLOCK FALSE
