----------------------------- MODULE MCAgentRun -----------------------------
(* Graphs and behaviours of handlers for the instances of AgentRun.        *)
EXTENDS AgentRun, TLC

CONSTANTS findings, approvalField, noTask

(* 1 and 2 run in parallel and both write findings; 3 synthesizes.         *)
Fork == {1, 2, 3}
ForkDeps == (1 :> {}) @@ (2 :> {}) @@ (3 :> {1, 2})
ForkSafe == {1, 2}
ForkWrites == (1 :> {findings}) @@ (2 :> {findings}) @@ (3 :> {})
ForkPolicy == (1 :> "retry") @@ (2 :> "cancel") @@ (3 :> "escalate")

(* 1, then the approval 2, then 3: the planner's approval-chain template.  *)
Chain == {1, 2, 3}
ChainDeps == (1 :> {}) @@ (2 :> {1}) @@ (3 :> {2})
(* 3 waits for the approval 2; 1 stands apart.                             *)
GateDeps == (1 :> {}) @@ (2 :> {}) @@ (3 :> {2})
OnlySecond == {2}
OnlyThird == {3}
ChainPolicy == [t \in Chain |-> "retry"]
NoWrites == [t \in Chain |-> {}]

(* Two independent nodes run one after the other.                          *)
Pair == {1, 2}
PairDeps == [t \in Pair |-> {}]
PairPolicy == [t \in Pair |-> "retry"]
PairNoWrites == [t \in Pair |-> {}]

None == {}
FindingsOnly == {findings}
WithApproval == {findings, approvalField}
ApprovalOnly == {approvalField}

MayFail == {"completed", "failed"}
AnyOutcome == {"completed", "failed", "unknown"}
ForkOutcomes == (1 :> AnyOutcome) @@ (2 :> MayFail) @@ (3 :> {"completed"})
AllComplete == [t \in Tasks |-> {"completed"}]
AllMayFail == [t \in Tasks |-> MayFail]
AllOutcomes == [t \in Tasks |-> AnyOutcome]

NoCommands == {}
OneCommand == {1}
TwoCommands == {1, 2}
ThreeCommands == {1, 2, 3}
FourCommands == {1, 2, 3, 4}
NoKind == [c \in {} |-> "cancel"]
ResumeOnly == (1 :> "resume")
PauseCancel == (1 :> "pause") @@ (2 :> "cancel")
PauseResumePause == (1 :> "pause") @@ (2 :> "resume") @@ (3 :> "pause")
PauseResumeCancel == (1 :> "pause") @@ (2 :> "resume") @@ (3 :> "cancel")
PauseResumePauseCancel == PauseResumePause @@ (4 :> "cancel")
=============================================================================
