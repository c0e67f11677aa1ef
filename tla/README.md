# zhiwei: specifications of the run runtime and its stores

zhiwei is an enterprise agent platform: a FastAPI service, a Temporal worker and an
outbox dispatcher over one PostgreSQL database. An agent run is a task graph that a
durable Temporal workflow walks; what happened to it is a log of canonical events in
PostgreSQL, and the state of the run is the log replayed through a pure reducer. Around
the runs stand the stores the platform is trusted with: the hash-chained event log,
memory, login sessions, immutable artifacts and evaluation runs, the workbench of
discovered risks, and the memberships of the tenants. This directory holds TLA+ models
of these, the TLC configurations that check them and the proofs TLAPS checks. Paths
below are relative to `src/` of this checkout, where the Python package is
`src/src/zhiwei/`.

Check a module with `tlc -config <X>.cfg <Module>`, a proof with `tlapm <Module>.tla`.

## 1. Inventory

### The parts modelled

| component | state it keeps | operations | whom it talks to |
|---|---|---|---|
| run projection, `runtime/reducer.py` | none: `RunState` is a fold over the event list | one handler per event type; `ValueError` on a refused transition | replayed by the API, by every activity that checks a conflict, by SSE |
| agent run workflow, `workflows/agent_run.py` | completed / failed / skipped sets, attempt counts, decisions, pause / cancel / dirty flags, the command ids it has seen | `run` and the signals `cancel`, `pause`, `resume`, `approval_decided` | calls the activities, is signalled by the dispatcher |
| activities, `workflows/activities/runtime.py`, `base.py` | rows of `canonical_events`, keyed by idempotency keys | `start_run`, `execute_task` (two transactions around the handler), `record_task_skipped`, `record_task_failed`, `record_run_terminal`, `create_approval`, `check_approval`, `record_approval_outcome`, `run_intent_recheck` | called by Temporal, retried by it |
| approvals, `persistence/approvals.py` | `approval_requests` rows with an expiry | create, decide, check | the API decides; the decision and its signal row commit together |
| outbox, `persistence/outbox.py` | `outbox` rows: status, attempts, due time, claim owner, claim token, lease | enqueue, claim a batch, mark delivered, mark failed | filled by the unit of work of every command |
| dispatcher, `workers/outbox_dispatcher.py`, `runtime/outbox_handlers.py`, `workers/temporal_sender.py` | the claimed batch | `poll_once`: claim, handle, report | starts and signals workflows, publishes events |
| unit of work and event log, `persistence/unit_of_work.py`, `events.py`, `model_first_use.py` | the log of each run, the audit chain of a workspace, projections, first-use declarations; advisory locks | append an event, rebuild a projection, enter the audit chain, declare a first use, write a memory event | under every command and activity |
| memory, `memory/*`, `workflows/activities/memory*.py`, `api/memory.py` | `memory_records`, their lifecycle ledger, the memory events of a run | write by an activity, confirm, correct, revoke, delete, sweep by TTL | Temporal, the Memory Center; writes through the event log |
| sessions, `identity/sessions.py`, `api/auth.py` | the session row with its version, lease and state, the encrypted token envelope | refresh by any replica, revoke, log out, expire | the OIDC provider, which accepts a refresh token once |
| object store, `object_store/*` | temporary and immutable files, `artifact_manifests` | upload, promote, reconcile temporaries, reconcile immutables | PostgreSQL for manifests and locks; used by evals and reports |
| evaluations, `evals/runs.py`, `campaigns.py`, `api/evals.py`, `cli/evals.py` | runs, samples, campaigns and their children, seals | create, record, pause, resume, seal, verify, seal a report, complete a campaign, resume a child | every seal, input and report is an artifact |
| discover workbench, `api/discover.py`, `discover/pg_repository.py` | hypotheses and their events, cases, actions, resolutions; the approval state of a process | triage, open a case, submit an action, decide it, resolve | `discover/actions.py` in the memory of one process |
| memberships and SCIM, `identity/commands.py`, `scim.py` | organizations, workspaces, groups, memberships, idempotency keys, bootstrap claims, audit rows | found an organization, add and remove members, create a workspace or group, grant; SCIM: provision, set a status, replace the members of a group | every route of the tenants |

How they interact: a route writes a command and its outbox row in one transaction; a
dispatcher claims the row under a lease and a token, and starts or signals the workflow;
the workflow runs activities, each of which appends events under an idempotency key
through the unit of work; a reader replays the log. A memory activity enters the ledger
of its record, the audit chain and the run's log in one transaction. An evaluation run
takes the row lock of itself or its campaign and then the advisory locks of the objects
it uploads.

What is hard here, and where (every item with its line is in `PROJECT.json` under
`hazards`):

* *two transactions with a side effect between them* (`execute_task`): a failure between
  them re-runs the handler, a timeout leaves it running after the workflow has moved on,
  a lost acknowledgement makes a retry of what is already committed;
* *signals between two awaits*, *redelivery and overtaking* of commands, and
  *continue-as-new*, whose input must carry everything the workflow knows;
* *leases and fences*: a dispatcher or a refreshing replica that comes back late acts on
  a row another one holds;
* *rows read before a lock and used after it*: the Memory Center looks a record up before
  it takes the memory lock, `resume_child` loads a run before it waits for its lock, the
  workbench takes no lock at all, and a retried membership call looks its key up before
  the first one has committed;
* *files beside rows*: an object is there when it is linked, its manifest when the
  transaction commits, and a reconciliation deletes what it finds without a manifest;
* *orders of locks*: the run's lock and the audit chain's, the objects of a creation and
  those of a reconciliation;
* *state in the memory of one process*: a decision taken there before its row commits.

What makes each part correct: the log always replays and moves only along the lifecycle;
a node runs only after its dependencies; approvals complete only by a decision and a
decision committed in time is honoured; no synthesis runs over a conflict; a cancel ends the run. A claim
has one holder and every message settles. Chains never branch and a command takes effect
once. A key has one active memory, the ledger tells its status, and what was forgotten
stays so. A one-time token is sent once, and a loser never revokes the winner. A
manifest has its object while whoever deletes holds its lock, a seal tells the outcomes of its run, and a completed campaign
is sealed. A repeated request copies nothing, and an action is approved by another than
its requester. A key answers once, and an undisturbed replacement of members is exact.

### The parts not modelled

Their reasons, with their files, are in `PROJECT.json` under `components`. In short:

| part | why not |
|---|---|
| action receipts and tool gateway (`runtime/actions.py`, `capabilities/tool_gateway.py`) | nothing in `src/` calls them but each other; there is no program around them to be faithful to |
| delegation (`runtime/delegation.py`), context compiler, evidence, policy | pure functions of one value and decision tables, which tests reach better |
| capability admission and versions | the memory of one process, changed in single steps; no route records an approval, so publication is out of reach of the running service |
| releases, rollouts, agent drafts, case commands | one row, changed under its lock or by one conditional UPDATE on its revision; what races there ends in a refusal |
| knowledge | the digest of a source is a constant (`api/knowledge.py`), so the states its ledger is made for cannot be reached |
| models, secrets, connections, OAuth and MCP, operations, release attestation, telemetry | protocol clients, I/O, scripts around external tools, counters |
| web console, compose files, migrations | no protocol of their own |

## 2. Modules

| module | models | how state and actions correspond |
|---|---|---|
| `RunReducer` | `runtime/reducer.py` | one operator per event type, from projection to projection; `ok = FALSE` stands for the `ValueError` after which the log no longer replays |
| `AgentRun` | `workflows/agent_run.py`, `workflows/activities/runtime.py`, the decision and the commands | `pg` the projection of the committed log, `keys` its idempotency keys, `wf` the carried workflow state, `pc` the await point; one action per stretch between two awaits, one per transaction of an activity, one per signal |
| `RunLifecycle` | what a run promises its readers (abstract) | the run and its nodes only move forward, nothing moves once a run has ended |
| `CanonicalMerge` | `_apply_merge_field` for one field | a writer's completion is one action per merge strategy; owner, append registry and conflict records as in `RunState` |
| `Outbox` | `persistence/outbox.py`, the dispatcher, the signal handler | a row's columns are functions over messages; a claim draws a fresh token; handling, then reporting, are separate steps; a worker crashes with what it holds |
| `CommandDelivery` | what the outbox promises the command's submitter (abstract) | queued, then delivered after a hand-over or dead after `MaxAttempts` failures; no verdict changes |
| `EventLog` | `persistence/unit_of_work.py`, `events.py`, `model_first_use.py` | a transaction is a script of steps, each under an advisory lock kept to the end; drafts become visible at the commit; PostgreSQL aborts one of a circle; the caller of a lost answer sends its command again |
| `MemoryStore` | `memory/repositories.py`, `candidates.py`, `events.py`, the memory and TTL activities, the Memory Center | a transaction is one action, for the workspace's memory lock is held throughout; a request of the Memory Center is two, its look-up and what it then does under the lock |
| `SessionRefresh` | `identity/sessions.py`, logout in `api/auth.py` | a database statement, a transaction, or the request to the provider is an action with the branch its result leads to; `idp` is the provider, external |
| `ArtifactStore` | `object_store/service.py`, `posix.py` | files and manifest rows apart; the steps of an upload and of both reconciliations, between any two of which a process may die; a process whose connection is lost before a step on files takes that step without its lock |
| `EvalRuns` | `evals/runs.py`, `campaigns.py`, the routes and the command that drive them | EXTENDS `ArtifactStore`: an operation is a transaction that takes its row lock, uploads through that module's steps, and commits |
| `DiscoverWorkbench` | `api/discover.py`, `discover/pg_repository.py`, `discover/actions.py` | read and check, decide in memory, flush under the row lock or unique index, commit, as steps of a call; a restart forgets what a process has decided |
| `Memberships` | `identity/commands.py`, `identity/scim.py` | a call is a program of statements (`todo`) in one or two transactions; a statement that meets a row of an open transaction waits |
| `MCAgentRun`, `MCOutbox`, `MCEventLog`, `MCMemoryStore`, `MCSessionRefresh`, `MCEvalRuns`, `MCDiscoverWorkbench`, `MCMemberships` | instances for TLC | graphs, policies, commands, casts, symmetries |
| `AgentRunProofs`, `OutboxProofs`, `EventLogProofs`, `MemoryStoreProofs`, `SessionRefreshProofs`, `EvalRunsProofs`, `DiscoverProofs`, `MembershipsProofs` | theorems | section 6 |

`AgentRun` extends `RunReducer`, so that every activity's effect on `pg` is the reducer's
own; it reduces the outbox to "in order, unless it failed once; at least once", which is
what `Outbox` shows of it. Definitions marked *mutant* are plausible slips of the code
beside the definition they alter; replacing the one by the other must break a property.

Abstractions worth knowing:

* *AgentRun.* An idempotent single-transaction activity is one action: its retries find
  its key. That its retries can run out is `WorkflowFails`. `execute_task` is not
  abstracted so. Between two awaits the workflow is atomic, as in Temporal's event loop;
  the pcs of `Internal` split such a stretch for readability, and signals wait for them.
  A conflict is named by its field and its two writers, values are named by their
  writer. Time is an `Expire` step. A decision is two: `Decide` finds its time good
  (`deciding`), `CommitDecision` makes it visible, the timer may come in between; `late`
  is an observer that says it did.
* *EventLog.* A digest is what it covers: an event of a run is its key, an audit row what
  it records. The verification of a chain before each append is the property
  `LogsAreChained`. The memory transaction is here with the locks it takes, and in
  `MemoryStore` with what it does.
* *MemoryStore.* Source references, `observed_at` and confidence all grow under a merge
  and are one set, the evidence. Ages are counted up to one more than the TTL.
* *SessionRefresh.* A call owns the lease at most once and stands for its owner token.
  The database clock is what it makes of the row: leases lapsed, idle, absolute.
* *ArtifactStore.* An object is its content, for its key is the digest; modification
  times are what a cutoff makes of them. Corrupted digests and `commit_existing`, which
  nothing calls, are left out.
* *EvalRuns.* The transactions of an instance are fixed by a cast; each is run once, and
  a retry is another transaction.
* *DiscoverWorkbench.* A row has the identity of the call that inserts it. The SELECT of a
  call and the checks on its result are one step. `ingest_hypothesis` and the triggers
  have no caller in `src/` and are left out.
* *Memberships.* A request stands for its canonical digest (`Digest`: path and body,
  hence not the one who creates a workspace or a group); names, the roles in a row,
  failed-mutation audits, the policy gate and SCIM group creation are left out. The
  bootstrap's advisory lock is represented by the claim row; the audit chain's are
  `EventLog`'s.

## 3. Runs

| run | question | bounds | states |
|---|---|---|---|
| `run_fork` | does the log stay replayable and the workflow's memory equal to it, does no synthesis run over a conflict, is the lifecycle kept | two parallel nodes writing one field before a synthesis; policies retry / cancel / escalate; all handler ends; pause and cancel; 2 attempts; 2 faults; continue-as-new after each round | 33,388 |
| `run_faults` | dependencies and completion under every failure of `execute_task` but that of finding MCLostAck | the fork; timeouts, ambiguous commits and failing recorders; handlers that complete; 3 faults | 122,152 |
| `run_live` | are approvals decided and decisions committed in time honoured, does a submitted cancel end the run, does every run settle | an approval, a node behind it and one apart; pause, resume, a second pause and a cancel; timeouts, one fault; fair specification | 225,990 |
| `outbox_safety` | is a claim given up by its holder alone | 2 dispatchers with ONE worker id; a start, an unparsable command, an event; 2 attempts, 2 faults | 154,410 |
| `outbox_promise` | refinement of `CommandDelivery`, every message settles | 2 dispatchers, a start and its signal; fair specification | 35,103 |
| `merge_orders` | is append independent of the order, is nothing but a null lost without last-write-wins | 3 writers, every combination of strategies and of null / scalar / 0 / 1 / 2 items, every order | 110,505 |
| `event_log` | do chains never branch, does a command take effect once, who can wait in a circle, is every caller answered | two appends of one run under one key, a memory write and a rebuild of that run, two runs that declare one endpoint; one lost answer or crash; fair specification | 15,509 |
| `memory` | one active record per key, a ledger that tells the status, events that are backed, final states final, an empty queue in the end | three activities of two runs over two keys, one of them automatic, two requests of stewards with old views, the sweep, one lost answer, a TTL of 1; fair specification | 121,286 |
| `sessions` | is a token sent once, does ok mean renewed, is a revocation final, does a failed call that has not committed spare the winner, does every call end | 2 calls, a logout, expiry, dying calls and failing commits, any lease lapsing; fair specification | 197,185 |
| `evals` | has a manifest its object but for a stray deletion, does a seal tell the outcomes, is a completed campaign sealed, who can wait in a circle | five casts of five transactions over two runs of a campaign (creations, records, seals, resumptions, a completion, both reconciliations), any of which may crash or lose its connection | 105,779 |
| `discover` | does a repeated request copy nothing, who approved an action | any 4 calls over a hypothesis, 2 inputs, 3 people, 2 processes (three calls are served by one, the fourth by the other), a restart; symmetric in the people, the inputs and the calls of one process | 369,639 |
| `memberships` | does a key answer once, does a principal found once, who writes unaudited, is a replacement exact, does every call end | thirteen casts of up to four calls, one of which may be cut; fair specification | 154,608 |

Why the bounds suffice. Two parallel writers and one reader of both is the smallest
graph in which completion order, a conflict, a synthesis and the propagation of a failure
all occur; two attempts give a retry and its limit; two or three faults put a failure
before, between or after any two transactions and let one retry overlap another. Two
dispatchers are what a stale claim takes, three writers an overwrite between two appends.
Two calls of a refresh give a winner and a loser, who gives up, takes over or comes back
late; the theorems of `SessionRefreshProofs` are for any number.
The casts of `evals` and `memberships` put side by side the transactions that meet in a
row, a lock or a file; casts whose members share nothing would add only their product.
Four calls of the workbench give two requests, a decision and its repetition. Where a
theorem of section 6 states the property of a run, the bound no longer matters for it.

Deadlock is not checked where the system ends: a run that reached its end, a settled
outbox and calls that are answered stop. `run_faults` has its handlers complete, since
one that fails and then succeeds under a lost acknowledgement is a finding (`MCLostAck`),
and the graph and commands of `run_live` leave out the case of `MCApprovalSkipped` for the
same reason.

## 4. Fairness

* `AgentRun`: Temporal keeps a workflow going (weak fairness of the workflow's steps), a
  worker runs every activity that was not given up, time passes, and the dispatcher hands
  commands over (what `EveryMessageSettles` shows of the outbox). Nothing is assumed of
  operators, approvers or faults: a run may wait for a resume for ever, so `RunSettles`
  allows it to.
* `Outbox`: dispatchers that are up poll and report, and leases and back-off times pass;
  crashes and failed calls are never fair and are bounded by `MaxFaults`.
* `EventLog`: a transaction goes on whenever it can again and again (strong fairness, for
  a lock that is passed round is not passed by for ever in PostgreSQL's queue), and a
  deadlock gets its victim.
* `MemoryStore`: time passes and the sweep runs, which is a schedule of the worker.
* `SessionRefresh`: a call that can take its next statement takes it, and leases lapse.
* `Memberships`: a call takes its next statement; that it begins, or is cut, is not
  assumed.
* `EvalRuns` and `DiscoverWorkbench` state safety only.

## 5. Where code and documents disagree

Each has a configuration that exhibits it and checks nothing else; `PROJECT.json` quotes
the lines under `findings`. Where properties share a configuration, TLC stops at the first
it finds violated, and `tlc -continue` shows the others.

| configuration | property | what happens |
|---|---|---|
| `MCPauseHidden` | `PauseIsVisible` | the key of a run event names the outcome only, so a second pause is not recorded: the run is held while the log says running |
| `MCResumeRunning` | `LogReplayable` | a resume of a run that is not paused appends `RunResumed`, which the reducer refuses, and every later replay of the run raises |
| `MCUnknownRetried` | `NoEffectAfterUnknown` | a handler that ended with an unknown effect runs again when the transaction recording it fails |
| `MCTwoApprovals` | `ConflictsAreLogged` | the undeclared field "approval" of a second approved request leaves a conflict in the projection with no `ConflictDetected` event |
| `MCLostAck` | `CompletedMeansEverything` | a failure commits, its acknowledgement is lost, the retry succeeds: the log says failed, the workflow completed, and the run completes |
| `MCLateExecution` | `WorkflowFollowsLog` | an execution Temporal gave up commits `TaskCompleted`; the workflow records a failure, finds the key, and fails the run over a completed node |
| `MCLateExecution` | `AttemptsAreClosed` | `record_task_failed` aborts a derived attempt id; the one `execute_task` opened stays pending |
| `MCApprovalSkipped` | `ApprovalsWereDecided` | a cancel that arrives while a resume is being recorded lets the serial loop run a pending approval node through its handler |
| `MCLateDecision` | `WaitsEndAlike` | a decision checked in time commits after the workflow's timer: the unlocked look at the row finds it pending, the run records an expiry, and the row ends approved |
| `MCNullLost` | `NoSilentOverwrite` | a null that a task wrote counts as an unwritten field: the next write replaces it and no conflict is recorded |
| `MCSessionOwner` | `LosersSpareTheWinner` | an owner whose statement fails after its lease was taken over revokes the session the new owner has renewed |
| `MCLostRenewal` | `UncertainSpareTheWinner` | a call whose commit took effect and was reported as failed revokes by id, and may hit what another call has renewed since |
| `MCMemoryForgotten` | `ForgottenLeavesNoValue` | revoking redacts the record, while the event of the run keeps the value |
| `MCStrayDelete` | `ReconcilerCannotRace` | a reconciliation whose connection is lost between its SELECT and the unlink deletes without its lock, and an upload of the same content commits a manifest without an object |
| `MCUnsealed` | `SealedStaysSealed` | a child resumed with the row its session read before the seal becomes running again |
| `MCSealUnverified` | `SealsVerify` | a report sealed under the owner of a seal may be taken for the seal, and the verification fails |
| `MCDiscoverRaces` | `TriageIsLegal` | two triages read one status, and a dismissal overwrites an acceptance |
| `MCDiscoverRaces` | `ResolvedOnce` | two resolutions of an open case are both recorded |
| `MCDiscoverRaces` | `CasesListActions` | of two submissions to a case, the later writes the list without the earlier |
| `MCReplayWrites` | `ReplaysChangeNothing` | a retry that looked its key up too early deletes a membership that was made again, and is answered as a replay |

A remark that no configuration shows: ADR-005 in `docs/DECISIONS.md` calls
last-write-wins "the later write overwrites", ordered by task id; in the code, and in
its tests, the lower task id wins.

What the models also show, and no document denies: a decision of the workbench whose
commit fails, or whose process restarts, leaves its action pending for ever, for its
input cannot be submitted again; a memory write chosen as a deadlock victim is answered
"error" and lost; an object whose content is uploaded for another owner of the same
workspace never gets a second manifest; two overlapping replacements of a group's members
may leave what neither asked for; a SCIM call is audited in a second transaction, so a
cut between the two, or a failure of the second, leaves a change without its audit record.

## 6. What is proved

Every theorem is for every value of the constants that satisfies the named assumptions
of its module. Each proof has one shape: an inductive invariant, a lemma for the initial
states, one for each action (below it one step per conjunct the action can disturb), and
a last step in temporal logic. What is worth knowing is which invariant it takes, for no
property below is inductive by itself.

| module | theorems | what it takes |
|---|---|---|
| `AgentRunProofs` | `RunTypes`, `RetriesAreBounded`, `CompletionIsComplete` (`CompletedMeansEverything`), `DependenciesComeFirst`, `DependenciesAlwaysFirst` (`DependenciesFirst`), `LogStaysReplayable` (`LogReplayable`), `SynthesisSeesConflicts` (`NoSynthesisOverConflict`), `TheWorkflowFollowsTheLog` (`WorkflowFollowsLog`), `TheRunKeepsItsLifecycle` (`KeepsLifecycle`), `DecisionsHonoured` (`DecisionsAreHonoured`), `ApprovalsAreDecided` (`ApprovalsWereDecided`) | section "The agent run" |
| `AgentRunProofs`, last part | `AppendsAreOrderFree` (`AppendIsOrderFree`), `NoWriteDisappears` (`NothingLost`) | section "The merge of a field" |
| `OutboxProofs` | `TypeCorrect`, `DeadLetters`, `OneHolder`, `Fenced` (`ClaimsAreFenced`), `Refinement` (`KeepsPromise`) | section "The outbox" |
| `EventLogProofs` | `LogTypes`, `ChainsHold` (`LogsAreChained`), `EffectsAreSingle` (`CommandsTakeEffectOnce`), `CirclesAreOfMemory` (`CirclesNeedAMemoryWrite`) | section "The event log" |
| `MemoryStoreProofs` | `MemoryTypes`, `KeysAreSingle` (`OneActivePerKey`), `EventsHaveRecords` (`EventsAreBacked`), `LedgerIsComplete` (`LedgerTellsStatus`), `NothingRevives` (`TerminalIsFinal`) | section "Memory" |
| `SessionRefreshProofs` | `SessionTypes`, `SentOnce` (`TokensAreSentOnce`), `InStep`, `OkIsRenewed` (`OkMeansRenewed`), `RevocationStands` (`RevokedIsFinal`), `WinnersAreSpared` (`FailuresSpareTheWinner`) | section "Sessions" |
| `EvalRunsProofs` | `ObjectsAreKept` (`ManifestsHaveObjects`), `ManifestsAreSingle`, `CompletionIsSound` (`CompletedMeansSealed`), `SealsAreTrue` (`SealsTellTheOutcomes`), `OnlyReconcilersClose` (`CirclesNeedAReconciler`) | section "Objects and evaluations" |
| `DiscoverProofs` | `WorkbenchTypes`, `NothingIsCopied` (`NothingTwice`), `ApprovalsAreDecisions` (`ApprovedAsDecided`) | section "The workbench" |
| `MembershipsProofs` | `MembershipsAreInvariant`, `KeysAreAnsweredOnce` (`KeysAnswerOnce`), `FoundersAreFoundersOnce` (`FoundersFoundOnce`), `ChangesAreAudited` (`SilentChangesRaced`), `ReconciliationsReachTheirTarget` (`ReconcileLeavesTarget`) | section "Memberships" |

### The agent run

For every finite set of tasks and every acyclic graph over it, every assignment of
policies, outputs and handler behaviours, every set of commands, every `MaxAttempts`,
`MaxFaults` and `CanAfter`, and every setting of the four switches (`ReducerAssumption`,
`RunAssumption`) unless said otherwise.

* It first proves of each event (after the two that open a log)
  that it takes projections to projections, never makes a refused log replayable, never
  takes a completion back and never forgets a task; and that a `TaskCompleted` that is
  accepted completes.
* Then it proves the inductive invariant `IInv` (`Inductive`). `TypeOK` alone is
  not inductive: that an attempt number stays within `MaxAttempts` depends on which
  tasks may still be attempted. `IInv` adds `Control` (what each await is entered with),
  `Requests` (an approval is waited for only once its row exists, and signalled only
  once decided), `Rounds` (the tasks *in flight*, those a round is *about to start*, and
  the judged ones are apart, and nothing else has ever been attempted) and `Budget` (an
  execution carries a counted attempt; executions that happened and those still owed
  are covered by attempts plus faults). `FirstOf` picks a member because node ids are
  naturals and their intervals are well-founded by inclusion.
* `CompletionIsComplete`: if no commit is reported failed
  (`~Ambiguity`), a run the log says completed completed every node, in spite of
  timeouts, executions that go on after they were given up, retries, failing workflows
  and any commands. Its invariant `CInv` ties the workflow's memory to the log through the event
  keys: an execution still under way has not used the key that ends its attempt
  (`EndedOnce`), so its completion is appended and not skipped, so what it answers, what
  the workflow remembers and what it concludes is in the log (`FollowsLog`).
  `MCLostAck` shows that the hypothesis is needed.
* `DependenciesComeFirst`: while the log can be replayed, no attempt
  is open or was ever opened on a node before all it depends on completed. `Supported`
  says that what was attempted, or is planned in this round, has its dependencies among
  the completed nodes of the workflow's memory; `Counted`, that the log knows of no
  attempt the workflow has not counted, for an event of one task moves that task alone
  (`OnlyOf`). `FollowsLog` turns the memory into the log.
* `LogStaysReplayable` is the longest argument: every event any activity appends is one
  the reducer accepts in the state it meets. Each execution carries what the reducer will
  ask for when its turn comes (`LInv`): a queued one finds its node pending, or failed by
  the attempt before; a begun one finds the attempt of its own number open and no other;
  what waits to be recorded (a skip, an approval's outcome, a pause, an end) finds its
  node or the run where the recording event starts from. Executions that Temporal has
  given up, and go on all the same, are the hard case: their keys decide whether they
  still append. The theorem assumes that operators resume only a run they see paused
  (`Polite`; `MCResumeRunning` shows the refused event otherwise) and `~Ambiguity`
  (`MCLostAck`). `DependenciesAlwaysFirst` follows without the condition on the log.
* `SynthesisSeesConflicts` adds that a conflict recorded in a later event names a node
  that had not completed, whereas all a synthesis depends on had.
* `TheWorkflowFollowsTheLog` needs the converse of `CInv`, that every failure in the log
  is one the workflow knows of (`FailuresFollow`). That is false when an execution is
  given up while it may still answer, so it assumes `~Timeouts` too (`MCLateExecution`
  shows the workflow and its log part ways otherwise).
* `TheRunKeepsItsLifecycle` is the refinement of `RunLifecycle`, under the same
  conditions. Besides the invariants above it takes `Planned` (exactly the nodes
  behind a failed or skipped one are being skipped) and
  `NeverStuck`: in an acyclic graph the workflow that finds nothing ready has nothing
  left over, since a least unsettled node would be ready or unreachable.
* `DecisionsHonoured` follows an approval from its row to the log. `HInv` says that a row
  only moves forward (nobody takes a decision back), that what the workflow has
  concluded of an approval is where its row now stands (`Stood`), that what is to be
  executed and what is to be asked are apart (`Apart`, `Executing`), and that an approval
  node the log records as ended was ended so by its row, or was executed as a task
  (`Recorded`). It takes no condition. An expiry is recorded only after the timer, over a
  row that was pending when `check_approval` looked; what commits on such a row is `late`
  (`MCLateDecision` shows the theorem without that exception fail). `ApprovalsAreDecided` adds that no approval node
  is ever executed (`Spared`), which is true until a cancel reaches the workflow
  (`MCApprovalSkipped`) and where none is marked `parallel_safe`: the parallel branch of
  the loop hands every such node to an activity without looking at its kind.

### The merge of a field

For every set of writers (numbers, in their sort order), every strategy and every value
they write. The proofs of `CanonicalMerge` are the last part of `AgentRunProofs`, beside
those of the rest of the reducer; they share no state with them.

* `StableSortKeepsOrder` is the lemma about `sorted`: counting the pairs that may not come
  after each gives an injection of the places into themselves, hence a rearrangement (a
  finite set has no other), and the result is in order of the keys and, within a key, of
  arrival. `AppendRearranges` carries it to what an append leaves.
* `FieldsAreTyped` is `FieldTypes` and `Valued` (a field has a value exactly when
  some task completed, and a null is what its owner wrote). With it `NothingLost` is
  inductive: an append keeps every item (`AppendShows`), a write that finds the field taken
  is another task's than the owner's, so the record holds both, and a write that takes a
  null for no value replaces the owner's null and nothing else. That this null is lost is
  `MCNullLost`.
* `AppendIsOrderFree` needs `AppendsRegistered`: while everybody appends, the
  registry names the writer of each item, place for place, so that the sort is by writer
  although it only sees the registry; what `w` adds cannot tie with what was there. The
  number of items follows from the bijection between the places and the items of the
  completed tasks.

### The outbox

For every set of messages and dispatchers, every assignment of worker ids, every
`MaxAttempts`, `BatchLimit` and `MaxFaults` (`OutboxAssumption`).

* The inductive invariant `IInv` is `TypeOK`; `RowsAgree` (a row is
  processing exactly while a claim with a token drawn for it stands, dead exactly at the
  limit of attempts); `HandsAgree` (whatever a worker holds carries a token that was
  drawn); `OneHand` (a message and token are in one worker's hands at most). Tokens are
  what makes it inductive: worker ids may coincide, so that owner and lease of a row do
  not tell a late report from a current one.
* `Refinement` adds that a success in hand was a hand-over and that a failure about
  to be booked has not been booked yet (`PInv`): every step of
  the outbox is a step of `CommandDelivery` or leaves it alone.

### The event log

For every set of transactions and runs, any assignment of commands to them and any
number of faults. `IInv` is `TypeOK`, `HoldersFit` (a transaction holds exactly the locks
of the steps it has taken), `LogsAreChained`, `KeysOnce` and `DeclaredOnce` (a key is
used once in a run, an endpoint declared once), `Fits(t)` (a draft continues what is
committed, for whoever drafts holds the lock of the chain) and `DoneFits(t)` (what was
answered is in the log). `CirclesAreOfMemory` is the argument of ordered locks: first use
before run before audit on every path but the memory write, so a circle without one would
have a least waiter.

### Memory

For every set of records, keys, values, activities and requests, every `Ttl` and
`MaxLost`. `IInv` is `Shape` (types), `BooksFit` (the ledger of a record ends in its
status and each entry continues the one before it), `OneActivePerKey` and
`EventsAreBacked`. `LedgerIsComplete` needs that an entry which is skipped as a repetition
hides no change: every step moves a record `Forward`, evidence grows and status rises
(`Succeeds`), so a repeated entry is a repeated state.

### Sessions

For every set of calls. The invariant of `SessionRefreshProofs` follows the version of
the row: who holds the lease, what each call has read and may still do with it, and which
tokens were sent under which version. `SentOnce` and `InStep` are the fence at work: the
token of the envelope is the provider's live one whenever the row may be leased, and a
call that has sent it is the only one whose commit can match the version.
`WinnersAreSpared` is about calls that have not committed; one that has, and was told that
its commit failed, may revoke a later version (`MCLostRenewal`).

### Objects and evaluations

For every set of runs, units, results and casts that satisfies `EvalAssumption`,
`FreshAssumption` (creations name their rows freshly) and `RegistryAssumption` (a creation
can be put in the order of the registry). Four invariants, each inductive given those
before it: `StoreInv` (locks exclude; a manifest, drafted or committed, has its object,
because whoever is about to delete holds the object's lock and has seen no manifest; one
that lost the lock with its connection is the exception the theorem names, and
`MCStrayDelete` shows),
`RowInv` (a campaign that completes holds the row its children answer to, and its
children are sealed and stay so), `SealInv` (what a sealing transaction told is what the
samples are, since no one records while it holds the run) and `LockInv` (`Orderly`: what
a transaction wants comes after what it has, campaign before run before object, objects in
the order of the registry). `OnlyReconcilersClose` takes the greatest resource waited for
in a circle, by well-founded minimality on the reversed order.

### The workbench

For every set of calls, rows, people and processes. `IInv` is `TypeOK`, `CallsFit` (a
call's rows are fresh, what it has read is of its own request, what it decided stands in
its process until its row commits, and who waits for a key has not its row), `OneHolder`
(one open transaction per row and index entry) and the two properties.

### Memberships

For every set of calls with any requests, every finite set of principals, any rows to
start from and any number of cuts (`MembershipAssumption`).

* A call is known by the statements it has before it, so the invariant is about lists of
  statements. `Fits` says which rows a statement of a call can be about, which rows were
  written before it is reached (the key before the end, the root before everything a
  creation does after it, the claim before an owner is made) and what may follow a commit. All
  ten programs fit, and so does what is left after a statement, including the list that
  `reconcile_group` draws up from what it has read.
* The sixteen statements then are of three kinds (`StatementKinds`): one proceeds within its
  transaction, stops its call, or commits. `Base` is what the transactions keep among
  themselves: nobody deletes a key, a claim, an organization, a workspace or a group,
  two transactions never insert the same row, and one never inserts such a row while it is there.
* `WrittenTogether` is what a commit leaves behind, for good: a bootstrap's owner
  implies its organization and its claim, a recorded creation its root. It gives
  `FoundersAreFoundersOnce`, for the claim of a principal has one writer.
* `ChangesAreAudited` has to exclude that a replay which has written something answers a
  key recorded by a call it could have seen. On a membership the key was looked up first
  (`LookedUp`); a creation has just inserted its root, so that the same creation
  cannot have been recorded at all unless the record was there from the start.
* `Targeted` follows a reconciliation without another one of its group beside it: what is missing is
  still to be put, put, or there; what is in excess is still to be deleted,
  deleted, or gone; and nobody else writes these rows.

## 7. What is only model-checked, and what is left out of the models

The prover has no reach over liveness: `CancelEndsRun`, `RunSettles`,
`EveryMessageSettles`, `TransactionsSettle`, `QueueConverges`, `RefreshesEnd` and
`CallsSettle` rest on TLC. So do, within the bounds above,
`DependenciesFirst` and `CompletedMeansEverything` under ambiguous commits, which
`run_faults` checks for handlers that complete and `MCLostAck` refutes for others.

Not modelled of the modelled parts: the checks of separation of duties and revocation of
approvals (pure checks of one row; no route revokes), the idempotent replay of
`POST /runs`, the SSE stream, the handlers' computations, memory retrieval and its index,
the login exchange, discover programs and detectors, executors and scorers of
evaluations. `Deps` is assumed acyclic (`RunAssumption`): `validate_dag` guards
publication, while the workflow does not call it again, so a cyclic graph that reached
the worker would be outside this model (it fails closed at "scheduling stuck"). A
signal is assumed not to be lost once the server acknowledged it. `refresh_session`,
`reconcile_orphans`, `reconcile_temporary` and `EvalCampaignService` are called by nothing
under `src/src/zhiwei/` but by the tests; they are modelled for what they promise.

The parts of the system no module models are listed in section 1. They keep no state that
two actors share, or share it in single conditional steps, or have no caller.

## 8. What would come next

* Models: the idempotent `POST /runs` over the event log; the tool gateway, once
  something calls it; the publication of capabilities, once approvals are recorded by a
  route.
