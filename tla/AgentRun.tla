------------------------------ MODULE AgentRun ------------------------------
(***************************************************************************)
(* One agent run: the Temporal workflow of workflows/agent_run.py, the     *)
(* activities of workflows/activities/runtime.py that write the canonical  *)
(* event log, the operator's commands and the approver's decisions.        *)
(*                                                                         *)
(* The workflow is single-threaded and runs from one await to the next     *)
(* without interference; pc names the await it stands at.  The pcs in      *)
(* Internal are the stretches between awaits: signals wait for them.  An   *)
(* activity is one transaction and an idempotent one, so its execution,    *)
(* its retries and its answer are one action, but for execute_task: two    *)
(* transactions with the handler between them, which may fail, be retried, *)
(* or go on running after Temporal has given it up.                        *)
(*                                                                         *)
(* Failed transactions, activity timeouts, redelivered or overtaking       *)
(* commands and failing workflows share one budget of MaxFaults.           *)
(***************************************************************************)
EXTENDS RunReducer, FiniteSets, FiniteSetsExt

CONSTANTS
  Deps,            \* Deps[t]: dependencies of node t
  ParallelSafe,    \* nodes marked parallel_safe
  Approval,        \* nodes of type RequestApproval
  Synth,           \* nodes of type Synthesize
  Policy,          \* failure_policy of each node
  Writes,          \* output fields of each node's handler
  Outcomes,        \* what each node's handler may come to
  ApprovalField,   \* the field "approval" that every approved approval writes
  Downgrade,       \* the fields of a downgraded synthesis
  CanAfter,        \* continue_as_new_after
  Commands,        \* operator commands, numbered in the order of submission
  Kind,            \* cancel, pause or resume
  Polite,          \* operators resume only a run they see paused
  Timeouts,        \* whether execute_task may end in an ActivityError
  Ambiguity,       \* whether a commit may succeed and be reported failed
  RecordsMayFail,  \* whether a recording activity may exhaust its retries
  MaxFaults

Results == {"completed", "failed", "unknown"}

ASSUME RunAssumption ==
  /\ IsFiniteSet(Tasks)
  /\ Deps \in [Tasks -> SUBSET Tasks]
  /\ \A t \in Tasks : \A d \in Deps[t] : d < t   \* validate_dag: no cycle
  /\ ParallelSafe \subseteq Tasks /\ Approval \subseteq Tasks
  /\ Synth \subseteq Tasks \ Approval
  /\ Policy \in [Tasks -> {"retry", "cancel", "escalate"}]
  /\ Writes \in [Tasks -> SUBSET Fields]
  /\ Outcomes \in [Tasks -> SUBSET Results]
  /\ ApprovalField \subseteq Fields /\ Downgrade \subseteq Fields
  /\ CanAfter \in Nat /\ MaxFaults \in Nat
  /\ Commands \subseteq Nat
  /\ Kind \in [Commands -> {"cancel", "pause", "resume"}]
  /\ {Polite, Timeouts, Ambiguity, RecordsMayFail} \subseteq BOOLEAN

VARIABLES
  pg,         \* the projection of the committed event log
  keys,       \* idempotency keys of the committed events
  detected,   \* the ConflictDetected events among them
  approval,   \* approval_requests rows: status, expiry, decisions, signal
  wf,         \* what the workflow keeps in memory and carries over
  pc,         \* the await point of the workflow
  batch,      \* tasks dispatched together in this round
  todo,       \* tasks the current loop has yet to visit
  cur,        \* the task awaited
  note,       \* the outcome or verdict being recorded
  act,        \* execution of execute_task for each task
  cmd,        \* outbox row of each command
  effects,    \* handler executions so far (observer)
  unknowns,   \* tasks whose handler ended with an unknown effect (observer)
  faults

logVars == <<pg, keys, detected>>
wfVars == <<wf, pc, batch, todo, cur, note>>
vars == <<pg, keys, detected, approval, wf, pc, batch, todo, cur, note, act,
          cmd, effects, unknowns, faults>>

Internal == {"loop", "resumed", "paused", "plan", "dispatch", "serial",
             "parallel", "round_done"}
Awaiting == {"start_run", "record", "wait_resume", "skip", "create_approval",
             "wait_approval", "check_approval", "record_outcome", "await",
             "record_failed", "recheck", "continue_as_new"}

NoActivity == [phase |-> "none", n |-> 0, out |-> "none", lost |-> FALSE]

RunOutcomes == {"paused", "resumed", "completed", "failed", "cancelled"}
Decisions == {"approved", "rejected", "expired"}

EventKeys ==
  [run : SUBSET (RunOutcomes \cup {"created", "started"}),
   skipped : SUBSET Tasks,
   begun : SUBSET (Tasks \X (1..MaxAttempts)),
   ended : SUBSET (Tasks \X (1..MaxAttempts))]
ApprovalRows ==
  [row : {"none", "pending", "approved", "rejected"}, expired : BOOLEAN,
   deciding : SUBSET {"approved", "rejected"}, late : BOOLEAN,
   signal : {"none", "pending", "sent"}]
Memories ==
  [completed : SUBSET Tasks, failed : SUBSET Tasks, skipped : SUBSET Tasks,
   tries : [Tasks -> 0..MaxAttempts], dispatched : Nat, cancel : BOOLEAN,
   paused : BOOLEAN, pauseDirty : BOOLEAN, resumeDirty : BOOLEAN,
   seen : SUBSET Commands, decisions : [Tasks -> Decisions \cup {"none"}]]
Executions ==
  [phase : {"none", "queued", "begun", "ran", "ended", "error"},
   n : 0..MaxAttempts, out : Results \cup {"none", "downgraded"}, lost : BOOLEAN]

TypeOK ==
  /\ pg \in Projections
  /\ keys \in EventKeys
  /\ detected \subseteq Conflicts
  /\ approval \in [Tasks -> ApprovalRows]
  /\ wf \in Memories
  /\ pc \in Internal \cup Awaiting \cup {"closed", "dead"}
  /\ batch \subseteq Tasks /\ todo \subseteq Tasks
  /\ cur \in Tasks \cup {NoTask}
  /\ note \in RunOutcomes \cup Decisions \cup {"none"}
  /\ act \in [Tasks -> Executions]
  /\ cmd \in [Commands -> {"new", "pending", "sent", "dead"}]
  /\ effects \in [Tasks -> Nat]
  /\ unknowns \subseteq Tasks
  /\ faults \in 0..MaxFaults

Init ==
  /\ pg = EmptyProjection
  /\ keys = [run |-> {}, skipped |-> {}, begun |-> {}, ended |-> {}]
  /\ detected = {}
  /\ approval = [t \in Tasks |->
                   [row |-> "none", expired |-> FALSE, deciding |-> {},
                    late |-> FALSE, signal |-> "none"]]
  /\ wf = [completed |-> {}, failed |-> {}, skipped |-> {},
           tries |-> [t \in Tasks |-> 0], dispatched |-> 0, cancel |-> FALSE,
           paused |-> FALSE, pauseDirty |-> FALSE, resumeDirty |-> FALSE,
           seen |-> {}, decisions |-> [t \in Tasks |-> "none"]]
  /\ pc = "start_run"
  /\ batch = {} /\ todo = {} /\ cur = NoTask /\ note = "none"
  /\ act = [t \in Tasks |-> NoActivity]
  /\ cmd = [c \in Commands |-> "new"]
  /\ effects = [t \in Tasks |-> 0]
  /\ unknowns = {}
  /\ faults = 0

Fault == faults < MaxFaults /\ faults' = faults + 1

-----------------------------------------------------------------------------
(* Transactions on the event log.  Each event is guarded by its key; the   *)
(* three events that open an attempt share one transaction everywhere, and *)
(* so do the two that end it, hence one key each in keys.begun and .ended. *)

(* Mutant of Opened: the retry does not look for the committed key.        *)
OpenedUnkeyed(p, t, n, id) ==
  TaskStarted(AttemptCreated(IF p.task[t] = "pending" THEN TaskScheduled(p, t)
                             ELSE p, t, <<t, n, id>>), t, <<t, n, id>>)

Opened(p, t, n, id) ==
  LET scheduled == IF \E k \in 1..MaxAttempts : <<t, k>> \in keys.begun
                     THEN p ELSE TaskScheduled(p, t)
  IN IF <<t, n>> \in keys.begun THEN p
     ELSE TaskStarted(AttemptCreated(scheduled, t, <<t, n, id>>), t, <<t, n, id>>)

Succeeded(p, t, n, id, out) ==
  IF <<t, n>> \in keys.ended THEN p
  ELSE AttemptClosed(TaskCompleted(p, t, out), t, <<t, n, id>>, "committed")

FailedNow(p, t, n, id) ==
  IF <<t, n>> \in keys.ended THEN p
  ELSE AttemptClosed(TaskFailed(p, t), t, <<t, n, id>>, "aborted")

Begun(t, n) == [keys EXCEPT !.begun = @ \cup {<<t, n>>}]
Ended(t, n) == [keys EXCEPT !.begun = @ \cup {<<t, n>>},
                            !.ended = @ \cup {<<t, n>>}]

RecordRun(p, outcome) ==
  CASE outcome = "completed" -> RunCompleted(p)
    [] outcome = "failed" -> RunFailed(p)
    [] outcome = "cancelled" -> RunCancelled(p)
    [] outcome = "paused" -> RunPaused(p)
    [] outcome = "resumed" -> RunResumed(p)

-----------------------------------------------------------------------------
(* The workflow, from await to await.                                      *)

Terminal == wf.completed \cup wf.failed \cup wf.skipped
(* Mutant of Ready: a dependency only must not have failed yet.            *)
ReadyUnlessFailed == {t \in Tasks : Deps[t] \cap wf.failed = {}} \ Terminal

Ready == {t \in Tasks : Deps[t] \subseteq wf.completed} \ Terminal
Serial(ready) == ready \ ParallelSafe
Undecided(ready) == {t \in Serial(ready) \cap Approval : wf.decisions[t] = "none"}

(* _skip_unreachable: the least set of waiting nodes that holds each one    *)
(* behind a failed, a skipped or another unreachable node.                 *)
Unreachable ==
  LET waiting == Tasks \ Terminal
      Closed(S) == \A t \in waiting :
        Deps[t] \cap (wf.failed \cup wf.skipped \cup S) # {} => t \in S
  IN {t \in waiting : \A S \in SUBSET waiting : Closed(S) => t \in S}

(* Ids are visited in their order.                                         *)
FirstOf(S) == Min(S)

Goto(label) == pc' = label

(* start_run: RunCreated and RunStarted in one transaction.                *)
StartRun ==
  /\ pc = "start_run" /\ Goto("loop")
  /\ pg' = RunStarted(RunCreated(pg))
  /\ keys' = [keys EXCEPT !.run = @ \cup {"created", "started"}]
  /\ UNCHANGED <<detected, approval, wf, batch, todo, cur, note, act, cmd,
                 effects, unknowns, faults>>

(* The top of the loop: cancel first, then a pause to record, then a       *)
(* resume to record, and only then the wait or the work.                   *)
LoopTop ==
  /\ \/ /\ pc = "loop" /\ wf.cancel
        /\ Goto("record") /\ note' = "cancelled"
     \/ /\ pc = "loop" /\ ~wf.cancel
        /\ IF wf.paused /\ wf.pauseDirty
             THEN Goto("record") /\ note' = "paused"
             ELSE Goto("paused") /\ UNCHANGED note
     \/ /\ pc = "paused"
        /\ IF ~wf.paused /\ wf.resumeDirty
             THEN Goto("record") /\ note' = "resumed"
             ELSE Goto("resumed") /\ UNCHANGED note
     \/ /\ pc = "resumed"
        /\ Goto(IF wf.paused THEN "wait_resume" ELSE "plan")
        /\ UNCHANGED note
  /\ UNCHANGED <<logVars, approval, wf, batch, todo, cur, act, cmd, effects,
                 unknowns, faults>>

(* record_run_terminal, whose key is the outcome: a second pause or resume *)
(* finds its key and appends nothing.                                      *)
RecordRunTerminal ==
  /\ pc = "record"
  /\ IF note \in keys.run THEN UNCHANGED <<pg, keys>>
     ELSE /\ pg' = RecordRun(pg, note)
          /\ keys' = [keys EXCEPT !.run = @ \cup {note}]
  /\ CASE note = "paused" -> /\ wf' = [wf EXCEPT !.pauseDirty = FALSE]
                             /\ Goto("paused")
       [] note = "resumed" -> /\ wf' = [wf EXCEPT !.resumeDirty = FALSE]
                              /\ Goto("resumed")
       [] OTHER -> UNCHANGED wf /\ Goto("closed")
  /\ note' = "none"
  /\ UNCHANGED <<detected, approval, batch, todo, cur, act, cmd, effects,
                 unknowns, faults>>

(* Mutant of WakeFromPause: a paused run waits for a resume only.          *)
WakeOnResume ==
  /\ pc = "wait_resume" /\ ~wf.paused /\ Goto("loop")
  /\ UNCHANGED <<logVars, approval, wf, batch, todo, cur, note, act, cmd,
                 effects, unknowns, faults>>

WakeFromPause ==
  /\ pc = "wait_resume" /\ (~wf.paused \/ wf.cancel) /\ Goto("loop")
  /\ UNCHANGED <<logVars, approval, wf, batch, todo, cur, note, act, cmd,
                 effects, unknowns, faults>>

(* Failed and skipped dependencies propagate in memory at once, then each  *)
(* skip is recorded, dependencies first; cancel and pause are not looked   *)
(* at in between.                                                          *)
PlanSkips ==
  /\ pc = "plan"
  /\ wf' = [wf EXCEPT !.skipped = @ \cup Unreachable]
  /\ todo' = Unreachable
  /\ Goto(IF Unreachable = {} THEN "dispatch" ELSE "skip")
  /\ UNCHANGED <<logVars, approval, batch, cur, note, act, cmd, effects,
                 unknowns, faults>>

RecordTaskSkipped ==
  /\ pc = "skip"
  /\ pg' = IF FirstOf(todo) \in keys.skipped THEN pg ELSE TaskSkipped(pg, FirstOf(todo))
  /\ keys' = [keys EXCEPT !.skipped = @ \cup {FirstOf(todo)}]
  /\ todo' = todo \ {FirstOf(todo)}
  /\ Goto(IF todo' = {} THEN "dispatch" ELSE "skip")
  /\ UNCHANGED <<detected, approval, wf, batch, cur, note, act, cmd, effects,
                 unknowns, faults>>

AllTerminal == Tasks \subseteq Terminal

(* Mutant of FinalVerdict: every end is a completion.                      *)
EndIsCompletion == IF AllTerminal THEN "completed" ELSE "failed"

FinalVerdict == IF AllTerminal /\ wf.failed = {} THEN "completed" ELSE "failed"

(* Nothing is ready.  With nodes left over the scheduling is stuck, which   *)
(* no acyclic graph can be; it fails closed unless the run is paused.      *)
FinishRun ==
  /\ pc = "dispatch" /\ Ready = {} /\ (AllTerminal \/ ~wf.paused)
  /\ Goto("record")
  /\ note' = FinalVerdict
  /\ UNCHANGED <<logVars, approval, wf, batch, todo, cur, act, cmd, effects,
                 unknowns, faults>>

(* A pause that came while a skip was being recorded: it waits here        *)
(* without being recorded.                                                 *)
HoldBack ==
  /\ pc = "dispatch" /\ wf.paused /\ (Ready # {} \/ ~AllTerminal)
  /\ Goto("wait_resume")
  /\ UNCHANGED <<logVars, approval, wf, batch, todo, cur, note, act, cmd,
                 effects, unknowns, faults>>

AskApproval ==
  /\ pc = "dispatch" /\ ~wf.paused /\ ~wf.cancel /\ Undecided(Ready) # {}
  /\ cur' = FirstOf(Undecided(Ready))
  /\ Goto("create_approval")
  /\ UNCHANGED <<logVars, approval, wf, batch, todo, note, act, cmd, effects,
                 unknowns, faults>>

(* Under a cancel that came since the top of the loop, the first serial    *)
(* task is run all the same, be it a RequestApproval.                      *)
Dispatch ==
  /\ pc = "dispatch" /\ ~wf.paused /\ Ready # {}
  /\ wf.cancel \/ Undecided(Ready) = {}
  /\ batch' = Ready /\ todo' = Serial(Ready)
  /\ Goto("serial")
  /\ UNCHANGED <<logVars, approval, wf, cur, note, act, cmd, effects,
                 unknowns, faults>>

(* _start_task: the attempt number is the workflow's own count.            *)
Start(started) ==
  /\ wf' = [wf EXCEPT !.tries =
              [t \in Tasks |-> IF t \in started THEN @[t] + 1 ELSE @[t]]]
  /\ act' = [t \in Tasks |->
               IF t \in started
                 THEN [phase |-> "queued", n |-> wf.tries[t] + 1,
                       out |-> "none", lost |-> FALSE]
                 ELSE act[t]]

RunSerial ==
  /\ pc = "serial" /\ todo # {}
  /\ cur' = FirstOf(todo) /\ todo' = todo \ {FirstOf(todo)}
  /\ Start({FirstOf(todo)})
  /\ Goto("await")
  /\ UNCHANGED <<logVars, approval, batch, note, cmd, effects, unknowns, faults>>

(* All parallel_safe tasks start at once, unless a serial one brought a    *)
(* cancel.                                                                 *)
RunParallel ==
  /\ pc = "serial" /\ todo = {}
  /\ IF batch \cap ParallelSafe # {} /\ ~wf.cancel
       THEN /\ Start(batch \cap ParallelSafe)
            /\ todo' = batch \cap ParallelSafe /\ Goto("parallel")
       ELSE Goto("round_done") /\ UNCHANGED <<wf, act, todo>>
  /\ UNCHANGED <<logVars, approval, batch, cur, note, cmd, effects, unknowns,
                 faults>>

(* They are awaited in the order of their ids, whatever they finish in.    *)
AwaitNext ==
  /\ pc = "parallel"
  /\ IF todo = {} THEN Goto("round_done") /\ UNCHANGED <<cur, todo>>
     ELSE cur' = FirstOf(todo) /\ todo' = todo \ {FirstOf(todo)} /\ Goto("await")
  /\ UNCHANGED <<logVars, approval, wf, batch, note, act, cmd, effects,
                 unknowns, faults>>

(* Where the loop goes on after the task cur: a serial loop breaks on      *)
(* cancel.                                                                 *)
NextTask(cancelled) ==
  IF cur \in ParallelSafe THEN Goto("parallel") /\ UNCHANGED todo
  ELSE Goto("serial") /\ todo' = IF cancelled THEN {} ELSE todo

(* Only the retry policy attempts a node again.                            *)
MayRetry(t) == Policy[t] = "retry" /\ wf.tries[t] < MaxAttempts

(* _interpret: a retry starts at once, before anything else is looked at.  *)
InterpretResult ==
  /\ pc = "await" /\ ~act[cur].lost /\ act[cur].phase = "ended"
  /\ CASE act[cur].out \in {"completed", "downgraded"} ->
            /\ wf' = [wf EXCEPT !.completed = @ \cup {cur}]
            /\ NextTask(wf.cancel) /\ UNCHANGED act
       [] act[cur].out = "unknown" ->
            /\ wf' = [wf EXCEPT !.failed = @ \cup {cur}]
            /\ NextTask(wf.cancel) /\ UNCHANGED act
       [] act[cur].out = "failed" ->
            IF MayRetry(cur)
              THEN Start({cur}) /\ UNCHANGED <<pc, todo>>
              ELSE /\ wf' = [wf EXCEPT !.failed = @ \cup {cur},
                               !.cancel = @ \/ Policy[cur] = "cancel"]
                   /\ NextTask(wf.cancel \/ Policy[cur] = "cancel")
                   /\ UNCHANGED act
  /\ UNCHANGED <<logVars, approval, batch, cur, note, cmd, effects, unknowns,
                 faults>>

InterpretError ==
  /\ pc = "await" /\ (act[cur].lost \/ act[cur].phase = "error")
  /\ Goto("record_failed")
  /\ UNCHANGED <<logVars, approval, wf, batch, todo, cur, note, act, cmd,
                 effects, unknowns, faults>>

(* record_task_failed: nothing if the attempt has ended in the log, even   *)
(* if it ended well; else the opening events are filled in under the       *)
(* derived attempt id and the failure is recorded under it.  The failure   *)
(* policy is not consulted.                                                *)
RecordTaskFailed ==
  /\ pc = "record_failed"
  /\ LET n == wf.tries[cur]
     IN /\ pg' = IF <<cur, n>> \in keys.ended THEN pg
                 ELSE FailedNow(Opened(pg, cur, n, "derived"), cur, n, "derived")
        /\ keys' = Ended(cur, n)
  /\ wf' = [wf EXCEPT !.failed = @ \cup {cur}]
  /\ NextTask(wf.cancel)
  /\ UNCHANGED <<detected, approval, batch, cur, note, act, cmd, effects,
                 unknowns, faults>>

(* The end of a round: continue as new only with no signal pending.        *)
RoundDone ==
  /\ pc = "round_done"
  /\ LET total == wf.dispatched + Cardinality(batch)
     IN /\ wf' = [wf EXCEPT !.dispatched = total]
        /\ Goto(IF /\ CanAfter > 0 /\ total >= CanAfter
                   /\ ~wf.cancel /\ ~wf.paused /\ ~AllTerminal
                  THEN "recheck" ELSE "loop")
  /\ batch' = {} /\ cur' = NoTask
  /\ UNCHANGED <<logVars, approval, todo, note, act, cmd, effects, unknowns,
                 faults>>

(* run_intent_recheck reads the pending cancel and pause rows.  A cancel   *)
(* wins; an intent found here is acted upon without its command id.        *)
PendingIntent(kind) == \E c \in Commands : Kind[c] = kind /\ cmd[c] = "pending"

RecheckIntent ==
  /\ pc = "recheck"
  /\ IF PendingIntent("cancel")
       THEN /\ wf' = [wf EXCEPT !.cancel = TRUE]
            /\ note' = "cancelled" /\ Goto("record")
     ELSE IF PendingIntent("pause")
       THEN /\ wf' = [wf EXCEPT !.paused = TRUE, !.pauseDirty = TRUE]
            /\ Goto("loop") /\ UNCHANGED note
     ELSE Goto("continue_as_new") /\ UNCHANGED <<wf, note>>
  /\ UNCHANGED <<logVars, approval, batch, todo, cur, act, cmd, effects,
                 unknowns, faults>>

(* Mutant of Carried: a field _carry_input forgets.                        *)
CarriedButFailed(w) == [w EXCEPT !.failed = {}]

(* continue_as_new with _carry_input: a new execution takes up everything  *)
(* kept in wf, skips start_run, and starts at the top of the loop.         *)
Carried(w) ==
  [completed |-> w.completed, failed |-> w.failed, skipped |-> w.skipped,
   tries |-> w.tries, dispatched |-> w.dispatched, cancel |-> w.cancel,
   paused |-> w.paused, pauseDirty |-> w.pauseDirty,
   resumeDirty |-> w.resumeDirty, seen |-> w.seen, decisions |-> w.decisions]

ContinueAsNew ==
  /\ pc = "continue_as_new" /\ Goto("loop")
  /\ wf' = Carried(wf)
  /\ UNCHANGED <<logVars, approval, batch, todo, cur, note, act, cmd, effects,
                 unknowns, faults>>

-----------------------------------------------------------------------------
(* Approvals.                                                              *)

(* create_approval: one row per task, whatever is retried.                 *)
CreateApproval ==
  /\ pc = "create_approval" /\ Goto("wait_approval")
  /\ approval' = [approval EXCEPT ![cur].row = IF @ = "none" THEN "pending" ELSE @]
  /\ UNCHANGED <<logVars, wf, batch, todo, cur, note, act, cmd, effects,
                 unknowns, faults>>

(* _record_approval_outcome counts an attempt before it awaits.            *)
Verdict(w, decision) ==
  /\ wf' = [w EXCEPT !.tries[cur] = @ + 1]
  /\ note' = decision
  /\ Goto("record_outcome")

(* The wait ends with a decision or a cancel; the cancel wins.             *)
WakeFromApproval ==
  /\ pc = "wait_approval"
  /\ \/ wf.cancel /\ Goto("loop") /\ UNCHANGED <<wf, note>>
     \/ /\ ~wf.cancel /\ wf.decisions[cur] # "none"
        /\ Verdict(wf, wf.decisions[cur])
  /\ UNCHANGED <<logVars, approval, batch, todo, cur, act, cmd, effects,
                 unknowns, faults>>

(* Mutant of ApprovalTimeout: the wait has no bound.                       *)
NoApprovalTimeout == FALSE /\ UNCHANGED vars

ApprovalTimeout ==
  /\ pc = "wait_approval" /\ approval[cur].expired
  /\ ~wf.cancel /\ wf.decisions[cur] = "none"
  /\ Goto("check_approval")
  /\ UNCHANGED <<logVars, approval, wf, batch, todo, cur, note, act, cmd,
                 effects, unknowns, faults>>

(* Mutants of Found: an open request counts as granted; the row is not     *)
(* consulted.                                                              *)
FoundFailsOpen(t) ==
  IF approval[t].row = "rejected" THEN "rejected" ELSE "approved"
FoundExpired(t) == "expired"

(* check_approval: the committed row decides, not the signal that may be   *)
(* under way; it takes no lock, so that it sees no decision in flight.     *)
Found(t) == IF approval[t].row = "pending" THEN "expired" ELSE approval[t].row

CheckApproval ==
  /\ pc = "check_approval"
  /\ LET known == [wf EXCEPT !.decisions[cur] = Found(cur)]
     IN IF wf.cancel THEN wf' = known /\ Goto("loop") /\ UNCHANGED note
        ELSE Verdict(known, Found(cur))
  /\ UNCHANGED <<logVars, approval, batch, todo, cur, act, cmd, effects,
                 unknowns, faults>>

(* record_approval_outcome writes the whole lifecycle of the attempt under *)
(* a derived id.  An approval writes an undeclared field, and no           *)
(* ConflictDetected event goes with it.                                    *)
(* The event has a key of its own, but the attempt executes nothing, so    *)
(* that nothing else ends with its number: it shares keys.ended.           *)
RecordApprovalOutcome ==
  /\ pc = "record_outcome"
  /\ LET n == wf.tries[cur]
         opened == Opened(pg, cur, n, "derived")
     IN /\ pg' = IF note = "approved"
                   THEN Succeeded(opened, cur, n, "derived", ApprovalField)
                   ELSE FailedNow(opened, cur, n, "derived")
        /\ keys' = Ended(cur, n)
  /\ wf' = IF note = "approved"
             THEN [wf EXCEPT !.completed = @ \cup {cur}]
             ELSE [wf EXCEPT !.failed = @ \cup {cur},
                             !.cancel = @ \/ Policy[cur] = "cancel"]
  /\ note' = "none" /\ cur' = NoTask /\ Goto("loop")
  /\ UNCHANGED <<detected, approval, batch, todo, act, cmd, effects, unknowns,
                 faults>>

(* ApprovalRequestStore.decide reads the clock before it waits for the     *)
(* row's lock: what is in time then stays in time, however late it commits.*)
Decide(t, decision) ==
  /\ approval[t].row = "pending" /\ ~approval[t].expired
  /\ decision \notin approval[t].deciding
  /\ approval' = [approval EXCEPT ![t].deciding = @ \cup {decision}]
  /\ UNCHANGED <<logVars, wfVars, act, cmd, effects, unknowns, faults>>

(* Under the lock: the row is pending still, and the decision, its audit   *)
(* and the signal_run row commit together; whoever waited is refused.  A   *)
(* decision that dies on its way never commits.  late is an observer: the  *)
(* commit came when the workflow's timer had run out already.              *)
CommitDecision(t, decision) ==
  /\ approval[t].row = "pending" /\ decision \in approval[t].deciding
  /\ approval' = [approval EXCEPT
                    ![t] = [@ EXCEPT !.row = decision, !.deciding = {},
                                     !.late = @ \/ approval[t].expired,
                                     !.signal = "pending"]]
  /\ UNCHANGED <<logVars, wfVars, act, cmd, effects, unknowns, faults>>

(* Time passes expires_at and, a second later, the workflow's timer; one   *)
(* flag stands for both.                                                   *)
Expire(t) ==
  /\ approval[t].row # "none" /\ ~approval[t].expired
  /\ approval' = [approval EXCEPT ![t].expired = TRUE]
  /\ UNCHANGED <<logVars, wfVars, act, cmd, effects, unknowns, faults>>

(* The approval_decided signal overwrites what the workflow knows.         *)
SignalDecision(t) ==
  /\ approval[t].signal = "pending" /\ pc \in Awaiting
  /\ approval' = [approval EXCEPT ![t].signal = "sent"]
  /\ wf' = [wf EXCEPT !.decisions[t] = approval[t].row]
  /\ UNCHANGED <<logVars, pc, batch, todo, cur, note, act, cmd, effects,
                 unknowns, faults>>

-----------------------------------------------------------------------------
(* execute_task.  An execution Temporal has given up (lost) may still go   *)
(* on, even after the workflow closed, or stop anywhere.                   *)

Step(t, phase) == act' = [act EXCEPT ![t].phase = phase]

(* First transaction: scheduled, attempt, started.                         *)
BeginTask(t) ==
  /\ act[t].phase = "queued"
  /\ Step(t, "begun")
  /\ pg' = Opened(pg, t, act[t].n, "drawn")
  /\ keys' = Begun(t, act[t].n)
  /\ UNCHANGED <<detected, approval, wfVars, cmd, effects, unknowns, faults>>

(* Mutant of Downgraded: only a conflict the node itself is part of counts. *)
DowngradedByOwn(t) ==
  t \in Synth /\ \E c \in pg.conflicts : t \in {c.first, c.second}

Downgraded(t) == t \in Synth /\ pg.conflicts # {}

(* Between the transactions: a Synthesize node replays the log and, if it  *)
(* shows conflicts, answers a downgraded output without running.  A log    *)
(* that cannot be replayed is a ValueError, which is not retried.          *)
RunHandler(t) ==
  /\ act[t].phase = "begun"
  /\ IF t \in Synth /\ ~pg.ok
       THEN Step(t, "error") /\ UNCHANGED <<effects, unknowns>>
     ELSE IF Downgraded(t)
       THEN /\ act' = [act EXCEPT ![t].phase = "ran", ![t].out = "downgraded"]
            /\ UNCHANGED <<effects, unknowns>>
     ELSE \E out \in Outcomes[t] :
            /\ act' = [act EXCEPT ![t].phase = "ran", ![t].out = out]
            /\ effects' = [effects EXCEPT ![t] = @ + 1]
            /\ unknowns' = IF out = "unknown" THEN unknowns \cup {t} ELSE unknowns
  /\ UNCHANGED <<logVars, approval, wfVars, cmd, faults>>

(* The core handler of RequestApproval writes nothing.                     *)
Output(t) == IF act[t].out = "downgraded" THEN Downgrade
             ELSE IF t \in Approval THEN {} ELSE Writes[t]

Replays(t) == /\ act[t].out \in {"completed", "downgraded"}
              /\ <<t, act[t].n>> \notin keys.ended
              /\ Output(t) # {}

(* _append_conflict_events: one ConflictDetected for every field another   *)
(* task holds, from a replay under the run lock.                           *)
DetectedBy(t) ==
  {[field |-> f, first |-> pg.owner[f], second |-> t] :
     f \in {g \in Output(t) : pg.owner[g] \notin {NoTask, t}}}

(* Second transaction: the result, the conflicts, the end of the attempt.  *)
Commit(t) ==
  /\ keys' = Ended(t, act[t].n)
  /\ IF act[t].out \in {"completed", "downgraded"}
       THEN /\ pg' = Succeeded(pg, t, act[t].n, "drawn", Output(t))
            /\ detected' = IF Replays(t) THEN detected \cup DetectedBy(t)
                           ELSE detected
       ELSE /\ pg' = FailedNow(pg, t, act[t].n, "drawn")
            /\ UNCHANGED detected

EndTask(t) ==
  /\ act[t].phase = "ran"
  /\ IF Replays(t) /\ ~pg.ok
       THEN Step(t, "error") /\ UNCHANGED logVars
       ELSE Step(t, "ended") /\ Commit(t)
  /\ UNCHANGED <<approval, wfVars, cmd, effects, unknowns, faults>>

(* A transaction fails and Temporal retries the activity from its start    *)
(* with the same input.  Under Ambiguity the transaction may have          *)
(* committed and only its answer be lost.                                  *)
RetryTask(t) ==
  /\ Fault /\ ~act[t].lost
  /\ act' = [act EXCEPT ![t].phase = "queued", ![t].out = "none"]
  /\ \/ act[t].phase \in {"begun", "ran"} /\ UNCHANGED logVars
     \/ Ambiguity /\ act[t].phase = "ran" /\ Commit(t)
  /\ UNCHANGED <<approval, wfVars, cmd, effects, unknowns>>

(* schedule_to_close runs out, the retries do, or the worker is lost: the  *)
(* workflow gets an ActivityError.                                         *)
LoseTask(t) ==
  /\ Timeouts /\ Fault
  /\ \/ pc = "await" /\ t = cur
     \/ t \in todo \cap ParallelSafe
  /\ act[t].phase \in {"queued", "begun", "ran", "ended"} /\ ~act[t].lost
  /\ act' = [act EXCEPT ![t].lost = TRUE]
  /\ UNCHANGED <<logVars, approval, wfVars, cmd, effects, unknowns>>

-----------------------------------------------------------------------------
(* The operator and the outbox (module Outbox has the delivery itself).    *)
Submit(c) ==
  /\ cmd[c] = "new" /\ \A d \in Commands : d < c => cmd[d] # "new"
  /\ (Polite /\ Kind[c] = "resume") => pg.run = "paused"
  /\ cmd' = [cmd EXCEPT ![c] = "pending"]
  /\ UNCHANGED <<logVars, approval, wfVars, act, effects, unknowns, faults>>

(* The signal handlers, after _dedupe_signal.                              *)
Signalled(c) ==
  IF c \in wf.seen THEN wf
  ELSE LET w == [wf EXCEPT !.seen = @ \cup {c}]
       IN CASE Kind[c] = "cancel" -> [w EXCEPT !.cancel = TRUE]
            [] Kind[c] = "pause" -> [w EXCEPT !.paused = TRUE, !.pauseDirty = TRUE]
            [] Kind[c] = "resume" -> [w EXCEPT !.paused = FALSE, !.resumeDirty = TRUE]

(* The outbox hands commands over in order; one that failed once comes     *)
(* after its successors, and one whose mark failed comes twice.            *)
Signal(c) ==
  /\ pc \in Awaiting
  /\ \/ /\ cmd[c] = "pending" /\ UNCHANGED faults
        /\ \A d \in Commands : d < c => cmd[d] # "pending"
     \/ Fault /\ cmd[c] = "sent"
     \/ /\ Fault /\ cmd[c] = "pending"
        /\ \E d \in Commands : d < c /\ cmd[d] = "pending"
  /\ cmd' = [cmd EXCEPT ![c] = "sent"]
  /\ wf' = Signalled(c)
  /\ UNCHANGED <<logVars, approval, pc, batch, todo, cur, note, act, effects,
                 unknowns>>

(* NOT_FOUND until the row is dead-lettered.                               *)
TooLate(c) ==
  /\ pc \in {"closed", "dead"} /\ cmd[c] = "pending"
  /\ cmd' = [cmd EXCEPT ![c] = "dead"]
  /\ UNCHANGED <<logVars, approval, wfVars, act, effects, unknowns, faults>>

(* Any other activity that exhausts its retries fails the workflow.        *)
WorkflowFails ==
  /\ RecordsMayFail /\ Fault
  /\ pc \in {"start_run", "record", "skip", "create_approval",
             "check_approval", "record_outcome", "record_failed", "recheck"}
  /\ Goto("dead")
  /\ UNCHANGED <<logVars, approval, wf, batch, todo, cur, note, act, cmd,
                 effects, unknowns>>

-----------------------------------------------------------------------------
Workflow ==
  \/ StartRun \/ LoopTop \/ RecordRunTerminal \/ WakeFromPause
  \/ PlanSkips \/ RecordTaskSkipped \/ FinishRun \/ HoldBack
  \/ AskApproval \/ CreateApproval \/ WakeFromApproval \/ ApprovalTimeout
  \/ CheckApproval \/ RecordApprovalOutcome
  \/ Dispatch \/ RunSerial \/ RunParallel \/ AwaitNext
  \/ InterpretResult \/ InterpretError \/ RecordTaskFailed
  \/ RoundDone \/ RecheckIntent \/ ContinueAsNew

Activity(t) == BeginTask(t) \/ RunHandler(t) \/ EndTask(t)

Next ==
  \/ Workflow
  \/ \E t \in Tasks :
       \/ Activity(t) \/ RetryTask(t) \/ LoseTask(t)
       \/ Decide(t, "approved") \/ CommitDecision(t, "approved")
       \/ Decide(t, "rejected") \/ CommitDecision(t, "rejected")
       \/ Expire(t) \/ SignalDecision(t)
  \/ \E c \in Commands : Submit(c) \/ Signal(c) \/ TooLate(c)
  \/ WorkflowFails

Spec == Init /\ [][Next]_vars

(* Temporal keeps the workflow going, a worker runs every activity it has  *)
(* not given up, the dispatcher delivers, and time passes.                 *)
Fairness ==
  /\ WF_vars(Workflow)
  /\ \A t \in Tasks :
       /\ WF_vars(Activity(t) /\ ~act[t].lost)
       /\ WF_vars(Expire(t)) /\ WF_vars(SignalDecision(t))
  /\ \A c \in Commands : WF_vars(Signal(c) /\ faults' = faults)

FairSpec == Spec /\ Fairness

-----------------------------------------------------------------------------
(* The committed event list replays: no activity appends an event the      *)
(* reducer refuses, which would make every later read of the run fail.     *)
LogReplayable == pg.ok

(* The workflow holds no truth of its own: whenever it is about to decide  *)
(* what to do next, what it believes of the nodes is what the log says.    *)
WorkflowFollowsLog ==
  pc = "loop" =>
    /\ wf.completed = {t \in Tasks : pg.task[t] = "completed"}
    /\ wf.failed = {t \in Tasks : pg.task[t] = "failed"}
    /\ wf.skipped = {t \in Tasks : pg.task[t] = "skipped"}

(* No attempt is ever opened on a node before all it depends on completed. *)
DependenciesFirst ==
  \A t \in Tasks : pg.task[t] \in {"scheduled", "started", "completed", "failed"} =>
    \A d \in Deps[t] : pg.task[d] = "completed"

(* A run the log says completed completed every node.                      *)
CompletedMeansEverything ==
  pg.ok /\ pg.run = "completed" => \A t \in Tasks : pg.task[t] = "completed"

(* Every attempt of a run that reached its end was committed or aborted.   *)
AttemptsAreClosed ==
  pg.run \in TerminalRun => \A a \in AttemptIds : pg.attempt[a] # "pending"

(* Every conflict of the projection stands in the log as a ConflictDetected *)
(* event of its own (ADR-005, amendment 4), and no event invents one.      *)
ConflictsAreLogged == pg.conflicts = detected

(* A Synthesize node never runs over an unresolved conflict between two of *)
(* the nodes it depends on (ADR-005, hard constraint 2).                   *)
NoSynthesisOverConflict ==
  \A t \in Synth : act[t].out = "completed" =>
    ~\E c \in pg.conflicts : {c.first, c.second} \subseteq Deps[t]

(* Retries are bounded: a handler runs once per attempt, plus once for     *)
(* every infrastructure fault, and only a retry policy makes attempts.     *)
BoundedExecutions ==
  \A t \in Tasks :
    /\ effects[t] <= wf.tries[t] + faults
    /\ Policy[t] # "retry" => wf.tries[t] <= 1

(* A RequestApproval node completes only by an approver's decision.        *)
ApprovalsWereDecided ==
  \A t \in Approval : pg.task[t] = "completed" => approval[t].row = "approved"

(* An approval that is committed before the workflow's timer runs out is   *)
(* never recorded as expired or rejected, however late its signal comes;   *)
(* one that commits later loses, or wins, the race with check_approval.    *)
DecisionsAreHonoured ==
  \A t \in Approval : pg.task[t] = "failed" =>
    approval[t].row # "approved" \/ approval[t].late

(* An approval whose time decide has found good is never recorded as       *)
(* expired: the two ways to end the wait agree (agent_run.py:268-269).     *)
WaitsEndAlike ==
  \A t \in Approval : pg.task[t] = "failed" => approval[t].row # "approved"

(* While the workflow holds the run for a pause, the log says paused.      *)
PauseIsVisible ==
  pc = "wait_resume" /\ wf.paused /\ ~wf.cancel => pg.run = "paused"

(* Once a handler ended with an unknown effect, its node is never executed *)
(* again by any retry.                                                     *)
NoEffectAfterUnknown ==
  [][\A t \in unknowns : effects'[t] = effects[t]]_vars

(* The projection keeps the promise of RunLifecycle.                       *)
View == INSTANCE RunLifecycle WITH
  Nodes <- Tasks, Before <- Deps, run <- pg.run, node <- pg.task

KeepsLifecycle == View!Lifecycle

(* A cancel the operator submitted ends the run, paused or not.            *)
CancelEndsRun ==
  \A c \in Commands :
    Kind[c] = "cancel" /\ cmd[c] = "pending" ~> pg.run \in TerminalRun

(* Every run comes to an end, unless it is left paused.                    *)
RunSettles == []<>(pg.run \in TerminalRun \/ wf.paused)

=============================================================================
