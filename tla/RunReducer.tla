----------------------------- MODULE RunReducer -----------------------------
(***************************************************************************)
(* The pure reducer of src/zhiwei/runtime/reducer.py: how one canonical    *)
(* runtime event changes the projection of a Run.  A projection is a       *)
(* record; every handler is an operator from a projection to a projection. *)
(*                                                                         *)
(* `reduce` raises ValueError on an event its state machine refuses, and   *)
(* then every later replay of the same event list raises too.  That is the *)
(* field ok: FALSE says that the committed log can no longer be replayed.  *)
(*                                                                         *)
(* Fields are the canonical fields whose merge strategy is                 *)
(* conflict_preserving, declared or by default for an undeclared field;    *)
(* the first writer keeps the field, so its value is named by its writer.  *)
(* The append and last_write_wins strategies raise no conflict and steer   *)
(* no control; module CanonicalMerge models them.                          *)
(***************************************************************************)
EXTENDS Naturals

CONSTANTS
  Tasks,          \* node ids of the TaskGraph (naturals: sorted() is <)
  Fields,         \* canonical fields merged by conflict_preserving
  MaxAttempts,    \* max_task_attempts of the StartRun command
  NoTask          \* a field nobody wrote yet

ASSUME ReducerAssumption ==
  /\ Tasks \subseteq Nat /\ Tasks # {}
  /\ MaxAttempts \in Nat \ {0}
  /\ NoTask \notin Tasks

RunStatuses == {"none", "created", "running", "paused",
                "completed", "failed", "cancelled"}
TerminalRun == {"completed", "failed", "cancelled"}
TaskStatuses == {"absent", "pending", "scheduled", "started",
                 "completed", "failed", "skipped"}
TerminalTask == {"completed", "failed", "skipped"}
AttemptStatuses == {"none", "pending", "committed", "aborted"}

(* An attempt id is the uuid the workflow drew for execute_task ("drawn")  *)
(* or the uuid5 an activity derives from (run, task, attempt_no).          *)
AttemptIds == Tasks \X (1..MaxAttempts) \X {"drawn", "derived"}
Conflicts == [field : Fields, first : Tasks, second : Tasks]

Projections ==
  [ok : BOOLEAN, run : RunStatuses, task : [Tasks -> TaskStatuses],
   attempt : [AttemptIds -> AttemptStatuses],
   owner : [Fields -> Tasks \cup {NoTask}], conflicts : SUBSET Conflicts]

EmptyProjection ==
  [ok |-> TRUE,
   run |-> "none",
   task |-> [t \in Tasks |-> "absent"],
   attempt |-> [a \in AttemptIds |-> "none"],
   owner |-> [f \in Fields |-> NoTask],
   conflicts |-> {}]

-----------------------------------------------------------------------------
(* The two transition tables.                                              *)
RunMay(from, to) ==
  \/ from = "created" /\ to = "running"
  \/ from = "running" /\ to \in {"completed", "failed", "cancelled", "paused"}
  \/ from = "paused" /\ to \in {"running", "cancelled"}

TaskMay(from, to) ==
  \/ from = "pending" /\ to \in {"scheduled", "skipped"}
  \/ from = "scheduled" /\ to \in {"started", "completed", "failed", "skipped"}
  \/ from = "started" /\ to \in {"completed", "failed"}
  \/ from = "failed" /\ to = "started"

Refuse(p) == [p EXCEPT !.ok = FALSE]

(* A task absent from the projection leaves the event without effect.      *)
MoveTask(p, t, to) ==
  IF p.task[t] = "absent" THEN p
  ELSE IF TaskMay(p.task[t], to) THEN [p EXCEPT !.task[t] = to]
  ELSE Refuse(p)

MoveRun(p, to) ==
  IF RunMay(p.run, to) THEN [p EXCEPT !.run = to] ELSE Refuse(p)

-----------------------------------------------------------------------------
(* One operator per event type of runtime/events.py.                       *)
RunCreated(p) == [EmptyProjection EXCEPT !.run = "created"]

(* The code sets "running" without consulting the transition table.        *)
RunStarted(p) ==
  [p EXCEPT !.run = "running", !.task = [t \in Tasks |-> "pending"]]

RunCompleted(p) ==
  IF \A t \in Tasks : p.task[t] \in TerminalTask
    THEN MoveRun(p, "completed") ELSE Refuse(p)

RunFailed(p) == MoveRun(p, "failed")
RunPaused(p) == MoveRun(p, "paused")
RunResumed(p) == MoveRun(p, "running")

(* Mutant of RunCancelled: what never began is left waiting.               *)
RunCancelledOnly(p) == MoveRun(p, "cancelled")

RunCancelled(p) ==
  IF RunMay(p.run, "cancelled")
    THEN [p EXCEPT !.run = "cancelled",
                   !.task = [t \in Tasks |->
                     IF p.task[t] \in {"pending", "scheduled"}
                       THEN "skipped" ELSE p.task[t]]]
    ELSE Refuse(p)

TaskScheduled(p, t) ==
  IF p.run \in TerminalRun THEN Refuse(p) ELSE MoveTask(p, t, "scheduled")

AttemptCreated(p, t, a) ==
  IF p.run \in TerminalRun THEN Refuse(p)
  ELSE IF p.task[t] = "absent" THEN p
  ELSE [p EXCEPT !.attempt[a] = "pending"]

(* TaskStarted registers an attempt that AttemptCreated did not.           *)
TaskStarted(p, t, a) ==
  IF p.run \in TerminalRun THEN Refuse(p)
  ELSE IF p.task[t] = "absent" THEN p
  ELSE IF ~TaskMay(p.task[t], "started") THEN Refuse(p)
  ELSE [p EXCEPT !.task[t] = "started",
                 !.attempt[a] = IF @ = "none" THEN "pending" ELSE @]

(* The merge of conflict_preserving fields: the first writer keeps the     *)
(* field, every later one is recorded beside it whatever its value is.     *)
Contested(p, out) == {f \in out : p.owner[f] # NoTask}

TaskCompleted(p, t, out) ==
  IF p.task[t] = "absent" THEN p
  ELSE IF ~TaskMay(p.task[t], "completed") THEN Refuse(p)
  ELSE [p EXCEPT
          !.task[t] = "completed",
          !.owner = [f \in Fields |->
             IF f \in out /\ p.owner[f] = NoTask THEN t ELSE p.owner[f]],
          !.conflicts = @ \cup
             {[field |-> f, first |-> p.owner[f], second |-> t] :
                f \in Contested(p, out)}]

TaskFailed(p, t) == MoveTask(p, t, "failed")
TaskSkipped(p, t) == MoveTask(p, t, "skipped")

(* AttemptCommitted and AttemptAborted of an attempt id the projection     *)
(* never saw are ignored.                                                  *)
AttemptClosed(p, t, a, to) ==
  IF p.task[t] = "absent" \/ p.attempt[a] = "none" THEN p
  ELSE [p EXCEPT !.attempt[a] = to]

=============================================================================
