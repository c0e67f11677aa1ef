--------------------------- MODULE AgentRunProofs ---------------------------
(***************************************************************************)
(* Invariants of an agent run, for every graph, failure policy, handler    *)
(* behaviour, set of commands and number of faults.  They rest on what     *)
(* every event of the log does to a projection: the result is a            *)
(* projection, a refused log stays refused, a completed node completed.    *)
(*                                                                         *)
(* What the workflow keeps in memory is not enough to see that a retry is  *)
(* bounded: a task is attempted again only while it is in flight, and it   *)
(* leaves the flight completed or failed.  Control says where in the loop  *)
(* the workflow may stand, Rounds which tasks are in flight or about to    *)
(* start there, Budget what each of them has used up.                      *)
(*                                                                         *)
(* The workflow decides from what it remembers, and it remembers what      *)
(* activities told it.  The argument for everything after is therefore     *)
(* that an activity that answers "completed" has the completion in the     *)
(* log, which rests on the event keys: an execution still under way has    *)
(* not used the key that ends its attempt.  A commit that is retried       *)
(* breaks exactly this link (MCLostAck.cfg).  Five parts follow it: a      *)
(* completed run completed every node, and attempts come after what they   *)
(* depend on; the log replays; no synthesis runs over a conflict; where no *)
(* execution is given up while it may still answer, the workflow knows of  *)
(* every failure too, so that its log is a run of RunLifecycle; and an     *)
(* approval is followed from the decision in its row to the node it holds  *)
(* up.                                                                     *)
(*                                                                         *)
(* The last part is about the values the reducer merges, CanonicalMerge:   *)
(* it shares no state with the rest.                                       *)
(***************************************************************************)
EXTENDS AgentRun, CanonicalMerge, TLAPS, FiniteSetTheorems, SequenceTheorems,
        WellFoundedInduction

-----------------------------------------------------------------------------
(* The reducer: what every event of the log does to a projection.          *)

(* q is p after some more events: what no event of a started run undoes.   *)
Later(p, q) ==
  /\ q.ok => p.ok
  /\ \A u \in Tasks : p.task[u] = "completed" => q.task[u] = "completed"
  /\ \A u \in Tasks : p.task[u] # "absent" => q.task[u] # "absent"

(* Events that leave the status of the run alone.                          *)
SameRun(p, q) == Later(p, q) /\ q.run = p.run

-----------------------------------------------------------------------------
(* A refused event changes nothing but ok.                                 *)
LEMMA RefuseIsLater ==
  ASSUME NEW p \in Projections
  PROVE  Refuse(p) \in Projections /\ SameRun(p, Refuse(p))
BY DEF Projections, Refuse, SameRun, Later

(* A task moves along _VALID_TRANSITIONS or the log is refused.            *)
LEMMA MoveTaskIsLater ==
  ASSUME NEW p \in Projections, NEW t \in Tasks, NEW to \in TaskStatuses \ {"absent"}
  PROVE  MoveTask(p, t, to) \in Projections /\ SameRun(p, MoveTask(p, t, to))
<1> DEFINE q == [p EXCEPT !.task[t] = to]
<1>1. q \in Projections
  BY DEF Projections
<1>2. TaskMay(p.task[t], to) => SameRun(p, q)
  BY DEF Projections, TaskMay, SameRun, Later
<1>3. SameRun(p, p)
  BY DEF SameRun, Later
<1> QED
  BY <1>1, <1>2, <1>3, RefuseIsLater DEF MoveTask

(* The run moves along _VALID_RUN_TRANSITIONS or the log is refused.       *)
LEMMA MoveRunIsLater ==
  ASSUME NEW p \in Projections, NEW to \in RunStatuses
  PROVE  /\ MoveRun(p, to) \in Projections
         /\ Later(p, MoveRun(p, to))
         /\ MoveRun(p, to).run \in {p.run, to}
<1> DEFINE q == [p EXCEPT !.run = to]
<1>1. q \in Projections /\ Later(p, q) /\ q.run = to
  BY DEF Projections, Later
<1> QED
  BY <1>1, RefuseIsLater DEF MoveRun, SameRun

(* RunCreated and RunStarted: the first two events of every log.           *)
LEMMA StartIsProjection ==
  ASSUME NEW p
  PROVE  /\ RunStarted(RunCreated(p)) \in Projections
         /\ RunStarted(RunCreated(p)).run = "running"
         /\ \A u \in Tasks : RunStarted(RunCreated(p)).task[u] = "pending"
BY DEF RunStarted, RunCreated, EmptyProjection, Projections, RunStatuses,
       TaskStatuses, AttemptStatuses, Conflicts

(* TaskScheduled.                                                          *)
LEMMA TaskScheduledIsLater ==
  ASSUME NEW p \in Projections, NEW t \in Tasks
  PROVE  TaskScheduled(p, t) \in Projections /\ SameRun(p, TaskScheduled(p, t))
BY MoveTaskIsLater, RefuseIsLater DEF TaskScheduled, TaskStatuses

(* AttemptCreated.                                                         *)
LEMMA AttemptCreatedIsLater ==
  ASSUME NEW p \in Projections, NEW t \in Tasks, NEW a \in AttemptIds
  PROVE  AttemptCreated(p, t, a) \in Projections /\ SameRun(p, AttemptCreated(p, t, a))
<1> DEFINE q == [p EXCEPT !.attempt[a] = "pending"]
<1>1. q \in Projections /\ SameRun(p, q) /\ SameRun(p, p)
  BY DEF Projections, AttemptStatuses, SameRun, Later
<1> QED
  BY <1>1, RefuseIsLater DEF AttemptCreated

(* TaskStarted.                                                            *)
LEMMA TaskStartedIsLater ==
  ASSUME NEW p \in Projections, NEW t \in Tasks, NEW a \in AttemptIds
  PROVE  TaskStarted(p, t, a) \in Projections /\ SameRun(p, TaskStarted(p, t, a))
<1> DEFINE q == [p EXCEPT !.task[t] = "started",
                          !.attempt[a] = IF @ = "none" THEN "pending" ELSE @]
<1>1. q \in Projections
  BY DEF Projections, AttemptStatuses, TaskStatuses
<1>2. TaskMay(p.task[t], "started") => SameRun(p, q)
  BY DEF Projections, TaskMay, SameRun, Later
<1>3. SameRun(p, p)
  BY DEF SameRun, Later
<1> QED
  BY <1>1, <1>2, <1>3, RefuseIsLater DEF TaskStarted

(* AttemptCommitted and AttemptAborted.                                    *)
LEMMA AttemptClosedIsLater ==
  ASSUME NEW p \in Projections, NEW t \in Tasks, NEW a \in AttemptIds,
         NEW to \in AttemptStatuses
  PROVE  /\ AttemptClosed(p, t, a, to) \in Projections
         /\ SameRun(p, AttemptClosed(p, t, a, to))
         /\ AttemptClosed(p, t, a, to).ok = p.ok
         /\ AttemptClosed(p, t, a, to).task = p.task
<1> DEFINE q == [p EXCEPT !.attempt[a] = to]
<1>1. q \in Projections /\ SameRun(p, q) /\ q.ok = p.ok /\ q.task = p.task
  BY DEF Projections, SameRun, Later
<1>2. SameRun(p, p)
  BY DEF SameRun, Later
<1> QED
  BY <1>1, <1>2 DEF AttemptClosed

(* TaskCompleted: unless the log is refused, a task it knows is completed  *)
(* afterwards.  A contested field goes to a conflict and not to the writer. *)
LEMMA TaskCompletedIsLater ==
  ASSUME NEW p \in Projections, NEW t \in Tasks, NEW out \in SUBSET Fields
  PROVE  /\ TaskCompleted(p, t, out) \in Projections
         /\ SameRun(p, TaskCompleted(p, t, out))
         /\ TaskCompleted(p, t, out).ok /\ p.task[t] # "absent"
              => TaskCompleted(p, t, out).task[t] = "completed"
<1> DEFINE own == [f \in Fields |-> IF f \in out /\ p.owner[f] = NoTask
                                      THEN t ELSE p.owner[f]]
           more == {[field |-> f, first |-> p.owner[f], second |-> t] :
                      f \in Contested(p, out)}
           q == [p EXCEPT !.task[t] = "completed", !.owner = own,
                          !.conflicts = @ \cup more]
<1>1. own \in [Fields -> Tasks \cup {NoTask}]
  BY DEF Projections
<1>2. more \subseteq Conflicts
  BY DEF Contested, Projections, Conflicts
<1>3. q \in Projections
  <2> HIDE DEF own, more
  <2> QED
    BY <1>1, <1>2 DEF Projections, TaskStatuses
<1>4. SameRun(p, q) /\ q.task[t] = "completed" /\ SameRun(p, p)
  <2> HIDE DEF own, more
  <2> QED
    BY DEF Projections, SameRun, Later
<1>5. ~Refuse(p).ok
  BY DEF Refuse, Projections
<1>6. TaskCompleted(p, t, out) = IF p.task[t] = "absent" THEN p
        ELSE IF ~TaskMay(p.task[t], "completed") THEN Refuse(p) ELSE q
  BY DEF TaskCompleted
<1> HIDE DEF q
<1> QED
  BY <1>3, <1>4, <1>5, <1>6, RefuseIsLater

(* TaskFailed and TaskSkipped.                                             *)
LEMMA TaskEndsAreLater ==
  ASSUME NEW p \in Projections, NEW t \in Tasks
  PROVE  /\ TaskFailed(p, t) \in Projections /\ SameRun(p, TaskFailed(p, t))
         /\ TaskSkipped(p, t) \in Projections /\ SameRun(p, TaskSkipped(p, t))
BY MoveTaskIsLater DEF TaskFailed, TaskSkipped, TaskStatuses

(* The events of the run itself; only RunCompleted completes it.           *)
LEMMA RunEventsAreLater ==
  ASSUME NEW p \in Projections
  PROVE  /\ RunCompleted(p) \in Projections /\ Later(p, RunCompleted(p))
         /\ RunFailed(p) \in Projections /\ Later(p, RunFailed(p))
         /\ RunPaused(p) \in Projections /\ Later(p, RunPaused(p))
         /\ RunResumed(p) \in Projections /\ Later(p, RunResumed(p))
         /\ RunCancelled(p) \in Projections /\ Later(p, RunCancelled(p))
         /\ \A q \in {RunFailed(p), RunPaused(p), RunResumed(p), RunCancelled(p)} :
              q.run = "completed" => p.run = "completed"
<1> DEFINE q == [p EXCEPT !.run = "cancelled",
                   !.task = [t \in Tasks |->
                     IF p.task[t] \in {"pending", "scheduled"}
                       THEN "skipped" ELSE p.task[t]]]
<1>1. q \in Projections /\ Later(p, q) /\ q.run = "cancelled"
  BY DEF Projections, RunStatuses, TaskStatuses, Later
<1>2. /\ RunCancelled(p) \in Projections /\ Later(p, RunCancelled(p))
      /\ RunCancelled(p).run = "completed" => p.run = "completed"
  <2> HIDE DEF q
  <2>1. RunCancelled(p) \in {q, Refuse(p)}
    BY DEF RunCancelled, q
  <2> QED
    BY <1>1, <2>1, RefuseIsLater DEF SameRun
<1> QED
  BY <1>2, MoveRunIsLater, RefuseIsLater
  DEF RunCompleted, RunFailed, RunPaused, RunResumed, RunStatuses, SameRun

-----------------------------------------------------------------------------
(* The run.                                                                *)

(* The workflow awaits a task of this round.                               *)
AtTask == pc \in {"await", "record_failed"}

(* Tasks whose attempt the workflow has counted and not yet judged.        *)
InFlight ==
  {t \in Tasks :
     \/ (AtTask \/ pc = "record_outcome") /\ t = cur
     \/ (pc = "parallel" \/ (AtTask /\ cur \in ParallelSafe)) /\ t \in todo}

(* Tasks this round is about to attempt.                                   *)
ToStart ==
  {t \in Tasks :
     \/ pc \in {"create_approval", "wait_approval", "check_approval"} /\ t = cur
     \/ /\ pc = "serial" \/ (AtTask /\ cur \notin ParallelSafe)
        /\ t \in todo \/ t \in batch \cap ParallelSafe}

Control ==
  /\ pc \in {"create_approval", "wait_approval", "check_approval", "await",
             "record_failed", "record_outcome"} => cur \in Tasks
  /\ pc = "skip" => todo # {}
  /\ pc = "serial" => todo \cap ParallelSafe = {}
  /\ pc = "parallel" => todo \subseteq ParallelSafe
  /\ AtTask => /\ cur \notin todo
               /\ IF cur \in ParallelSafe THEN todo \subseteq ParallelSafe
                  ELSE todo \cap ParallelSafe = {}
  /\ pc = "record" => note \in RunOutcomes
  /\ pc = "record_outcome" => note \in Decisions

(* A decision is signalled after it was taken, and waited for once it can  *)
(* be taken.                                                               *)
Requests ==
  /\ pc \in {"wait_approval", "check_approval"} => approval[cur].row # "none"
  /\ \A t \in Tasks :
       approval[t].signal # "none" => approval[t].row \in {"approved", "rejected"}

Rounds ==
  /\ \A t \in InFlight : t \notin Terminal /\ wf.tries[t] >= 1
  /\ \A t \in ToStart : t \notin Terminal /\ t \notin InFlight
  /\ pc # "dead" =>
       \A t \in Tasks : wf.tries[t] # 0 => t \in Terminal \/ t \in InFlight

(* Handler executions that were granted and have not happened yet count.   *)
Owed(t) == IF act[t].phase \in {"queued", "begun"} THEN 1 ELSE 0

Budget ==
  \A t \in Tasks :
    /\ act[t].n <= wf.tries[t]
    /\ act[t].phase # "none" => act[t].n >= 1
    /\ act[t].phase \in {"ran", "ended"} => act[t].out # "none"
    /\ effects[t] + Owed(t) <= wf.tries[t] + faults
    /\ Policy[t] # "retry" => wf.tries[t] <= 1

IInv == TypeOK /\ Control /\ Requests /\ Rounds /\ Budget

-----------------------------------------------------------------------------
(* Any set of tasks that has a member has a least one: node ids are        *)
(* naturals, and the intervals 0..n are well-founded by inclusion.         *)
LEMMA SomeTaskIsLeast ==
  ASSUME NEW S \in SUBSET Tasks, S # {}
  PROVE  \E x \in S : \A y \in S : x =< y
<1> DEFINE Downto(n) == 0..n
           All == {Downto(n) : n \in S}
<1>1. S \subseteq Nat
  BY ReducerAssumption DEF ReducerAssumption
<1>2. \A n \in S : Downto(n) \in SUBSET Nat /\ IsFiniteSet(Downto(n))
  BY <1>1, FS_Interval
<1>3. PICK x \in S :
        \A y \in S : ~(<<Downto(y), Downto(x)>> \in StrictSubsetOrdering(Nat))
  <2> HIDE DEF Downto
  <2>1. All \subseteq FiniteSubsetsOf(Nat) /\ All # {}
    BY <1>2 DEF FiniteSubsetsOf
  <2>2. PICK D \in All : \A E \in All : ~(<<E, D>> \in StrictSubsetOrdering(Nat))
    <3> HIDE DEF All
    <3> QED
      BY <2>1, WFMin, FS_StrictSubsetOrderingWellFounded
  <2> QED
    BY <2>2
<1>4. ASSUME NEW y \in S PROVE x =< y
  <2>1. ~(Downto(y) \subseteq Downto(x) /\ Downto(y) # Downto(x))
    <3> HIDE DEF Downto
    <3> QED
      BY <1>2, <1>3 DEF StrictSubsetOrdering
  <2>2. ASSUME y < x PROVE FALSE
    <3>1. Downto(y) \subseteq Downto(x) /\ x \in Downto(x) /\ x \notin Downto(y)
      BY <1>1, <2>2
    <3> QED
      BY <3>1, <2>1
  <2> QED
    BY <1>1, <2>2
<1> QED
  BY <1>4

(* FirstOf picks it.                                                       *)
LEMMA FirstOfIsLeast ==
  ASSUME NEW S \in SUBSET Tasks, S # {}
  PROVE  FirstOf(S) \in S /\ \A y \in S : FirstOf(S) =< y
BY SomeTaskIsLeast DEF FirstOf, Min

LEMMA FirstOfIsMember ==
  ASSUME NEW S \in SUBSET Tasks, S # {}
  PROVE  FirstOf(S) \in S
BY FirstOfIsLeast

(* Two stretches of the log.                                               *)
LEMMA SameRunTransitive ==
  ASSUME NEW p, NEW q, NEW r, SameRun(p, q), SameRun(q, r)
  PROVE  SameRun(p, r)
BY DEF SameRun, Later

(* The transaction that opens an attempt.                                  *)
LEMMA OpenedIsLater ==
  ASSUME NEW p \in Projections, NEW t \in Tasks, NEW n \in 1..MaxAttempts,
         NEW id \in {"drawn", "derived"}
  PROVE  Opened(p, t, n, id) \in Projections /\ SameRun(p, Opened(p, t, n, id))
<1> DEFINE a == <<t, n, id>>
           s == TaskScheduled(p, t)
           first == IF \E k \in 1..MaxAttempts : <<t, k>> \in keys.begun THEN p ELSE s
<1>1. a \in AttemptIds
  BY DEF AttemptIds
<1>2. SameRun(p, p)
  BY DEF SameRun, Later
<1>3. first \in Projections /\ SameRun(p, first)
  BY <1>2, TaskScheduledIsLater
<1>4. Opened(p, t, n, id) = IF <<t, n>> \in keys.begun THEN p
        ELSE TaskStarted(AttemptCreated(first, t, a), t, a)
  BY DEF Opened
<1> HIDE DEF a, first
<1>5. AttemptCreated(first, t, a) \in Projections
      /\ SameRun(p, AttemptCreated(first, t, a))
  BY <1>1, <1>3, AttemptCreatedIsLater, SameRunTransitive
<1>6. TaskStarted(AttemptCreated(first, t, a), t, a) \in Projections
      /\ SameRun(p, TaskStarted(AttemptCreated(first, t, a), t, a))
  BY <1>1, <1>5, TaskStartedIsLater, SameRunTransitive
<1> QED
  BY <1>2, <1>4, <1>6

(* The transaction that ends it well: a first end completes the task.      *)
LEMMA SucceededIsLater ==
  ASSUME NEW p \in Projections, NEW t \in Tasks, NEW n \in 1..MaxAttempts,
         NEW id \in {"drawn", "derived"}, NEW out \in SUBSET Fields
  PROVE  /\ Succeeded(p, t, n, id, out) \in Projections
         /\ SameRun(p, Succeeded(p, t, n, id, out))
         /\ Succeeded(p, t, n, id, out).ok /\ p.task[t] # "absent"
              /\ <<t, n>> \notin keys.ended
              => Succeeded(p, t, n, id, out).task[t] = "completed"
<1> DEFINE a == <<t, n, id>>
           done == TaskCompleted(p, t, out)
<1>1. a \in AttemptIds /\ "committed" \in AttemptStatuses
  BY DEF AttemptIds, AttemptStatuses
<1>2. SameRun(p, p)
  BY DEF SameRun, Later
<1>3. Succeeded(p, t, n, id, out) =
        IF <<t, n>> \in keys.ended THEN p ELSE AttemptClosed(done, t, a, "committed")
  BY DEF Succeeded
<1> HIDE DEF a
<1>4. done \in Projections /\ SameRun(p, done)
      /\ (done.ok /\ p.task[t] # "absent" => done.task[t] = "completed")
  BY TaskCompletedIsLater
<1> HIDE DEF done
<1>5. /\ AttemptClosed(done, t, a, "committed") \in Projections
      /\ SameRun(p, AttemptClosed(done, t, a, "committed"))
      /\ AttemptClosed(done, t, a, "committed").ok = done.ok
      /\ AttemptClosed(done, t, a, "committed").task = done.task
  BY <1>1, <1>4, AttemptClosedIsLater, SameRunTransitive
<1> QED
  BY <1>2, <1>3, <1>4, <1>5

(* The transaction that ends it badly.                                     *)
LEMMA FailedNowIsLater ==
  ASSUME NEW p \in Projections, NEW t \in Tasks, NEW n \in 1..MaxAttempts,
         NEW id \in {"drawn", "derived"}
  PROVE  FailedNow(p, t, n, id) \in Projections /\ SameRun(p, FailedNow(p, t, n, id))
<1> DEFINE a == <<t, n, id>>
           lost == TaskFailed(p, t)
<1>1. a \in AttemptIds /\ "aborted" \in AttemptStatuses
  BY DEF AttemptIds, AttemptStatuses
<1>2. SameRun(p, p)
  BY DEF SameRun, Later
<1>3. FailedNow(p, t, n, id) =
        IF <<t, n>> \in keys.ended THEN p ELSE AttemptClosed(lost, t, a, "aborted")
  BY DEF FailedNow
<1> HIDE DEF a
<1>4. lost \in Projections /\ SameRun(p, lost)
  BY TaskEndsAreLater
<1> HIDE DEF lost
<1>5. AttemptClosed(lost, t, a, "aborted") \in Projections
      /\ SameRun(p, AttemptClosed(lost, t, a, "aborted"))
  BY <1>1, <1>4, AttemptClosedIsLater, SameRunTransitive
<1> QED
  BY <1>2, <1>3, <1>5

-----------------------------------------------------------------------------
(* An approver decides, or a decision commits.                             *)
Decisive(t) ==
  \E decision \in {"approved", "rejected"} :
    Decide(t, decision) \/ CommitDecision(t, decision)

(* Everything but the workflow: workers, Temporal's retries and timeouts,  *)
(* approvers, the clock, operators and the dispatcher.                     *)
Outside ==
  \/ \E t \in Tasks :
       \/ Activity(t) \/ RetryTask(t) \/ LoseTask(t)
       \/ Decisive(t) \/ Expire(t) \/ SignalDecision(t)
  \/ \E c \in Commands : Submit(c) \/ Signal(c) \/ TooLate(c)

(* They leave alone where the workflow stands and what it made of tasks.   *)
SamePlace ==
  /\ UNCHANGED <<pc, batch, todo, cur, note>>
  /\ wf' \in Memories
  /\ wf'.completed = wf.completed /\ wf'.failed = wf.failed
  /\ wf'.skipped = wf.skipped /\ wf'.tries = wf.tries

(* Every step is one of these.                                             *)
LEMMA NextIsEither ==
  [Next]_vars <=> Workflow \/ Outside \/ WorkflowFails \/ UNCHANGED vars
<1>1. \A t \in Tasks : Decisive(t) <=>
        \/ Decide(t, "approved") \/ CommitDecision(t, "approved")
        \/ Decide(t, "rejected") \/ CommitDecision(t, "rejected")
  BY DEF Decisive
<1> QED
  BY <1>1, SMTT(30) DEF Next, Outside

(* The handlers of cancel, pause and resume set flags.                     *)
LEMMA SignalledType ==
  ASSUME TypeOK, NEW c \in Commands
  PROVE  /\ Signalled(c) \in Memories
         /\ Signalled(c).completed = wf.completed /\ Signalled(c).failed = wf.failed
         /\ Signalled(c).skipped = wf.skipped /\ Signalled(c).tries = wf.tries
<1> DEFINE w == [wf EXCEPT !.seen = @ \cup {c}]
<1>1. w \in Memories /\ w.completed = wf.completed /\ w.failed = wf.failed
      /\ w.skipped = wf.skipped /\ w.tries = wf.tries
  BY DEF TypeOK, Memories
<1>2. Kind[c] \in {"cancel", "pause", "resume"}
  BY RunAssumption DEF RunAssumption
<1>3. Signalled(c) \in
        {wf, [w EXCEPT !.cancel = TRUE],
         [w EXCEPT !.paused = TRUE, !.pauseDirty = TRUE],
         [w EXCEPT !.paused = FALSE, !.resumeDirty = TRUE]}
  BY <1>2 DEF Signalled
<1> HIDE DEF w
<1>4. ASSUME NEW b1 \in BOOLEAN, NEW b2 \in BOOLEAN, NEW b3 \in BOOLEAN,
             NEW v \in {wf, [w EXCEPT !.cancel = b1],
                        [w EXCEPT !.paused = b1, !.pauseDirty = b2],
                        [w EXCEPT !.paused = b1, !.resumeDirty = b3]}
      PROVE  /\ v \in Memories
             /\ v.completed = wf.completed /\ v.failed = wf.failed
             /\ v.skipped = wf.skipped /\ v.tries = wf.tries
  <2>1. CASE v = wf
    BY <2>1 DEF TypeOK
  <2>2. CASE v = [w EXCEPT !.cancel = b1]
    BY <1>1, <2>2 DEF Memories
  <2>3. CASE v = [w EXCEPT !.paused = b1, !.pauseDirty = b2]
    BY <1>1, <2>3 DEF Memories
  <2>4. CASE v = [w EXCEPT !.paused = b1, !.resumeDirty = b3]
    BY <1>1, <2>4 DEF Memories
  <2> QED
    BY <2>1, <2>2, <2>3, <2>4
<1> QED
  BY <1>3, <1>4

(* Only the signals touch what the workflow remembers.                     *)
LEMMA OutsideStaysInPlace == IInv /\ Outside => SamePlace
<1> SUFFICES ASSUME IInv, Outside PROVE SamePlace
  OBVIOUS
<1>0. wf \in Memories
  BY DEF IInv, TypeOK
<1>1. ASSUME NEW t \in Tasks, SignalDecision(t)
      PROVE  SamePlace
  <2>1. approval[t].row \in {"approved", "rejected"}
    BY <1>1 DEF SignalDecision, IInv, Requests
  <2> QED
    BY <1>0, <1>1, <2>1 DEF SignalDecision, SamePlace, Memories, Decisions
<1>2. ASSUME NEW c \in Commands, Signal(c)
      PROVE  SamePlace
  BY <1>2, SignalledType DEF Signal, SamePlace, IInv
<1>3. ASSUME UNCHANGED wfVars
      PROVE  SamePlace
  BY <1>0, <1>3 DEF wfVars, SamePlace
<1>4. ASSUME NEW t \in Tasks, Activity(t)
      PROVE  UNCHANGED wfVars
  BY <1>4 DEF Activity, BeginTask, RunHandler, EndTask
<1>5. ASSUME NEW t \in Tasks, RetryTask(t) \/ LoseTask(t) \/ Decisive(t) \/ Expire(t)
      PROVE  UNCHANGED wfVars
  BY <1>5 DEF RetryTask, LoseTask, Decisive, Decide, CommitDecision, Expire
<1>6. ASSUME NEW c \in Commands, Submit(c) \/ TooLate(c)
      PROVE  UNCHANGED wfVars
  BY <1>6 DEF Submit, TooLate
<1> QED
  BY <1>1, <1>2, <1>3, <1>4, <1>5, <1>6 DEF Outside

(* The keys of an attempt that was opened, and of one that ended.          *)
LEMMA KeyTypes ==
  ASSUME keys \in EventKeys, NEW t \in Tasks, NEW n \in 1..MaxAttempts
  PROVE  Begun(t, n) \in EventKeys /\ Ended(t, n) \in EventKeys
<1> DEFINE begun == keys.begun \cup {<<t, n>>}
           ended == keys.ended \cup {<<t, n>>}
<1>1. /\ begun \in SUBSET (Tasks \X (1..MaxAttempts))
      /\ ended \in SUBSET (Tasks \X (1..MaxAttempts))
  BY DEF EventKeys
<1> HIDE DEF begun, ended
<1>2. /\ [keys EXCEPT !.begun = begun] \in EventKeys
      /\ [keys EXCEPT !.begun = begun, !.ended = ended] \in EventKeys
  BY <1>1 DEF EventKeys
<1> QED
  BY <1>2 DEF Begun, Ended, begun, ended

(* An execution under way has a number.                                    *)
LEMMA NumberOfExecution ==
  ASSUME IInv, NEW t \in Tasks, act[t].phase # "none"
  PROVE  act[t].n \in 1..MaxAttempts
<1>1. act[t] \in Executions
  BY DEF IInv, TypeOK
<1> QED
  BY <1>1, ReducerAssumption DEF IInv, Budget, Executions, ReducerAssumption

(* What a handler wrote is canonical fields.                               *)
LEMMA OutputType ==
  ASSUME NEW t \in Tasks
  PROVE  Output(t) \in SUBSET Fields
BY RunAssumption DEF RunAssumption, Output

(* The second transaction of execute_task.                                 *)
LEMMA CommitTypes ==
  ASSUME IInv, NEW t \in Tasks, act[t].phase # "none", Commit(t)
  PROVE  /\ pg' \in Projections /\ keys' \in EventKeys /\ detected' \subseteq Conflicts
         /\ SameRun(pg, pg')
<1> DEFINE n == act[t].n
           id == "drawn"
<1>1. n \in 1..MaxAttempts
  BY NumberOfExecution
<1>2. pg \in Projections /\ keys \in EventKeys /\ detected \subseteq Conflicts
  BY DEF IInv, TypeOK
<1>3. DetectedBy(t) \subseteq Conflicts
  BY <1>2, OutputType DEF DetectedBy, Conflicts, Projections
<1>4. pg' \in {Succeeded(pg, t, n, id, Output(t)), FailedNow(pg, t, n, id)}
  BY DEF Commit
<1>5. detected' \subseteq Conflicts
  BY <1>2, <1>3 DEF Commit
<1>6. keys' \in EventKeys
  BY <1>1, <1>2, KeyTypes DEF Commit
<1> HIDE DEF n
<1>7. pg' \in Projections /\ SameRun(pg, pg')
  BY <1>1, <1>2, <1>4, OutputType, SucceededIsLater, FailedNowIsLater
<1> QED
  BY <1>5, <1>6, <1>7

(* Types: workers, Temporal, approvers, operators and the dispatcher.      *)
LEMMA TypeOutside == IInv /\ Outside => TypeOK'
<1> SUFFICES ASSUME IInv, Outside PROVE TypeOK'
  OBVIOUS
<1>0. TypeOK /\ SamePlace
  BY OutsideStaysInPlace DEF IInv
<1>p. /\ wf' \in Memories
      /\ pc' \in Internal \cup Awaiting \cup {"closed", "dead"}
      /\ batch' \subseteq Tasks /\ todo' \subseteq Tasks
      /\ cur' \in Tasks \cup {NoTask}
      /\ note' \in RunOutcomes \cup Decisions \cup {"none"}
  BY <1>0 DEF TypeOK, SamePlace
<1>a. \A t \in Tasks : act[t] \in Executions
  BY <1>0 DEF TypeOK
<1>1. ASSUME NEW t \in Tasks, BeginTask(t)
      PROVE  TypeOK'
  <2>1. act' \in [Tasks -> Executions]
    BY <1>0, <1>a, <1>1 DEF BeginTask, Step, TypeOK, Executions
  <2>2. pg' \in Projections /\ keys' \in EventKeys
    BY <1>0, <1>1, NumberOfExecution, OpenedIsLater, KeyTypes DEF BeginTask, TypeOK
  <2> QED
    BY <1>0, <1>p, <1>1, <2>1, <2>2 DEF BeginTask, TypeOK
<1>2. ASSUME NEW t \in Tasks, RunHandler(t)
      PROVE  TypeOK'
  <2>1. Outcomes[t] \subseteq Results
    BY RunAssumption DEF RunAssumption
  <2>2. act' \in [Tasks -> Executions]
    BY SMTT(30), <1>0, <1>a, <1>2, <2>1 DEF RunHandler, Step, TypeOK, Executions
  <2>3. effects' \in [Tasks -> Nat] /\ unknowns' \subseteq Tasks
    BY <1>0, <1>2 DEF RunHandler, TypeOK
  <2> QED
    BY <1>0, <1>p, <1>2, <2>2, <2>3 DEF RunHandler, TypeOK, logVars
<1>3. ASSUME NEW t \in Tasks, EndTask(t)
      PROVE  TypeOK'
  <2>1. act' \in [Tasks -> Executions]
    <3>1. \/ act' = [act EXCEPT ![t].phase = "error"]
          \/ act' = [act EXCEPT ![t].phase = "ended"]
      BY <1>3 DEF EndTask, Step
    <3> QED
      BY <1>0, <1>a, <3>1 DEF TypeOK, Executions
  <2>2. pg' \in Projections /\ keys' \in EventKeys /\ detected' \subseteq Conflicts
    BY <1>0, <1>3, CommitTypes DEF EndTask, TypeOK, logVars
  <2> QED
    BY <1>0, <1>p, <1>3, <2>1, <2>2 DEF EndTask, TypeOK
<1>4. ASSUME NEW t \in Tasks, RetryTask(t)
      PROVE  TypeOK'
  <2>1. act' \in [Tasks -> Executions]
    <3>1. [act[t] EXCEPT !.phase = "queued", !.out = "none"] \in Executions
      BY <1>a DEF Executions
    <3>2. act' = [act EXCEPT ![t] = [act[t] EXCEPT !.phase = "queued", !.out = "none"]]
      BY <1>0, <1>4 DEF RetryTask, TypeOK
    <3> QED
      BY <1>0, <3>1, <3>2 DEF TypeOK
  <2>2. pg' \in Projections /\ keys' \in EventKeys /\ detected' \subseteq Conflicts
    BY <1>0, <1>4, CommitTypes DEF RetryTask, TypeOK, logVars
  <2>3. faults' \in 0..MaxFaults
    BY <1>0, <1>4, RunAssumption DEF RetryTask, Fault, TypeOK, RunAssumption
  <2> QED
    BY <1>0, <1>p, <1>4, <2>1, <2>2, <2>3 DEF RetryTask, TypeOK
<1>5. ASSUME NEW t \in Tasks, LoseTask(t)
      PROVE  TypeOK'
  <2>1. act' \in [Tasks -> Executions]
    <3>1. [act[t] EXCEPT !.lost = TRUE] \in Executions
      BY <1>a DEF Executions
    <3>2. act' = [act EXCEPT ![t] = [act[t] EXCEPT !.lost = TRUE]]
      BY <1>0, <1>5 DEF LoseTask, TypeOK
    <3> QED
      BY <1>0, <3>1, <3>2 DEF TypeOK
  <2>2. faults' \in 0..MaxFaults
    BY <1>0, <1>5, RunAssumption DEF LoseTask, Fault, TypeOK, RunAssumption
  <2> QED
    BY <1>0, <1>p, <1>5, <2>1, <2>2 DEF LoseTask, TypeOK, logVars
<1>6. ASSUME NEW t \in Tasks, Decisive(t) \/ Expire(t)
      PROVE  TypeOK'
  <2>1. approval' \in [Tasks -> ApprovalRows]
    <3>1. approval \in [Tasks -> ApprovalRows] /\ approval[t] \in ApprovalRows
      BY <1>0 DEF TypeOK
    <3>2. ASSUME NEW row \in {"approved", "rejected"}, Decide(t, row)
          PROVE  approval' \in [Tasks -> ApprovalRows]
      BY <3>1, <3>2 DEF Decide, ApprovalRows
    <3>3. ASSUME NEW row \in {"approved", "rejected"}, CommitDecision(t, row)
          PROVE  approval' \in [Tasks -> ApprovalRows]
      BY <3>1, <3>3 DEF CommitDecision, ApprovalRows
    <3>4. ASSUME Expire(t) PROVE approval' \in [Tasks -> ApprovalRows]
      BY <3>1, <3>4 DEF Expire, ApprovalRows
    <3> QED
      BY <1>6, <3>2, <3>3, <3>4 DEF Decisive
  <2> QED
    BY <1>0, <1>p, <1>6, <2>1 DEF Decisive, Decide,
      CommitDecision, Expire, TypeOK, logVars
<1>7. ASSUME NEW t \in Tasks, SignalDecision(t)
      PROVE  TypeOK'
  <2>1. approval' \in [Tasks -> ApprovalRows]
    <3>1. approval \in [Tasks -> ApprovalRows] /\ approval[t] \in ApprovalRows
      BY <1>0 DEF TypeOK
    <3>2. [approval[t] EXCEPT !.signal = "sent"] \in ApprovalRows
      BY <3>1 DEF ApprovalRows
    <3> QED
      BY <1>7, <3>1, <3>2 DEF SignalDecision
  <2> QED
    BY <1>0, <1>p, <1>7, <2>1 DEF SignalDecision, TypeOK, logVars
<1>8. ASSUME NEW c \in Commands, Submit(c) \/ TooLate(c)
      PROVE  TypeOK'
  BY <1>0, <1>p, <1>8 DEF Submit, TooLate, TypeOK, logVars
<1>9. ASSUME NEW c \in Commands, Signal(c)
      PROVE  TypeOK'
  <2>1. faults' \in 0..MaxFaults
    BY <1>0, <1>9, RunAssumption DEF Signal, Fault, TypeOK, RunAssumption
  <2> QED
    BY <1>0, <1>p, <1>9, <2>1 DEF Signal, TypeOK, logVars
<1> QED
  BY <1>1, <1>2, <1>3, <1>4, <1>5, <1>6, <1>7, <1>8, <1>9 DEF Outside, Activity

-----------------------------------------------------------------------------
(* record_run_terminal appends one of the events of the run.               *)
LEMMA RecordRunIsLater ==
  ASSUME NEW p \in Projections, NEW outcome \in RunOutcomes
  PROVE  /\ RecordRun(p, outcome) \in Projections
         /\ Later(p, RecordRun(p, outcome))
         /\ RecordRun(p, outcome).run = "completed" /\ outcome # "completed"
              => p.run = "completed"
<1>1. \/ outcome = "completed" /\ RecordRun(p, outcome) = RunCompleted(p)
      \/ outcome = "failed" /\ RecordRun(p, outcome) = RunFailed(p)
      \/ outcome = "cancelled" /\ RecordRun(p, outcome) = RunCancelled(p)
      \/ outcome = "paused" /\ RecordRun(p, outcome) = RunPaused(p)
      \/ outcome = "resumed" /\ RecordRun(p, outcome) = RunResumed(p)
  BY DEF RunOutcomes, RecordRun
<1> QED
  BY <1>1, RunEventsAreLater

(* _start_task counts the attempts of tasks that have some left.           *)
LEMMA StartTypes ==
  ASSUME TypeOK, NEW started \in SUBSET Tasks, Start(started),
         \A t \in started : wf.tries[t] < MaxAttempts
  PROVE  /\ wf' \in Memories
         /\ wf'.completed = wf.completed /\ wf'.failed = wf.failed
         /\ wf'.skipped = wf.skipped
         /\ \A t \in started : wf'.tries[t] = wf.tries[t] + 1
         /\ \A t \in Tasks \ started : wf'.tries[t] = wf.tries[t]
         /\ act' \in [Tasks -> Executions]
         /\ \A t \in started : act'[t] =
              [phase |-> "queued", n |-> wf.tries[t] + 1, out |-> "none", lost |-> FALSE]
         /\ \A t \in Tasks \ started : act'[t] = act[t]
<1> DEFINE more == [t \in Tasks |-> IF t \in started THEN wf.tries[t] + 1
                                    ELSE wf.tries[t]]
<1>1. wf \in Memories /\ act \in [Tasks -> Executions]
  BY DEF TypeOK
<1>2. \A t \in Tasks : wf.tries[t] \in 0..MaxAttempts
  BY <1>1 DEF Memories
<1>3. more \in [Tasks -> 0..MaxAttempts]
  BY <1>2, ReducerAssumption DEF ReducerAssumption
<1>4. wf' = [wf EXCEPT !.tries = more]
  BY DEF Start
<1>5. act' \in [Tasks -> Executions]
  <2> SUFFICES ASSUME NEW t \in started
               PROVE  [phase |-> "queued", n |-> wf.tries[t] + 1,
                       out |-> "none", lost |-> FALSE] \in Executions
    BY <1>1 DEF Start
  <2> QED
    BY <1>2, ReducerAssumption DEF Executions, ReducerAssumption
<1>6. /\ \A t \in started : act'[t] =
           [phase |-> "queued", n |-> wf.tries[t] + 1, out |-> "none", lost |-> FALSE]
      /\ \A t \in Tasks \ started : act'[t] = act[t]
  BY DEF Start
<1>7. /\ wf' \in Memories
      /\ wf'.completed = wf.completed /\ wf'.failed = wf.failed
      /\ wf'.skipped = wf.skipped /\ wf'.tries = more
  <2> HIDE DEF more
  <2> QED
    BY <1>1, <1>3, <1>4 DEF Memories
<1> QED
  BY <1>5, <1>6, <1>7

(* What is about to start has not been attempted.                          *)
LEMMA NothingUsedYet ==
  ASSUME IInv, pc # "dead", NEW t \in ToStart
  PROVE  wf.tries[t] = 0 /\ act[t].phase = "none" /\ t \in Tasks
<1>1. t \in Tasks
  BY DEF ToStart
<1>2. wf.tries[t] = 0
  BY <1>1 DEF IInv, Rounds
<1>3. act[t] \in Executions
  BY <1>1 DEF IInv, TypeOK
<1> QED
  BY <1>1, <1>2, <1>3 DEF IInv, Budget, Executions

(* The tasks of a round that start now, one serial or all parallel ones.   *)
LEMMA StartsAreFresh ==
  ASSUME IInv, pc = "serial"
  PROVE  /\ todo # {} => FirstOf(todo) \in todo /\ FirstOf(todo) \in ToStart
         /\ batch \cap ParallelSafe \subseteq ToStart
<1>1. todo \subseteq Tasks /\ batch \subseteq Tasks
  BY DEF IInv, TypeOK
<1>2. todo # {} => FirstOf(todo) \in todo
  BY <1>1, FirstOfIsMember
<1> QED
  BY <1>1, <1>2 DEF ToStart

(* Where a task's end leads.                                               *)
LEMMA NextTaskPlace ==
  ASSUME NEW cancelled, NextTask(cancelled)
  PROVE  /\ pc' \in {"parallel", "serial"}
         /\ todo' \subseteq todo
         /\ cur \in ParallelSafe => pc' = "parallel" /\ todo' = todo
         /\ cur \notin ParallelSafe => pc' = "serial"
BY DEF NextTask, Goto

(* Types: the workflow.                                                    *)
LEMMA TypeWorkflow == IInv /\ Workflow => TypeOK'
<1> SUFFICES ASSUME IInv, Workflow PROVE TypeOK'
  OBVIOUS
<1>0. TypeOK
  BY DEF IInv
<1>w. wf \in Memories /\ wf.tries \in [Tasks -> 0..MaxAttempts]
  BY <1>0 DEF TypeOK, Memories
<1>g. \A l \in {"loop", "resumed", "paused", "plan", "dispatch", "serial",
              "parallel", "round_done", "record", "wait_resume", "skip",
              "create_approval", "wait_approval", "check_approval",
              "record_outcome", "await", "record_failed", "recheck",
              "continue_as_new", "closed"} :
        Goto(l) => pc' \in Internal \cup Awaiting \cup {"closed", "dead"}
  BY DEF Goto, Internal, Awaiting
<1>c. pc \in {"create_approval", "wait_approval", "check_approval", "await",
              "record_failed", "record_outcome"} => cur \in Tasks
  BY DEF IInv, Control
<1> USE <1>0 DEF TypeOK, logVars
<1>1. ASSUME StartRun PROVE TypeOK'
  BY <1>1, <1>g, StartIsProjection DEF StartRun, EventKeys, RunOutcomes
<1>2. ASSUME LoopTop PROVE TypeOK'
  BY <1>2, <1>g DEF LoopTop, RunOutcomes
<1>3. ASSUME RecordRunTerminal PROVE TypeOK'
  <2>1. note \in RunOutcomes
    BY <1>3 DEF RecordRunTerminal, IInv, Control
  <2>2. pg' \in Projections
    BY <1>3, <2>1, RecordRunIsLater DEF RecordRunTerminal
  <2>3. keys' \in EventKeys
    BY <1>3, <2>1 DEF RecordRunTerminal, EventKeys
  <2>4. wf' \in Memories
    <3>1. wf' \in {wf, [wf EXCEPT !.pauseDirty = FALSE], [wf EXCEPT !.resumeDirty = FALSE]}
      BY <1>3 DEF RecordRunTerminal
    <3>2. [wf EXCEPT !.pauseDirty = FALSE] \in Memories
      BY <1>w DEF Memories
    <3>3. [wf EXCEPT !.resumeDirty = FALSE] \in Memories
      BY <1>w DEF Memories
    <3> QED
      BY <1>w, <3>1, <3>2, <3>3
  <2>5. pc' \in Internal \cup Awaiting \cup {"closed", "dead"}
    BY <1>3, <1>g DEF RecordRunTerminal
  <2> QED
    BY <1>3, <2>2, <2>3, <2>4, <2>5 DEF RecordRunTerminal
<1>4. ASSUME WakeFromPause PROVE TypeOK'
  BY <1>4, <1>g DEF WakeFromPause
<1>5. ASSUME PlanSkips PROVE TypeOK'
  <2>1. Unreachable \subseteq Tasks
    BY DEF Unreachable
  <2>2. wf' \in Memories
    BY <1>5, <1>w, <2>1 DEF PlanSkips, Memories
  <2> QED
    BY <1>5, <1>g, <2>1, <2>2 DEF PlanSkips
<1>6. ASSUME RecordTaskSkipped PROVE TypeOK'
  <2>1. FirstOf(todo) \in Tasks
    BY <1>6, FirstOfIsMember DEF RecordTaskSkipped, IInv, Control
  <2>2. pg' \in Projections
    BY <1>6, <2>1, TaskEndsAreLater DEF RecordTaskSkipped
  <2>3. keys' \in EventKeys
    BY <1>6, <2>1 DEF RecordTaskSkipped, EventKeys
  <2> QED
    BY <1>6, <1>g, <2>2, <2>3 DEF RecordTaskSkipped
<1>7. ASSUME FinishRun PROVE TypeOK'
  BY <1>7, <1>g DEF FinishRun, FinalVerdict, RunOutcomes
<1>8. ASSUME HoldBack PROVE TypeOK'
  BY <1>8, <1>g DEF HoldBack
<1>9. ASSUME AskApproval PROVE TypeOK'
  <2>1. Undecided(Ready) \subseteq Tasks
    BY DEF Undecided, Serial, Ready
  <2>2. FirstOf(Undecided(Ready)) \in Tasks
    BY <1>9, <2>1, FirstOfIsMember DEF AskApproval
  <2> QED
    BY <1>9, <1>g, <2>2 DEF AskApproval
<1>10. ASSUME CreateApproval PROVE TypeOK'
  <2>1. approval' \in [Tasks -> ApprovalRows]
    <3>1. cur \in Tasks /\ approval[cur] \in ApprovalRows
      BY <1>10, <1>c DEF CreateApproval
    <3>2. \A row \in {"pending", approval[cur].row} :
             [approval[cur] EXCEPT !.row = row] \in ApprovalRows
      BY <3>1 DEF ApprovalRows
    <3>3. \E row \in {"pending", approval[cur].row} :
             approval' = [approval EXCEPT ![cur] = [approval[cur] EXCEPT !.row = row]]
      BY <1>10, <3>1 DEF CreateApproval
    <3> QED
      BY <3>1, <3>2, <3>3
  <2> QED
    BY <1>10, <1>g, <2>1 DEF CreateApproval
<1>v. ASSUME NEW w \in Memories, w.tries = wf.tries, NEW d \in Decisions,
             cur \in ToStart, pc # "dead", Verdict(w, d)
      PROVE  /\ wf' \in Memories /\ note' \in Decisions
             /\ pc' \in Internal \cup Awaiting \cup {"closed", "dead"}
  <2>1. wf.tries[cur] + 1 \in 0..MaxAttempts
    BY <1>v, NothingUsedYet, ReducerAssumption DEF ReducerAssumption
  <2> QED
    BY <1>v, <1>g, <2>1 DEF Verdict, Memories
<1>11. ASSUME WakeFromApproval PROVE TypeOK'
  <2>1. cur \in ToStart
    BY <1>11, <1>c DEF WakeFromApproval, ToStart
  <2>2. CASE wf.cancel /\ Goto("loop") /\ UNCHANGED <<wf, note>>
    BY <1>11, <1>g, <2>2 DEF WakeFromApproval
  <2>3. CASE wf.decisions[cur] # "none" /\ Verdict(wf, wf.decisions[cur])
    <3>1. wf.decisions[cur] \in Decisions
      BY <1>w, <2>1, <2>3 DEF Memories, ToStart
    <3> QED
      BY <1>11, <1>v, <1>w, <2>1, <2>3, <3>1 DEF WakeFromApproval
  <2> QED
    BY <1>11, <2>2, <2>3 DEF WakeFromApproval
<1>12. ASSUME ApprovalTimeout PROVE TypeOK'
  BY <1>12, <1>g DEF ApprovalTimeout
<1>13. ASSUME CheckApproval PROVE TypeOK'
  <2> DEFINE known == [wf EXCEPT !.decisions[cur] = Found(cur)]
  <2>1. cur \in ToStart /\ cur \in Tasks /\ approval[cur].row # "none"
    BY <1>13, <1>c DEF CheckApproval, ToStart, IInv, Requests
  <2>2. Found(cur) \in Decisions
    BY <2>1 DEF Found, ApprovalRows, Decisions
  <2>3. known \in Memories /\ known.tries = wf.tries
    BY <1>w, <2>1, <2>2 DEF Memories
  <2>4. \/ wf' = known /\ Goto("loop") /\ UNCHANGED note
        \/ Verdict(known, Found(cur))
    BY <1>13 DEF CheckApproval
  <2> HIDE DEF known
  <2> QED
    BY <1>13, <1>g, <1>v, <2>1, <2>2, <2>3, <2>4 DEF CheckApproval
<1>14. ASSUME RecordApprovalOutcome PROVE TypeOK'
  <2> DEFINE n == wf.tries[cur]
             opened == Opened(pg, cur, n, "derived")
  <2>1. cur \in Tasks /\ cur \in InFlight
    BY <1>14, <1>c DEF RecordApprovalOutcome, InFlight
  <2>2. n \in 1..MaxAttempts
    BY <1>w, <2>1, ReducerAssumption DEF IInv, Rounds, ReducerAssumption
  <2>3. ApprovalField \in SUBSET Fields
    BY RunAssumption DEF RunAssumption
  <2>4. pg' \in {Succeeded(opened, cur, n, "derived", ApprovalField),
                 FailedNow(opened, cur, n, "derived")}
    BY <1>14 DEF RecordApprovalOutcome
  <2>5. opened \in Projections
    BY <2>1, <2>2, OpenedIsLater
  <2>6. keys' \in EventKeys
    BY <1>14, <2>1, <2>2, KeyTypes DEF RecordApprovalOutcome
  <2> HIDE DEF n, opened
  <2>7. pg' \in Projections
    <3>1. Succeeded(opened, cur, n, "derived", ApprovalField) \in Projections
      BY <2>1, <2>2, <2>3, <2>5, SucceededIsLater
    <3>2. FailedNow(opened, cur, n, "derived") \in Projections
      BY <2>1, <2>2, <2>5, FailedNowIsLater
    <3> QED
      BY <2>4, <3>1, <3>2
  <2>8. wf' \in Memories
    BY <1>14, <1>w, <2>1 DEF RecordApprovalOutcome, Memories
  <2> QED
    BY <1>14, <1>g, <2>6, <2>7, <2>8 DEF RecordApprovalOutcome
<1>15. ASSUME Dispatch PROVE TypeOK'
  BY <1>15, <1>g DEF Dispatch, Serial, Ready
<1>16. ASSUME RunSerial PROVE TypeOK'
  <2>1. FirstOf(todo) \in todo /\ FirstOf(todo) \in ToStart
    BY <1>16, StartsAreFresh DEF RunSerial
  <2>2. wf.tries[FirstOf(todo)] < MaxAttempts
    BY <1>16, <2>1, NothingUsedYet, ReducerAssumption
    DEF RunSerial, ReducerAssumption
  <2>3. wf' \in Memories /\ act' \in [Tasks -> Executions]
    BY <1>16, <2>1, <2>2, StartTypes DEF RunSerial
  <2> QED
    BY <1>16, <1>g, <2>1, <2>3 DEF RunSerial
<1>17. ASSUME RunParallel PROVE TypeOK'
  <2>1. CASE Start(batch \cap ParallelSafe) /\ Goto("parallel")
             /\ todo' = batch \cap ParallelSafe
    <3>1. \A t \in batch \cap ParallelSafe : wf.tries[t] < MaxAttempts
      BY <1>17, StartsAreFresh, NothingUsedYet, ReducerAssumption
      DEF RunParallel, ReducerAssumption
    <3>2. wf' \in Memories /\ act' \in [Tasks -> Executions]
      BY <2>1, <3>1, StartTypes
    <3> QED
      BY <1>17, <1>g, <2>1, <3>2 DEF RunParallel
  <2>2. CASE Goto("round_done") /\ UNCHANGED <<wf, act, todo>>
    BY <1>17, <1>g, <2>2 DEF RunParallel
  <2> QED
    BY <1>17, <2>1, <2>2 DEF RunParallel
<1>18. ASSUME AwaitNext PROVE TypeOK'
  <2>1. todo # {} => FirstOf(todo) \in Tasks
    BY FirstOfIsMember
  <2> QED
    BY <1>18, <1>g, <2>1 DEF AwaitNext
<1>n. ASSUME NEW b \in BOOLEAN, NextTask(b)
      PROVE  pc' \in Internal \cup Awaiting \cup {"closed", "dead"} /\ todo' \subseteq Tasks
  BY <1>n, NextTaskPlace DEF Internal
<1>19. ASSUME InterpretResult PROVE TypeOK'
  <2>1. cur \in Tasks
    BY <1>19, <1>c DEF InterpretResult
  <2>2. wf.cancel \in BOOLEAN /\ (wf.cancel \/ Policy[cur] = "cancel") \in BOOLEAN
    BY <1>w DEF Memories
  <2>3. ASSUME MayRetry(cur), Start({cur}), UNCHANGED <<pc, todo>>
        PROVE  TypeOK'
    <3>1. wf' \in Memories /\ act' \in [Tasks -> Executions]
      BY <2>1, <2>3, StartTypes DEF MayRetry
    <3> QED
      BY <1>19, <2>3, <3>1 DEF InterpretResult
  <2>4. ASSUME UNCHANGED act, NEW b \in BOOLEAN, NextTask(b),
               \/ wf' = [wf EXCEPT !.completed = @ \cup {cur}]
               \/ wf' = [wf EXCEPT !.failed = @ \cup {cur}]
               \/ wf' = [wf EXCEPT !.failed = @ \cup {cur},
                            !.cancel = @ \/ Policy[cur] = "cancel"]
        PROVE  TypeOK'
    <3>1. wf' \in Memories
      <4>1. [wf EXCEPT !.completed = @ \cup {cur}] \in Memories
        BY <1>w, <2>1 DEF Memories
      <4>2. [wf EXCEPT !.failed = @ \cup {cur}] \in Memories
        BY <1>w, <2>1 DEF Memories
      <4>3. [wf EXCEPT !.failed = @ \cup {cur},
                       !.cancel = @ \/ Policy[cur] = "cancel"] \in Memories
        BY <1>w, <2>1 DEF Memories
      <4> QED
        BY <2>4, <4>1, <4>2, <4>3
    <3> QED
      BY <1>19, <1>n, <2>4, <3>1 DEF InterpretResult
  <2> QED
    <3>1. CASE act[cur].out \in {"completed", "downgraded"}
      BY <1>19, <2>2, <2>4, <3>1 DEF InterpretResult
    <3>2. CASE act[cur].out = "unknown"
      BY <1>19, <2>2, <2>4, <3>2 DEF InterpretResult
    <3>3. CASE act[cur].out = "failed" /\ MayRetry(cur)
      BY <1>19, <2>3, <3>3 DEF InterpretResult
    <3>4. CASE act[cur].out = "failed" /\ ~MayRetry(cur)
      BY <1>19, <2>2, <2>4, <3>4 DEF InterpretResult
    <3>5. act[cur].out # "none" /\ act[cur] \in Executions
      BY <1>19, <2>1 DEF InterpretResult, IInv, Budget
    <3> QED
      BY <3>1, <3>2, <3>3, <3>4, <3>5 DEF Executions, Results
<1>20. ASSUME InterpretError PROVE TypeOK'
  BY <1>20, <1>g DEF InterpretError
<1>21. ASSUME RecordTaskFailed PROVE TypeOK'
  <2> DEFINE n == wf.tries[cur]
             opened == Opened(pg, cur, n, "derived")
  <2>1. cur \in Tasks /\ cur \in InFlight
    BY <1>21, <1>c DEF RecordTaskFailed, InFlight, AtTask
  <2>2. n \in 1..MaxAttempts
    BY <1>w, <2>1, ReducerAssumption DEF IInv, Rounds, ReducerAssumption
  <2>3. pg' \in {pg, FailedNow(opened, cur, n, "derived")}
    BY <1>21 DEF RecordTaskFailed
  <2>4. opened \in Projections
    BY <2>1, <2>2, OpenedIsLater
  <2>5. keys' \in EventKeys
    BY <1>21, <2>1, <2>2, KeyTypes DEF RecordTaskFailed
  <2> HIDE DEF n, opened
  <2>6. pg' \in Projections
    BY <2>1, <2>2, <2>3, <2>4, FailedNowIsLater
  <2>7. wf' \in Memories
    BY <1>21, <1>w, <2>1 DEF RecordTaskFailed, Memories
  <2>8. wf.cancel \in BOOLEAN
    BY <1>w DEF Memories
  <2> QED
    BY <1>21, <1>n, <2>5, <2>6, <2>7, <2>8 DEF RecordTaskFailed
<1>22. ASSUME RoundDone PROVE TypeOK'
  <2>1. wf.dispatched + Cardinality(batch) \in Nat
    BY SMTT(30), <1>w, RunAssumption, FS_Subset, FS_CardinalityType DEF Memories, RunAssumption
  <2>2. wf' \in Memories
    BY <1>22, <1>w, <2>1 DEF RoundDone, Memories
  <2> QED
    BY <1>22, <1>g, <2>2 DEF RoundDone
<1>23. ASSUME RecheckIntent PROVE TypeOK'
  <2>1. wf' \in Memories
    <3>1. wf' \in {wf, [wf EXCEPT !.cancel = TRUE],
                   [wf EXCEPT !.paused = TRUE, !.pauseDirty = TRUE]}
      BY <1>23 DEF RecheckIntent
    <3>2. [wf EXCEPT !.cancel = TRUE] \in Memories
      BY <1>w DEF Memories
    <3>3. [wf EXCEPT !.paused = TRUE, !.pauseDirty = TRUE] \in Memories
      BY <1>w DEF Memories
    <3> QED
      BY <1>w, <3>1, <3>2, <3>3
  <2> QED
    BY <1>23, <1>g, <2>1 DEF RecheckIntent, RunOutcomes
<1>24. ASSUME ContinueAsNew PROVE TypeOK'
  <2>1. wf' \in Memories
    BY <1>24, <1>w DEF ContinueAsNew, Carried, Memories
  <2> QED
    BY <1>24, <1>g, <2>1 DEF ContinueAsNew
<1> QED
  BY <1>1, <1>2, <1>3, <1>4, <1>5, <1>6, <1>7, <1>8, <1>9, <1>10, <1>11, <1>12,
     <1>13, <1>14, <1>15, <1>16, <1>17, <1>18, <1>19, <1>20, <1>21, <1>22, <1>23,
     <1>24 DEF Workflow

-----------------------------------------------------------------------------
(* _interpret: a task that ended is attempted again or judged.             *)
LEMMA EndsHow ==
  ASSUME IInv, InterpretResult
  PROVE  \/ /\ MayRetry(cur) /\ Start({cur}) /\ UNCHANGED <<pc, todo>>
            /\ act[cur].out = "failed"
         \/ /\ UNCHANGED act
            /\ \E b : NextTask(b)
            /\ \/ /\ wf' = [wf EXCEPT !.completed = @ \cup {cur}]
                  /\ act[cur].out \in {"completed", "downgraded"}
               \/ wf' = [wf EXCEPT !.failed = @ \cup {cur}]
               \/ wf' = [wf EXCEPT !.failed = @ \cup {cur},
                            !.cancel = @ \/ Policy[cur] = "cancel"]
<1>1. cur \in Tasks /\ act[cur].phase = "ended"
  BY DEF InterpretResult, IInv, Control
<1>2. act[cur].out # "none" /\ act[cur] \in Executions
  BY <1>1 DEF IInv, Budget, TypeOK
<1>3. act[cur].out \in {"completed", "downgraded", "unknown", "failed"}
  BY <1>2 DEF Executions, Results
<1>4. CASE act[cur].out \in {"completed", "downgraded"}
  BY <1>4 DEF InterpretResult
<1>5. CASE act[cur].out = "unknown"
  BY <1>5 DEF InterpretResult
<1>6. CASE act[cur].out = "failed"
  BY <1>6 DEF InterpretResult
<1> QED
  BY <1>3, <1>4, <1>5, <1>6

(* Every await is entered with what it needs.                              *)
LEMMA ControlStep == IInv /\ Workflow => Control'
<1> SUFFICES ASSUME IInv, Workflow PROVE Control'
  OBVIOUS
<1>0. TypeOK /\ Control
  BY DEF IInv
<1> USE <1>0 DEF Control, AtTask, Goto, TypeOK
<1>1. ASSUME StartRun PROVE Control'
  BY <1>1 DEF StartRun
<1>2. ASSUME LoopTop PROVE Control'
  BY <1>2 DEF LoopTop, RunOutcomes
<1>3. ASSUME RecordRunTerminal PROVE Control'
  BY <1>3 DEF RecordRunTerminal
<1>4. ASSUME WakeFromPause PROVE Control'
  BY <1>4 DEF WakeFromPause
<1>5. ASSUME PlanSkips PROVE Control'
  BY <1>5 DEF PlanSkips
<1>6. ASSUME RecordTaskSkipped PROVE Control'
  BY <1>6 DEF RecordTaskSkipped
<1>7. ASSUME FinishRun PROVE Control'
  BY <1>7 DEF FinishRun, FinalVerdict, RunOutcomes
<1>8. ASSUME HoldBack PROVE Control'
  BY <1>8 DEF HoldBack
<1>9. ASSUME AskApproval PROVE Control'
  <2>1. Undecided(Ready) \subseteq Tasks
    BY DEF Undecided, Serial, Ready
  <2>2. FirstOf(Undecided(Ready)) \in Tasks
    BY <1>9, <2>1, FirstOfIsMember DEF AskApproval
  <2> QED
    BY <1>9, <2>2 DEF AskApproval
<1>10. ASSUME CreateApproval PROVE Control'
  BY <1>10 DEF CreateApproval
<1>11. ASSUME WakeFromApproval PROVE Control'
  <2>1. wf.decisions[cur] # "none" => wf.decisions[cur] \in Decisions
    BY <1>11 DEF WakeFromApproval, Memories
  <2> QED
    BY <1>11, <2>1 DEF WakeFromApproval, Verdict
<1>12. ASSUME ApprovalTimeout PROVE Control'
  BY <1>12 DEF ApprovalTimeout
<1>13. ASSUME CheckApproval PROVE Control'
  <2>1. Found(cur) \in Decisions
    BY <1>13 DEF CheckApproval, Found, IInv, Requests, ApprovalRows, Decisions
  <2> QED
    BY <1>13, <2>1 DEF CheckApproval, Verdict
<1>14. ASSUME RecordApprovalOutcome PROVE Control'
  BY <1>14 DEF RecordApprovalOutcome
<1>15. ASSUME Dispatch PROVE Control'
  BY <1>15 DEF Dispatch, Serial
<1>16. ASSUME RunSerial PROVE Control'
  <2>1. FirstOf(todo) \in todo
    BY <1>16, FirstOfIsMember DEF RunSerial
  <2> QED
    BY <1>16, <2>1 DEF RunSerial
<1>17. ASSUME RunParallel PROVE Control'
  BY <1>17 DEF RunParallel
<1>18. ASSUME AwaitNext PROVE Control'
  <2>1. todo # {} => FirstOf(todo) \in todo
    BY FirstOfIsMember
  <2> QED
    BY <1>18, <2>1 DEF AwaitNext
<1>19. ASSUME InterpretResult PROVE Control'
  <2>1. CASE UNCHANGED <<pc, todo>>
    BY <1>19, <2>1 DEF InterpretResult
  <2>2. CASE \E b : NextTask(b)
    BY <1>19, <2>2, NextTaskPlace DEF InterpretResult
  <2>3. UNCHANGED <<pc, todo>> \/ \E b : NextTask(b)
    BY <1>19, EndsHow
  <2> QED
    BY <2>1, <2>2, <2>3
<1>20. ASSUME InterpretError PROVE Control'
  BY <1>20 DEF InterpretError
<1>21. ASSUME RecordTaskFailed PROVE Control'
  BY <1>21, NextTaskPlace DEF RecordTaskFailed
<1>22. ASSUME RoundDone PROVE Control'
  BY <1>22 DEF RoundDone
<1>23. ASSUME RecheckIntent PROVE Control'
  BY <1>23 DEF RecheckIntent, RunOutcomes
<1>24. ASSUME ContinueAsNew PROVE Control'
  BY <1>24 DEF ContinueAsNew
<1> QED
  BY <1>1, <1>2, <1>3, <1>4, <1>5, <1>6, <1>7, <1>8, <1>9, <1>10, <1>11,
     <1>12, <1>13, <1>14, <1>15, <1>16, <1>17, <1>18, <1>19, <1>20, <1>21,
     <1>22, <1>23, <1>24
     DEF Workflow

(* Requests: the workflow asks before it waits, and waits for cur alone.   *)
LEMMA RequestsStep == IInv /\ Workflow => Requests'
<1> SUFFICES ASSUME IInv, Workflow PROVE Requests'
  OBVIOUS
<1>0. TypeOK /\ Requests /\ Control
  BY DEF IInv
<1> USE <1>0 DEF Requests, Goto, TypeOK
<1>1. ASSUME StartRun PROVE Requests'
  BY <1>1 DEF StartRun
<1>2. ASSUME LoopTop PROVE Requests'
  BY <1>2 DEF LoopTop
<1>3. ASSUME RecordRunTerminal PROVE Requests'
  BY <1>3 DEF RecordRunTerminal
<1>4. ASSUME WakeFromPause PROVE Requests'
  BY <1>4 DEF WakeFromPause
<1>5. ASSUME PlanSkips PROVE Requests'
  BY <1>5 DEF PlanSkips
<1>6. ASSUME RecordTaskSkipped PROVE Requests'
  BY <1>6 DEF RecordTaskSkipped
<1>7. ASSUME FinishRun PROVE Requests'
  BY <1>7 DEF FinishRun
<1>8. ASSUME HoldBack PROVE Requests'
  BY <1>8 DEF HoldBack
<1>9. ASSUME AskApproval PROVE Requests'
  BY <1>9 DEF AskApproval
<1>10. ASSUME CreateApproval PROVE Requests'
  <2>1. cur \in Tasks
    BY <1>10 DEF CreateApproval, Control
  <2>2. approval[cur] \in ApprovalRows /\ cur' = cur
    BY <1>10, <2>1 DEF CreateApproval
  <2> QED
    BY <1>10, <2>1, <2>2 DEF CreateApproval, ApprovalRows
<1>11. ASSUME WakeFromApproval PROVE Requests'
  BY <1>11 DEF WakeFromApproval, Verdict
<1>12. ASSUME ApprovalTimeout PROVE Requests'
  BY <1>12 DEF ApprovalTimeout
<1>13. ASSUME CheckApproval PROVE Requests'
  BY <1>13 DEF CheckApproval, Verdict
<1>14. ASSUME RecordApprovalOutcome PROVE Requests'
  BY <1>14 DEF RecordApprovalOutcome
<1>15. ASSUME Dispatch PROVE Requests'
  BY <1>15 DEF Dispatch
<1>16. ASSUME RunSerial PROVE Requests'
  BY <1>16 DEF RunSerial
<1>17. ASSUME RunParallel PROVE Requests'
  BY <1>17 DEF RunParallel
<1>18. ASSUME AwaitNext PROVE Requests'
  BY <1>18 DEF AwaitNext
<1>19. ASSUME InterpretResult PROVE Requests'
  <2>1. UNCHANGED <<pc, todo>> \/ \E b : NextTask(b)
    BY <1>19, EndsHow
  <2> QED
    BY <1>19, <2>1, NextTaskPlace DEF InterpretResult
<1>20. ASSUME InterpretError PROVE Requests'
  BY <1>20 DEF InterpretError
<1>21. ASSUME RecordTaskFailed PROVE Requests'
  BY <1>21, NextTaskPlace DEF RecordTaskFailed
<1>22. ASSUME RoundDone PROVE Requests'
  BY <1>22 DEF RoundDone
<1>23. ASSUME RecheckIntent PROVE Requests'
  BY <1>23 DEF RecheckIntent
<1>24. ASSUME ContinueAsNew PROVE Requests'
  BY <1>24 DEF ContinueAsNew
<1> QED
  BY <1>1, <1>2, <1>3, <1>4, <1>5, <1>6, <1>7, <1>8, <1>9, <1>10, <1>11,
     <1>12, <1>13, <1>14, <1>15, <1>16, <1>17, <1>18, <1>19, <1>20, <1>21,
     <1>22, <1>23, <1>24
     DEF Workflow

(* Rounds where nothing is in flight and nothing about to start.           *)
LEMMA QuietRounds ==
  ASSUME IInv, InFlight' = {}, ToStart' = {}, InFlight = {},
         Terminal \subseteq Terminal', wf'.tries = wf.tries, pc # "dead"
  PROVE  Rounds'
BY DEF IInv, Rounds

(* Rounds where the workflow only moves.                                   *)
LEMMA SameRounds ==
  ASSUME IInv, InFlight' = InFlight, ToStart' \subseteq ToStart,
         Terminal' = Terminal, wf'.tries = wf.tries, pc # "dead"
  PROVE  Rounds'
BY DEF IInv, Rounds

(* A task is judged, and the loop goes on to the next one of the round.    *)
LEMMA JudgedRounds ==
  ASSUME IInv, AtTask, NEW b, NextTask(b), UNCHANGED <<cur, batch>>,
         Terminal' = Terminal \cup {cur}, wf'.tries = wf.tries
  PROVE  Rounds'
<1>0. cur \in Tasks /\ cur \notin todo /\ todo \subseteq Tasks
  BY DEF IInv, Control, TypeOK, AtTask
<1>1. CASE cur \in ParallelSafe
  <2>1. pc' = "parallel" /\ todo' = todo
    BY <1>1, NextTaskPlace
  <2>2. InFlight' = todo /\ ToStart' = {} /\ InFlight = todo \cup {cur}
    BY <1>0, <1>1, <2>1 DEF InFlight, ToStart, AtTask
  <2>3. pc # "dead"
    BY DEF AtTask
  <2> QED
    BY <1>0, <2>2, <2>3 DEF IInv, Rounds
<1>2. CASE cur \notin ParallelSafe
  <2>1. pc' = "serial" /\ todo' \subseteq todo
    BY <1>2, NextTaskPlace
  <2>2. InFlight' = {} /\ InFlight = {cur}
    BY <1>0, <1>2, <2>1 DEF InFlight, AtTask
  <2>3. ToStart' \subseteq ToStart
    BY <1>2, <2>1 DEF ToStart, AtTask
  <2>4. pc # "dead"
    BY DEF AtTask
  <2> QED
    BY <1>0, <2>2, <2>3, <2>4 DEF IInv, Rounds
<1> QED
  BY <1>1, <1>2

(* Rounds: a task enters the flight unattempted and leaves it judged.      *)
LEMMA RoundsStep == IInv /\ Workflow => Rounds'
<1> SUFFICES ASSUME IInv, Workflow PROVE Rounds'
  OBVIOUS
<1>0. TypeOK /\ Control /\ Rounds
  BY DEF IInv
<1>w. wf \in Memories /\ wf.tries \in [Tasks -> 0..MaxAttempts]
  BY <1>0 DEF TypeOK, Memories
<1> USE <1>0, <1>w DEF TypeOK, InFlight, ToStart, AtTask, Goto
<1>1. ASSUME StartRun PROVE Rounds'
  <2>1. InFlight = {} /\ InFlight' = {} /\ ToStart' = {}
    BY <1>1 DEF StartRun
  <2>2. Terminal \subseteq Terminal' /\ wf'.tries = wf.tries
    BY <1>1 DEF StartRun, Terminal, Memories
  <2> QED
    BY <1>1, <2>1, <2>2, QuietRounds DEF StartRun
<1>2. ASSUME LoopTop PROVE Rounds'
  <2>1. InFlight = {} /\ InFlight' = {} /\ ToStart' = {}
    BY <1>2 DEF LoopTop
  <2>2. Terminal \subseteq Terminal' /\ wf'.tries = wf.tries
    BY <1>2 DEF LoopTop, Terminal, Memories
  <2> QED
    BY <1>2, <2>1, <2>2, QuietRounds DEF LoopTop
<1>3. ASSUME RecordRunTerminal PROVE Rounds'
  <2>1. InFlight = {} /\ InFlight' = {} /\ ToStart' = {}
    BY <1>3 DEF RecordRunTerminal
  <2>2. Terminal \subseteq Terminal' /\ wf'.tries = wf.tries
    BY <1>3 DEF RecordRunTerminal, Terminal, Memories
  <2> QED
    BY <1>3, <2>1, <2>2, QuietRounds DEF RecordRunTerminal
<1>4. ASSUME WakeFromPause PROVE Rounds'
  <2>1. InFlight = {} /\ InFlight' = {} /\ ToStart' = {}
    BY <1>4 DEF WakeFromPause
  <2>2. Terminal \subseteq Terminal' /\ wf'.tries = wf.tries
    BY <1>4 DEF WakeFromPause, Terminal, Memories
  <2> QED
    BY <1>4, <2>1, <2>2, QuietRounds DEF WakeFromPause
<1>5. ASSUME PlanSkips PROVE Rounds'
  <2>1. InFlight = {} /\ InFlight' = {} /\ ToStart' = {}
    BY <1>5 DEF PlanSkips
  <2>2. Terminal \subseteq Terminal' /\ wf'.tries = wf.tries
    BY <1>5 DEF PlanSkips, Terminal, Memories
  <2> QED
    BY <1>5, <2>1, <2>2, QuietRounds DEF PlanSkips
<1>6. ASSUME RecordTaskSkipped PROVE Rounds'
  <2>1. InFlight = {} /\ InFlight' = {} /\ ToStart' = {}
    BY <1>6 DEF RecordTaskSkipped
  <2>2. Terminal \subseteq Terminal' /\ wf'.tries = wf.tries
    BY <1>6 DEF RecordTaskSkipped, Terminal, Memories
  <2> QED
    BY <1>6, <2>1, <2>2, QuietRounds DEF RecordTaskSkipped
<1>7. ASSUME FinishRun PROVE Rounds'
  <2>1. InFlight = {} /\ InFlight' = {} /\ ToStart' = {}
    BY <1>7 DEF FinishRun
  <2>2. Terminal \subseteq Terminal' /\ wf'.tries = wf.tries
    BY <1>7 DEF FinishRun, Terminal, Memories
  <2> QED
    BY <1>7, <2>1, <2>2, QuietRounds DEF FinishRun
<1>8. ASSUME HoldBack PROVE Rounds'
  <2>1. InFlight = {} /\ InFlight' = {} /\ ToStart' = {}
    BY <1>8 DEF HoldBack
  <2>2. Terminal \subseteq Terminal' /\ wf'.tries = wf.tries
    BY <1>8 DEF HoldBack, Terminal, Memories
  <2> QED
    BY <1>8, <2>1, <2>2, QuietRounds DEF HoldBack
<1>9. ASSUME AskApproval PROVE Rounds'
  <2>1. Undecided(Ready) \subseteq Ready /\ Ready \subseteq Tasks \ Terminal
    BY DEF Undecided, Serial, Ready
  <2>2. cur' \in Ready
    BY <1>9, <2>1, FirstOfIsMember DEF AskApproval
  <2>3. InFlight = {} /\ InFlight' = {} /\ ToStart' = {cur'} /\ Terminal' = Terminal
    BY <1>9, <2>1, <2>2 DEF AskApproval, Terminal
  <2>4. wf' = wf /\ pc # "dead"
    BY <1>9 DEF AskApproval
  <2> QED
    BY <2>1, <2>2, <2>3, <2>4 DEF Rounds
<1>10. ASSUME CreateApproval PROVE Rounds'
  <2>1. InFlight' = InFlight /\ ToStart' \subseteq ToStart
    BY <1>10 DEF CreateApproval
  <2>2. Terminal' = Terminal /\ wf'.tries = wf.tries
    BY <1>10 DEF CreateApproval, Terminal
  <2> QED
    BY <1>10, <2>1, <2>2, SameRounds DEF CreateApproval
<1>11. ASSUME WakeFromApproval PROVE Rounds'
  <2>1. cur \in Tasks /\ cur \in ToStart /\ InFlight = {}
    BY <1>11 DEF WakeFromApproval, Control
  <2>2. CASE Goto("loop")
    <3>1. InFlight' = {} /\ ToStart' = {}
      BY <2>2
    <3>2. Terminal' = Terminal /\ wf'.tries = wf.tries
      BY <1>11, <2>2 DEF WakeFromApproval, Terminal, Memories, Verdict
    <3> QED
      BY <1>11, <2>1, <3>1, <3>2, QuietRounds DEF WakeFromApproval
  <2>3. CASE pc' = "record_outcome"
    <3>1. InFlight' = {cur} /\ ToStart' = {}
      BY <1>11, <2>1, <2>3 DEF WakeFromApproval
    <3>2. Terminal' = Terminal /\ wf'.tries = [wf.tries EXCEPT ![cur] = @ + 1]
      BY <1>11, <2>1, <2>3 DEF WakeFromApproval, Terminal, Memories, Verdict
    <3>3. wf.tries[cur] = 0 /\ pc # "dead"
      BY <1>11, <2>1 DEF WakeFromApproval, Rounds
    <3> QED
      BY <2>1, <3>1, <3>2, <3>3 DEF Rounds
  <2> QED
    BY <1>11, <2>2, <2>3 DEF WakeFromApproval, Verdict
<1>12. ASSUME ApprovalTimeout PROVE Rounds'
  <2>1. InFlight' = InFlight /\ ToStart' \subseteq ToStart
    BY <1>12 DEF ApprovalTimeout
  <2>2. Terminal' = Terminal /\ wf'.tries = wf.tries
    BY <1>12 DEF ApprovalTimeout, Terminal
  <2> QED
    BY <1>12, <2>1, <2>2, SameRounds DEF ApprovalTimeout
<1>13. ASSUME CheckApproval PROVE Rounds'
  <2>1. cur \in Tasks /\ cur \in ToStart /\ InFlight = {}
    BY <1>13 DEF CheckApproval, Control
  <2>2. CASE Goto("loop")
    <3>1. InFlight' = {} /\ ToStart' = {}
      BY <2>2
    <3>2. Terminal' = Terminal /\ wf'.tries = wf.tries
      BY <1>13, <2>2 DEF CheckApproval, Terminal, Memories, Verdict
    <3> QED
      BY <1>13, <2>1, <3>1, <3>2, QuietRounds DEF CheckApproval
  <2>3. CASE pc' = "record_outcome"
    <3>1. InFlight' = {cur} /\ ToStart' = {}
      BY <1>13, <2>1, <2>3 DEF CheckApproval
    <3>2. Terminal' = Terminal /\ wf'.tries = [wf.tries EXCEPT ![cur] = @ + 1]
      BY <1>13, <2>1, <2>3 DEF CheckApproval, Terminal, Memories, Verdict
    <3>3. wf.tries[cur] = 0 /\ pc # "dead"
      BY <1>13, <2>1 DEF CheckApproval, Rounds
    <3> QED
      BY <2>1, <3>1, <3>2, <3>3 DEF Rounds
  <2> QED
    BY <1>13, <2>2, <2>3 DEF CheckApproval, Verdict
<1>14. ASSUME RecordApprovalOutcome PROVE Rounds'
  <2>1. cur \in Tasks /\ InFlight = {cur} /\ InFlight' = {} /\ ToStart' = {}
    BY <1>14 DEF RecordApprovalOutcome, Control
  <2>2. Terminal' = Terminal \cup {cur} /\ wf'.tries = wf.tries
    BY <1>14 DEF RecordApprovalOutcome, Terminal, Memories
  <2>3. pc # "dead"
    BY <1>14 DEF RecordApprovalOutcome
  <2> QED
    BY <2>1, <2>2, <2>3 DEF Rounds
<1>15. ASSUME Dispatch PROVE Rounds'
  <2>1. Ready \subseteq Tasks \ Terminal
    BY DEF Ready
  <2>2. InFlight = {} /\ InFlight' = {} /\ ToStart' \subseteq Ready /\ Terminal' = Terminal
    BY <1>15 DEF Dispatch, Serial, Terminal
  <2>3. wf' = wf /\ pc # "dead"
    BY <1>15 DEF Dispatch
  <2> QED
    BY <2>1, <2>2, <2>3 DEF Rounds
<1>16. ASSUME RunSerial PROVE Rounds'
  <2> DEFINE first == FirstOf(todo)
  <2>1. first \in todo /\ first \in ToStart /\ first \in Tasks /\ wf.tries[first] = 0
    BY <1>16, StartsAreFresh, NothingUsedYet DEF RunSerial
  <2>2. Start({first}) /\ cur' = first /\ todo' = todo \ {first} /\ batch' = batch
    BY <1>16 DEF RunSerial
  <2>3. wf.tries[first] < MaxAttempts
    BY <2>1, ReducerAssumption DEF ReducerAssumption
  <2>4. Terminal' = Terminal /\ wf'.tries[first] = 1
        /\ \A t \in Tasks \ {first} : wf'.tries[t] = wf.tries[t]
    BY <2>1, <2>2, <2>3, StartTypes DEF Terminal
  <2>5. first \notin ParallelSafe
    BY <1>16, <2>1 DEF RunSerial, Control
  <2>6. pc = "serial" /\ pc' = "await"
    BY <1>16 DEF RunSerial
  <2> HIDE DEF first
  <2>7. InFlight = {} /\ InFlight' = {first} /\ ToStart' \subseteq ToStart \ {first}
    BY <2>1, <2>2, <2>5, <2>6
  <2> QED
    BY <2>1, <2>4, <2>6, <2>7 DEF Rounds
<1>17. ASSUME RunParallel PROVE Rounds'
  <2> DEFINE some == batch \cap ParallelSafe
  <2>1. CASE Start(some) /\ Goto("parallel") /\ todo' = some
    <3>1. some \subseteq ToStart /\ some \subseteq Tasks
          /\ \A t \in some : wf.tries[t] = 0
      BY <1>17, StartsAreFresh, NothingUsedYet DEF RunParallel
    <3>2. \A t \in some : wf.tries[t] < MaxAttempts
      BY <3>1, ReducerAssumption DEF ReducerAssumption
    <3> HIDE DEF some
    <3>3. Terminal' = Terminal /\ (\A t \in some : wf'.tries[t] = 1)
          /\ \A t \in Tasks \ some : wf'.tries[t] = wf.tries[t]
      BY <2>1, <3>1, <3>2, StartTypes DEF Terminal
    <3>4. InFlight = {} /\ InFlight' = some /\ ToStart' = {} /\ pc # "dead"
      BY <1>17, <2>1, <3>1 DEF RunParallel
    <3> QED
      BY <3>1, <3>3, <3>4 DEF Rounds
  <2>2. CASE Goto("round_done") /\ UNCHANGED <<wf, act, todo>>
    <3>1. InFlight = {} /\ InFlight' = {} /\ ToStart' = {}
      BY <1>17, <2>2 DEF RunParallel
    <3> QED
      BY <1>17, <2>2, <3>1, QuietRounds DEF RunParallel, Terminal
  <2> QED
    BY <1>17, <2>1, <2>2 DEF RunParallel
<1>18. ASSUME AwaitNext PROVE Rounds'
  <2>1. todo # {} => FirstOf(todo) \in todo
    BY FirstOfIsMember
  <2>2. todo \subseteq ParallelSafe
    BY <1>18 DEF AwaitNext, Control
  <2>3. CASE todo = {}
    <3>1. InFlight' = InFlight /\ ToStart' \subseteq ToStart
      BY <1>18, <2>3 DEF AwaitNext
    <3> QED
      BY <1>18, <3>1, SameRounds DEF AwaitNext, Terminal
  <2>4. CASE todo # {}
    <3>1. InFlight' = InFlight /\ ToStart' \subseteq ToStart
      BY <1>18, <2>1, <2>2, <2>4 DEF AwaitNext
    <3> QED
      BY <1>18, <3>1, SameRounds DEF AwaitNext, Terminal
  <2> QED
    BY <2>3, <2>4
<1>19. ASSUME InterpretResult PROVE Rounds'
  <2>1. AtTask /\ cur \in Tasks /\ UNCHANGED <<cur, batch>> /\ pc # "dead"
    BY <1>19 DEF InterpretResult, Control
  <2>2. ASSUME MayRetry(cur), Start({cur}), UNCHANGED <<pc, todo>>
        PROVE  Rounds'
    <3>1. InFlight' = InFlight /\ ToStart' = ToStart /\ cur \in InFlight
      BY <2>1, <2>2
    <3>2. Terminal' = Terminal /\ wf'.tries[cur] = wf.tries[cur] + 1
          /\ \A t \in Tasks \ {cur} : wf'.tries[t] = wf.tries[t]
      BY <2>1, <2>2, StartTypes DEF Terminal, MayRetry
    <3> QED
      BY <2>1, <2>2, <3>1, <3>2 DEF Rounds
  <2>3. ASSUME NEW b, NextTask(b),
               \/ wf' = [wf EXCEPT !.completed = @ \cup {cur}]
               \/ wf' = [wf EXCEPT !.failed = @ \cup {cur}]
               \/ wf' = [wf EXCEPT !.failed = @ \cup {cur},
                            !.cancel = @ \/ Policy[cur] = "cancel"]
        PROVE  Rounds'
    <3>1. Terminal' = Terminal \cup {cur} /\ wf'.tries = wf.tries
      BY <2>3 DEF Terminal, Memories
    <3> QED
      BY <2>1, <2>3, <3>1, JudgedRounds
  <2> QED
    BY <1>19, <2>2, <2>3, EndsHow
<1>20. ASSUME InterpretError PROVE Rounds'
  <2>1. InFlight' = InFlight /\ ToStart' \subseteq ToStart
    BY <1>20 DEF InterpretError
  <2>2. Terminal' = Terminal /\ wf'.tries = wf.tries
    BY <1>20 DEF InterpretError, Terminal
  <2> QED
    BY <1>20, <2>1, <2>2, SameRounds DEF InterpretError
<1>21. ASSUME RecordTaskFailed PROVE Rounds'
  <2>1. AtTask /\ UNCHANGED <<cur, batch>> /\ NextTask(wf.cancel)
    BY <1>21 DEF RecordTaskFailed
  <2>2. Terminal' = Terminal \cup {cur} /\ wf'.tries = wf.tries
    BY <1>21 DEF RecordTaskFailed, Terminal, Memories
  <2> QED
    BY <2>1, <2>2, JudgedRounds
<1>22. ASSUME RoundDone PROVE Rounds'
  <2>1. InFlight = {} /\ InFlight' = {} /\ ToStart' = {}
    BY <1>22 DEF RoundDone
  <2>2. Terminal \subseteq Terminal' /\ wf'.tries = wf.tries
    BY <1>22 DEF RoundDone, Terminal, Memories
  <2> QED
    BY <1>22, <2>1, <2>2, QuietRounds DEF RoundDone
<1>23. ASSUME RecheckIntent PROVE Rounds'
  <2>1. InFlight = {} /\ InFlight' = {} /\ ToStart' = {}
    BY <1>23 DEF RecheckIntent
  <2>2. Terminal \subseteq Terminal' /\ wf'.tries = wf.tries
    <3>1. \/ wf' = wf
          \/ wf' = [wf EXCEPT !.cancel = TRUE]
          \/ wf' = [wf EXCEPT !.paused = TRUE, !.pauseDirty = TRUE]
      BY <1>23 DEF RecheckIntent
    <3>2. CASE wf' = [wf EXCEPT !.cancel = TRUE]
      BY <3>2 DEF Terminal, Memories
    <3>3. CASE wf' = [wf EXCEPT !.paused = TRUE, !.pauseDirty = TRUE]
      BY <3>3 DEF Terminal, Memories
    <3> QED
      BY <3>1, <3>2, <3>3 DEF Terminal
  <2> QED
    BY <1>23, <2>1, <2>2, QuietRounds DEF RecheckIntent
<1>24. ASSUME ContinueAsNew PROVE Rounds'
  <2>1. InFlight = {} /\ InFlight' = {} /\ ToStart' = {}
    BY <1>24 DEF ContinueAsNew
  <2>2. Terminal \subseteq Terminal' /\ wf'.tries = wf.tries
    BY <1>24 DEF ContinueAsNew, Carried, Terminal, Memories
  <2> QED
    BY <1>24, <2>1, <2>2, QuietRounds DEF ContinueAsNew
<1> QED
  BY <1>1, <1>2, <1>3, <1>4, <1>5, <1>6, <1>7, <1>8, <1>9, <1>10, <1>11,
     <1>12, <1>13, <1>14, <1>15, <1>16, <1>17, <1>18, <1>19, <1>20, <1>21,
     <1>22, <1>23, <1>24
     DEF Workflow

-----------------------------------------------------------------------------
(* Budgets that a step of the workflow leaves alone.                       *)
LEMMA SameBudget ==
  ASSUME IInv, UNCHANGED <<act, effects, faults>>, wf'.tries = wf.tries
  PROVE  Budget'
BY DEF IInv, Budget, Owed

(* A verdict on an approval counts an attempt that executes nothing.       *)
LEMMA VerdictBudget ==
  ASSUME IInv, UNCHANGED <<act, effects, faults>>, wf.tries[cur] = 0,
         NEW w \in Memories, w.tries = wf.tries, NEW d, Verdict(w, d)
  PROVE  Budget'
<1>1. wf.tries \in [Tasks -> 0..MaxAttempts] /\ act \in [Tasks -> Executions]
      /\ effects \in [Tasks -> Nat] /\ faults \in Nat
  BY RunAssumption DEF IInv, TypeOK, Memories, RunAssumption
<1>2. wf'.tries = [wf.tries EXCEPT ![cur] = @ + 1]
  BY DEF Verdict, Memories
<1>3. \A t \in Tasks : wf.tries[t] <= wf'.tries[t]
                      /\ wf.tries[t] \in Nat /\ wf'.tries[t] \in Nat
                      /\ (wf'.tries[t] = wf.tries[t] \/ wf'.tries[t] = 1)
  <2> SUFFICES ASSUME NEW t \in Tasks
               PROVE  /\ wf.tries[t] <= wf'.tries[t]
                      /\ wf.tries[t] \in Nat /\ wf'.tries[t] \in Nat
                      /\ wf'.tries[t] = wf.tries[t] \/ wf'.tries[t] = 1
    OBVIOUS
  <2>1. wf.tries[t] \in Nat
    BY <1>1, ReducerAssumption DEF ReducerAssumption
  <2>2. wf'.tries[t] = IF t = cur THEN wf.tries[t] + 1 ELSE wf.tries[t]
    BY <1>1, <1>2
  <2> QED
    BY <2>1, <2>2
<1>4. \A t \in Tasks : act[t].n \in Nat /\ Owed(t) \in {0, 1} /\ Owed(t)' = Owed(t)
  BY <1>1, ReducerAssumption DEF Executions, Owed, ReducerAssumption
<1> SUFFICES ASSUME NEW t \in Tasks
             PROVE  /\ act[t].n <= wf'.tries[t]
                    /\ act[t].phase # "none" => act[t].n >= 1
                    /\ act[t].phase \in {"ran", "ended"} => act[t].out # "none"
                    /\ effects[t] + Owed(t) <= wf'.tries[t] + faults
                    /\ Policy[t] # "retry" => wf'.tries[t] <= 1
  BY <1>4 DEF Budget
<1>5. Budget
  BY DEF IInv
<1> QED
  BY <1>1, <1>3, <1>4, <1>5 DEF Budget

(* A started attempt pays for one execution of its handler; what executed  *)
(* before is over.                                                         *)
LEMMA StartBudget ==
  ASSUME IInv, UNCHANGED <<effects, faults>>,
         NEW started \in SUBSET Tasks, Start(started),
         \A t \in started :
           /\ wf.tries[t] < MaxAttempts
           /\ act[t].phase \in {"none", "ended"}
           /\ Policy[t] = "retry" \/ wf.tries[t] = 0
  PROVE  Budget'
<1>1. wf.tries \in [Tasks -> 0..MaxAttempts] /\ act \in [Tasks -> Executions]
      /\ effects \in [Tasks -> Nat] /\ faults \in Nat
  BY RunAssumption DEF IInv, TypeOK, Memories, RunAssumption
<1>2. /\ \A t \in started : wf'.tries[t] = wf.tries[t] + 1
      /\ \A t \in Tasks \ started : wf'.tries[t] = wf.tries[t]
      /\ \A t \in started : act'[t] =
           [phase |-> "queued", n |-> wf.tries[t] + 1, out |-> "none", lost |-> FALSE]
      /\ \A t \in Tasks \ started : act'[t] = act[t]
  BY StartTypes DEF IInv
<1>3. Budget
  BY DEF IInv
<1>4. ASSUME NEW t \in Tasks, t \notin started
      PROVE  /\ act'[t].n <= wf'.tries[t]
             /\ act'[t].phase # "none" => act'[t].n >= 1
             /\ act'[t].phase \in {"ran", "ended"} => act'[t].out # "none"
             /\ effects'[t] + Owed(t)' <= wf'.tries[t] + faults'
             /\ Policy[t] # "retry" => wf'.tries[t] <= 1
  BY <1>2, <1>3, <1>4 DEF Budget, Owed
<1>5. ASSUME NEW t \in started
      PROVE  /\ act'[t].n <= wf'.tries[t]
             /\ act'[t].phase # "none" => act'[t].n >= 1
             /\ act'[t].phase \in {"ran", "ended"} => act'[t].out # "none"
             /\ effects'[t] + Owed(t)' <= wf'.tries[t] + faults'
             /\ Policy[t] # "retry" => wf'.tries[t] <= 1
  <2>1. wf.tries[t] \in Nat /\ effects[t] \in Nat
    BY <1>1, ReducerAssumption DEF ReducerAssumption
  <2>4. act'[t].n = wf.tries[t] + 1 /\ act'[t].phase = "queued"
    <3> DEFINE fresh == [phase |-> "queued", n |-> wf.tries[t] + 1,
                         out |-> "none", lost |-> FALSE]
    <3>1. act'[t] = fresh
      BY <1>2
    <3>2. fresh.n = wf.tries[t] + 1 /\ fresh.phase = "queued"
      OBVIOUS
    <3> HIDE DEF fresh
    <3> QED
      BY <3>1, <3>2
  <2>2. Owed(t) = 0 /\ Owed(t)' = 1
    BY <2>4 DEF Owed
  <2>3. effects[t] <= wf.tries[t] + faults
    BY <1>3, <2>1, <2>2 DEF Budget
  <2> QED
    BY <1>1, <1>2, <2>1, <2>2, <2>3, <2>4
<1> QED
  BY <1>4, <1>5 DEF Budget

(* Budgets: every attempt the workflow counts is paid for.                 *)
LEMMA BudgetStep == IInv /\ Workflow => Budget'
<1> SUFFICES ASSUME IInv, Workflow PROVE Budget'
  OBVIOUS
<1>0. TypeOK /\ Control
  BY DEF IInv
<1>w. wf \in Memories /\ wf.tries \in [Tasks -> 0..MaxAttempts]
  BY <1>0 DEF TypeOK, Memories
<1> USE <1>0, <1>w DEF TypeOK
<1>1. ASSUME StartRun PROVE Budget'
  BY <1>1, SameBudget DEF StartRun
<1>2. ASSUME LoopTop PROVE Budget'
  BY <1>2, SameBudget DEF LoopTop
<1>3. ASSUME RecordRunTerminal PROVE Budget'
  <2>1. wf'.tries = wf.tries
    BY <1>3 DEF RecordRunTerminal, Memories
  <2> QED
    BY <1>3, <2>1, SameBudget DEF RecordRunTerminal
<1>4. ASSUME WakeFromPause PROVE Budget'
  BY <1>4, SameBudget DEF WakeFromPause
<1>5. ASSUME PlanSkips PROVE Budget'
  <2>1. wf'.tries = wf.tries
    BY <1>5 DEF PlanSkips, Memories
  <2> QED
    BY <1>5, <2>1, SameBudget DEF PlanSkips
<1>6. ASSUME RecordTaskSkipped PROVE Budget'
  BY <1>6, SameBudget DEF RecordTaskSkipped
<1>7. ASSUME FinishRun PROVE Budget'
  BY <1>7, SameBudget DEF FinishRun
<1>8. ASSUME HoldBack PROVE Budget'
  BY <1>8, SameBudget DEF HoldBack
<1>9. ASSUME AskApproval PROVE Budget'
  BY <1>9, SameBudget DEF AskApproval
<1>10. ASSUME CreateApproval PROVE Budget'
  BY <1>10, SameBudget DEF CreateApproval
<1>11. ASSUME WakeFromApproval PROVE Budget'
  <2>1. cur \in ToStart
    BY <1>11 DEF WakeFromApproval, Control, ToStart
  <2>2. CASE UNCHANGED wf
    BY <1>11, <2>2, SameBudget DEF WakeFromApproval
  <2>3. CASE Verdict(wf, wf.decisions[cur])
    BY <1>11, <2>1, <2>3, NothingUsedYet, VerdictBudget DEF WakeFromApproval
  <2> QED
    BY <1>11, <2>2, <2>3 DEF WakeFromApproval
<1>12. ASSUME ApprovalTimeout PROVE Budget'
  BY <1>12, SameBudget DEF ApprovalTimeout
<1>13. ASSUME CheckApproval PROVE Budget'
  <2> DEFINE known == [wf EXCEPT !.decisions[cur] = Found(cur)]
  <2>1. cur \in ToStart /\ cur \in Tasks /\ approval[cur].row # "none"
    BY <1>13 DEF CheckApproval, Control, ToStart, IInv, Requests
  <2>2. Found(cur) \in Decisions
    BY <2>1 DEF Found, ApprovalRows, Decisions
  <2>3. known \in Memories /\ known.tries = wf.tries
    BY <2>1, <2>2 DEF Memories
  <2>4. wf' = known \/ Verdict(known, Found(cur))
    BY <1>13 DEF CheckApproval
  <2> HIDE DEF known
  <2>5. CASE wf' = known
    BY <1>13, <2>3, <2>5, SameBudget DEF CheckApproval
  <2>6. CASE Verdict(known, Found(cur))
    BY <1>13, <2>1, <2>3, <2>6, NothingUsedYet, VerdictBudget DEF CheckApproval
  <2> QED
    BY <2>4, <2>5, <2>6
<1>14. ASSUME RecordApprovalOutcome PROVE Budget'
  <2>1. wf'.tries = wf.tries
    BY <1>14 DEF RecordApprovalOutcome, Memories
  <2> QED
    BY <1>14, <2>1, SameBudget DEF RecordApprovalOutcome
<1>15. ASSUME Dispatch PROVE Budget'
  BY <1>15, SameBudget DEF Dispatch
<1>16. ASSUME RunSerial PROVE Budget'
  <2>1. FirstOf(todo) \in todo /\ FirstOf(todo) \in ToStart
    BY <1>16, StartsAreFresh DEF RunSerial
  <2>2. wf.tries[FirstOf(todo)] = 0 /\ act[FirstOf(todo)].phase = "none"
        /\ FirstOf(todo) \in Tasks
    BY <1>16, <2>1, NothingUsedYet DEF RunSerial
  <2> QED
    BY <1>16, <2>2, StartBudget, ReducerAssumption DEF RunSerial, ReducerAssumption
<1>17. ASSUME RunParallel PROVE Budget'
  <2>1. CASE Start(batch \cap ParallelSafe)
    <3>1. \A t \in batch \cap ParallelSafe :
            wf.tries[t] = 0 /\ act[t].phase = "none"
      BY <1>17, StartsAreFresh, NothingUsedYet DEF RunParallel
    <3> QED
      BY <1>17, <2>1, <3>1, StartBudget, ReducerAssumption
      DEF RunParallel, ReducerAssumption
  <2>2. CASE UNCHANGED <<wf, act, todo>>
    BY <1>17, <2>2, SameBudget DEF RunParallel
  <2> QED
    BY <1>17, <2>1, <2>2 DEF RunParallel
<1>18. ASSUME AwaitNext PROVE Budget'
  BY <1>18, SameBudget DEF AwaitNext
<1>19. ASSUME InterpretResult PROVE Budget'
  <2>1. cur \in Tasks /\ act[cur].phase = "ended"
    BY <1>19 DEF InterpretResult, Control
  <2>2. CASE MayRetry(cur) /\ Start({cur})
    BY <1>19, <2>1, <2>2, StartBudget DEF InterpretResult, MayRetry
  <2>3. ASSUME UNCHANGED act,
               \/ wf' = [wf EXCEPT !.completed = @ \cup {cur}]
               \/ wf' = [wf EXCEPT !.failed = @ \cup {cur}]
               \/ wf' = [wf EXCEPT !.failed = @ \cup {cur},
                            !.cancel = @ \/ Policy[cur] = "cancel"]
        PROVE  Budget'
    <3>1. wf'.tries = wf.tries
      BY <2>3 DEF Memories
    <3> QED
      BY <1>19, <2>3, <3>1, SameBudget DEF InterpretResult
  <2> QED
    BY <1>19, <2>2, <2>3, EndsHow
<1>20. ASSUME InterpretError PROVE Budget'
  BY <1>20, SameBudget DEF InterpretError
<1>21. ASSUME RecordTaskFailed PROVE Budget'
  <2>1. wf'.tries = wf.tries
    BY <1>21 DEF RecordTaskFailed, Memories
  <2> QED
    BY <1>21, <2>1, SameBudget DEF RecordTaskFailed
<1>22. ASSUME RoundDone PROVE Budget'
  <2>1. wf'.tries = wf.tries
    BY <1>22 DEF RoundDone, Memories
  <2> QED
    BY <1>22, <2>1, SameBudget DEF RoundDone
<1>23. ASSUME RecheckIntent PROVE Budget'
  <2>1. \/ wf' = wf
        \/ wf' = [wf EXCEPT !.cancel = TRUE]
        \/ wf' = [wf EXCEPT !.paused = TRUE, !.pauseDirty = TRUE]
    BY <1>23 DEF RecheckIntent
  <2>2. wf'.tries = wf.tries
    BY <2>1 DEF Memories
  <2> QED
    BY <1>23, <2>2, SameBudget DEF RecheckIntent
<1>24. ASSUME ContinueAsNew PROVE Budget'
  <2>1. wf'.tries = wf.tries
    BY <1>24 DEF ContinueAsNew, Carried, Memories
  <2> QED
    BY <1>24, <2>1, SameBudget DEF ContinueAsNew
<1> QED
  BY <1>1, <1>2, <1>3, <1>4, <1>5, <1>6, <1>7, <1>8, <1>9, <1>10, <1>11,
     <1>12, <1>13, <1>14, <1>15, <1>16, <1>17, <1>18, <1>19, <1>20, <1>21,
     <1>22, <1>23, <1>24
     DEF Workflow

-----------------------------------------------------------------------------
(* The surroundings keep the place of the workflow.                        *)
LEMMA PlaceOutside == IInv /\ Outside => Control' /\ Rounds'
<1> SUFFICES ASSUME IInv, Outside PROVE Control' /\ Rounds'
  OBVIOUS
<1>1. SamePlace
  BY OutsideStaysInPlace
<1>2. Terminal' = Terminal /\ InFlight' = InFlight /\ ToStart' = ToStart
  BY <1>1 DEF SamePlace, Terminal, InFlight, ToStart, AtTask
<1>3. Control'
  BY <1>1 DEF IInv, Control, SamePlace, AtTask
<1>4. Rounds'
  BY <1>1, <1>2 DEF IInv, Rounds, SamePlace
<1> QED
  BY <1>3, <1>4

(* Requests: a row never loses its request, nor a signal its decision.     *)
LEMMA RequestsOutside == IInv /\ Outside => Requests'
<1> SUFFICES ASSUME IInv, Outside PROVE Requests'
  OBVIOUS
<1>0. approval \in [Tasks -> ApprovalRows] /\ Requests /\ UNCHANGED <<pc, cur>>
  BY OutsideStaysInPlace DEF IInv, TypeOK, SamePlace
<1>1. ASSUME NEW t \in Tasks, NEW row \in {"approved", "rejected"}, Decide(t, row)
      PROVE  Requests'
  BY <1>0, <1>1 DEF Decide, Requests, ApprovalRows
<1>7. ASSUME NEW t \in Tasks, NEW row \in {"approved", "rejected"},
             CommitDecision(t, row)
      PROVE  Requests'
  BY <1>0, <1>7 DEF CommitDecision, Requests, ApprovalRows
<1>2. ASSUME NEW t \in Tasks, Expire(t)
      PROVE  Requests'
  BY <1>0, <1>2 DEF Expire, Requests, ApprovalRows
<1>3. ASSUME NEW t \in Tasks, SignalDecision(t)
      PROVE  Requests'
  BY <1>0, <1>3 DEF SignalDecision, Requests, ApprovalRows
<1>4. ASSUME UNCHANGED approval
      PROVE  Requests'
  BY <1>0, <1>4 DEF Requests
<1>5. ASSUME NEW t \in Tasks, Activity(t) \/ RetryTask(t) \/ LoseTask(t)
      PROVE  UNCHANGED approval
  BY <1>5 DEF Activity, BeginTask, RunHandler, EndTask, RetryTask, LoseTask
<1>6. ASSUME NEW c \in Commands, Submit(c) \/ Signal(c) \/ TooLate(c)
      PROVE  UNCHANGED approval
  BY <1>6 DEF Submit, Signal, TooLate
<1> QED
  BY <1>1, <1>2, <1>3, <1>4, <1>5, <1>6, <1>7 DEF Outside, Decisive

(* One execution moves, and with it what it owes.                          *)
LEMMA OneExecution ==
  ASSUME IInv, wf'.tries = wf.tries, NEW t \in Tasks, act[t].phase # "none",
         effects' \in [Tasks -> Nat], faults' \in Nat, faults <= faults',
         \A u \in Tasks \ {t} : act'[u] = act[u] /\ effects'[u] = effects[u],
         act'[t].n = act[t].n,
         act'[t].phase \in {"ran", "ended"} => act'[t].out # "none",
         effects'[t] + Owed(t)' + faults <= effects[t] + Owed(t) + faults'
  PROVE  Budget'
<1>1. wf.tries \in [Tasks -> 0..MaxAttempts] /\ act \in [Tasks -> Executions]
      /\ effects \in [Tasks -> Nat] /\ faults \in Nat /\ Budget
  BY RunAssumption DEF IInv, TypeOK, Memories, RunAssumption
<1>2. \A u \in Tasks : wf.tries[u] \in Nat /\ Owed(u) \in Nat /\ Owed(u)' \in Nat
  BY <1>1, ReducerAssumption DEF Owed, ReducerAssumption
<1>3. ASSUME NEW u \in Tasks \ {t}
      PROVE  Owed(u)' = Owed(u)
  BY DEF Owed
<1>4. ASSUME NEW u \in Tasks
      PROVE  effects'[u] + Owed(u)' <= wf.tries[u] + faults'
  <2>1. effects[u] + Owed(u) <= wf.tries[u] + faults
    BY <1>1 DEF Budget
  <2>2. CASE u = t
    BY <1>1, <1>2, <2>1, <2>2
  <2>3. CASE u # t
    BY <1>1, <1>2, <1>3, <2>1, <2>3
  <2> QED
    BY <2>2, <2>3
<1>5. ASSUME NEW u \in Tasks
      PROVE  /\ act'[u].n <= wf.tries[u]
             /\ act'[u].phase # "none" => act'[u].n >= 1
             /\ act'[u].phase \in {"ran", "ended"} => act'[u].out # "none"
             /\ Policy[u] # "retry" => wf.tries[u] <= 1
  BY <1>1 DEF Budget
<1> QED
  BY <1>4, <1>5 DEF Budget

(* Budgets: one execution per attempt, and one per fault.                  *)
LEMMA BudgetOutside == IInv /\ Outside => Budget'
<1> SUFFICES ASSUME IInv, Outside PROVE Budget'
  OBVIOUS
<1>0. TypeOK /\ wf'.tries = wf.tries
  BY OutsideStaysInPlace DEF IInv, SamePlace
<1>1. act \in [Tasks -> Executions] /\ effects \in [Tasks -> Nat] /\ faults \in Nat
  BY <1>0, RunAssumption DEF TypeOK, RunAssumption
<1>2. ASSUME NEW t \in Tasks, BeginTask(t)
      PROVE  Budget'
  <2>1. act[t] \in Executions /\ act' = [act EXCEPT ![t].phase = "begun"]
    BY <1>1, <1>2 DEF BeginTask, Step
  <2>2. act'[t].phase = "begun" /\ act'[t].n = act[t].n
        /\ \A u \in Tasks \ {t} : act'[u] = act[u]
    BY <1>1, <2>1 DEF Executions
  <2>3. Owed(t) = 1 /\ Owed(t)' = 1 /\ UNCHANGED <<effects, faults>>
    BY <1>2, <2>2 DEF BeginTask, Owed
  <2> QED
    BY <1>0, <1>1, <1>2, <2>2, <2>3, OneExecution DEF BeginTask
<1>3. ASSUME NEW t \in Tasks, RunHandler(t)
      PROVE  Budget'
  <2>1. act[t] \in Executions /\ act[t].phase = "begun" /\ UNCHANGED faults
    BY <1>1, <1>3 DEF RunHandler
  <2>2. Outcomes[t] \subseteq Results
    BY RunAssumption DEF RunAssumption
  <2>3. /\ \/ act' = [act EXCEPT ![t].phase = "error"] /\ UNCHANGED effects
           \/ \E out \in Results \cup {"downgraded"} :
                /\ act' = [act EXCEPT ![t].phase = "ran", ![t].out = out]
                /\ effects' = effects \/ effects' = [effects EXCEPT ![t] = @ + 1]
    BY <1>3, <2>2 DEF RunHandler, Step
  <2>4. /\ act'[t].n = act[t].n /\ \A u \in Tasks \ {t} : act'[u] = act[u]
        /\ \/ act'[t].phase = "error"
           \/ act'[t].phase = "ran" /\ act'[t].out # "none"
    <3>1. CASE act' = [act EXCEPT ![t].phase = "error"]
      BY <1>1, <2>1, <3>1 DEF Executions
    <3>2. ASSUME NEW out \in Results \cup {"downgraded"},
                 act' = [act EXCEPT ![t].phase = "ran", ![t].out = out]
          PROVE  /\ act'[t].n = act[t].n /\ \A u \in Tasks \ {t} : act'[u] = act[u]
                 /\ act'[t].phase = "ran" /\ act'[t].out # "none"
      <4>1. out # "none"
        BY DEF Results
      <4> QED
        BY <1>1, <2>1, <3>2, <4>1 DEF Executions
    <3> QED
      BY <2>3, <3>1, <3>2
  <2>5. /\ effects' \in [Tasks -> Nat] /\ effects'[t] <= effects[t] + 1
        /\ \A u \in Tasks \ {t} : effects'[u] = effects[u]
    BY <1>1, <2>3
  <2>6. Owed(t) = 1 /\ Owed(t)' = 0
    BY <2>1, <2>4 DEF Owed
  <2>7. effects'[t] + Owed(t)' + faults <= effects[t] + Owed(t) + faults'
    BY <1>1, <2>1, <2>5, <2>6
  <2> QED
    BY <1>0, <1>1, <2>1, <2>4, <2>5, <2>7, OneExecution
<1>4. ASSUME NEW t \in Tasks, EndTask(t)
      PROVE  Budget'
  <2>1. act[t] \in Executions /\ act[t].phase = "ran" /\ UNCHANGED <<effects, faults>>
    BY <1>1, <1>4 DEF EndTask
  <2>2. \/ act' = [act EXCEPT ![t].phase = "error"]
        \/ act' = [act EXCEPT ![t].phase = "ended"]
    BY <1>4 DEF EndTask, Step
  <2>3. /\ act'[t].n = act[t].n /\ act'[t].out = act[t].out
        /\ act'[t].phase \in {"error", "ended"}
        /\ \A u \in Tasks \ {t} : act'[u] = act[u]
    BY <1>1, <2>1, <2>2 DEF Executions
  <2>4. act[t].out # "none"
    BY <2>1 DEF IInv, Budget
  <2>5. Owed(t) = 0 /\ Owed(t)' = 0
    BY <2>1, <2>3 DEF Owed
  <2> QED
    BY <1>0, <1>1, <2>1, <2>3, <2>4, <2>5, OneExecution
<1>5. ASSUME NEW t \in Tasks, RetryTask(t)
      PROVE  Budget'
  <2>1. act[t] \in Executions /\ act[t].phase \in {"begun", "ran"}
        /\ UNCHANGED effects /\ faults' = faults + 1
    BY <1>1, <1>5 DEF RetryTask, Fault
  <2>2. act' = [act EXCEPT ![t].phase = "queued", ![t].out = "none"]
    BY <1>5 DEF RetryTask
  <2>3. /\ act'[t].n = act[t].n /\ act'[t].phase = "queued"
        /\ \A u \in Tasks \ {t} : act'[u] = act[u]
    BY <1>1, <2>1, <2>2 DEF Executions
  <2>4. Owed(t) \in {0, 1} /\ Owed(t)' = 1
    BY <2>3 DEF Owed
  <2>5. effects'[t] + Owed(t)' + faults <= effects[t] + Owed(t) + faults'
    BY <1>1, <2>1, <2>4
  <2> QED
    BY <1>0, <1>1, <2>1, <2>3, <2>5, OneExecution
<1>6. ASSUME NEW t \in Tasks, LoseTask(t)
      PROVE  Budget'
  <2>1. act[t] \in Executions /\ act[t].phase # "none"
        /\ UNCHANGED effects /\ faults' = faults + 1
    BY <1>1, <1>6 DEF LoseTask, Fault
  <2>2. act' = [act EXCEPT ![t].lost = TRUE]
    BY <1>6 DEF LoseTask
  <2>3. /\ act'[t].n = act[t].n /\ act'[t].phase = act[t].phase
        /\ act'[t].out = act[t].out
        /\ \A u \in Tasks \ {t} : act'[u] = act[u]
    BY <1>1, <2>1, <2>2 DEF Executions
  <2>4. Owed(t) \in {0, 1} /\ Owed(t)' = Owed(t)
    BY <2>3 DEF Owed
  <2>5. effects'[t] + Owed(t)' + faults <= effects[t] + Owed(t) + faults'
    BY <1>1, <2>1, <2>4
  <2>6. act'[t].phase \in {"ran", "ended"} => act'[t].out # "none"
    BY <2>3 DEF IInv, Budget
  <2> QED
    BY <1>0, <1>1, <2>1, <2>3, <2>5, <2>6, OneExecution
<1>7. ASSUME NEW t \in Tasks, Decisive(t) \/ Expire(t) \/ SignalDecision(t)
      PROVE  Budget'
  BY <1>0, <1>7, SameBudget DEF Decisive, Decide, CommitDecision, Expire, SignalDecision
<1>8. ASSUME NEW c \in Commands, Submit(c) \/ TooLate(c)
      PROVE  Budget'
  BY <1>0, <1>8, SameBudget DEF Submit, TooLate
<1>9. ASSUME faults' \in {faults, faults + 1}, UNCHANGED <<act, effects>>
      PROVE  Budget'
  <2>1. wf.tries \in [Tasks -> 0..MaxAttempts]
    BY <1>0 DEF TypeOK, Memories
  <2>2. \A t \in Tasks : wf.tries[t] \in Nat /\ effects[t] \in Nat /\ Owed(t) \in Nat
                        /\ Owed(t)' = Owed(t)
    BY <1>1, <1>9, <2>1, ReducerAssumption DEF Owed, ReducerAssumption
  <2>3. Budget
    BY DEF IInv
  <2>4. ASSUME NEW t \in Tasks
        PROVE  effects[t] + Owed(t) <= wf.tries[t] + faults'
    BY <1>1, <1>9, <2>2, <2>3 DEF Budget
  <2> QED
    BY <1>0, <1>9, <2>2, <2>3, <2>4 DEF Budget
<1>10. ASSUME NEW c \in Commands, Signal(c)
       PROVE  Budget'
  BY <1>9, <1>10 DEF Signal, Fault
<1> QED
  BY <1>2, <1>3, <1>4, <1>5, <1>6, <1>7, <1>8, <1>10 DEF Outside, Activity

-----------------------------------------------------------------------------
(* A workflow that failed stands nowhere and has nothing in flight.        *)
LEMMA FailedWorkflow == IInv /\ WorkflowFails => IInv'
<1> SUFFICES ASSUME IInv, WorkflowFails PROVE IInv'
  OBVIOUS
<1>1. /\ pc' = "dead" /\ faults' = faults + 1 /\ faults' \in 0..MaxFaults
      /\ UNCHANGED <<logVars, approval, wf, batch, todo, cur, note, act, cmd,
                     effects, unknowns>>
  BY RunAssumption DEF WorkflowFails, Fault, Goto, IInv, TypeOK, RunAssumption
<1>2. TypeOK'
  BY <1>1 DEF IInv, TypeOK, logVars
<1>3. Control'
  BY <1>1 DEF Control, AtTask
<1>4. Requests'
  BY <1>1 DEF IInv, Requests
<1>5. InFlight' = {} /\ ToStart' = {}
  BY <1>1 DEF InFlight, ToStart, AtTask
<1>6. Rounds'
  BY <1>1, <1>5 DEF Rounds
<1>7. Budget'
  <2>1. \A t \in Tasks : wf.tries[t] \in Nat /\ effects[t] \in Nat /\ Owed(t) \in Nat
                        /\ Owed(t)' = Owed(t)
    BY <1>1, ReducerAssumption DEF Owed, IInv, TypeOK, Memories, ReducerAssumption
  <2>2. faults \in Nat /\ Budget
    BY RunAssumption DEF IInv, TypeOK, RunAssumption
  <2>3. ASSUME NEW t \in Tasks
        PROVE  effects[t] + Owed(t) <= wf.tries[t] + faults'
    BY <1>1, <2>1, <2>2 DEF Budget
  <2> QED
    BY <1>1, <2>1, <2>2, <2>3 DEF Budget
<1> QED
  BY <1>2, <1>3, <1>4, <1>6, <1>7 DEF IInv

(* A run begins with nothing attempted, requested or spent.                *)
LEMMA InitIInv == Init => IInv
<1> SUFFICES ASSUME Init PROVE IInv
  OBVIOUS
<1>1. NoActivity \in Executions
  BY ReducerAssumption DEF NoActivity, Executions, ReducerAssumption
<1>2. wf \in Memories /\ wf.tries = [t \in Tasks |-> 0]
  BY ReducerAssumption DEF Init, Memories, ReducerAssumption
<1>3. approval \in [Tasks -> ApprovalRows]
  BY DEF Init, ApprovalRows
<1>4. keys \in EventKeys
  BY DEF Init, EventKeys
<1>5. pg \in Projections
  BY DEF Init, EmptyProjection, Projections, RunStatuses, TaskStatuses, AttemptStatuses
<1>6. TypeOK
  BY <1>1, <1>2, <1>3, <1>4, <1>5, RunAssumption
  DEF Init, TypeOK, Awaiting, RunAssumption
<1>7. Control /\ Requests
  BY DEF Init, Control, Requests, AtTask
<1>8. Rounds
  BY DEF Init, Rounds, InFlight, ToStart, AtTask
<1>9. Budget
  <2>1. \A t \in Tasks : act[t].phase = "none" /\ act[t].n = 0 /\ Owed(t) = 0
    BY DEF Init, NoActivity, Owed
  <2>2. \A t \in Tasks : wf.tries[t] = 0 /\ effects[t] = 0
    BY <1>2 DEF Init
  <2>3. faults = 0
    BY DEF Init
  <2>4. ASSUME NEW t \in Tasks
        PROVE  /\ act[t].n <= wf.tries[t]
               /\ act[t].phase \notin {"ran", "ended"}
               /\ effects[t] + Owed(t) <= wf.tries[t] + faults
               /\ wf.tries[t] <= 1
    BY <2>1, <2>2, <2>3
  <2> QED
    BY <2>1, <2>4 DEF Budget
<1> QED
  BY <1>6, <1>7, <1>8, <1>9 DEF IInv

(* Steps of the workflow, of its surroundings, its failure, and stutters   *)
(* keep the invariant.                                                     *)
LEMMA NextIInv == IInv /\ [Next]_vars => IInv'
<1> SUFFICES ASSUME IInv, [Next]_vars PROVE IInv'
  OBVIOUS
<1>1. CASE Workflow
  BY <1>1, TypeWorkflow, ControlStep, RequestsStep, RoundsStep, BudgetStep DEF IInv
<1>2. CASE Outside
  BY <1>2, TypeOutside, PlaceOutside, RequestsOutside, BudgetOutside DEF IInv
<1>3. CASE WorkflowFails
  BY <1>3, FailedWorkflow
<1>4. CASE UNCHANGED vars
  BY <1>4 DEF vars, IInv, TypeOK, Control, Requests, Rounds, Budget, InFlight,
              ToStart, AtTask, Owed, Terminal
<1> QED
  BY <1>1, <1>2, <1>3, <1>4, NextIsEither

(* The inductive invariant of the run.                                     *)
THEOREM Inductive == Spec => []IInv
BY InitIInv, NextIInv, PTL DEF Spec

(* Every variable of a run keeps its type; in particular every projection   *)
(* is one the reducer can produce, no attempt is numbered beyond           *)
(* MaxAttempts, and a workflow waits only for tasks of the graph.          *)
THEOREM RunTypes == Spec => []TypeOK
<1>1. IInv => TypeOK
  BY DEF IInv
<1> QED
  BY <1>1, Inductive, PTL

(* Retries are bounded, whatever the graph, the policies, the handlers,    *)
(* the order of results and the faults: a handler runs once per attempt    *)
(* the workflow counted, plus once for every fault of the infrastructure,  *)
(* and a task whose policy is not retry is attempted once.                 *)
THEOREM RetriesAreBounded == Spec => []BoundedExecutions
<1>1. IInv => BoundedExecutions
  <2> SUFFICES ASSUME IInv, NEW t \in Tasks
               PROVE  effects[t] <= wf.tries[t] + faults
    BY DEF BoundedExecutions, IInv, Budget
  <2>1. wf.tries[t] \in Nat /\ effects[t] \in Nat /\ faults \in Nat
    BY ReducerAssumption, RunAssumption
    DEF IInv, TypeOK, Memories, ReducerAssumption, RunAssumption
  <2>2. Owed(t) \in {0, 1} /\ effects[t] + Owed(t) <= wf.tries[t] + faults
    BY DEF IInv, Budget, Owed
  <2> QED
    BY <2>1, <2>2
<1> QED
  BY <1>1, Inductive, PTL

-----------------------------------------------------------------------------
(* The workflow and its log: what the workflow believes is what its log    *)
(* says, and every activity appends only what the reducer accepts.         *)

(* The answer the workflow would take for a completion.                    *)
Finished(t) ==
  act[t].phase = "ended" /\ act[t].out \in {"completed", "downgraded"} /\ ~act[t].lost

(* Nothing has been attempted when the log is opened.                      *)
Fresh == pc = "start_run" => wf.completed = {} /\ \A t \in Tasks : wf.tries[t] = 0

(* The log knows every task from its first two events on.                  *)
Known ==
  \A t \in Tasks :
    pc \notin {"start_run", "dead"} \/ act[t].phase # "none" => pg.task[t] # "absent"

(* The key that ends an attempt is used once, and by the attempt it names; *)
(* record_task_failed acts on executions that can no longer answer.        *)
EndedOnce ==
  /\ \A t \in Tasks, k \in 1..MaxAttempts : <<t, k>> \in keys.ended => k <= wf.tries[t]
  /\ pc = "record_outcome" =>
       act[cur].phase = "none" /\ <<cur, wf.tries[cur]>> \notin keys.ended
  /\ pc = "record_failed" => act[cur].lost \/ act[cur].phase = "error"
  /\ \A t \in Tasks :
       act[t].phase \in {"queued", "begun", "ran"} /\ ~act[t].lost =>
         <<t, act[t].n>> \notin keys.ended

(* Tasks are skipped behind failures only.                                 *)
Verdicts ==
  /\ wf.failed = {} => wf.skipped = {}
  /\ pc = "record" /\ note = "completed" => AllTerminal /\ wf.failed = {}

(* What was answered, remembered or concluded as completed is in the log.  *)
FollowsLog ==
  pg.ok =>
    /\ \A t \in wf.completed : pg.task[t] = "completed"
    /\ \A t \in Tasks : Finished(t) => pg.task[t] = "completed"
    /\ CompletedMeansEverything

CInv == Fresh /\ Known /\ EndedOnce /\ Verdicts /\ FollowsLog

-----------------------------------------------------------------------------
(* The transactions that end an attempt use its key.                       *)
LEMMA KeyOfTheEnd ==
  ASSUME keys \in EventKeys, NEW t, NEW k
  PROVE  Ended(t, k).ended = keys.ended \cup {<<t, k>>}
<1> DEFINE begun == keys.begun \cup {<<t, k>>}
           ended == keys.ended \cup {<<t, k>>}
<1> HIDE DEF begun, ended
<1>1. [keys EXCEPT !.begun = begun, !.ended = ended].ended = ended
  BY DEF EventKeys
<1> QED
  BY <1>1 DEF Ended, begun, ended

(* The log only grows: what it says completed stays so.                    *)
LEMMA StillFollows ==
  ASSUME TypeOK, FollowsLog, Later(pg, pg'), wf'.completed \subseteq wf.completed,
         \A t \in Tasks : Finished(t)' => Finished(t) \/ pg'.task[t] = "completed",
         \/ pg'.run = "completed" => pg.run = "completed"
         \/ pg'.ok => \A t \in Tasks : pg'.task[t] = "completed"
  PROVE  FollowsLog'
<1>1. wf.completed \subseteq Tasks
  BY DEF TypeOK, Memories
<1> SUFFICES ASSUME pg'.ok
             PROVE  /\ \A t \in wf'.completed : pg'.task[t] = "completed"
                    /\ \A t \in Tasks : Finished(t)' => pg'.task[t] = "completed"
                    /\ pg'.run = "completed" =>
                         \A t \in Tasks : pg'.task[t] = "completed"
  BY DEF FollowsLog, CompletedMeansEverything
<1>2. pg.ok /\ \A t \in Tasks : pg.task[t] = "completed" => pg'.task[t] = "completed"
  BY DEF Later
<1> QED
  BY <1>1, <1>2 DEF FollowsLog, CompletedMeansEverything

(* Steps of the workflow that judge no task and start none.                *)
LEMMA PlainStep ==
  ASSUME TypeOK, CInv, UNCHANGED act, keys'.ended = keys.ended, Later(pg, pg'),
         \/ pg'.run = "completed" => pg.run = "completed"
         \/ pg'.ok => \A t \in Tasks : pg'.task[t] = "completed",
         wf'.completed = wf.completed, wf'.failed = wf.failed, wf'.tries = wf.tries,
         wf.skipped \subseteq wf'.skipped,
         wf'.failed = {} => wf'.skipped = {},
         pc \notin {"start_run", "dead"},
         pc' \notin {"start_run", "record_outcome", "record_failed"},
         pc' = "record" /\ note' = "completed" => AllTerminal /\ wf.failed = {}
  PROVE  CInv'
<1>1. Fresh'
  BY DEF Fresh
<1>2. Known'
  BY DEF CInv, Known, Later
<1>3. EndedOnce'
  BY DEF CInv, EndedOnce
<1>4. Verdicts'
  BY DEF Verdicts, AllTerminal, Terminal
<1>5. \A t \in Tasks : Finished(t)' = Finished(t)
  BY DEF Finished
<1>6. FollowsLog'
  BY <1>5, StillFollows DEF CInv
<1> QED
  BY <1>1, <1>2, <1>3, <1>4, <1>6 DEF CInv

(* ... and write nothing.                                                  *)
LEMMA QuietStep ==
  ASSUME TypeOK, CInv, UNCHANGED <<pg, keys, act>>,
         wf'.completed = wf.completed, wf'.failed = wf.failed,
         wf'.skipped = wf.skipped, wf'.tries = wf.tries,
         pc \notin {"start_run", "dead"},
         pc' \notin {"start_run", "record_outcome", "record_failed"},
         pc' = "record" /\ note' = "completed" => AllTerminal /\ wf.failed = {}
  PROVE  CInv'
<1>1. Later(pg, pg')
  BY DEF Later
<1>2. wf'.failed = {} => wf'.skipped = {}
  BY DEF CInv, Verdicts
<1> QED
  BY <1>1, <1>2, PlainStep

(* A new attempt has a number nothing ended with.                          *)
LEMMA StartStep ==
  ASSUME TypeOK, CInv, UNCHANGED <<pg, keys>>,
         NEW started \in SUBSET Tasks, Start(started),
         \A t \in started : wf.tries[t] < MaxAttempts,
         pc \notin {"start_run", "dead"},
         pc' \notin {"start_run", "record", "record_outcome", "record_failed"}
  PROVE  CInv'
<1>1. /\ wf'.completed = wf.completed /\ wf'.failed = wf.failed
      /\ wf'.skipped = wf.skipped
      /\ \A t \in started : wf'.tries[t] = wf.tries[t] + 1
      /\ \A t \in Tasks \ started : wf'.tries[t] = wf.tries[t]
      /\ \A t \in started : act'[t] =
           [phase |-> "queued", n |-> wf.tries[t] + 1, out |-> "none", lost |-> FALSE]
      /\ \A t \in Tasks \ started : act'[t] = act[t]
  BY StartTypes
<1>2. \A t \in Tasks : wf.tries[t] \in Nat
  BY ReducerAssumption DEF TypeOK, Memories, ReducerAssumption
<1>3. \A t \in started : act'[t].phase = "queued" /\ act'[t].n = wf.tries[t] + 1
  <2> SUFFICES ASSUME NEW t \in started
               PROVE  act'[t].phase = "queued" /\ act'[t].n = wf.tries[t] + 1
    OBVIOUS
  <2> DEFINE fresh == [phase |-> "queued", n |-> wf.tries[t] + 1,
                       out |-> "none", lost |-> FALSE]
  <2>1. act'[t] = fresh
    BY <1>1
  <2>2. fresh.phase = "queued" /\ fresh.n = wf.tries[t] + 1
    OBVIOUS
  <2> HIDE DEF fresh
  <2> QED
    BY <2>1, <2>2
<1>4. Fresh' /\ Known'
  BY DEF Fresh, CInv, Known
<1>5. EndedOnce'
  <2>1. ASSUME NEW t \in Tasks, NEW k \in 1..MaxAttempts, <<t, k>> \in keys.ended
        PROVE  k <= wf'.tries[t]
    <3>1. k <= wf.tries[t] /\ k \in Nat
      BY <2>1, ReducerAssumption DEF CInv, EndedOnce, ReducerAssumption
    <3>2. wf'.tries[t] \in {wf.tries[t], wf.tries[t] + 1}
      BY <1>1
    <3> QED
      BY <1>2, <3>1, <3>2
  <2>2. ASSUME NEW t \in Tasks, act'[t].phase \in {"queued", "begun", "ran"},
               ~act'[t].lost
        PROVE  <<t, act'[t].n>> \notin keys.ended
    <3>1. CASE t \in started
      <4>1. wf.tries[t] + 1 \in 1..MaxAttempts /\ ~(wf.tries[t] + 1 <= wf.tries[t])
        BY <1>2, <3>1, ReducerAssumption DEF ReducerAssumption
      <4> QED
        BY <1>3, <3>1, <4>1 DEF CInv, EndedOnce
    <3>2. CASE t \notin started
      BY <1>1, <2>2, <3>2 DEF CInv, EndedOnce
    <3> QED
      BY <3>1, <3>2
  <2> QED
    BY <2>1, <2>2 DEF EndedOnce
<1>6. Verdicts'
  BY <1>1 DEF CInv, Verdicts
<1>7. ASSUME NEW t \in Tasks, Finished(t)'
      PROVE  Finished(t)
  BY <1>1, <1>3, <1>7 DEF Finished
<1>8. FollowsLog'
  BY <1>1, <1>7, StillFollows DEF CInv, Later
<1> QED
  BY <1>4, <1>5, <1>6, <1>8 DEF CInv

(* A verdict on an approval: no handler of the task ever ran.              *)
LEMMA VerdictStep ==
  ASSUME IInv, CInv, UNCHANGED <<pg, keys, act, cur>>, cur \in ToStart,
         NEW w \in Memories, w.completed = wf.completed, w.failed = wf.failed,
         w.skipped = wf.skipped, w.tries = wf.tries,
         NEW d, Verdict(w, d), pc \notin {"start_run", "dead"}
  PROVE  CInv'
<1>1. wf.tries[cur] = 0 /\ act[cur].phase = "none" /\ cur \in Tasks
  BY NothingUsedYet
<1>2. /\ wf'.completed = wf.completed /\ wf'.failed = wf.failed
      /\ wf'.skipped = wf.skipped /\ wf'.tries = [wf.tries EXCEPT ![cur] = @ + 1]
      /\ pc' = "record_outcome"
  BY DEF Verdict, Memories, Goto
<1>3. wf.tries \in [Tasks -> Nat]
  BY ReducerAssumption DEF IInv, TypeOK, Memories, ReducerAssumption
<1>4. wf'.tries[cur] = 1 /\ \A t \in Tasks \ {cur} : wf'.tries[t] = wf.tries[t]
  BY <1>1, <1>2, <1>3
<1>5. Fresh' /\ Known' /\ Verdicts'
  BY <1>2 DEF Fresh, CInv, Known, Verdicts
<1>6. EndedOnce'
  <2>1. ASSUME NEW k \in 1..MaxAttempts
        PROVE  <<cur, k>> \notin keys.ended
    BY <1>1, <2>1, ReducerAssumption DEF CInv, EndedOnce, ReducerAssumption
  <2>2. 1 \in 1..MaxAttempts
    BY ReducerAssumption DEF ReducerAssumption
  <2> QED
    BY <1>1, <1>2, <1>4, <2>1, <2>2 DEF CInv, EndedOnce
<1>7. \A t \in Tasks : Finished(t)' = Finished(t)
  BY DEF Finished
<1>8. FollowsLog'
  BY <1>2, <1>7, StillFollows DEF CInv, Later, IInv
<1> QED
  BY <1>5, <1>6, <1>8 DEF CInv

(* A task is judged: completed if the log says so, or failed.              *)
LEMMA JudgedStep ==
  ASSUME IInv, CInv, UNCHANGED act, cur \in Tasks, SameRun(pg, pg'),
         keys'.ended \subseteq keys.ended \cup {<<cur, wf.tries[cur]>>},
         act[cur].phase \notin {"queued", "begun", "ran"} \/ act[cur].lost,
         wf'.tries = wf.tries, wf'.skipped = wf.skipped,
         \/ /\ wf'.completed = wf.completed \cup {cur} /\ wf'.failed = wf.failed
            /\ pg'.ok => pg'.task[cur] = "completed"
         \/ /\ wf'.completed = wf.completed /\ wf'.failed = wf.failed \cup {cur},
         pc \notin {"start_run", "dead"}, pc' \in {"parallel", "serial", "loop"}
  PROVE  CInv'
<1>1. Fresh' /\ Known' /\ Verdicts'
  BY DEF Fresh, CInv, Known, SameRun, Later, Verdicts
<1>2. EndedOnce'
  <2>1. wf.tries[cur] \in Nat
    BY ReducerAssumption DEF IInv, TypeOK, Memories, ReducerAssumption
  <2>2. ASSUME NEW t \in Tasks, NEW k \in 1..MaxAttempts, <<t, k>> \in keys'.ended
        PROVE  k <= wf.tries[t]
    <3>1. CASE <<t, k>> \in keys.ended
      BY <3>1 DEF CInv, EndedOnce
    <3>2. CASE t = cur /\ k = wf.tries[cur]
      BY <2>1, <3>2
    <3> QED
      BY <2>2, <3>1, <3>2
  <2>3. ASSUME NEW t \in Tasks, act[t].phase \in {"queued", "begun", "ran"}, ~act[t].lost
        PROVE  <<t, act[t].n>> \notin keys'.ended
    BY <2>3 DEF CInv, EndedOnce
  <2> QED
    BY <2>2, <2>3 DEF EndedOnce
<1>3. wf.completed \subseteq Tasks
  BY DEF IInv, TypeOK, Memories
<1>4. \A t \in Tasks : Finished(t)' = Finished(t)
  BY DEF Finished
<1>5. FollowsLog'
  BY <1>3, <1>4 DEF CInv, FollowsLog, CompletedMeansEverything, SameRun, Later
<1> QED
  BY <1>1, <1>2, <1>5 DEF CInv

-----------------------------------------------------------------------------
(* One execution moves: it may use its own key to end, and only if it ends *)
(* well is its task to be found completed.                                 *)
LEMMA ExecutionStep ==
  ASSUME IInv, CInv, SamePlace, NEW t \in Tasks, act[t].phase # "none",
         \A u \in Tasks \ {t} : act'[u] = act[u],
         act'[t].n = act[t].n, act'[t].phase # "none",
         act[t].lost => act'[t].lost,
         act[t].phase = "error" => act'[t].phase = "error",
         SameRun(pg, pg'),
         keys'.ended \subseteq keys.ended \cup {<<t, act[t].n>>},
         act'[t].phase \in {"queued", "begun", "ran"} /\ ~act'[t].lost =>
           /\ act[t].phase \in {"queued", "begun", "ran"}
           /\ keys'.ended = keys.ended,
         Finished(t)' /\ pg'.ok => pg'.task[t] = "completed"
  PROVE  CInv'
<1>0. TypeOK /\ Control
  BY DEF IInv
<1>1. Fresh' /\ Verdicts'
  BY DEF Fresh, CInv, Verdicts, SamePlace, AllTerminal, Terminal
<1>2. Known'
  BY DEF CInv, Known, SamePlace, SameRun, Later
<1>3. EndedOnce'
  <2>1. ASSUME NEW u \in Tasks, NEW k \in 1..MaxAttempts, <<u, k>> \in keys'.ended
        PROVE  k <= wf'.tries[u]
    BY <2>1 DEF CInv, EndedOnce, SamePlace, IInv, Budget
  <2>2. ASSUME pc' = "record_outcome"
        PROVE  act'[cur'].phase = "none" /\ <<cur', wf'.tries[cur']>> \notin keys'.ended
    <3>1. pc = "record_outcome" /\ cur' = cur /\ wf'.tries = wf.tries /\ cur \in Tasks
      BY <1>0, <2>2 DEF SamePlace, Control
    <3>2. act[cur].phase = "none" /\ <<cur, wf.tries[cur]>> \notin keys.ended
      BY <3>1 DEF CInv, EndedOnce
    <3> QED
      BY <3>1, <3>2
  <2>3. ASSUME pc' = "record_failed"
        PROVE  act'[cur'].lost \/ act'[cur'].phase = "error"
    <3>1. pc = "record_failed" /\ cur' = cur /\ cur \in Tasks
      BY <1>0, <2>3 DEF SamePlace, Control
    <3>2. act[cur].lost \/ act[cur].phase = "error"
      BY <3>1 DEF CInv, EndedOnce
    <3> QED
      BY <3>1, <3>2
  <2>4. ASSUME NEW u \in Tasks, act'[u].phase \in {"queued", "begun", "ran"},
               ~act'[u].lost
        PROVE  <<u, act'[u].n>> \notin keys'.ended
    <3>1. CASE u = t
      BY <2>4, <3>1 DEF CInv, EndedOnce
    <3>2. CASE u # t
      BY <2>4, <3>2 DEF CInv, EndedOnce
    <3> QED
      BY <3>1, <3>2
  <2> QED
    BY <2>1, <2>2, <2>3, <2>4 DEF EndedOnce
<1>4. \A u \in Tasks \ {t} : Finished(u)' = Finished(u)
  BY DEF Finished
<1>5. wf.completed \subseteq Tasks /\ wf'.completed = wf.completed
  BY <1>0 DEF TypeOK, Memories, SamePlace
<1>6. FollowsLog'
  BY <1>4, <1>5 DEF CInv, FollowsLog, CompletedMeansEverything, SameRun, Later
<1> QED
  BY <1>1, <1>2, <1>3, <1>6 DEF CInv

(* Steps around the workflow that touch neither the log nor an execution.  *)
LEMMA BystanderStep ==
  ASSUME CInv, SamePlace, UNCHANGED <<pg, keys, act>>
  PROVE  CInv'
<1>1. Terminal' = Terminal
  BY DEF SamePlace, Terminal
<1> QED
  BY <1>1 DEF SamePlace, CInv, Fresh, Known, EndedOnce, Verdicts, FollowsLog, Finished,
              AllTerminal, CompletedMeansEverything

(* The surroundings of the workflow.                                       *)
LEMMA CompletionOutside == IInv /\ CInv /\ ~Ambiguity /\ Outside => CInv'
<1> SUFFICES ASSUME IInv, CInv, ~Ambiguity, Outside PROVE CInv'
  OBVIOUS
<1>0. TypeOK /\ SamePlace
  BY OutsideStaysInPlace DEF IInv
<1>1. act \in [Tasks -> Executions] /\ pg \in Projections /\ SameRun(pg, pg)
  BY <1>0 DEF TypeOK, SameRun, Later
<1>2. ASSUME NEW t \in Tasks, BeginTask(t)
      PROVE  CInv'
  <2>1. act[t] \in Executions /\ act[t].phase = "queued"
        /\ act' = [act EXCEPT ![t].phase = "begun"]
    BY <1>1, <1>2 DEF BeginTask, Step
  <2>2. /\ act'[t].phase = "begun" /\ act'[t].n = act[t].n /\ act'[t].lost = act[t].lost
        /\ \A u \in Tasks \ {t} : act'[u] = act[u]
    BY <1>1, <2>1 DEF Executions
  <2>3. SameRun(pg, pg')
    BY <1>1, <1>2, <2>1, NumberOfExecution, OpenedIsLater DEF BeginTask
  <2>4. keys'.ended = keys.ended
    BY <1>0, <1>2 DEF BeginTask, Begun, TypeOK, EventKeys
  <2>5. ~Finished(t)'
    BY <2>2 DEF Finished
  <2> QED
    BY <1>0, <2>1, <2>2, <2>3, <2>4, <2>5, ExecutionStep
<1>3. ASSUME NEW t \in Tasks, RunHandler(t)
      PROVE  CInv'
  <2>1. act[t] \in Executions /\ act[t].phase = "begun" /\ UNCHANGED <<pg, keys>>
    BY <1>1, <1>3 DEF RunHandler, logVars
  <2>2. Outcomes[t] \subseteq Results
    BY RunAssumption DEF RunAssumption
  <2>3. \/ act' = [act EXCEPT ![t].phase = "error"]
        \/ \E out \in Results \cup {"downgraded"} :
             act' = [act EXCEPT ![t].phase = "ran", ![t].out = out]
    BY <1>3, <2>2 DEF RunHandler, Step
  <2>4. /\ act'[t].phase \in {"error", "ran"} /\ act'[t].n = act[t].n
        /\ act'[t].lost = act[t].lost /\ \A u \in Tasks \ {t} : act'[u] = act[u]
    <3>1. CASE act' = [act EXCEPT ![t].phase = "error"]
      BY <1>1, <2>1, <3>1 DEF Executions
    <3>2. ASSUME NEW out \in Results \cup {"downgraded"},
                 act' = [act EXCEPT ![t].phase = "ran", ![t].out = out]
          PROVE  /\ act'[t].phase = "ran" /\ act'[t].n = act[t].n
                 /\ act'[t].lost = act[t].lost
                 /\ \A u \in Tasks \ {t} : act'[u] = act[u]
      BY <1>1, <2>1, <3>2 DEF Executions
    <3> QED
      BY <2>3, <3>1, <3>2
  <2>5. ~Finished(t)'
    BY <2>4 DEF Finished
  <2> QED
    BY <1>0, <1>1, <2>1, <2>4, <2>5, ExecutionStep
<1>4. ASSUME NEW t \in Tasks, EndTask(t)
      PROVE  CInv'
  <2> DEFINE n == act[t].n
  <2>1. act[t] \in Executions /\ act[t].phase = "ran" /\ n \in 1..MaxAttempts
    BY <1>1, <1>4, NumberOfExecution DEF EndTask
  <2>2. \/ act' = [act EXCEPT ![t].phase = "error"] /\ UNCHANGED <<pg, keys>>
        \/ act' = [act EXCEPT ![t].phase = "ended"] /\ Commit(t)
    BY <1>4 DEF EndTask, Step, logVars
  <2>3. /\ act'[t].n = n /\ act'[t].out = act[t].out /\ act'[t].lost = act[t].lost
        /\ act'[t].phase \in {"error", "ended"}
        /\ \A u \in Tasks \ {t} : act'[u] = act[u]
    BY <1>1, <2>1, <2>2 DEF Executions
  <2>4. SameRun(pg, pg')
    BY <1>1, <2>1, <2>2, CommitTypes
  <2>5. keys'.ended \subseteq keys.ended \cup {<<t, n>>}
    BY <1>0, <2>2, KeyOfTheEnd DEF Commit, TypeOK
  <2>6. ASSUME Finished(t)', pg'.ok
        PROVE  pg'.task[t] = "completed"
    <3>1. act'[t].phase = "ended" /\ ~act[t].lost /\ act[t].out \in {"completed", "downgraded"}
      BY <2>3, <2>6 DEF Finished
    <3>2. Commit(t)
      <4>1. act' # [act EXCEPT ![t].phase = "error"]
        BY <1>1, <2>1, <3>1 DEF Executions
      <4> QED
        BY <2>2, <4>1
    <3>3. <<t, n>> \notin keys.ended
      BY <2>1, <3>1 DEF CInv, EndedOnce
    <3>4. pg.task[t] # "absent"
      BY <2>1 DEF CInv, Known
    <3>5. pg' = Succeeded(pg, t, n, "drawn", Output(t))
      BY <3>1, <3>2 DEF Commit
    <3> HIDE DEF n
    <3> QED
      BY <1>1, <2>1, <2>6, <3>3, <3>4, <3>5, OutputType, SucceededIsLater
  <2> QED
    BY <1>0, <2>1, <2>3, <2>4, <2>5, <2>6, ExecutionStep
<1>5. ASSUME NEW t \in Tasks, RetryTask(t)
      PROVE  CInv'
  <2>1. act[t] \in Executions /\ act[t].phase \in {"begun", "ran"} /\ UNCHANGED <<pg, keys>>
        /\ act' = [act EXCEPT ![t].phase = "queued", ![t].out = "none"]
    BY <1>1, <1>5 DEF RetryTask, logVars
  <2>2. /\ act'[t].n = act[t].n /\ act'[t].phase = "queued" /\ act'[t].lost = act[t].lost
        /\ \A u \in Tasks \ {t} : act'[u] = act[u]
    BY <1>1, <2>1 DEF Executions
  <2>3. ~Finished(t)'
    BY <2>2 DEF Finished
  <2> QED
    BY <1>0, <1>1, <2>1, <2>2, <2>3, ExecutionStep
<1>6. ASSUME NEW t \in Tasks, LoseTask(t)
      PROVE  CInv'
  <2>1. act[t] \in Executions /\ act[t].phase \in {"queued", "begun", "ran", "ended"}
        /\ UNCHANGED <<pg, keys>> /\ act' = [act EXCEPT ![t].lost = TRUE]
    BY <1>1, <1>6 DEF LoseTask, logVars
  <2>2. /\ act'[t].n = act[t].n /\ act'[t].phase = act[t].phase /\ act'[t].lost
        /\ \A u \in Tasks \ {t} : act'[u] = act[u]
    BY <1>1, <2>1 DEF Executions
  <2>3. ~Finished(t)'
    BY <2>2 DEF Finished
  <2> QED
    BY <1>0, <1>1, <2>1, <2>2, <2>3, ExecutionStep
<1>7. ASSUME NEW t \in Tasks, Decisive(t) \/ Expire(t) \/ SignalDecision(t)
      PROVE  CInv'
  BY <1>0, <1>7, BystanderStep DEF Decisive, Decide,
      CommitDecision, Expire, SignalDecision, logVars
<1>8. ASSUME NEW c \in Commands, Submit(c) \/ Signal(c) \/ TooLate(c)
      PROVE  CInv'
  BY <1>0, <1>8, BystanderStep DEF Submit, Signal, TooLate, logVars
<1> QED
  BY <1>2, <1>3, <1>4, <1>5, <1>6, <1>7, <1>8 DEF Outside, Activity

-----------------------------------------------------------------------------
(* The workflow: it concludes nothing the log does not say.                *)
LEMMA CompletionWorkflow == IInv /\ CInv /\ Workflow => CInv'
<1> SUFFICES ASSUME IInv, CInv, Workflow PROVE CInv'
  OBVIOUS
<1>0. TypeOK /\ Control
  BY DEF IInv
<1>w. wf \in Memories /\ wf.tries \in [Tasks -> 0..MaxAttempts]
  BY <1>0 DEF TypeOK, Memories
<1> USE <1>0, <1>w DEF TypeOK, Goto, logVars
<1>1. ASSUME StartRun PROVE CInv'
  <2>1. /\ pg' \in Projections /\ pg'.run = "running"
        /\ \A t \in Tasks : pg'.task[t] = "pending"
    BY <1>1, StartIsProjection DEF StartRun
  <2>2. wf.completed = {} /\ (\A t \in Tasks : act[t].phase = "none")
        /\ UNCHANGED <<wf, act, cur>> /\ pc' = "loop"
    <3>1. wf.completed = {} /\ (\A t \in Tasks : wf.tries[t] = 0)
      BY <1>1 DEF StartRun, CInv, Fresh
    <3>2. \A t \in Tasks : act[t] \in Executions
      BY DEF TypeOK
    <3> QED
      BY <1>1, <3>1, <3>2 DEF StartRun, IInv, Budget, Executions
  <2>3. keys'.ended = keys.ended
    BY <1>1 DEF StartRun, TypeOK, EventKeys
  <2>4. EndedOnce'
    BY <2>2, <2>3 DEF CInv, EndedOnce
  <2>5. FollowsLog'
    BY <2>1, <2>2 DEF FollowsLog, Finished, CompletedMeansEverything
  <2>6. Fresh' /\ Known' /\ Verdicts'
    BY <2>1, <2>2 DEF CInv, Fresh, Known, Verdicts
  <2> QED
    BY <2>4, <2>5, <2>6 DEF CInv
<1>2. ASSUME LoopTop PROVE CInv'
  BY <1>2, QuietStep DEF LoopTop
<1>3. ASSUME RecordRunTerminal PROVE CInv'
  <2>1. note \in RunOutcomes
    BY <1>3 DEF RecordRunTerminal, IInv, Control
  <2>2. pg' = pg \/ pg' = RecordRun(pg, note)
    BY <1>3 DEF RecordRunTerminal
  <2>3. Later(pg, pg') /\ (pg'.run = "completed" /\ note # "completed"
                          => pg.run = "completed")
    BY <2>1, <2>2, RecordRunIsLater DEF Later
  <2>4. ASSUME note = "completed", pg'.ok
        PROVE  \A t \in Tasks : pg'.task[t] = "completed"
    <3>1. Tasks \subseteq wf.completed
      BY <1>3, <2>4 DEF RecordRunTerminal, CInv, Verdicts, AllTerminal, Terminal
    <3> QED
      BY <2>3, <2>4, <3>1 DEF Later, CInv, FollowsLog
  <2>5. keys'.ended = keys.ended
    BY <1>3 DEF RecordRunTerminal, EventKeys
  <2>6. /\ wf'.completed = wf.completed /\ wf'.failed = wf.failed
        /\ wf'.skipped = wf.skipped /\ wf'.tries = wf.tries
    <3>1. \/ wf' = wf
          \/ wf' = [wf EXCEPT !.pauseDirty = FALSE]
          \/ wf' = [wf EXCEPT !.resumeDirty = FALSE]
      BY <1>3 DEF RecordRunTerminal
    <3> QED
      BY <3>1 DEF Memories
  <2>7. pc = "record" /\ pc' \in {"paused", "resumed", "closed"} /\ UNCHANGED act
    BY <1>3 DEF RecordRunTerminal
  <2>8. wf'.failed = {} => wf'.skipped = {}
    BY <2>6 DEF CInv, Verdicts
  <2> QED
    BY <2>3, <2>4, <2>5, <2>6, <2>7, <2>8, PlainStep
<1>4. ASSUME WakeFromPause PROVE CInv'
  BY <1>4, QuietStep DEF WakeFromPause
<1>5. ASSUME PlanSkips PROVE CInv'
  <2>1. /\ wf'.completed = wf.completed /\ wf'.failed = wf.failed
        /\ wf'.skipped = wf.skipped \cup Unreachable /\ wf'.tries = wf.tries
    BY <1>5 DEF PlanSkips, Memories
  <2>2. ASSUME wf.failed = {}, wf.skipped = {}
        PROVE  Unreachable = {}
    <3>1. \A t : Deps[t] \cap (wf.failed \cup wf.skipped \cup {}) = {}
      BY <2>2
    <3>2. \A t \in Unreachable : t \in {}
      BY <3>1 DEF Unreachable
    <3> QED
      BY <3>2
  <2>3. wf'.failed = {} => wf'.skipped = {}
    BY <2>1, <2>2 DEF CInv, Verdicts
  <2>4. pc = "plan" /\ pc' \in {"dispatch", "skip"} /\ UNCHANGED <<pg, keys, act>>
    BY <1>5 DEF PlanSkips
  <2> QED
    BY <2>1, <2>3, <2>4, PlainStep DEF Later
<1>6. ASSUME RecordTaskSkipped PROVE CInv'
  <2>1. FirstOf(todo) \in Tasks
    BY <1>6, FirstOfIsMember DEF RecordTaskSkipped, IInv, Control
  <2>2. SameRun(pg, pg')
    <3> DEFINE skipped == TaskSkipped(pg, FirstOf(todo))
    <3>1. SameRun(pg, skipped)
      BY <2>1, TaskEndsAreLater
    <3>2. SameRun(pg, pg)
      BY DEF SameRun, Later
    <3>3. pg' \in {pg, skipped}
      BY <1>6 DEF RecordTaskSkipped
    <3> HIDE DEF skipped
    <3> QED
      BY <3>1, <3>2, <3>3
  <2>3. keys'.ended = keys.ended
    BY <1>6 DEF RecordTaskSkipped, EventKeys
  <2>4. pc = "skip" /\ pc' \in {"dispatch", "skip"} /\ UNCHANGED <<wf, act>>
    BY <1>6 DEF RecordTaskSkipped
  <2>5. wf.failed = {} => wf.skipped = {}
    BY DEF CInv, Verdicts
  <2> QED
    BY <2>2, <2>3, <2>4, <2>5, PlainStep DEF SameRun
<1>7. ASSUME FinishRun PROVE CInv'
  <2>1. note' = "completed" => AllTerminal /\ wf.failed = {}
    BY <1>7 DEF FinishRun, FinalVerdict
  <2> QED
    BY <1>7, <2>1, QuietStep DEF FinishRun
<1>8. ASSUME HoldBack PROVE CInv'
  BY <1>8, QuietStep DEF HoldBack
<1>9. ASSUME AskApproval PROVE CInv'
  BY <1>9, QuietStep DEF AskApproval
<1>10. ASSUME CreateApproval PROVE CInv'
  BY <1>10, QuietStep DEF CreateApproval
<1>11. ASSUME WakeFromApproval PROVE CInv'
  <2>1. cur \in ToStart
    BY <1>11 DEF WakeFromApproval, Control, ToStart
  <2>2. CASE UNCHANGED wf /\ pc' = "loop"
    BY <1>11, <2>2, QuietStep DEF WakeFromApproval
  <2>3. CASE Verdict(wf, wf.decisions[cur])
    BY <1>11, <2>1, <2>3, VerdictStep DEF WakeFromApproval
  <2> QED
    BY <1>11, <2>2, <2>3 DEF WakeFromApproval
<1>12. ASSUME ApprovalTimeout PROVE CInv'
  BY <1>12, QuietStep DEF ApprovalTimeout
<1>13. ASSUME CheckApproval PROVE CInv'
  <2> DEFINE known == [wf EXCEPT !.decisions[cur] = Found(cur)]
  <2>1. cur \in ToStart /\ cur \in Tasks /\ approval[cur].row # "none"
    BY <1>13 DEF CheckApproval, Control, ToStart, IInv, Requests
  <2>2. Found(cur) \in Decisions
    BY <2>1 DEF Found, ApprovalRows, Decisions
  <2>3. /\ known \in Memories /\ known.completed = wf.completed
        /\ known.failed = wf.failed /\ known.skipped = wf.skipped
        /\ known.tries = wf.tries
    BY <2>1, <2>2 DEF Memories
  <2>4. (wf' = known /\ pc' = "loop") \/ Verdict(known, Found(cur))
    BY <1>13 DEF CheckApproval
  <2> HIDE DEF known
  <2>5. CASE wf' = known /\ pc' = "loop"
    BY <1>13, <2>3, <2>5, QuietStep DEF CheckApproval
  <2>6. CASE Verdict(known, Found(cur))
    BY <1>13, <2>1, <2>3, <2>6, VerdictStep DEF CheckApproval
  <2> QED
    BY <2>4, <2>5, <2>6
<1>14. ASSUME RecordApprovalOutcome PROVE CInv'
  <2> DEFINE n == wf.tries[cur]
             opened == Opened(pg, cur, n, "derived")
  <2>1. cur \in Tasks /\ cur \in InFlight
    BY <1>14 DEF RecordApprovalOutcome, InFlight, Control
  <2>2. n \in 1..MaxAttempts
    BY <2>1, ReducerAssumption DEF IInv, Rounds, ReducerAssumption
  <2>3. act[cur].phase = "none" /\ <<cur, n>> \notin keys.ended
        /\ pg.task[cur] # "absent"
    BY <1>14, <2>1 DEF RecordApprovalOutcome, CInv, EndedOnce, Known
  <2>4. ApprovalField \in SUBSET Fields
    BY RunAssumption DEF RunAssumption
  <2>5. opened \in Projections /\ SameRun(pg, opened)
    BY <2>1, <2>2, OpenedIsLater
  <2>6. keys'.ended = keys.ended \cup {<<cur, n>>}
    BY <1>14, KeyOfTheEnd DEF RecordApprovalOutcome
  <2>7. /\ pc = "record_outcome" /\ pc' = "loop" /\ UNCHANGED act
        /\ \/ /\ wf' = [wf EXCEPT !.completed = @ \cup {cur}]
              /\ pg' = Succeeded(opened, cur, n, "derived", ApprovalField)
           \/ /\ wf' = [wf EXCEPT !.failed = @ \cup {cur},
                             !.cancel = @ \/ Policy[cur] = "cancel"]
              /\ pg' = FailedNow(opened, cur, n, "derived")
    BY <1>14 DEF RecordApprovalOutcome
  <2> HIDE DEF n, opened
  <2>8. CASE /\ wf' = [wf EXCEPT !.completed = @ \cup {cur}]
             /\ pg' = Succeeded(opened, cur, n, "derived", ApprovalField)
    <3>1. opened.task[cur] # "absent"
      BY <2>1, <2>3, <2>5 DEF SameRun, Later
    <3>2. SameRun(opened, pg') /\ (pg'.ok => pg'.task[cur] = "completed")
      BY <2>1, <2>2, <2>3, <2>4, <2>5, <2>8, <3>1, SucceededIsLater
    <3>3. SameRun(pg, pg')
      BY <2>5, <3>2, SameRunTransitive
    <3>4. /\ wf'.completed = wf.completed \cup {cur} /\ wf'.failed = wf.failed
          /\ wf'.skipped = wf.skipped /\ wf'.tries = wf.tries
      BY <2>8 DEF Memories
    <3> QED
      BY <2>1, <2>3, <2>6, <2>7, <3>2, <3>3, <3>4, JudgedStep DEF n
  <2>9. CASE /\ wf' = [wf EXCEPT !.failed = @ \cup {cur},
                             !.cancel = @ \/ Policy[cur] = "cancel"]
             /\ pg' = FailedNow(opened, cur, n, "derived")
    <3>1. SameRun(opened, pg')
      BY <2>1, <2>2, <2>5, <2>9, FailedNowIsLater
    <3>2. SameRun(pg, pg')
      BY <2>5, <3>1, SameRunTransitive
    <3>3. /\ wf'.completed = wf.completed /\ wf'.failed = wf.failed \cup {cur}
          /\ wf'.skipped = wf.skipped /\ wf'.tries = wf.tries
      BY <2>9 DEF Memories
    <3> QED
      BY <2>1, <2>3, <2>6, <2>7, <3>2, <3>3, JudgedStep DEF n
  <2> QED
    BY <2>7, <2>8, <2>9
<1>15. ASSUME Dispatch PROVE CInv'
  BY <1>15, QuietStep DEF Dispatch
<1>16. ASSUME RunSerial PROVE CInv'
  <2>1. FirstOf(todo) \in Tasks /\ wf.tries[FirstOf(todo)] = 0
    BY <1>16, StartsAreFresh, NothingUsedYet DEF RunSerial
  <2> QED
    BY <1>16, <2>1, StartStep, ReducerAssumption DEF RunSerial, ReducerAssumption
<1>17. ASSUME RunParallel PROVE CInv'
  <2>1. CASE Start(batch \cap ParallelSafe) /\ pc' = "parallel"
    <3>1. \A t \in batch \cap ParallelSafe : wf.tries[t] = 0
      BY <1>17, StartsAreFresh, NothingUsedYet DEF RunParallel
    <3> QED
      BY <1>17, <2>1, <3>1, StartStep, ReducerAssumption
      DEF RunParallel, ReducerAssumption
  <2>2. CASE UNCHANGED <<wf, act, todo>> /\ pc' = "round_done"
    BY <1>17, <2>2, QuietStep DEF RunParallel
  <2> QED
    BY <1>17, <2>1, <2>2 DEF RunParallel
<1>18. ASSUME AwaitNext PROVE CInv'
  BY <1>18, QuietStep DEF AwaitNext
<1>19. ASSUME InterpretResult PROVE CInv'
  <2>1. cur \in Tasks /\ act[cur].phase = "ended" /\ ~act[cur].lost
        /\ pc = "await" /\ UNCHANGED <<pg, keys, cur>>
    BY <1>19 DEF InterpretResult, Control
  <2>2. CASE MayRetry(cur) /\ Start({cur}) /\ UNCHANGED <<pc, todo>>
    BY <2>1, <2>2, StartStep DEF MayRetry
  <2>3. ASSUME UNCHANGED act, NEW b, NextTask(b),
               \/ /\ wf' = [wf EXCEPT !.completed = @ \cup {cur}]
                  /\ act[cur].out \in {"completed", "downgraded"}
               \/ wf' = [wf EXCEPT !.failed = @ \cup {cur}]
               \/ wf' = [wf EXCEPT !.failed = @ \cup {cur},
                            !.cancel = @ \/ Policy[cur] = "cancel"]
        PROVE  CInv'
    <3>1. pc' \in {"parallel", "serial"}
      BY <2>3, NextTaskPlace
    <3>2. SameRun(pg, pg')
      BY <2>1 DEF SameRun, Later
    <3>3. act[cur].out \in {"completed", "downgraded"} /\ pg.ok
            => pg.task[cur] = "completed"
      BY <2>1 DEF CInv, FollowsLog, Finished
    <3>4. CASE /\ wf' = [wf EXCEPT !.completed = @ \cup {cur}]
               /\ act[cur].out \in {"completed", "downgraded"}
      <4>1. /\ wf'.completed = wf.completed \cup {cur} /\ wf'.failed = wf.failed
            /\ wf'.skipped = wf.skipped /\ wf'.tries = wf.tries
        BY <3>4 DEF Memories
      <4> QED
        BY <2>1, <2>3, <3>1, <3>2, <3>3, <3>4, <4>1, JudgedStep
    <3>5. CASE \/ wf' = [wf EXCEPT !.failed = @ \cup {cur}]
               \/ wf' = [wf EXCEPT !.failed = @ \cup {cur},
                            !.cancel = @ \/ Policy[cur] = "cancel"]
      <4>1. /\ wf'.completed = wf.completed /\ wf'.failed = wf.failed \cup {cur}
            /\ wf'.skipped = wf.skipped /\ wf'.tries = wf.tries
        <5>1. CASE wf' = [wf EXCEPT !.failed = @ \cup {cur}]
          BY <5>1 DEF Memories
        <5>2. CASE wf' = [wf EXCEPT !.failed = @ \cup {cur},
                            !.cancel = @ \/ Policy[cur] = "cancel"]
          BY <5>2 DEF Memories
        <5> QED
          BY <3>5, <5>1, <5>2
      <4> QED
        BY <2>1, <2>3, <3>1, <3>2, <4>1, JudgedStep
    <3> QED
      BY <2>3, <3>4, <3>5
  <2> QED
    BY <1>19, <2>2, <2>3, EndsHow
<1>20. ASSUME InterpretError PROVE CInv'
  <2>1. /\ pc = "await" /\ pc' = "record_failed"
        /\ act[cur].lost \/ act[cur].phase = "error"
        /\ UNCHANGED <<pg, keys, wf, act, cur>>
    BY <1>20 DEF InterpretError
  <2> QED
    BY <2>1 DEF CInv, Fresh, Known, EndedOnce, Verdicts, FollowsLog, Finished,
                CompletedMeansEverything
<1>21. ASSUME RecordTaskFailed PROVE CInv'
  <2> DEFINE n == wf.tries[cur]
             opened == Opened(pg, cur, n, "derived")
  <2>1. cur \in Tasks /\ cur \in InFlight
    BY <1>21 DEF RecordTaskFailed, InFlight, AtTask, Control
  <2>2. n \in 1..MaxAttempts
    BY <2>1, ReducerAssumption DEF IInv, Rounds, ReducerAssumption
  <2>3. act[cur].lost \/ act[cur].phase = "error"
    BY <1>21 DEF RecordTaskFailed, CInv, EndedOnce
  <2>4. pg' \in {pg, FailedNow(opened, cur, n, "derived")}
    BY <1>21 DEF RecordTaskFailed
  <2>5. opened \in Projections /\ SameRun(pg, opened)
    BY <2>1, <2>2, OpenedIsLater
  <2>6. keys'.ended = keys.ended \cup {<<cur, n>>}
    BY <1>21, KeyOfTheEnd DEF RecordTaskFailed
  <2>7. /\ pc = "record_failed" /\ pc' \in {"parallel", "serial"}
        /\ UNCHANGED <<act, cur>>
    BY <1>21, NextTaskPlace DEF RecordTaskFailed
  <2>8. /\ wf'.completed = wf.completed /\ wf'.failed = wf.failed \cup {cur}
        /\ wf'.skipped = wf.skipped /\ wf'.tries = wf.tries
    BY <1>21 DEF RecordTaskFailed, Memories
  <2> HIDE DEF n, opened
  <2>9. SameRun(pg, pg')
    <3>1. SameRun(opened, FailedNow(opened, cur, n, "derived"))
      BY <2>1, <2>2, <2>5, FailedNowIsLater
    <3>2. SameRun(pg, FailedNow(opened, cur, n, "derived")) /\ SameRun(pg, pg)
      BY <2>5, <3>1, SameRunTransitive DEF SameRun, Later
    <3> QED
      BY <2>4, <3>2
  <2> QED
    BY <2>1, <2>3, <2>6, <2>7, <2>8, <2>9, JudgedStep DEF n
<1>22. ASSUME RoundDone PROVE CInv'
  <2>1. wf'.completed = wf.completed /\ wf'.failed = wf.failed
        /\ wf'.skipped = wf.skipped /\ wf'.tries = wf.tries
    BY <1>22 DEF RoundDone, Memories
  <2> QED
    BY <1>22, <2>1, QuietStep DEF RoundDone
<1>23. ASSUME RecheckIntent PROVE CInv'
  <2>1. \/ wf' = wf
        \/ wf' = [wf EXCEPT !.cancel = TRUE]
        \/ wf' = [wf EXCEPT !.paused = TRUE, !.pauseDirty = TRUE]
    BY <1>23 DEF RecheckIntent
  <2>2. wf'.completed = wf.completed /\ wf'.failed = wf.failed
        /\ wf'.skipped = wf.skipped /\ wf'.tries = wf.tries
    <3>1. CASE wf' = wf
      BY <3>1
    <3>2. CASE wf' = [wf EXCEPT !.cancel = TRUE]
      BY <3>2
    <3>3. CASE wf' = [wf EXCEPT !.paused = TRUE, !.pauseDirty = TRUE]
      BY <3>3
    <3> QED
      BY <2>1, <3>1, <3>2, <3>3
  <2>3. /\ pc = "recheck" /\ pc' \in {"record", "loop", "continue_as_new"}
        /\ pc' = "record" => note' = "cancelled"
        /\ UNCHANGED <<pg, keys, act>>
    BY <1>23 DEF RecheckIntent
  <2> QED
    BY <2>2, <2>3, QuietStep
<1>24. ASSUME ContinueAsNew PROVE CInv'
  <2>1. wf'.completed = wf.completed /\ wf'.failed = wf.failed
        /\ wf'.skipped = wf.skipped /\ wf'.tries = wf.tries
    BY <1>24 DEF ContinueAsNew, Carried
  <2> QED
    BY <1>24, <2>1, QuietStep DEF ContinueAsNew
<1> QED
  BY <1>1, <1>2, <1>3, <1>4, <1>5, <1>6, <1>7, <1>8, <1>9, <1>10, <1>11,
     <1>12, <1>13, <1>14, <1>15, <1>16, <1>17, <1>18, <1>19, <1>20, <1>21,
     <1>22, <1>23, <1>24
     DEF Workflow

(* A workflow that failed concludes nothing more.                          *)
LEMMA CompletionOfTheDead == IInv /\ CInv /\ WorkflowFails => CInv'
BY DEF WorkflowFails, Goto, logVars, CInv, Fresh, Known, EndedOnce, Verdicts,
       FollowsLog, Finished, AllTerminal, Terminal, CompletedMeansEverything

(* Nor does a step in which nothing happens.                               *)
LEMMA UnchangedCInv == CInv /\ UNCHANGED vars => CInv'
<1> SUFFICES ASSUME CInv, UNCHANGED vars PROVE CInv'
  OBVIOUS
<1>1. UNCHANGED <<pg, keys, wf, pc, cur, note, act>>
  BY DEF vars
<1>2. Terminal' = Terminal /\ \A t \in Tasks : Finished(t)' = Finished(t)
  BY <1>1 DEF Terminal, Finished
<1>3. EndedOnce' /\ Fresh' /\ Known'
  BY <1>1 DEF CInv, EndedOnce, Fresh, Known
<1>4. Verdicts' /\ FollowsLog'
  BY <1>1, <1>2 DEF CInv, Verdicts, FollowsLog, AllTerminal, CompletedMeansEverything
<1> QED
  BY <1>3, <1>4 DEF CInv

(* An empty log, an empty memory.                                          *)
LEMMA InitCInv == Init => CInv
BY DEF Init, EmptyProjection, NoActivity, CInv, Fresh, Known, EndedOnce, Verdicts,
       FollowsLog, Finished, CompletedMeansEverything

(* A run the log says completed completed every node: without commits that *)
(* are reported failed, for every graph, every policy and handler, every   *)
(* sequence of commands, with timeouts, retries and failing workflows.     *)
THEOREM CompletionIsComplete == ~Ambiguity => (Spec => []CompletedMeansEverything)
<1> SUFFICES ASSUME ~Ambiguity PROVE Spec => []CompletedMeansEverything
  OBVIOUS
<1>1. Init => IInv /\ CInv
  BY InitIInv, InitCInv
<1>2. IInv /\ CInv /\ [Next]_vars => (IInv /\ CInv)'
  <2> SUFFICES ASSUME IInv, CInv, [Next]_vars PROVE IInv' /\ CInv'
    OBVIOUS
  <2>1. CASE UNCHANGED vars
    BY <2>1, NextIInv, UnchangedCInv
  <2> QED
    BY <2>1, NextIInv, NextIsEither, CompletionWorkflow, CompletionOutside,
       CompletionOfTheDead
<1>3. CInv => CompletedMeansEverything
  BY DEF CInv, FollowsLog, CompletedMeansEverything
<1> QED
  BY <1>1, <1>2, <1>3, PTL DEF Spec

-----------------------------------------------------------------------------
(* Dependencies first                                                      *)

(* Statuses of a task an attempt of which was opened.                      *)
Tried == {"scheduled", "started", "completed", "failed"}

(* Events of t leave every other task alone.                               *)
OnlyOf(p, q, t) == \A u \in Tasks \ {t} : q.task[u] = p.task[u]

(* What was or is about to be attempted has its dependencies in the        *)
(* workflow's memory, and the log knows of no other attempt.               *)
Supported ==
  \A t \in Tasks : wf.tries[t] # 0 \/ t \in ToStart => Deps[t] \subseteq wf.completed
Counted == \A t \in Tasks : pg.task[t] \in Tried => wf.tries[t] # 0

(* The event of one task moves that task alone.                            *)
LEMMA MoveTaskIsOfIt ==
  ASSUME NEW p \in Projections, NEW t \in Tasks, NEW to \in TaskStatuses
  PROVE  OnlyOf(p, MoveTask(p, t, to), t)
<1> DEFINE q == [p EXCEPT !.task[t] = to]
<1>1. OnlyOf(p, q, t) /\ OnlyOf(p, p, t) /\ Refuse(p).task = p.task
  BY DEF Projections, OnlyOf, Refuse
<1>2. MoveTask(p, t, to) \in {p, q, Refuse(p)}
  BY DEF MoveTask
<1> HIDE DEF q
<1> QED
  BY <1>1, <1>2 DEF OnlyOf

(* The events that open an attempt.                                        *)
LEMMA OpeningIsOfIt ==
  ASSUME NEW p \in Projections, NEW t \in Tasks, NEW a \in AttemptIds
  PROVE  /\ OnlyOf(p, TaskScheduled(p, t), t)
         /\ OnlyOf(p, AttemptCreated(p, t, a), t)
         /\ OnlyOf(p, TaskStarted(p, t, a), t)
<1> DEFINE created == [p EXCEPT !.attempt[a] = "pending"]
           started == [p EXCEPT !.task[t] = "started",
                                !.attempt[a] = IF @ = "none" THEN "pending" ELSE @]
<1>1. /\ OnlyOf(p, created, t) /\ OnlyOf(p, started, t) /\ OnlyOf(p, p, t)
      /\ Refuse(p).task = p.task
  BY DEF Projections, OnlyOf, Refuse
<1>2. /\ TaskScheduled(p, t) \in {Refuse(p), MoveTask(p, t, "scheduled")}
      /\ AttemptCreated(p, t, a) \in {Refuse(p), p, created}
      /\ TaskStarted(p, t, a) \in {Refuse(p), p, started}
  BY DEF TaskScheduled, AttemptCreated, TaskStarted
<1>3. OnlyOf(p, MoveTask(p, t, "scheduled"), t)
  BY MoveTaskIsOfIt DEF TaskStatuses
<1> HIDE DEF created, started
<1> QED
  BY <1>1, <1>2, <1>3 DEF OnlyOf

(* The events that end one.                                                *)
LEMMA EndingIsOfIt ==
  ASSUME NEW p \in Projections, NEW t \in Tasks, NEW out
  PROVE  OnlyOf(p, TaskCompleted(p, t, out), t) /\ OnlyOf(p, TaskFailed(p, t), t)
<1> DEFINE own == [f \in Fields |-> IF f \in out /\ p.owner[f] = NoTask
                                      THEN t ELSE p.owner[f]]
           more == p.conflicts \cup
                     {[field |-> f, first |-> p.owner[f], second |-> t] :
                        f \in Contested(p, out)}
           q == [p EXCEPT !.task[t] = "completed", !.owner = own, !.conflicts = more]
<1>1. TaskCompleted(p, t, out) \in {p, Refuse(p), q}
  BY DEF TaskCompleted
<1> HIDE DEF own, more
<1>2. OnlyOf(p, q, t) /\ OnlyOf(p, p, t) /\ Refuse(p).task = p.task
  BY DEF Projections, OnlyOf, Refuse
<1>3. OnlyOf(p, TaskFailed(p, t), t)
  BY MoveTaskIsOfIt DEF TaskFailed, TaskStatuses
<1> HIDE DEF q
<1> QED
  BY <1>1, <1>2, <1>3 DEF OnlyOf

(* The transactions that are made of them.                                 *)
LEMMA OnlyOfTransitive ==
  ASSUME NEW p, NEW q, NEW r, NEW t, OnlyOf(p, q, t), OnlyOf(q, r, t)
  PROVE  OnlyOf(p, r, t)
BY DEF OnlyOf

LEMMA OpenedIsOfIt ==
  ASSUME NEW p \in Projections, NEW t \in Tasks, NEW n \in 1..MaxAttempts,
         NEW id \in {"drawn", "derived"}
  PROVE  OnlyOf(p, Opened(p, t, n, id), t)
<1> DEFINE a == <<t, n, id>>
           s == TaskScheduled(p, t)
           first == IF \E k \in 1..MaxAttempts : <<t, k>> \in keys.begun THEN p ELSE s
           second == AttemptCreated(first, t, a)
<1>1. a \in AttemptIds
  BY DEF AttemptIds
<1>2. OnlyOf(p, p, t)
  BY DEF OnlyOf
<1>3. first \in Projections /\ OnlyOf(p, first, t)
  BY <1>1, <1>2, TaskScheduledIsLater, OpeningIsOfIt
<1>4. Opened(p, t, n, id) \in {p, TaskStarted(second, t, a)}
  BY DEF Opened
<1> HIDE DEF a, first
<1>5. second \in Projections /\ OnlyOf(first, second, t)
  BY <1>1, <1>3, AttemptCreatedIsLater, OpeningIsOfIt
<1> HIDE DEF second
<1>6. OnlyOf(second, TaskStarted(second, t, a), t)
  BY <1>1, <1>5, OpeningIsOfIt
<1> QED
  BY <1>2, <1>3, <1>4, <1>5, <1>6, OnlyOfTransitive

LEMMA ClosedIsOfIt ==
  ASSUME NEW p \in Projections, NEW t \in Tasks, NEW n \in 1..MaxAttempts,
         NEW id \in {"drawn", "derived"}, NEW out \in SUBSET Fields
  PROVE  /\ OnlyOf(p, Succeeded(p, t, n, id, out), t)
         /\ OnlyOf(p, FailedNow(p, t, n, id), t)
<1> DEFINE a == <<t, n, id>>
           done == TaskCompleted(p, t, out)
           lost == TaskFailed(p, t)
<1>1. a \in AttemptIds /\ {"committed", "aborted"} \subseteq AttemptStatuses
  BY DEF AttemptIds, AttemptStatuses
<1>2. /\ done \in Projections /\ OnlyOf(p, done, t)
      /\ lost \in Projections /\ OnlyOf(p, lost, t)
  BY TaskCompletedIsLater, TaskEndsAreLater, EndingIsOfIt
<1>0. OnlyOf(p, p, t)
  BY DEF OnlyOf
<1>3. /\ Succeeded(p, t, n, id, out) \in {p, AttemptClosed(done, t, a, "committed")}
      /\ FailedNow(p, t, n, id) \in {p, AttemptClosed(lost, t, a, "aborted")}
  BY DEF Succeeded, FailedNow
<1> HIDE DEF a, done, lost
<1>4. /\ AttemptClosed(done, t, a, "committed").task = done.task
      /\ AttemptClosed(lost, t, a, "aborted").task = lost.task
  BY <1>1, <1>2, AttemptClosedIsLater
<1> QED
  BY <1>0, <1>2, <1>3, <1>4 DEF OnlyOf

(* Skips and the events of the run open nothing and close nothing.         *)
LEMMA NothingOpened ==
  ASSUME NEW p \in Projections
  PROVE  /\ \A t \in Tasks, u \in Tasks :
              TaskSkipped(p, t).task[u] \in Tried =>
                TaskSkipped(p, t).task[u] = p.task[u]
         /\ \A outcome \in RunOutcomes, u \in Tasks :
              RecordRun(p, outcome).task[u] \in Tried =>
                RecordRun(p, outcome).task[u] = p.task[u]
<1>1. ASSUME NEW t \in Tasks, NEW u \in Tasks, TaskSkipped(p, t).task[u] \in Tried
      PROVE  TaskSkipped(p, t).task[u] = p.task[u]
  <2> DEFINE q == [p EXCEPT !.task[t] = "skipped"]
  <2>1. /\ q.task[u] \in Tried => q.task[u] = p.task[u]
        /\ Refuse(p).task = p.task
    BY DEF Projections, Refuse, Tried
  <2>2. TaskSkipped(p, t) \in {p, q, Refuse(p)}
    BY DEF TaskSkipped, MoveTask
  <2> HIDE DEF q
  <2> QED
    BY <1>1, <2>1, <2>2
<1>2. ASSUME NEW outcome \in RunOutcomes, NEW u \in Tasks,
             RecordRun(p, outcome).task[u] \in Tried
      PROVE  RecordRun(p, outcome).task[u] = p.task[u]
  <2> DEFINE skips == [t \in Tasks |-> IF p.task[t] \in {"pending", "scheduled"}
                                         THEN "skipped" ELSE p.task[t]]
             cancelled == [p EXCEPT !.run = "cancelled", !.task = skips]
             Moved(to) == [p EXCEPT !.run = to]
  <2>1. /\ skips[u] \in Tried => skips[u] = p.task[u]
        /\ cancelled.task = skips
        /\ Refuse(p).task = p.task /\ \A to : Moved(to).task = p.task
    BY DEF Projections, Refuse, Tried
  <2>2. \E to : RecordRun(p, outcome) \in {Refuse(p), Moved(to), cancelled}
    <3>1. MoveRun(p, "completed") \in {Refuse(p), Moved("completed")}
      BY DEF MoveRun
    <3>2. RunCompleted(p) \in {Refuse(p), Moved("completed")}
      BY <3>1 DEF RunCompleted
    <3>3. RunFailed(p) \in {Refuse(p), Moved("failed")}
      BY DEF RunFailed, MoveRun
    <3>4. RunPaused(p) \in {Refuse(p), Moved("paused")}
      BY DEF RunPaused, MoveRun
    <3>5. RunResumed(p) \in {Refuse(p), Moved("running")}
      BY DEF RunResumed, MoveRun
    <3>6. RunCancelled(p) \in {Refuse(p), cancelled}
      BY DEF RunCancelled
    <3>7. RecordRun(p, outcome) \in {RunCompleted(p), RunFailed(p), RunPaused(p),
                                     RunResumed(p), RunCancelled(p)}
      BY DEF RunOutcomes, RecordRun
    <3> HIDE DEF Moved, cancelled
    <3> QED
      BY <3>2, <3>3, <3>4, <3>5, <3>6, <3>7
  <2> HIDE DEF Moved, cancelled, skips
  <2> QED
    BY <1>2, <2>1, <2>2
<1> QED
  BY <1>1, <1>2

-----------------------------------------------------------------------------
(* A step that plans nothing new and forgets no completion.                *)
LEMMA SupportedQuiet ==
  ASSUME Supported, ToStart' \subseteq ToStart, wf.completed \subseteq wf'.completed,
         \A t \in Tasks : wf'.tries[t] # 0 => wf.tries[t] # 0 \/ t \in ToStart
  PROVE  Supported'
BY DEF Supported

(* A step that plans ready nodes.                                          *)
LEMMA SupportedReady ==
  ASSUME Supported, ToStart' \subseteq Ready, UNCHANGED wf
  PROVE  Supported'
BY DEF Supported, Ready

(* The next task of a round was planned with it.                           *)
LEMMA NextTaskPlans ==
  ASSUME IInv, AtTask, NEW b, NextTask(b), UNCHANGED <<cur, batch>>
  PROVE  ToStart' \subseteq ToStart
<1>1. CASE cur \in ParallelSafe
  <2>1. pc' = "parallel"
    BY <1>1, NextTaskPlace
  <2> QED
    BY <2>1 DEF ToStart, AtTask
<1>2. CASE cur \notin ParallelSafe
  <2>1. pc' = "serial" /\ todo' \subseteq todo
    BY <1>2, NextTaskPlace
  <2> QED
    BY <1>2, <2>1 DEF ToStart, AtTask
<1> QED
  BY <1>1, <1>2

(* The workflow attempts what it planned, and plans what is ready.         *)
LEMMA SupportedWorkflow == IInv /\ Supported /\ Workflow => Supported'
<1> SUFFICES ASSUME IInv, Supported, Workflow PROVE Supported'
  OBVIOUS
<1>0. TypeOK /\ Control /\ Rounds
  BY DEF IInv
<1>w. wf \in Memories /\ wf.tries \in [Tasks -> 0..MaxAttempts]
  BY <1>0 DEF TypeOK, Memories
<1> USE <1>0, <1>w DEF Goto
<1>1. ASSUME StartRun PROVE Supported'
  <2>1. ToStart' \subseteq ToStart
    BY <1>1 DEF StartRun, ToStart, AtTask
  <2>2. wf'.completed = wf.completed /\ wf'.tries = wf.tries
    BY <1>1 DEF StartRun, Memories
  <2> QED
    BY <2>1, <2>2, SupportedQuiet
<1>2. ASSUME LoopTop PROVE Supported'
  <2>1. ToStart' \subseteq ToStart
    BY <1>2 DEF LoopTop, ToStart, AtTask
  <2>2. wf'.completed = wf.completed /\ wf'.tries = wf.tries
    BY <1>2 DEF LoopTop, Memories
  <2> QED
    BY <2>1, <2>2, SupportedQuiet
<1>3. ASSUME RecordRunTerminal PROVE Supported'
  <2>1. ToStart' \subseteq ToStart
    BY <1>3 DEF RecordRunTerminal, ToStart, AtTask
  <2>2. wf'.completed = wf.completed /\ wf'.tries = wf.tries
    BY <1>3 DEF RecordRunTerminal, Memories
  <2> QED
    BY <2>1, <2>2, SupportedQuiet
<1>4. ASSUME WakeFromPause PROVE Supported'
  <2>1. ToStart' \subseteq ToStart
    BY <1>4 DEF WakeFromPause, ToStart, AtTask
  <2>2. wf'.completed = wf.completed /\ wf'.tries = wf.tries
    BY <1>4 DEF WakeFromPause, Memories
  <2> QED
    BY <2>1, <2>2, SupportedQuiet
<1>5. ASSUME PlanSkips PROVE Supported'
  <2>1. ToStart' \subseteq ToStart
    BY <1>5 DEF PlanSkips, ToStart, AtTask
  <2>2. wf'.completed = wf.completed /\ wf'.tries = wf.tries
    BY <1>5 DEF PlanSkips, Memories
  <2> QED
    BY <2>1, <2>2, SupportedQuiet
<1>6. ASSUME RecordTaskSkipped PROVE Supported'
  <2>1. ToStart' \subseteq ToStart
    BY <1>6 DEF RecordTaskSkipped, ToStart, AtTask
  <2>2. wf'.completed = wf.completed /\ wf'.tries = wf.tries
    BY <1>6 DEF RecordTaskSkipped, Memories
  <2> QED
    BY <2>1, <2>2, SupportedQuiet
<1>7. ASSUME FinishRun PROVE Supported'
  <2>1. ToStart' \subseteq ToStart
    BY <1>7 DEF FinishRun, ToStart, AtTask
  <2>2. wf'.completed = wf.completed /\ wf'.tries = wf.tries
    BY <1>7 DEF FinishRun, Memories
  <2> QED
    BY <2>1, <2>2, SupportedQuiet
<1>8. ASSUME HoldBack PROVE Supported'
  <2>1. ToStart' \subseteq ToStart
    BY <1>8 DEF HoldBack, ToStart, AtTask
  <2>2. wf'.completed = wf.completed /\ wf'.tries = wf.tries
    BY <1>8 DEF HoldBack, Memories
  <2> QED
    BY <2>1, <2>2, SupportedQuiet
<1>9. ASSUME AskApproval PROVE Supported'
  <2>1. Undecided(Ready) \subseteq Ready /\ Undecided(Ready) \subseteq Tasks
    BY DEF Undecided, Serial, Ready
  <2>2. cur' \in Ready
    BY <1>9, <2>1, FirstOfIsMember DEF AskApproval
  <2>3. ToStart' \subseteq {cur'} /\ UNCHANGED wf
    BY <1>9 DEF AskApproval, ToStart, AtTask
  <2> QED
    BY <2>2, <2>3, SupportedReady
<1>10. ASSUME CreateApproval PROVE Supported'
  <2>1. ToStart' \subseteq ToStart
    BY <1>10 DEF CreateApproval, ToStart, AtTask
  <2>2. wf'.completed = wf.completed /\ wf'.tries = wf.tries
    BY <1>10 DEF CreateApproval, Memories
  <2> QED
    BY <2>1, <2>2, SupportedQuiet
<1>11. ASSUME WakeFromApproval PROVE Supported'
  <2>1. cur \in Tasks /\ cur \in ToStart
    BY <1>11 DEF WakeFromApproval, Control, ToStart
  <2>2. ToStart' = {}
    BY <1>11 DEF WakeFromApproval, Verdict, ToStart, AtTask
  <2>3. /\ wf'.completed = wf.completed
        /\ \A t \in Tasks \ {cur} : wf'.tries[t] = wf.tries[t]
    BY <1>11 DEF WakeFromApproval, Verdict, Memories
  <2> QED
    BY <2>1, <2>2, <2>3, SupportedQuiet
<1>12. ASSUME ApprovalTimeout PROVE Supported'
  <2>1. ToStart' \subseteq ToStart
    BY <1>12 DEF ApprovalTimeout, ToStart, AtTask
  <2>2. wf'.completed = wf.completed /\ wf'.tries = wf.tries
    BY <1>12 DEF ApprovalTimeout, Memories
  <2> QED
    BY <2>1, <2>2, SupportedQuiet
<1>13. ASSUME CheckApproval PROVE Supported'
  <2>1. cur \in Tasks /\ cur \in ToStart
    BY <1>13 DEF CheckApproval, Control, ToStart
  <2>2. ToStart' = {}
    BY <1>13 DEF CheckApproval, Verdict, ToStart, AtTask
  <2> DEFINE known == [wf EXCEPT !.decisions[cur] = Found(cur)]
  <2>3. known.completed = wf.completed /\ known.tries = wf.tries
        /\ DOMAIN known = DOMAIN wf
    BY DEF Memories
  <2>4. wf' = known \/ wf' = [known EXCEPT !.tries[cur] = @ + 1]
    BY <1>13 DEF CheckApproval, Verdict
  <2> HIDE DEF known
  <2>5. wf'.completed = wf.completed
        /\ \A t \in Tasks \ {cur} : wf'.tries[t] = wf.tries[t]
    BY <2>3, <2>4 DEF Memories
  <2> QED
    BY <2>1, <2>2, <2>5, SupportedQuiet
<1>14. ASSUME RecordApprovalOutcome PROVE Supported'
  <2>1. ToStart' = {}
    BY <1>14 DEF RecordApprovalOutcome, ToStart, AtTask
  <2>2. wf.completed \subseteq wf'.completed /\ wf'.tries = wf.tries
    BY <1>14 DEF RecordApprovalOutcome, Memories
  <2> QED
    BY <2>1, <2>2, SupportedQuiet
<1>15. ASSUME Dispatch PROVE Supported'
  <2>1. ToStart' \subseteq Ready /\ UNCHANGED wf
    BY <1>15 DEF Dispatch, Serial, ToStart, AtTask
  <2> QED
    BY <2>1, SupportedReady
<1>16. ASSUME RunSerial PROVE Supported'
  <2> DEFINE first == FirstOf(todo)
  <2>1. first \in todo /\ first \in ToStart /\ first \in Tasks /\ wf.tries[first] = 0
    BY <1>16, StartsAreFresh, NothingUsedYet DEF RunSerial
  <2>2. Start({first}) /\ todo' = todo \ {first} /\ batch' = batch
        /\ pc = "serial" /\ pc' = "await"
    BY <1>16 DEF RunSerial
  <2> HIDE DEF first
  <2>3. wf'.completed = wf.completed
        /\ \A t \in Tasks \ {first} : wf'.tries[t] = wf.tries[t]
    BY <2>2 DEF Start, Memories
  <2>4. ToStart' \subseteq ToStart
    BY <2>2 DEF ToStart, AtTask
  <2> QED
    BY <2>1, <2>3, <2>4, SupportedQuiet
<1>17. ASSUME RunParallel PROVE Supported'
  <2> DEFINE some == batch \cap ParallelSafe
  <2>1. CASE Start(some) /\ pc' = "parallel"
    <3>1. some \subseteq ToStart
      BY <1>17, StartsAreFresh DEF RunParallel
    <3> HIDE DEF some
    <3>2. wf'.completed = wf.completed
          /\ \A t \in Tasks \ some : wf'.tries[t] = wf.tries[t]
      BY <2>1 DEF Start, Memories
    <3>3. ToStart' = {}
      BY <2>1 DEF ToStart, AtTask
    <3> QED
      BY <3>1, <3>2, <3>3, SupportedQuiet
  <2>2. CASE pc' = "round_done" /\ UNCHANGED wf
    <3>1. ToStart' = {}
      BY <2>2 DEF ToStart, AtTask
    <3> QED
      BY <2>2, <3>1, SupportedQuiet
  <2> QED
    BY <1>17, <2>1, <2>2 DEF RunParallel
<1>18. ASSUME AwaitNext PROVE Supported'
  <2>1. todo # {} => FirstOf(todo) \in todo
    BY <1>0, FirstOfIsMember DEF TypeOK
  <2>2. todo \subseteq ParallelSafe
    BY <1>18 DEF AwaitNext, Control
  <2>3. ToStart' = {} /\ UNCHANGED wf
    BY <1>18, <2>1, <2>2 DEF AwaitNext, ToStart, AtTask
  <2> QED
    BY <2>3, SupportedQuiet
<1>19. ASSUME InterpretResult PROVE Supported'
  <2>1. AtTask /\ cur \in Tasks /\ UNCHANGED <<cur, batch>>
    BY <1>19 DEF InterpretResult, Control, AtTask
  <2>2. CASE Start({cur}) /\ UNCHANGED <<pc, todo>>
    <3>1. ToStart' = ToStart
      BY <2>1, <2>2 DEF ToStart, AtTask
    <3>2. cur \in InFlight
      BY <2>1 DEF InFlight
    <3>3. wf.tries[cur] # 0
      BY <2>1, <3>2 DEF Rounds
    <3>4. wf'.completed = wf.completed
          /\ \A t \in Tasks \ {cur} : wf'.tries[t] = wf.tries[t]
      BY <2>2 DEF Start, Memories
    <3> QED
      BY <3>1, <3>3, <3>4, SupportedQuiet
  <2>3. ASSUME NEW b, NextTask(b),
               \/ wf' = [wf EXCEPT !.completed = @ \cup {cur}]
               \/ wf' = [wf EXCEPT !.failed = @ \cup {cur}]
               \/ wf' = [wf EXCEPT !.failed = @ \cup {cur},
                            !.cancel = @ \/ Policy[cur] = "cancel"]
        PROVE  Supported'
    <3>1. CASE wf' = [wf EXCEPT !.completed = @ \cup {cur}]
      BY <2>1, <2>3, <3>1, NextTaskPlans, SupportedQuiet DEF Memories
    <3>2. CASE wf' = [wf EXCEPT !.failed = @ \cup {cur}]
      BY <2>1, <2>3, <3>2, NextTaskPlans, SupportedQuiet DEF Memories
    <3>3. CASE wf' = [wf EXCEPT !.failed = @ \cup {cur},
                           !.cancel = @ \/ Policy[cur] = "cancel"]
      BY <2>1, <2>3, <3>3, NextTaskPlans, SupportedQuiet DEF Memories
    <3> QED
      BY <2>3, <3>1, <3>2, <3>3
  <2> QED
    BY <1>19, <2>2, <2>3, EndsHow
<1>20. ASSUME InterpretError PROVE Supported'
  <2>1. ToStart' \subseteq ToStart
    BY <1>20 DEF InterpretError, ToStart, AtTask
  <2>2. wf'.completed = wf.completed /\ wf'.tries = wf.tries
    BY <1>20 DEF InterpretError, Memories
  <2> QED
    BY <2>1, <2>2, SupportedQuiet
<1>21. ASSUME RecordTaskFailed PROVE Supported'
  <2>1. AtTask /\ UNCHANGED <<cur, batch>> /\ NextTask(wf.cancel)
    BY <1>21 DEF RecordTaskFailed, AtTask
  <2>2. wf'.completed = wf.completed /\ wf'.tries = wf.tries
    BY <1>21 DEF RecordTaskFailed, Memories
  <2> QED
    BY <2>1, <2>2, NextTaskPlans, SupportedQuiet
<1>22. ASSUME RoundDone PROVE Supported'
  <2>1. ToStart' \subseteq ToStart
    BY <1>22 DEF RoundDone, ToStart, AtTask
  <2>2. wf'.completed = wf.completed /\ wf'.tries = wf.tries
    BY <1>22 DEF RoundDone, Memories
  <2> QED
    BY <2>1, <2>2, SupportedQuiet
<1>23. ASSUME RecheckIntent PROVE Supported'
  <2>1. ToStart' = {}
    BY <1>23 DEF RecheckIntent, ToStart, AtTask
  <2>2. wf'.completed = wf.completed /\ wf'.tries = wf.tries
    <3>1. \/ wf' = wf
          \/ wf' = [wf EXCEPT !.cancel = TRUE]
          \/ wf' = [wf EXCEPT !.paused = TRUE, !.pauseDirty = TRUE]
      BY <1>23 DEF RecheckIntent
    <3>2. CASE wf' = [wf EXCEPT !.cancel = TRUE]
      BY <3>2 DEF Memories
    <3>3. CASE wf' = [wf EXCEPT !.paused = TRUE, !.pauseDirty = TRUE]
      BY <3>3 DEF Memories
    <3> QED
      BY <3>1, <3>2, <3>3
  <2> QED
    BY <2>1, <2>2, SupportedQuiet
<1>24. ASSUME ContinueAsNew PROVE Supported'
  <2>1. ToStart' \subseteq ToStart
    BY <1>24 DEF ContinueAsNew, ToStart, AtTask
  <2>2. wf'.completed = wf.completed /\ wf'.tries = wf.tries
    BY <1>24 DEF ContinueAsNew, Carried, Memories
  <2> QED
    BY <2>1, <2>2, SupportedQuiet
<1> QED
  BY <1>1, <1>2, <1>3, <1>4, <1>5, <1>6, <1>7, <1>8, <1>9, <1>10, <1>11,
     <1>12, <1>13, <1>14, <1>15, <1>16, <1>17, <1>18, <1>19, <1>20, <1>21,
     <1>22, <1>23, <1>24
     DEF Workflow

(* Nobody else plans or attempts anything.                                 *)
LEMMA SupportedOutside == IInv /\ Supported /\ Outside => Supported'
<1> SUFFICES ASSUME IInv, Supported, Outside PROVE Supported'
  OBVIOUS
<1>1. SamePlace
  BY OutsideStaysInPlace
<1>2. ToStart' = ToStart
  BY <1>1 DEF SamePlace, ToStart, AtTask
<1> QED
  BY <1>1, <1>2, SupportedQuiet DEF SamePlace

-----------------------------------------------------------------------------
(* A step that opens no attempt the workflow has not counted.              *)
LEMMA CountedQuiet ==
  ASSUME Counted,
         \A u \in Tasks : pg'.task[u] \in Tried => pg.task[u] \in Tried,
         \A u \in Tasks : wf.tries[u] # 0 => wf'.tries[u] # 0
  PROVE  Counted'
BY DEF Counted

LEMMA CountedTask ==
  ASSUME Counted, NEW t \in Tasks, OnlyOf(pg, pg', t), wf.tries[t] # 0,
         wf'.tries = wf.tries
  PROVE  Counted'
BY DEF Counted, OnlyOf

(* The workflow counts an attempt before it or an activity opens it.       *)
LEMMA CountedWorkflow == IInv /\ Counted /\ Workflow => Counted'
<1> SUFFICES ASSUME IInv, Counted, Workflow PROVE Counted'
  OBVIOUS
<1>0. TypeOK /\ Control /\ Rounds
  BY DEF IInv
<1>w. wf \in Memories /\ wf.tries \in [Tasks -> Nat] /\ pg \in Projections
  BY <1>0, ReducerAssumption DEF TypeOK, Memories, ReducerAssumption
<1> USE <1>0, <1>w DEF Goto
<1>1. ASSUME StartRun PROVE Counted'
  <2>1. \A u \in Tasks : pg'.task[u] = "pending"
    BY <1>1, StartIsProjection DEF StartRun
  <2> QED
    BY <2>1 DEF Counted, Tried
<1>2. ASSUME LoopTop PROVE Counted'
  <2>1. pg' = pg /\ wf'.tries = wf.tries
    BY <1>2 DEF LoopTop, Memories, logVars
  <2> QED
    BY <2>1, CountedQuiet
<1>3. ASSUME RecordRunTerminal PROVE Counted'
  <2>1. note \in RunOutcomes
    BY <1>3 DEF RecordRunTerminal, Control
  <2>2. pg' \in {pg, RecordRun(pg, note)}
    BY <1>3 DEF RecordRunTerminal
  <2>3. \A u \in Tasks : pg'.task[u] \in Tried => pg.task[u] \in Tried
    BY <2>1, <2>2, NothingOpened
  <2>4. wf'.tries = wf.tries
    BY <1>3 DEF RecordRunTerminal, Memories
  <2> QED
    BY <2>3, <2>4, CountedQuiet
<1>4. ASSUME WakeFromPause PROVE Counted'
  <2>1. pg' = pg /\ wf'.tries = wf.tries
    BY <1>4 DEF WakeFromPause, Memories, logVars
  <2> QED
    BY <2>1, CountedQuiet
<1>5. ASSUME PlanSkips PROVE Counted'
  <2>1. pg' = pg /\ wf'.tries = wf.tries
    BY <1>5 DEF PlanSkips, Memories, logVars
  <2> QED
    BY <2>1, CountedQuiet
<1>6. ASSUME RecordTaskSkipped PROVE Counted'
  <2>1. FirstOf(todo) \in Tasks
    BY <1>6, FirstOfIsMember DEF RecordTaskSkipped, Control, TypeOK
  <2>2. pg' \in {pg, TaskSkipped(pg, FirstOf(todo))} /\ UNCHANGED wf
    BY <1>6 DEF RecordTaskSkipped
  <2>3. \A u \in Tasks : pg'.task[u] \in Tried => pg.task[u] \in Tried
    BY <2>1, <2>2, NothingOpened
  <2> QED
    BY <2>2, <2>3, CountedQuiet
<1>7. ASSUME FinishRun PROVE Counted'
  <2>1. pg' = pg /\ wf'.tries = wf.tries
    BY <1>7 DEF FinishRun, Memories, logVars
  <2> QED
    BY <2>1, CountedQuiet
<1>8. ASSUME HoldBack PROVE Counted'
  <2>1. pg' = pg /\ wf'.tries = wf.tries
    BY <1>8 DEF HoldBack, Memories, logVars
  <2> QED
    BY <2>1, CountedQuiet
<1>9. ASSUME AskApproval PROVE Counted'
  <2>1. pg' = pg /\ wf'.tries = wf.tries
    BY <1>9 DEF AskApproval, Memories, logVars
  <2> QED
    BY <2>1, CountedQuiet
<1>10. ASSUME CreateApproval PROVE Counted'
  <2>1. pg' = pg /\ wf'.tries = wf.tries
    BY <1>10 DEF CreateApproval, Memories, logVars
  <2> QED
    BY <2>1, CountedQuiet
<1>11. ASSUME WakeFromApproval PROVE Counted'
  <2>1. cur \in Tasks /\ pg' = pg
    BY <1>11 DEF WakeFromApproval, Control, logVars
  <2>2. wf' = wf \/ wf' = [wf EXCEPT !.tries[cur] = @ + 1]
    BY <1>11 DEF WakeFromApproval, Verdict
  <2>3. \A u \in Tasks : wf.tries[u] # 0 => wf'.tries[u] # 0
    BY <2>1, <2>2 DEF Memories
  <2> QED
    BY <2>1, <2>3, CountedQuiet
<1>12. ASSUME ApprovalTimeout PROVE Counted'
  <2>1. pg' = pg /\ wf'.tries = wf.tries
    BY <1>12 DEF ApprovalTimeout, Memories, logVars
  <2> QED
    BY <2>1, CountedQuiet
<1>13. ASSUME CheckApproval PROVE Counted'
  <2> DEFINE known == [wf EXCEPT !.decisions[cur] = Found(cur)]
  <2>1. cur \in Tasks /\ pg' = pg
    BY <1>13 DEF CheckApproval, Control, logVars
  <2>2. known.tries = wf.tries /\ DOMAIN known = DOMAIN wf
    BY DEF Memories
  <2>3. wf' = known \/ wf' = [known EXCEPT !.tries[cur] = @ + 1]
    BY <1>13 DEF CheckApproval, Verdict
  <2> HIDE DEF known
  <2>4. \A u \in Tasks : wf.tries[u] # 0 => wf'.tries[u] # 0
    BY <2>1, <2>2, <2>3 DEF Memories
  <2> QED
    BY <2>1, <2>4, CountedQuiet
<1>14. ASSUME RecordApprovalOutcome PROVE Counted'
  <2> DEFINE n == wf.tries[cur]
             opened == Opened(pg, cur, n, "derived")
  <2>1. cur \in Tasks /\ cur \in InFlight
    BY <1>14 DEF RecordApprovalOutcome, InFlight, Control
  <2>2. n \in 1..MaxAttempts
    BY <2>1, ReducerAssumption DEF TypeOK, Memories, Rounds, ReducerAssumption
  <2>3. ApprovalField \in SUBSET Fields
    BY RunAssumption DEF RunAssumption
  <2>4. pg' \in {Succeeded(opened, cur, n, "derived", ApprovalField),
                FailedNow(opened, cur, n, "derived")}
    BY <1>14 DEF RecordApprovalOutcome
  <2>5. wf'.tries = wf.tries
    BY <1>14 DEF RecordApprovalOutcome, Memories
  <2> HIDE DEF n, opened
  <2>6. opened \in Projections /\ OnlyOf(pg, opened, cur)
    BY <2>1, <2>2, OpenedIsLater, OpenedIsOfIt DEF opened
  <2>7. OnlyOf(opened, pg', cur)
    BY <2>1, <2>2, <2>3, <2>4, <2>6, ClosedIsOfIt
  <2> QED
    BY <2>1, <2>2, <2>5, <2>6, <2>7, OnlyOfTransitive, CountedTask DEF n
<1>15. ASSUME Dispatch PROVE Counted'
  <2>1. pg' = pg /\ wf'.tries = wf.tries
    BY <1>15 DEF Dispatch, Memories, logVars
  <2> QED
    BY <2>1, CountedQuiet
<1>16. ASSUME RunSerial PROVE Counted'
  <2>1. pg' = pg /\ Start({FirstOf(todo)})
    BY <1>16 DEF RunSerial, logVars
  <2> QED
    BY <2>1, CountedQuiet DEF Start, Memories
<1>17. ASSUME RunParallel PROVE Counted'
  <2>1. pg' = pg /\ (Start(batch \cap ParallelSafe) \/ UNCHANGED wf)
    BY <1>17 DEF RunParallel, logVars
  <2> QED
    BY <2>1, CountedQuiet DEF Start, Memories
<1>18. ASSUME AwaitNext PROVE Counted'
  <2>1. pg' = pg /\ wf'.tries = wf.tries
    BY <1>18 DEF AwaitNext, Memories, logVars
  <2> QED
    BY <2>1, CountedQuiet
<1>19. ASSUME InterpretResult PROVE Counted'
  <2>1. pg' = pg
    BY <1>19 DEF InterpretResult, logVars
  <2>2. CASE Start({cur})
    BY <2>1, <2>2, CountedQuiet DEF Start, Memories
  <2>3. CASE wf' = [wf EXCEPT !.completed = @ \cup {cur}]
    BY <2>1, <2>3, CountedQuiet DEF Memories
  <2>4. CASE wf' = [wf EXCEPT !.failed = @ \cup {cur}]
    BY <2>1, <2>4, CountedQuiet DEF Memories
  <2>5. CASE wf' = [wf EXCEPT !.failed = @ \cup {cur},
                         !.cancel = @ \/ Policy[cur] = "cancel"]
    BY <2>1, <2>5, CountedQuiet DEF Memories
  <2> QED
    BY <1>19, <2>2, <2>3, <2>4, <2>5, EndsHow
<1>20. ASSUME InterpretError PROVE Counted'
  <2>1. pg' = pg /\ wf'.tries = wf.tries
    BY <1>20 DEF InterpretError, Memories, logVars
  <2> QED
    BY <2>1, CountedQuiet
<1>21. ASSUME RecordTaskFailed PROVE Counted'
  <2> DEFINE n == wf.tries[cur]
             opened == Opened(pg, cur, n, "derived")
  <2>1. cur \in Tasks /\ cur \in InFlight
    BY <1>21 DEF RecordTaskFailed, InFlight, AtTask, Control
  <2>2. n \in 1..MaxAttempts
    BY <2>1, ReducerAssumption DEF TypeOK, Memories, Rounds, ReducerAssumption
  <2>3. pg' \in {pg, FailedNow(opened, cur, n, "derived")}
    BY <1>21 DEF RecordTaskFailed
  <2>4. wf'.tries = wf.tries
    BY <1>21 DEF RecordTaskFailed, Memories
  <2> HIDE DEF n, opened
  <2>5. opened \in Projections /\ OnlyOf(pg, opened, cur) /\ OnlyOf(pg, pg, cur)
    BY <2>1, <2>2, OpenedIsLater, OpenedIsOfIt DEF opened, OnlyOf
  <2>6. OnlyOf(opened, FailedNow(opened, cur, n, "derived"), cur)
    BY <2>1, <2>2, <2>5, ClosedIsOfIt
  <2>7. OnlyOf(pg, pg', cur)
    BY <2>3, <2>5, <2>6, OnlyOfTransitive
  <2> QED
    BY <2>1, <2>2, <2>4, <2>7, CountedTask DEF n
<1>22. ASSUME RoundDone PROVE Counted'
  <2>1. pg' = pg /\ wf'.tries = wf.tries
    BY <1>22 DEF RoundDone, Memories, logVars
  <2> QED
    BY <2>1, CountedQuiet
<1>23. ASSUME RecheckIntent PROVE Counted'
  <2>1. pg' = pg
    BY <1>23 DEF RecheckIntent, logVars
  <2>2. \/ wf' = wf
        \/ wf' = [wf EXCEPT !.cancel = TRUE]
        \/ wf' = [wf EXCEPT !.paused = TRUE, !.pauseDirty = TRUE]
    BY <1>23 DEF RecheckIntent
  <2>3. wf'.tries = wf.tries
    BY <2>2 DEF Memories
  <2> QED
    BY <2>1, <2>3, CountedQuiet
<1>24. ASSUME ContinueAsNew PROVE Counted'
  <2>1. pg' = pg /\ wf'.tries = wf.tries
    BY <1>24 DEF ContinueAsNew, Carried, Memories, logVars
  <2> QED
    BY <2>1, CountedQuiet
<1> QED
  BY <1>1, <1>2, <1>3, <1>4, <1>5, <1>6, <1>7, <1>8, <1>9, <1>10, <1>11,
     <1>12, <1>13, <1>14, <1>15, <1>16, <1>17, <1>18, <1>19, <1>20, <1>21,
     <1>22, <1>23, <1>24
     DEF Workflow

(* Executions carry the number of an attempt that was counted.             *)
LEMMA CountedOutside == IInv /\ Counted /\ Outside => Counted'
<1> SUFFICES ASSUME IInv, Counted, Outside PROVE Counted'
  OBVIOUS
<1>0. SamePlace /\ wf'.tries = wf.tries
  BY OutsideStaysInPlace DEF SamePlace
<1>1. pg \in Projections
  BY DEF IInv, TypeOK
<1>2. CASE UNCHANGED pg
  BY <1>0, <1>2, CountedQuiet
<1>3. ASSUME NEW t \in Tasks, act[t].phase # "none", OnlyOf(pg, pg', t)
      PROVE  Counted'
  <2>1. act[t].n \in 1..MaxAttempts /\ act[t].n <= wf.tries[t]
    BY <1>3, NumberOfExecution DEF IInv, Budget
  <2>2. wf.tries[t] # 0
    BY <2>1
  <2> QED
    BY <1>0, <1>3, <2>2, CountedTask
<1>4. ASSUME NEW t \in Tasks, BeginTask(t) PROVE Counted'
  <2>1. act[t].phase # "none" /\ pg' = Opened(pg, t, act[t].n, "drawn")
    BY <1>4 DEF BeginTask
  <2>2. OnlyOf(pg, pg', t)
    BY <1>1, <2>1, NumberOfExecution, OpenedIsOfIt
  <2> QED
    BY <1>3, <2>1, <2>2
<1>5. ASSUME NEW t \in Tasks, act[t].phase # "none", Commit(t) PROVE Counted'
  <2>1. pg' \in {Succeeded(pg, t, act[t].n, "drawn", Output(t)),
                FailedNow(pg, t, act[t].n, "drawn")}
    BY <1>5 DEF Commit
  <2>2. OnlyOf(pg, pg', t)
    BY <1>1, <1>5, <2>1, NumberOfExecution, OutputType, ClosedIsOfIt
  <2> QED
    BY <1>3, <1>5, <2>2
<1>6. ASSUME NEW t \in Tasks, EndTask(t) \/ RetryTask(t) PROVE Counted'
  <2>1. UNCHANGED pg \/ (act[t].phase # "none" /\ Commit(t))
    BY <1>6 DEF EndTask, RetryTask, logVars
  <2> QED
    BY <1>2, <1>5, <2>1
<1>7. ASSUME NEW t \in Tasks,
             \/ RunHandler(t) \/ LoseTask(t)
             \/ Decisive(t) \/ Expire(t) \/ SignalDecision(t)
      PROVE  Counted'
  BY <1>2, <1>7 DEF RunHandler, LoseTask, Decisive, Decide,
      CommitDecision, Expire, SignalDecision, logVars
<1>8. ASSUME NEW c \in Commands, Submit(c) \/ Signal(c) \/ TooLate(c)
      PROVE  Counted'
  BY <1>2, <1>8 DEF Submit, Signal, TooLate, logVars
<1> QED
  BY <1>4, <1>6, <1>7, <1>8 DEF Outside, Activity

(* Memory and log, and the plan that follows them.                         *)
DInv == IInv /\ CInv /\ Supported /\ Counted

LEMMA InitDInv == Init => DInv
<1> SUFFICES ASSUME Init PROVE Supported /\ Counted
  BY InitIInv, InitCInv DEF DInv
<1>1. ToStart = {} /\ \A t \in Tasks : wf.tries[t] = 0 /\ pg.task[t] = "absent"
  BY DEF Init, EmptyProjection, ToStart, AtTask
<1> QED
  BY <1>1 DEF Supported, Counted, Tried

LEMMA NextDInv == DInv /\ ~Ambiguity /\ [Next]_vars => DInv'
<1> SUFFICES ASSUME DInv, ~Ambiguity, [Next]_vars PROVE DInv'
  OBVIOUS
<1>0. IInv /\ CInv /\ Supported /\ Counted
  BY DEF DInv
<1>1. CASE UNCHANGED vars
  <2>1. UNCHANGED <<pg, keys, wf, pc, batch, todo, cur, note, act>>
    BY <1>1 DEF vars
  <2>2. ToStart' = ToStart
    BY <2>1 DEF ToStart, AtTask
  <2>3. Supported' /\ Counted'
    BY <1>0, <2>1, <2>2 DEF Supported, Counted
  <2> QED
    BY <1>0, <1>1, <2>3, NextIInv, UnchangedCInv DEF DInv
<1>2. CASE WorkflowFails
  <2>1. UNCHANGED <<pg, wf>> /\ pc' = "dead"
    BY <1>2 DEF WorkflowFails, Goto, logVars
  <2>2. ToStart' = {}
    BY <2>1 DEF ToStart, AtTask
  <2>3. Supported' /\ Counted'
    BY <1>0, <2>1, <2>2 DEF Supported, Counted
  <2> QED
    BY <1>0, <1>2, <2>3, NextIInv, NextIsEither, CompletionOfTheDead DEF DInv
<1>3. CASE Workflow
  BY <1>0, <1>3, NextIInv, CompletionWorkflow, SupportedWorkflow, CountedWorkflow DEF DInv
<1>4. CASE Outside
  BY <1>0, <1>4, NextIInv, CompletionOutside, SupportedOutside, CountedOutside DEF DInv
<1> QED
  BY <1>1, <1>2, <1>3, <1>4, NextIsEither

(* No attempt is ever opened on a node before all it depends on completed: *)
(* without commits that are reported failed, for every graph, every policy *)
(* and handler, every sequence of commands, with timeouts, retries and     *)
(* failing workflows, as long as the log can be replayed.                  *)
THEOREM DependenciesComeFirst ==
  ~Ambiguity => (Spec => [](LogReplayable => DependenciesFirst))
<1> SUFFICES ASSUME ~Ambiguity
             PROVE  Spec => [](LogReplayable => DependenciesFirst)
  OBVIOUS
<1>1. DInv /\ [Next]_vars => DInv'
  BY NextDInv
<1>2. DInv => (LogReplayable => DependenciesFirst)
  <2> SUFFICES ASSUME DInv, pg.ok, NEW t \in Tasks, pg.task[t] \in Tried,
                      NEW d \in Deps[t]
               PROVE  pg.task[d] = "completed"
    BY DEF LogReplayable, DependenciesFirst, Tried
  <2>1. d \in wf.completed
    BY DEF DInv, Counted, Supported
  <2> QED
    BY <2>1 DEF DInv, CInv, FollowsLog
<1> QED
  BY <1>1, <1>2, InitDInv, PTL DEF Spec

(***************************************************************************)
(* The log stays replayable                                                *)
(***************************************************************************)
(* One event or transaction accepted: t moves to s, alone.                 *)
Moves(p, q, t, s) ==
  /\ q.ok /\ q.run = p.run /\ q.task[t] = s
  /\ \A u \in Tasks \ {t} : q.task[u] = p.task[u]

(* The opening transaction, of a first attempt or of a retry.              *)
LEMMA OpenedMoves ==
  ASSUME NEW p \in Projections, NEW t \in Tasks, NEW n \in 1..MaxAttempts,
         NEW id \in {"drawn", "derived"}, p.ok, p.run \notin TerminalRun,
         <<t, n>> \notin keys.begun,
         IF \E k \in 1..MaxAttempts : <<t, k>> \in keys.begun
           THEN p.task[t] = "failed" ELSE p.task[t] = "pending"
  PROVE  /\ Moves(p, Opened(p, t, n, id), t, "started")
         /\ Opened(p, t, n, id).conflicts = p.conflicts
<1> DEFINE a == <<t, n, id>>
           s == TaskScheduled(p, t)
           first == IF \E k \in 1..MaxAttempts : <<t, k>> \in keys.begun THEN p ELSE s
           second == AttemptCreated(first, t, a)
           third == TaskStarted(second, t, a)
<1>0. a \in AttemptIds
  BY DEF AttemptIds
<1>1. Opened(p, t, n, id) = third
  BY DEF Opened
<1>2. /\ first \in Projections /\ first.ok /\ first.run = p.run
      /\ first.conflicts = p.conflicts /\ first.task[t] \in {"scheduled", "failed"}
      /\ \A u \in Tasks \ {t} : first.task[u] = p.task[u]
  <2>1. CASE \E k \in 1..MaxAttempts : <<t, k>> \in keys.begun
    BY <2>1
  <2>2. CASE ~\E k \in 1..MaxAttempts : <<t, k>> \in keys.begun
    <3>1. p.task[t] = "pending"
      BY <2>2
    <3>2. s = [p EXCEPT !.task[t] = "scheduled"]
      BY <3>1 DEF TaskScheduled, MoveTask, TaskMay
    <3>3. first = s
      BY <2>2
    <3> HIDE DEF first, s
    <3> QED
      BY <3>2, <3>3 DEF Projections, TaskStatuses
  <2> QED
    BY <2>1, <2>2
<1> HIDE DEF a, first
<1>3. second = [first EXCEPT !.attempt[a] = "pending"]
  BY <1>2 DEF AttemptCreated
<1>4. /\ second \in Projections /\ second.ok /\ second.run = p.run
      /\ second.conflicts = p.conflicts /\ second.task = first.task
  BY <1>0, <1>2, <1>3 DEF Projections, AttemptStatuses
<1> HIDE DEF second
<1>5. third = [second EXCEPT !.task[t] = "started",
                  !.attempt[a] = IF @ = "none" THEN "pending" ELSE @]
  BY <1>2, <1>4 DEF TaskStarted, TaskMay
<1>6. /\ third.ok /\ third.run = p.run /\ third.conflicts = p.conflicts
      /\ third.task = [second.task EXCEPT ![t] = "started"]
  BY <1>4, <1>5 DEF Projections
<1>7. second.task \in [Tasks -> TaskStatuses]
  BY <1>4 DEF Projections
<1> HIDE DEF third
<1> QED
  BY <1>1, <1>2, <1>4, <1>6, <1>7 DEF Moves

(* The closing transactions, of an attempt that is open.                   *)
LEMMA ClosedMoves ==
  ASSUME NEW p \in Projections, NEW t \in Tasks, NEW n \in 1..MaxAttempts,
         NEW id \in {"drawn", "derived"}, NEW out \in SUBSET Fields,
         p.ok, p.task[t] = "started", <<t, n>> \notin keys.ended
  PROVE  /\ Moves(p, Succeeded(p, t, n, id, out), t, "completed")
         /\ \A c \in Succeeded(p, t, n, id, out).conflicts :
              c \in p.conflicts \/ c.second = t
         /\ Moves(p, FailedNow(p, t, n, id), t, "failed")
         /\ FailedNow(p, t, n, id).conflicts = p.conflicts
<1> DEFINE a == <<t, n, id>>
           own == [f \in Fields |-> IF f \in out /\ p.owner[f] = NoTask
                                      THEN t ELSE p.owner[f]]
           more == p.conflicts \cup
                     {[field |-> f, first |-> p.owner[f], second |-> t] :
                        f \in Contested(p, out)}
           done == TaskCompleted(p, t, out)
           lost == TaskFailed(p, t)
<1>0. a \in AttemptIds /\ {"committed", "aborted"} \subseteq AttemptStatuses
  BY DEF AttemptIds, AttemptStatuses
<1>1. /\ Succeeded(p, t, n, id, out) = AttemptClosed(done, t, a, "committed")
      /\ FailedNow(p, t, n, id) = AttemptClosed(lost, t, a, "aborted")
  BY DEF Succeeded, FailedNow
<1>2. \A c \in more : c \in p.conflicts \/ c.second = t
  OBVIOUS
<1> HIDE DEF a
<1>3. done \in Projections /\ lost \in Projections
  BY TaskCompletedIsLater, TaskEndsAreLater
<1>4. done = [p EXCEPT !.task[t] = "completed", !.owner = own, !.conflicts = more]
  BY DEF TaskCompleted, TaskMay
<1>5. lost = [p EXCEPT !.task[t] = "failed"]
  BY DEF TaskFailed, MoveTask, TaskMay
<1> HIDE DEF done, lost, own, more
<1>6. Moves(p, done, t, "completed") /\ done.conflicts = more
  BY <1>4 DEF Moves, Projections
<1>7. Moves(p, lost, t, "failed") /\ lost.conflicts = p.conflicts
  BY <1>5 DEF Moves, Projections
<1>8. ASSUME NEW q \in Projections, NEW to \in AttemptStatuses
      PROVE  /\ AttemptClosed(q, t, a, to).ok = q.ok
             /\ AttemptClosed(q, t, a, to).run = q.run
             /\ AttemptClosed(q, t, a, to).task = q.task
             /\ AttemptClosed(q, t, a, to).conflicts = q.conflicts
  BY DEF AttemptClosed, Projections
<1> QED
  BY <1>0, <1>1, <1>2, <1>3, <1>6, <1>7, <1>8 DEF Moves

(* Both in one transaction.                                                *)
LEMMA MovesCompose ==
  ASSUME NEW p, NEW q, NEW r, NEW t, NEW s, NEW e, Moves(p, q, t, s), Moves(q, r, t, e)
  PROVE  Moves(p, r, t, e)
BY DEF Moves

-----------------------------------------------------------------------------
(* Where the run may stand, by the place of the workflow.                  *)
Working ==
  {"plan", "skip", "dispatch", "create_approval", "wait_approval",
   "check_approval", "record_outcome", "serial", "parallel", "await",
   "record_failed", "round_done", "recheck", "continue_as_new"}

RunStands ==
  /\ pc = "start_run" => pg.run = "none" /\ \A t \in Tasks : pg.task[t] = "absent"
  /\ pg.run \in TerminalRun => pc = "closed"
  /\ pc \notin {"start_run", "closed", "dead"} => pg.run \in {"running", "paused"}
  /\ pc \in Working => pg.run = "running"
  /\ pc = "record" /\ note \in {"completed", "failed"} => pg.run = "running"

(* A run is paused once and resumed once: the keys see to it.  It is paused *)
(* only while the workflow waits or has a resume to record, and a resume    *)
(* to record is one an operator submitted, seeing the run paused.           *)
Pauses ==
  /\ pc = "record" /\ note = "paused" => wf.paused \/ wf.resumeDirty
  /\ pc = "record" /\ note = "resumed" => wf.resumeDirty
  /\ pc = "resumed" => wf.paused \/ pg.run # "paused"
  /\ pg.run = "paused" =>
       /\ "paused" \in keys.run /\ "resumed" \notin keys.run
       /\ wf.paused \/ wf.resumeDirty
  /\ "resumed" \in keys.run => "paused" \in keys.run
  /\ wf.resumeDirty => \E c \in Commands : Kind[c] = "resume" /\ cmd[c] # "new"
  /\ \A c \in Commands : Kind[c] = "resume" /\ cmd[c] # "new" =>
       "resumed" \in keys.run \/ pg.run \in {"paused"} \cup TerminalRun

(* Whether the log has the opening and the closing of attempt k.           *)
HasBegun(t, k) == <<t, k>> \in keys.begun
HasEnded(t, k) == <<t, k>> \in keys.ended

(* Attempts are opened and closed one after the other, up to the workflow's *)
(* count; the status of a task is that of its last attempt.                *)
KeysFit(t) ==
  \A k \in 1..MaxAttempts :
    /\ HasEnded(t, k) => HasBegun(t, k)
    /\ HasBegun(t, k) => k <= wf.tries[t]
    /\ k < wf.tries[t] => HasEnded(t, k)

StatusFits(t) ==
  /\ wf.tries[t] = 0 => pg.task[t] \in {"absent", "pending", "skipped"}
  /\ wf.tries[t] # 0 /\ ~HasBegun(t, wf.tries[t]) =>
       IF wf.tries[t] = 1 THEN pg.task[t] = "pending" ELSE pg.task[t] = "failed"
  /\ wf.tries[t] # 0 /\ HasBegun(t, wf.tries[t]) /\ ~HasEnded(t, wf.tries[t]) =>
       pg.task[t] = "started"
  /\ wf.tries[t] # 0 /\ HasEnded(t, wf.tries[t]) =>
       pg.task[t] \in {"completed", "failed"}

(* An execution is of the last attempt, and has left its keys.             *)
ExecFits(t) ==
  /\ act[t].phase # "error"
  /\ act[t].phase # "none" => wf.tries[t] # 0 /\ act[t].n = wf.tries[t]
  /\ act[t].phase \in {"begun", "ran"} => HasBegun(t, wf.tries[t])
  /\ act[t].phase = "ended" =>
       /\ HasEnded(t, wf.tries[t])
       /\ ~act[t].lost /\ act[t].out \notin {"completed", "downgraded"} =>
            pg.task[t] = "failed"

(* What the workflow has judged was attempted and closed; what it skipped  *)
(* was not attempted.                                                      *)
JudgedFits(t) ==
  /\ t \in wf.completed \cup wf.failed => wf.tries[t] # 0 /\ HasEnded(t, wf.tries[t])
  /\ t \in wf.skipped => wf.tries[t] = 0

(* The log has every skip but those being recorded.                        *)
SkipFits(t) ==
  /\ pg.task[t] = "skipped" /\ pg.run \notin TerminalRun =>
       t \in wf.skipped /\ ~(pc = "skip" /\ t \in todo)
  /\ t \in keys.skipped => pg.task[t] = "skipped"
  /\ pc = "skip" /\ t \in todo => t \in wf.skipped
  /\ t \in wf.skipped /\ ~(pc \in {"skip", "dead"} /\ t \in todo) =>
       pg.task[t] = "skipped"

Fits(t) == KeysFit(t) /\ StatusFits(t) /\ ExecFits(t) /\ JudgedFits(t)

LInv ==
  /\ pg.ok /\ RunStands /\ Pauses
  /\ \A t \in Tasks : Fits(t) /\ SkipFits(t)

-----------------------------------------------------------------------------
(* A step that does not concern task u.                                    *)
Unmoved(u) ==
  /\ \A k \in 1..MaxAttempts :
       /\ HasBegun(u, k)' <=> HasBegun(u, k)
       /\ HasEnded(u, k)' <=> HasEnded(u, k)
  /\ wf'.tries[u] = wf.tries[u] /\ act'[u] = act[u] /\ pg'.task[u] = pg.task[u]
  /\ u \in wf'.completed <=> u \in wf.completed
  /\ u \in wf'.failed <=> u \in wf.failed
  /\ u \in wf'.skipped <=> u \in wf.skipped

LEMMA TriesType ==
  ASSUME IInv, NEW t \in Tasks
  PROVE  wf.tries[t] \in Nat /\ (wf.tries[t] # 0 => wf.tries[t] \in 1..MaxAttempts)
BY ReducerAssumption DEF IInv, TypeOK, Memories, ReducerAssumption

LEMMA UnmovedFits ==
  ASSUME IInv, NEW u \in Tasks, Fits(u), Unmoved(u)
  PROVE  Fits(u)'
<1>1. wf'.tries[u] = wf.tries[u] /\ act'[u] = act[u] /\ pg'.task[u] = pg.task[u]
  BY DEF Unmoved
<1>2. wf.tries[u] # 0 =>
        /\ HasBegun(u, wf.tries[u])' <=> HasBegun(u, wf.tries[u])
        /\ HasEnded(u, wf.tries[u])' <=> HasEnded(u, wf.tries[u])
  <2>1. SUFFICES ASSUME wf.tries[u] # 0
                 PROVE  /\ HasBegun(u, wf.tries[u])' <=> HasBegun(u, wf.tries[u])
                        /\ HasEnded(u, wf.tries[u])' <=> HasEnded(u, wf.tries[u])
    OBVIOUS
  <2>2. wf.tries[u] \in 1..MaxAttempts
    BY <2>1, TriesType
  <2> QED
    BY <1>1, <2>2 DEF Unmoved, HasBegun, HasEnded
<1>3. KeysFit(u)'
  BY <1>1 DEF Fits, KeysFit, Unmoved
<1>4. StatusFits(u)'
  BY <1>1, <1>2 DEF Fits, StatusFits
<1>5. ExecFits(u)'
  BY <1>1, <1>2 DEF Fits, ExecFits
<1>6. JudgedFits(u)'
  BY <1>1, <1>2 DEF Fits, JudgedFits, Unmoved
<1> QED
  BY <1>3, <1>4, <1>5, <1>6 DEF Fits

(* The keys of the two transactions.                                       *)
LEMMA BegunKeys ==
  ASSUME keys \in EventKeys, NEW t \in Tasks, NEW n, keys' = Begun(t, n)
  PROVE  /\ \A u, k : HasBegun(u, k)' <=> HasBegun(u, k) \/ (u = t /\ k = n)
         /\ \A u, k : HasEnded(u, k)' <=> HasEnded(u, k)
         /\ keys'.run = keys.run /\ keys'.skipped = keys.skipped
<1> DEFINE begun == keys.begun \cup {<<t, n>>}
<1> HIDE DEF begun
<1>1. keys' = [keys EXCEPT !.begun = begun]
  BY DEF Begun, begun
<1>2. /\ keys'.begun = begun /\ keys'.ended = keys.ended
      /\ keys'.run = keys.run /\ keys'.skipped = keys.skipped
  BY <1>1 DEF EventKeys
<1> QED
  BY <1>2 DEF begun, HasBegun, HasEnded

LEMMA EndedKeys ==
  ASSUME keys \in EventKeys, NEW t \in Tasks, NEW n, keys' = Ended(t, n)
  PROVE  /\ \A u, k : HasBegun(u, k)' <=> HasBegun(u, k) \/ (u = t /\ k = n)
         /\ \A u, k : HasEnded(u, k)' <=> HasEnded(u, k) \/ (u = t /\ k = n)
         /\ keys'.run = keys.run /\ keys'.skipped = keys.skipped
<1> DEFINE begun == keys.begun \cup {<<t, n>>}
           ended == keys.ended \cup {<<t, n>>}
<1> HIDE DEF begun, ended
<1>1. keys' = [keys EXCEPT !.begun = begun, !.ended = ended]
  BY DEF Ended, begun, ended
<1>2. /\ keys'.begun = begun /\ keys'.ended = ended
      /\ keys'.run = keys.run /\ keys'.skipped = keys.skipped
  BY <1>1 DEF EventKeys
<1> QED
  BY <1>2 DEF begun, ended, HasBegun, HasEnded

(* A task that was attempted and whose attempt is not closed is in flight,  *)
(* and its run has not ended.                                              *)
LEMMA OpenIsInFlight ==
  ASSUME IInv, LInv, NEW t \in Tasks, wf.tries[t] # 0, ~HasEnded(t, wf.tries[t])
  PROVE  /\ pc # "dead" => t \in InFlight
         /\ pg.run \notin TerminalRun
<1>1. t \notin Terminal
  BY DEF LInv, Fits, JudgedFits, Terminal
<1>2. pc # "dead" => t \in InFlight
  BY <1>1 DEF IInv, Rounds
<1>3. pc # "closed"
  BY <1>2 DEF InFlight, AtTask
<1> QED
  BY <1>2, <1>3 DEF LInv, RunStands

(* What is about to start is pending, what is retried has failed, and the  *)
(* transaction that opens the attempt is accepted.                         *)
LEMMA OpeningAccepted ==
  ASSUME IInv, LInv, NEW t \in Tasks, NEW id \in {"drawn", "derived"},
         wf.tries[t] # 0, ~HasBegun(t, wf.tries[t])
  PROVE  /\ Moves(pg, Opened(pg, t, wf.tries[t], id), t, "started")
         /\ Opened(pg, t, wf.tries[t], id).conflicts = pg.conflicts
<1>1. wf.tries[t] \in 1..MaxAttempts
  BY TriesType
<1>2. Fits(t)
  BY DEF LInv
<1>3. ~HasEnded(t, wf.tries[t])
  BY <1>1, <1>2 DEF Fits, KeysFit
<1>4. pg \in Projections /\ pg.ok /\ pg.run \notin TerminalRun
  BY <1>3, OpenIsInFlight DEF LInv, IInv, TypeOK
<1>5. (\E k \in 1..MaxAttempts : HasBegun(t, k)) <=> wf.tries[t] # 1
  <2>1. ASSUME NEW k \in 1..MaxAttempts, HasBegun(t, k)
        PROVE  wf.tries[t] # 1
    BY <1>1, <1>2, <2>1 DEF Fits, KeysFit
  <2>2. ASSUME wf.tries[t] # 1
        PROVE  HasBegun(t, 1)
    <3>1. 1 \in 1..MaxAttempts /\ 1 < wf.tries[t]
      BY <1>1, <2>2, ReducerAssumption DEF ReducerAssumption
    <3> QED
      BY <1>2, <3>1 DEF Fits, KeysFit
  <2>3. 1 \in 1..MaxAttempts
    BY ReducerAssumption DEF ReducerAssumption
  <2> QED
    BY <2>1, <2>2, <2>3
<1>6. IF \E k \in 1..MaxAttempts : <<t, k>> \in keys.begun
        THEN pg.task[t] = "failed" ELSE pg.task[t] = "pending"
  BY <1>2, <1>5 DEF Fits, StatusFits, HasBegun
<1> QED
  BY <1>1, <1>4, <1>6, OpenedMoves DEF HasBegun

-----------------------------------------------------------------------------
(* Around the workflow: one execution moves.                               *)
LEMMA ExecutionFits ==
  ASSUME IInv, CInv, LInv, UNCHANGED <<wfVars, cmd>>, NEW t \in Tasks,
         wf.tries[t] # 0, Fits(t)', \A u \in Tasks \ {t} : Unmoved(u),
         pg'.ok, pg'.run = pg.run,
         keys'.run = keys.run, keys'.skipped = keys.skipped
  PROVE  LInv'
<1>1. pc # "start_run"
  BY DEF CInv, Fresh
<1>2. UNCHANGED <<wf, pc, todo, note, cmd>>
  BY DEF wfVars
<1>3. RunStands' /\ Pauses'
  <2>1. RunStands'
    BY <1>1, <1>2 DEF LInv, RunStands
  <2>2. Pauses'
    BY <1>1, <1>2 DEF LInv, Pauses
  <2> QED
    BY <2>1, <2>2
<1>4. t \notin wf.skipped /\ pg.task[t] # "skipped" /\ pg'.task[t] # "skipped"
  <2>1. Fits(t) /\ Fits(t)'
    BY DEF LInv
  <2> QED
    BY <1>2, <2>1 DEF Fits, JudgedFits, StatusFits
<1>5. ASSUME NEW u \in Tasks PROVE Fits(u)' /\ SkipFits(u)'
  <2>1. CASE u = t
    BY <1>2, <1>4, <2>1 DEF LInv, SkipFits
  <2>2. CASE u # t
    <3>1. Fits(u) /\ SkipFits(u) /\ pg'.task[u] = pg.task[u]
      BY <2>2 DEF LInv, Unmoved
    <3> QED
      BY <1>2, <2>2, <3>1, UnmovedFits DEF SkipFits
  <2> QED
    BY <2>1, <2>2
<1> QED
  BY <1>3, <1>5 DEF LInv

(* Nobody else moves, or no task does.                                     *)
LEMMA OthersUnmoved ==
  ASSUME IInv, UNCHANGED wf, NEW t \in Tasks, NEW n,
         \A u \in Tasks \ {t} : act'[u] = act[u] /\ pg'.task[u] = pg.task[u],
         \/ keys' = keys
         \/ keys' = Begun(t, n)
         \/ keys' = Ended(t, n)
  PROVE  \A u \in Tasks \ {t} : Unmoved(u)
<1>1. keys \in EventKeys
  BY DEF IInv, TypeOK
<1>2. \A u \in Tasks \ {t}, k \in 1..MaxAttempts :
        /\ HasBegun(u, k)' <=> HasBegun(u, k)
        /\ HasEnded(u, k)' <=> HasEnded(u, k)
  <2>1. CASE keys' = keys
    BY <2>1 DEF HasBegun, HasEnded
  <2>2. CASE keys' = Begun(t, n)
    BY <1>1, <2>2, BegunKeys
  <2>3. CASE keys' = Ended(t, n)
    BY <1>1, <2>3, EndedKeys
  <2> QED
    BY <2>1, <2>2, <2>3
<1> QED
  BY <1>2 DEF Unmoved

(* No task is concerned, and the workflow stays where it is.               *)
LEMMA BystanderFits ==
  ASSUME IInv, LInv, SamePlace, UNCHANGED <<pg, keys, act>>, Pauses'
  PROVE  LInv'
<1>1. \A u \in Tasks : Unmoved(u)
  BY DEF Unmoved, HasBegun, HasEnded, SamePlace
<1>2. ASSUME NEW u \in Tasks PROVE Fits(u)' /\ SkipFits(u)'
  <2>1. Fits(u) /\ SkipFits(u)
    BY DEF LInv
  <2> QED
    BY <1>1, <2>1, UnmovedFits DEF SkipFits, SamePlace
<1>3. RunStands'
  BY DEF LInv, RunStands, SamePlace
<1> QED
  BY <1>2, <1>3 DEF LInv

LEMMA FitsBegin ==
  ASSUME IInv, CInv, LInv, NEW t \in Tasks, BeginTask(t)
  PROVE  LInv'
<1> DEFINE n == wf.tries[t]
<1>0. act \in [Tasks -> Executions] /\ keys \in EventKeys /\ Fits(t)
  BY DEF IInv, TypeOK, LInv
<1>1. act[t].phase = "queued" /\ n # 0 /\ act[t].n = n
  BY <1>0 DEF BeginTask, Fits, ExecFits
<1>2. n \in 1..MaxAttempts
  BY <1>1, TriesType
<1>3. act' = [act EXCEPT ![t].phase = "begun"]
  BY DEF BeginTask, Step
<1>4. /\ act'[t].phase = "begun" /\ act'[t].n = n
      /\ \A u \in Tasks \ {t} : act'[u] = act[u]
  BY <1>0, <1>1, <1>3 DEF Executions
<1>5. keys' = Begun(t, n) /\ pg' = Opened(pg, t, n, "drawn") /\ UNCHANGED <<wfVars, cmd>>
  BY <1>1 DEF BeginTask
<1>6. /\ \A k : HasBegun(t, k)' <=> HasBegun(t, k) \/ k = n
      /\ \A k : HasEnded(t, k)' <=> HasEnded(t, k)
      /\ keys'.run = keys.run /\ keys'.skipped = keys.skipped
  BY <1>0, <1>5, BegunKeys
<1>7. /\ pg'.ok /\ pg'.run = pg.run
      /\ IF HasBegun(t, n) THEN pg'.task[t] = pg.task[t] ELSE pg'.task[t] = "started"
      /\ \A u \in Tasks \ {t} : pg'.task[u] = pg.task[u]
  <2>1. CASE HasBegun(t, n)
    <3>1. pg' = pg
      BY <1>5, <2>1 DEF Opened, HasBegun
    <3> QED
      BY <2>1, <3>1 DEF LInv
  <2>2. CASE ~HasBegun(t, n)
    BY <1>1, <1>5, <2>2, OpeningAccepted DEF Moves
  <2> QED
    BY <2>1, <2>2
<1>8. UNCHANGED wf /\ wf'.tries[t] = n
  BY <1>5 DEF wfVars
<1> HIDE DEF n
<1>9. HasEnded(t, n) => HasBegun(t, n)
  BY <1>0, <1>2 DEF Fits, KeysFit
<1>10. Fits(t)'
  <2>1. KeysFit(t)'
    BY <1>0, <1>2, <1>6, <1>8 DEF Fits, KeysFit, n
  <2>2. StatusFits(t)'
    BY <1>0, <1>1, <1>6, <1>7, <1>8, <1>9 DEF Fits, StatusFits, n
  <2>3. ExecFits(t)'
    BY <1>1, <1>4, <1>6, <1>8 DEF ExecFits
  <2>4. JudgedFits(t)'
    BY <1>0, <1>6, <1>8 DEF Fits, JudgedFits
  <2> QED
    BY <2>1, <2>2, <2>3, <2>4 DEF Fits
<1>11. \A u \in Tasks \ {t} : Unmoved(u)
  BY <1>4, <1>5, <1>7, <1>8, OthersUnmoved
<1> QED
  BY <1>1, <1>5, <1>6, <1>7, <1>10, <1>11, ExecutionFits DEF n

(* An execution moves without a trace in the log.                          *)
LEMMA FitsInside ==
  ASSUME IInv, CInv, LInv, NEW t \in Tasks, act[t].phase # "none",
         UNCHANGED <<pg, keys, wfVars, cmd>>,
         act'[t].n = act[t].n,
         \A u \in Tasks \ {t} : act'[u] = act[u],
         \/ act'[t].phase = "queued"
         \/ act'[t].phase = "ran" /\ act[t].phase = "begun"
         \/ act'[t].phase = act[t].phase /\ act'[t].lost
  PROVE  LInv'
<1>0. keys \in EventKeys /\ Fits(t)
  BY DEF IInv, TypeOK, LInv
<1>1. UNCHANGED wf
  BY DEF wfVars
<1>2. \A k : HasBegun(t, k)' <=> HasBegun(t, k)
  BY DEF HasBegun
<1>3. \A k : HasEnded(t, k)' <=> HasEnded(t, k)
  BY DEF HasEnded
<1>4. Fits(t)'
  <2>1. KeysFit(t)'
    BY <1>0, <1>1, <1>2, <1>3 DEF Fits, KeysFit
  <2>2. StatusFits(t)'
    BY <1>0, <1>1, <1>2, <1>3 DEF Fits, StatusFits
  <2>3. ExecFits(t)'
    BY <1>0, <1>1, <1>2, <1>3 DEF Fits, ExecFits
  <2>4. JudgedFits(t)'
    BY <1>0, <1>1, <1>2, <1>3 DEF Fits, JudgedFits
  <2> QED
    BY <2>1, <2>2, <2>3, <2>4 DEF Fits
<1>5. \A u \in Tasks \ {t} : Unmoved(u)
  BY <1>1, OthersUnmoved
<1>6. wf.tries[t] # 0
  BY <1>0 DEF Fits, ExecFits
<1>7. pg'.ok /\ pg'.run = pg.run
  BY DEF LInv
<1> QED
  BY <1>4, <1>5, <1>6, <1>7, ExecutionFits

LEMMA FitsEnd ==
  ASSUME IInv, CInv, LInv, NEW t \in Tasks, EndTask(t)
  PROVE  LInv'
<1> DEFINE n == wf.tries[t]
<1>0. act \in [Tasks -> Executions] /\ keys \in EventKeys /\ Fits(t) /\ pg \in Projections
  BY DEF IInv, TypeOK, LInv
<1>1. act[t].phase = "ran" /\ n # 0 /\ act[t].n = n /\ HasBegun(t, n)
  BY <1>0 DEF EndTask, Fits, ExecFits
<1>2. n \in 1..MaxAttempts
  BY <1>1, TriesType
<1>3. act' = [act EXCEPT ![t].phase = "ended"] /\ Commit(t) /\ UNCHANGED <<wfVars, cmd>>
  BY DEF EndTask, Step, LInv
<1>4. /\ act'[t].phase = "ended" /\ act'[t].n = n
      /\ act'[t].out = act[t].out /\ act'[t].lost = act[t].lost
      /\ \A u \in Tasks \ {t} : act'[u] = act[u]
  BY <1>0, <1>1, <1>3 DEF Executions
<1>5. /\ keys' = Ended(t, n)
      /\ IF act[t].out \in {"completed", "downgraded"}
           THEN pg' = Succeeded(pg, t, n, "drawn", Output(t))
           ELSE pg' = FailedNow(pg, t, n, "drawn")
  BY <1>1, <1>3 DEF Commit
<1>6. /\ \A k : HasBegun(t, k)' <=> HasBegun(t, k) \/ k = n
      /\ \A k : HasEnded(t, k)' <=> HasEnded(t, k) \/ k = n
      /\ keys'.run = keys.run /\ keys'.skipped = keys.skipped
  BY <1>0, <1>5, EndedKeys
<1>7. UNCHANGED wf /\ wf'.tries[t] = n
  BY <1>3 DEF wfVars
<1>8. /\ pg'.ok /\ pg'.run = pg.run /\ pg'.task[t] \in {"completed", "failed"}
      /\ ~act[t].lost /\ act[t].out \notin {"completed", "downgraded"}
           => pg'.task[t] = "failed"
      /\ \A u \in Tasks \ {t} : pg'.task[u] = pg.task[u]
  <2>1. CASE HasEnded(t, n)
    <3>1. pg' = pg
      BY <1>5, <2>1 DEF Succeeded, FailedNow, HasEnded
    <3>2. act[t].lost
      BY <1>1, <2>1 DEF CInv, EndedOnce, HasEnded
    <3> QED
      BY <1>0, <1>1, <2>1, <3>1, <3>2 DEF LInv, Fits, StatusFits
  <2>2. CASE ~HasEnded(t, n)
    <3>1. pg.ok /\ pg.task[t] = "started" /\ <<t, n>> \notin keys.ended
      BY <1>0, <1>1, <2>2 DEF LInv, Fits, StatusFits, HasEnded
    <3> HIDE DEF n
    <3>2. /\ Moves(pg, Succeeded(pg, t, n, "drawn", Output(t)), t, "completed")
          /\ Moves(pg, FailedNow(pg, t, n, "drawn"), t, "failed")
      BY <1>0, <1>2, <3>1, OutputType, ClosedMoves
    <3> QED
      BY <1>5, <3>2 DEF Moves
  <2> QED
    BY <2>1, <2>2
<1> HIDE DEF n
<1>9. Fits(t)'
  <2>1. KeysFit(t)'
    BY <1>0, <1>2, <1>6, <1>7 DEF Fits, KeysFit, n
  <2>2. StatusFits(t)'
    BY <1>1, <1>6, <1>7, <1>8 DEF StatusFits
  <2>3. ExecFits(t)'
    BY <1>1, <1>4, <1>6, <1>7, <1>8 DEF ExecFits
  <2>4. JudgedFits(t)'
    BY <1>0, <1>6, <1>7 DEF Fits, JudgedFits
  <2> QED
    BY <2>1, <2>2, <2>3, <2>4 DEF Fits
<1>10. \A u \in Tasks \ {t} : Unmoved(u)
  BY <1>4, <1>5, <1>7, <1>8, OthersUnmoved
<1> QED
  BY <1>1, <1>3, <1>6, <1>8, <1>9, <1>10, ExecutionFits DEF n

(* The handlers of cancel, pause and resume, as far as a pause goes.       *)
LEMMA SignalledFlags ==
  ASSUME TypeOK, NEW c \in Commands
  PROVE  /\ wf.resumeDirty => Signalled(c).resumeDirty
         /\ wf.paused \/ wf.resumeDirty =>
              Signalled(c).paused \/ Signalled(c).resumeDirty
         /\ Signalled(c).resumeDirty /\ ~wf.resumeDirty => Kind[c] = "resume"
<1> DEFINE w == [wf EXCEPT !.seen = @ \cup {c}]
<1>1. w \in Memories /\ w.paused = wf.paused /\ w.resumeDirty = wf.resumeDirty
  BY DEF TypeOK, Memories
<1>2. Kind[c] \in {"cancel", "pause", "resume"}
  BY RunAssumption DEF RunAssumption
<1>3. \/ Signalled(c) = wf
      \/ Signalled(c) = [w EXCEPT !.cancel = TRUE]
      \/ Signalled(c) = [w EXCEPT !.paused = TRUE, !.pauseDirty = TRUE]
      \/ Kind[c] = "resume" /\ Signalled(c) = [w EXCEPT !.paused = FALSE, !.resumeDirty = TRUE]
  BY <1>2 DEF Signalled
<1> HIDE DEF w
<1>4. CASE Signalled(c) = wf
  BY <1>4
<1>5. CASE Signalled(c) = [w EXCEPT !.cancel = TRUE]
  BY <1>1, <1>5 DEF Memories
<1>6. CASE Signalled(c) = [w EXCEPT !.paused = TRUE, !.pauseDirty = TRUE]
  BY <1>1, <1>6 DEF Memories
<1>7. CASE Kind[c] = "resume" /\ Signalled(c) = [w EXCEPT !.paused = FALSE, !.resumeDirty = TRUE]
  BY <1>1, <1>7 DEF Memories
<1> QED
  BY <1>3, <1>4, <1>5, <1>6, <1>7

(* Operators who resume only what they see paused.                         *)
LEMMA PausesOutside ==
  ASSUME IInv, LInv, Polite, NEW c \in Commands, Submit(c) \/ Signal(c) \/ TooLate(c)
  PROVE  Pauses'
<1>0. TypeOK /\ cmd \in [Commands -> {"new", "pending", "sent", "dead"}]
  BY DEF IInv, TypeOK
<1>1. Pauses /\ UNCHANGED <<pg, keys, pc, note>>
  BY OutsideStaysInPlace DEF LInv, Submit, Signal, TooLate, logVars, wfVars
<1>2. CASE Submit(c)
  <2>1. cmd[c] = "new" /\ (Kind[c] = "resume" => pg.run = "paused")
        /\ cmd' = [cmd EXCEPT ![c] = "pending"] /\ UNCHANGED wf
    BY <1>2 DEF Submit, wfVars
  <2>2. cmd'[c] = "pending" /\ \A d \in Commands \ {c} : cmd'[d] = cmd[d]
    BY <1>0, <2>1
  <2> QED
    BY <1>1, <2>1, <2>2 DEF Pauses
<1>3. CASE Signal(c)
  <2>1. cmd[c] # "new" /\ pc # "resumed" /\ wf' = Signalled(c)
        /\ cmd' = [cmd EXCEPT ![c] = "sent"]
    BY <1>3 DEF Signal, Awaiting
  <2>2. cmd'[c] = "sent" /\ \A d \in Commands \ {c} : cmd'[d] = cmd[d]
    BY <1>0, <2>1
  <2>3. /\ wf.resumeDirty => wf'.resumeDirty
        /\ wf.paused \/ wf.resumeDirty => wf'.paused \/ wf'.resumeDirty
        /\ wf'.resumeDirty /\ ~wf.resumeDirty => Kind[c] = "resume"
    BY <1>0, <2>1, SignalledFlags
  <2> QED
    BY <1>1, <2>1, <2>2, <2>3 DEF Pauses
<1>4. CASE TooLate(c)
  <2>1. cmd[c] # "new" /\ cmd' = [cmd EXCEPT ![c] = "dead"] /\ UNCHANGED wf
    BY <1>4 DEF TooLate, wfVars
  <2>2. cmd'[c] = "dead" /\ \A d \in Commands \ {c} : cmd'[d] = cmd[d]
    BY <1>0, <2>1
  <2> QED
    BY <1>1, <2>1, <2>2 DEF Pauses
<1> QED
  BY <1>2, <1>3, <1>4

LEMMA FitsOutside == IInv /\ CInv /\ LInv /\ Polite /\ ~Ambiguity /\ Outside => LInv'
<1> SUFFICES ASSUME IInv, CInv, LInv, Polite, ~Ambiguity, Outside PROVE LInv'
  OBVIOUS
<1>0. TypeOK /\ SamePlace
  BY OutsideStaysInPlace DEF IInv
<1>1. act \in [Tasks -> Executions] /\ wf \in Memories
  BY <1>0 DEF TypeOK
<1>2. ASSUME NEW t \in Tasks, RunHandler(t)
      PROVE  LInv'
  <2>1. /\ act[t] \in Executions /\ act[t].phase = "begun"
        /\ UNCHANGED <<pg, keys, wfVars, cmd>>
    BY <1>1, <1>2 DEF RunHandler, logVars
  <2>2. \E out : act' = [act EXCEPT ![t].phase = "ran", ![t].out = out]
    BY <1>2 DEF RunHandler, LInv
  <2>3. act'[t].phase = "ran" /\ act'[t].n = act[t].n
        /\ \A u \in Tasks \ {t} : act'[u] = act[u]
    BY <1>1, <2>1, <2>2 DEF Executions
  <2> QED
    BY <2>1, <2>3, FitsInside
<1>3. ASSUME NEW t \in Tasks, RetryTask(t)
      PROVE  LInv'
  <2>1. /\ act[t] \in Executions /\ act[t].phase \in {"begun", "ran"}
        /\ UNCHANGED <<pg, keys, wfVars, cmd>>
        /\ act' = [act EXCEPT ![t].phase = "queued", ![t].out = "none"]
    BY <1>1, <1>3 DEF RetryTask, logVars
  <2>2. act'[t].phase = "queued" /\ act'[t].n = act[t].n
        /\ \A u \in Tasks \ {t} : act'[u] = act[u]
    BY <1>1, <2>1 DEF Executions
  <2> QED
    BY <2>1, <2>2, FitsInside
<1>4. ASSUME NEW t \in Tasks, LoseTask(t)
      PROVE  LInv'
  <2>1. /\ act[t] \in Executions /\ act[t].phase # "none"
        /\ UNCHANGED <<pg, keys, wfVars, cmd>>
        /\ act' = [act EXCEPT ![t].lost = TRUE]
    BY <1>1, <1>4 DEF LoseTask, logVars
  <2>2. act'[t].phase = act[t].phase /\ act'[t].n = act[t].n /\ act'[t].lost
        /\ \A u \in Tasks \ {t} : act'[u] = act[u]
    BY <1>1, <2>1 DEF Executions
  <2> QED
    BY <2>1, <2>2, FitsInside
<1>5. ASSUME NEW t \in Tasks, Decisive(t) \/ Expire(t)
      PROVE  LInv'
  <2>1. UNCHANGED <<pg, keys, act, cmd, wf, pc, note>>
    BY <1>5 DEF Decisive, Decide, CommitDecision, Expire, logVars, wfVars
  <2>2. Pauses'
    BY <2>1 DEF LInv, Pauses
  <2> QED
    BY <1>0, <2>1, <2>2, BystanderFits
<1>6. ASSUME NEW t \in Tasks, SignalDecision(t)
      PROVE  LInv'
  <2>1. UNCHANGED <<pg, keys, act, cmd, pc, note>>
        /\ wf' = [wf EXCEPT !.decisions[t] = approval[t].row]
    BY <1>6 DEF SignalDecision, logVars
  <2>2. wf'.paused = wf.paused /\ wf'.resumeDirty = wf.resumeDirty
    BY <1>1, <2>1 DEF Memories
  <2>3. Pauses'
    BY <2>1, <2>2 DEF LInv, Pauses
  <2> QED
    BY <1>0, <2>1, <2>3, BystanderFits
<1>7. ASSUME NEW c \in Commands, Submit(c) \/ Signal(c) \/ TooLate(c)
      PROVE  LInv'
  <2>1. UNCHANGED <<pg, keys, act>>
    BY <1>7 DEF Submit, Signal, TooLate, logVars
  <2> QED
    BY <1>0, <1>7, <2>1, PausesOutside, BystanderFits
<1> QED
  BY <1>2, <1>3, <1>4, <1>5, <1>6, <1>7, FitsBegin, FitsEnd DEF Outside, Activity

-----------------------------------------------------------------------------
(* The workflow, from await to await.                                      *)
Marking == {"start_run", "skip", "closed", "dead"}

(* What a step needs to leave the run where it stands: it works only on a  *)
(* running run.                                                            *)
StandsStill ==
  /\ pg'.ok /\ pg'.run = pg.run
  /\ keys'.run = keys.run /\ keys'.skipped = keys.skipped
  /\ pc' \in Working \/ (pc' = "record" /\ note' \in {"completed", "failed"})
       => pg.run = "running"
  /\ Pauses'

(* A step of the workflow that concerns the tasks S, all of them attempted. *)
LEMMA StepFits ==
  ASSUME IInv, LInv, pc \notin Marking, pc' \notin Marking, StandsStill,
         NEW S \in SUBSET Tasks, wf'.skipped = wf.skipped,
         \A u \in S : Fits(u)' /\ wf'.tries[u] # 0,
         \A u \in Tasks \ S : Unmoved(u)
  PROVE  LInv'
<1>1. RunStands'
  BY DEF LInv, RunStands, StandsStill, Marking, Working
<1>2. pg.run \notin TerminalRun
  BY DEF LInv, RunStands, Marking
<1>3. ASSUME NEW u \in S PROVE Fits(u)' /\ SkipFits(u)'
  <2>1. Fits(u)' /\ wf'.tries[u] # 0 /\ SkipFits(u)
    BY DEF LInv
  <2>2. u \notin wf'.skipped /\ pg'.task[u] # "skipped"
    BY <2>1 DEF Fits, JudgedFits, StatusFits
  <2>3. pg.task[u] # "skipped" /\ u \notin keys.skipped
    BY <1>2, <2>1, <2>2 DEF SkipFits
  <2> QED
    BY <2>1, <2>2, <2>3 DEF SkipFits, StandsStill, Marking
<1>4. ASSUME NEW u \in Tasks \ S PROVE Fits(u)' /\ SkipFits(u)'
  <2>1. Fits(u) /\ SkipFits(u) /\ pg'.task[u] = pg.task[u]
    BY DEF LInv, Unmoved
  <2>2. Fits(u)'
    BY <2>1, UnmovedFits
  <2>3. pg'.task[u] = pg.task[u] /\ pg'.run = pg.run /\ keys'.skipped = keys.skipped
    BY <2>1 DEF StandsStill
  <2>4. pc \notin {"skip", "dead"} /\ pc' \notin {"skip", "dead"}
    BY DEF Marking
  <2>5. SkipFits(u)'
    BY <1>2, <2>1, <2>3, <2>4 DEF SkipFits
  <2> QED
    BY <2>2, <2>5
<1> QED
  BY <1>1, <1>3, <1>4 DEF LInv, StandsStill

(* A step that leaves the pause alone.                                     *)
LEMMA SamePause ==
  ASSUME LInv, UNCHANGED cmd, pg'.run = pg.run, keys'.run = keys.run,
         wf'.paused = wf.paused, wf'.resumeDirty = wf.resumeDirty,
         pc' \notin {"record", "resumed"}
  PROVE  Pauses'
BY DEF LInv, Pauses

(* No task is concerned.                                                   *)
LEMMA QuietFits ==
  ASSUME IInv, LInv, pc \notin Marking, pc' \notin Marking,
         UNCHANGED <<pg, keys, act>>, Pauses',
         wf'.completed = wf.completed, wf'.failed = wf.failed,
         wf'.skipped = wf.skipped, wf'.tries = wf.tries,
         pc' \in Working \/ (pc' = "record" /\ note' \in {"completed", "failed"})
           => pg.run = "running"
  PROVE  LInv'
<1>1. StandsStill
  BY DEF StandsStill, LInv
<1>2. \A u \in Tasks \ {} : Unmoved(u)
  BY DEF Unmoved, HasBegun, HasEnded
<1>3. {} \in SUBSET Tasks /\ \A u \in {} : Fits(u)' /\ wf'.tries[u] # 0
  OBVIOUS
<1> QED
  BY <1>1, <1>2, <1>3, StepFits

(* Most steps go from one place where the workflow works to another.       *)
LEMMA WorkFits ==
  ASSUME IInv, LInv, pc \in Working \ {"skip"},
         pc' \in (Working \ {"skip"}) \cup {"loop", "wait_resume"},
         UNCHANGED <<pg, keys, act, cmd>>,
         wf'.completed = wf.completed, wf'.failed = wf.failed,
         wf'.skipped = wf.skipped, wf'.tries = wf.tries,
         wf'.paused = wf.paused, wf'.resumeDirty = wf.resumeDirty
  PROVE  LInv'
<1>1. pg.run = "running"
  BY DEF LInv, RunStands, Working
<1>2. Pauses'
  BY SamePause DEF Working
<1> QED
  BY <1>1, <1>2, QuietFits DEF Working, Marking

(* An attempt is counted: the first of a task that waits, or the next of   *)
(* one whose last attempt failed.                                          *)
LEMMA CountedFits ==
  ASSUME IInv, LInv, UNCHANGED <<pg, keys>>, NEW t \in Tasks,
         t \notin Terminal, t \notin wf'.completed \cup wf'.failed \cup wf'.skipped,
         wf'.tries[t] = wf.tries[t] + 1,
         IF wf.tries[t] = 0 THEN pg.task[t] = "pending"
           ELSE HasEnded(t, wf.tries[t]) /\ pg.task[t] = "failed",
         \/ act'[t].phase = "none"
         \/ act'[t].phase = "queued" /\ act'[t].n = wf.tries[t] + 1
  PROVE  Fits(t)' /\ wf'.tries[t] # 0
<1>0. Fits(t) /\ wf.tries[t] \in 0..MaxAttempts
  BY DEF LInv, IInv, TypeOK, Memories
<1>1. \A k : HasBegun(t, k)' <=> HasBegun(t, k)
  BY DEF HasBegun
<1>2. \A k : HasEnded(t, k)' <=> HasEnded(t, k)
  BY DEF HasEnded
<1>3. ~HasBegun(t, wf'.tries[t]) /\ ~HasEnded(t, wf'.tries[t])
  <2>1. keys.begun \subseteq Tasks \X (1..MaxAttempts) /\ keys.ended \subseteq Tasks \X (1..MaxAttempts)
    BY DEF IInv, TypeOK, EventKeys
  <2>2. CASE wf'.tries[t] \in 1..MaxAttempts
    BY <1>0, <2>2, ReducerAssumption DEF Fits, KeysFit, ReducerAssumption
  <2>3. CASE wf'.tries[t] \notin 1..MaxAttempts
    BY <2>1, <2>3 DEF HasBegun, HasEnded
  <2> QED
    BY <2>2, <2>3
<1>4. KeysFit(t)'
  <2>1. ASSUME NEW k \in 1..MaxAttempts
        PROVE  /\ HasEnded(t, k) => HasBegun(t, k)
               /\ HasBegun(t, k) => k <= wf.tries[t] + 1
               /\ k < wf.tries[t] + 1 => HasEnded(t, k)
    <3>1. k \in Nat /\ k # 0 /\ wf.tries[t] \in Nat
      BY <1>0, ReducerAssumption DEF ReducerAssumption
    <3>2. k < wf.tries[t] + 1 => k < wf.tries[t] \/ k = wf.tries[t]
      BY <3>1
    <3>3. k <= wf.tries[t] => k <= wf.tries[t] + 1
      BY <3>1
    <3> QED
      BY <1>0, <3>1, <3>2, <3>3 DEF Fits, KeysFit
  <2> QED
    BY <1>1, <1>2, <2>1 DEF KeysFit
<1>5. StatusFits(t)'
  <2>1. wf'.tries[t] = 1 <=> wf.tries[t] = 0
    BY <1>0
  <2> QED
    BY <1>0, <1>1, <1>2, <1>3, <2>1 DEF StatusFits
<1>6. ExecFits(t)'
  BY <1>0, <1>1, <1>2 DEF ExecFits
<1>7. JudgedFits(t)'
  BY DEF JudgedFits
<1> QED
  BY <1>0, <1>4, <1>5, <1>6, <1>7 DEF Fits

(* What is about to start is pending in the log.                           *)
LEMMA ToStartIsPending ==
  ASSUME IInv, CInv, LInv, pc \notin Marking, NEW t \in ToStart
  PROVE  /\ t \in Tasks /\ t \notin Terminal /\ wf.tries[t] = 0
         /\ act[t].phase = "none" /\ pg.task[t] = "pending"
<1>1. t \in Tasks /\ t \notin Terminal /\ wf.tries[t] = 0 /\ act[t].phase = "none"
  BY NothingUsedYet DEF IInv, Rounds, Marking
<1>2. pg.task[t] # "absent"
  BY <1>1 DEF CInv, Known, Marking
<1>3. pg.run \notin TerminalRun
  BY DEF LInv, RunStands, Marking
<1>4. pg.task[t] # "skipped"
  BY <1>1, <1>3 DEF LInv, SkipFits, Terminal
<1> QED
  BY <1>1, <1>2, <1>4 DEF LInv, Fits, StatusFits

(* Where work goes on, the run is running and nobody pauses it.            *)
LEMMA WorkStands ==
  ASSUME LInv, pc \in Working, UNCHANGED cmd, pg'.ok, pg'.run = pg.run,
         keys'.run = keys.run, keys'.skipped = keys.skipped,
         wf'.paused = wf.paused, wf'.resumeDirty = wf.resumeDirty,
         pc' \notin {"record", "resumed"}
  PROVE  StandsStill
BY SamePause DEF LInv, RunStands, StandsStill

(* Tasks are started, or one is started again.                             *)
LEMMA StartFits ==
  ASSUME IInv, CInv, LInv, NEW S \in SUBSET Tasks, Start(S),
         UNCHANGED <<pg, keys, cmd>>, pc \in Working \ {"skip"},
         pc' \in {"await", "parallel"},
         \A t \in S :
           /\ wf.tries[t] < MaxAttempts /\ t \notin Terminal
           /\ IF wf.tries[t] = 0 THEN pg.task[t] = "pending"
              ELSE HasEnded(t, wf.tries[t]) /\ pg.task[t] = "failed"
  PROVE  LInv'
<1>1. /\ wf'.completed = wf.completed /\ wf'.failed = wf.failed
      /\ wf'.skipped = wf.skipped
      /\ \A t \in S : wf'.tries[t] = wf.tries[t] + 1
      /\ \A t \in Tasks \ S : wf'.tries[t] = wf.tries[t]
      /\ \A t \in S : act'[t] =
           [phase |-> "queued", n |-> wf.tries[t] + 1, out |-> "none", lost |-> FALSE]
      /\ \A t \in Tasks \ S : act'[t] = act[t]
  BY StartTypes DEF IInv
<1>2. wf'.paused = wf.paused /\ wf'.resumeDirty = wf.resumeDirty
  BY DEF Start, IInv, TypeOK, Memories
<1>3. StandsStill
  BY <1>2, WorkStands DEF LInv
<1>4. \A u \in Tasks \ S : Unmoved(u)
  BY <1>1 DEF Unmoved, HasBegun, HasEnded
<1>5. ASSUME NEW t \in S PROVE Fits(t)' /\ wf'.tries[t] # 0
  <2>1. t \in Tasks /\ t \notin Terminal
        /\ t \notin wf'.completed \cup wf'.failed \cup wf'.skipped
    BY <1>1 DEF Terminal
  <2>2. act'[t] =
          [phase |-> "queued", n |-> wf.tries[t] + 1, out |-> "none", lost |-> FALSE]
    BY <1>1
  <2>3. act'[t].phase = "queued" /\ act'[t].n = wf.tries[t] + 1
    BY <2>2
  <2>4. wf'.tries[t] = wf.tries[t] + 1
    BY <1>1
  <2> QED
    BY <2>1, <2>3, <2>4, CountedFits
<1>6. pc \notin Marking /\ pc' \notin Marking
  BY DEF Working, Marking
<1> QED
  BY <1>1, <1>3, <1>4, <1>5, <1>6, StepFits

(* An approver's verdict counts as an attempt.                             *)
LEMMA VerdictFits ==
  ASSUME IInv, CInv, LInv, cur \in ToStart, pc \in {"wait_approval", "check_approval"},
         UNCHANGED <<pg, keys, act, cmd, cur>>,
         NEW w \in Memories, NEW decision, Verdict(w, decision),
         w.completed = wf.completed, w.failed = wf.failed, w.skipped = wf.skipped,
         w.tries = wf.tries, w.paused = wf.paused, w.resumeDirty = wf.resumeDirty
  PROVE  LInv'
<1>0. pc \in Working /\ pc \notin Marking
  BY DEF Working, Marking
<1>1. /\ cur \in Tasks /\ cur \notin Terminal /\ wf.tries[cur] = 0
      /\ act[cur].phase = "none" /\ pg.task[cur] = "pending"
  BY <1>0, ToStartIsPending
<1>2. wf' = [w EXCEPT !.tries[cur] = @ + 1] /\ pc' = "record_outcome"
  BY DEF Verdict, Goto
<1>3. w.tries \in [Tasks -> 0..MaxAttempts]
  BY DEF Memories
<1>4. /\ wf'.completed = wf.completed /\ wf'.failed = wf.failed
      /\ wf'.skipped = wf.skipped /\ wf'.tries[cur] = wf.tries[cur] + 1
      /\ wf'.paused = wf.paused /\ wf'.resumeDirty = wf.resumeDirty
      /\ \A u \in Tasks \ {cur} : wf'.tries[u] = wf.tries[u]
  BY <1>1, <1>2, <1>3 DEF Memories
<1>5. StandsStill
  BY <1>0, <1>2, <1>4, WorkStands DEF LInv
<1>6. \A u \in Tasks \ {cur} : Unmoved(u)
  BY <1>4 DEF Unmoved, HasBegun, HasEnded
<1>7. Fits(cur)' /\ wf'.tries[cur] # 0
  <2>1. ASSUME NEW t \in Tasks, t = cur
        PROVE  Fits(t)' /\ wf'.tries[t] # 0
    BY <1>1, <1>4, <2>1, CountedFits DEF Terminal
  <2> QED
    BY <1>1, <2>1
<1>8. pc' \notin Marking
  BY <1>2 DEF Marking
<1>9. {cur} \in SUBSET Tasks /\ \A u \in {cur} : Fits(u)' /\ wf'.tries[u] # 0
  BY <1>1, <1>7
<1> QED
  BY <1>0, <1>4, <1>5, <1>6, <1>8, <1>9, StepFits

(* A task is judged, on an execution that ended, or by a transaction that  *)
(* records the end of its attempt.                                         *)
LEMMA JudgeFits ==
  ASSUME IInv, CInv, LInv, NEW t \in Tasks, t \in InFlight,
         pc \in Working \ {"skip"}, pc' \in {"loop", "parallel", "serial"},
         UNCHANGED <<act, cmd>>, pg'.ok, pg'.run = pg.run,
         \A u \in Tasks \ {t} : pg'.task[u] = pg.task[u],
         \/ HasEnded(t, wf.tries[t]) /\ UNCHANGED <<pg, keys>>
         \/ /\ keys' = Ended(t, wf.tries[t])
            /\ pg'.task[t] \in {"completed", "failed"}
            /\ act[t].phase = "none" \/ act[t].lost,
         \/ wf'.completed = wf.completed \cup {t} /\ wf'.failed = wf.failed
         \/ wf'.completed = wf.completed /\ wf'.failed = wf.failed \cup {t},
         wf'.skipped = wf.skipped, wf'.tries = wf.tries,
         wf'.paused = wf.paused, wf'.resumeDirty = wf.resumeDirty
  PROVE  LInv'
<1> DEFINE n == wf.tries[t]
<1>0. Fits(t) /\ keys \in EventKeys /\ n \in 1..MaxAttempts /\ t \notin Terminal
  <2>1. n # 0 /\ t \notin Terminal
    BY ReducerAssumption DEF IInv, Rounds, TypeOK, Memories, ReducerAssumption
  <2> QED
    BY <2>1, TriesType DEF LInv, IInv, TypeOK
<1>1. /\ \A u, k : HasBegun(u, k)' <=> HasBegun(u, k) \/ (u = t /\ k = n)
      /\ \A u, k : HasEnded(u, k)' <=> HasEnded(u, k) \/ (u = t /\ k = n)
      /\ keys'.run = keys.run /\ keys'.skipped = keys.skipped
  <2>1. CASE HasEnded(t, n) /\ UNCHANGED <<pg, keys>>
    <3>1. HasBegun(t, n)
      BY <1>0, <2>1 DEF Fits, KeysFit
    <3> QED
      BY <2>1, <3>1 DEF HasBegun, HasEnded
  <2>2. CASE keys' = Ended(t, n)
    BY <1>0, <2>2, EndedKeys
  <2> QED
    BY <2>1, <2>2
<1>2. pg'.task[t] \in {"completed", "failed"}
  BY <1>0 DEF Fits, StatusFits
<1>3. Fits(t)'
  <2>1. KeysFit(t)'
    BY <1>0, <1>1 DEF Fits, KeysFit
  <2>2. StatusFits(t)'
    BY <1>0, <1>1, <1>2 DEF StatusFits
  <2>3. ExecFits(t)'
    <3>1. CASE UNCHANGED <<pg, keys>>
      BY <1>0, <1>1, <3>1 DEF Fits, ExecFits
    <3>2. CASE act[t].phase = "none" \/ act[t].lost
      BY <1>0, <1>1, <3>2 DEF Fits, ExecFits
    <3> QED
      BY <3>1, <3>2
  <2>4. JudgedFits(t)'
    BY <1>0, <1>1 DEF JudgedFits, Terminal
  <2> QED
    BY <2>1, <2>2, <2>3, <2>4 DEF Fits
<1>4. \A u \in Tasks \ {t} : Unmoved(u)
  BY <1>1 DEF Unmoved
<1>5. StandsStill
  BY <1>1, WorkStands
<1>6. pc \notin Marking /\ pc' \notin Marking
  BY DEF Working, Marking
<1>7. {t} \in SUBSET Tasks /\ \A u \in {t} : Fits(u)' /\ wf'.tries[u] # 0
  BY <1>0, <1>3
<1> QED
  BY <1>4, <1>5, <1>6, <1>7, StepFits

-----------------------------------------------------------------------------
(* The run's own events.  start_run opens the log.                         *)
LEMMA StartRunFits == IInv /\ CInv /\ LInv /\ StartRun => LInv'
<1> SUFFICES ASSUME IInv, CInv, LInv, StartRun PROVE LInv'
  OBVIOUS
<1>1. /\ pc = "start_run" /\ pc' = "loop" /\ pg' = RunStarted(RunCreated(pg))
      /\ keys' = [keys EXCEPT !.run = @ \cup {"created", "started"}]
      /\ UNCHANGED <<wf, todo, act, cmd, note>>
  BY DEF StartRun, Goto
<1>2. pg'.ok /\ pg'.run = "running" /\ \A t \in Tasks : pg'.task[t] = "pending"
  BY <1>1, StartIsProjection DEF RunStarted, RunCreated, EmptyProjection
<1>3. /\ keys'.run = keys.run \cup {"created", "started"}
      /\ keys'.skipped = keys.skipped
      /\ \A u, k : HasBegun(u, k)' <=> HasBegun(u, k)
      /\ \A u, k : HasEnded(u, k)' <=> HasEnded(u, k)
  <2>1. keys \in EventKeys
    BY DEF IInv, TypeOK
  <2>2. /\ keys'.run = keys.run \cup {"created", "started"}
        /\ keys'.skipped = keys.skipped
        /\ keys'.begun = keys.begun /\ keys'.ended = keys.ended
    BY <1>1, <2>1 DEF EventKeys
  <2> QED
    BY <2>2 DEF HasBegun, HasEnded
<1>4. pg.run = "none" /\ \A t \in Tasks : pg.task[t] = "absent"
  BY <1>1 DEF LInv, RunStands
<1>5. \A t \in Tasks : wf.tries[t] = 0
  BY <1>1 DEF CInv, Fresh
<1>6. RunStands'
  BY <1>1, <1>2 DEF RunStands, TerminalRun
<1>7. Pauses'
  BY <1>1, <1>2, <1>3, <1>4 DEF LInv, Pauses, TerminalRun
<1>8. ASSUME NEW t \in Tasks PROVE Fits(t)' /\ SkipFits(t)'
  <2>1. Fits(t) /\ SkipFits(t) /\ wf.tries[t] = 0 /\ pg.task[t] = "absent"
        /\ pg'.task[t] = "pending"
    BY <1>2, <1>4, <1>5 DEF LInv
  <2>2. KeysFit(t)'
    BY <1>1, <1>3, <2>1 DEF Fits, KeysFit
  <2>3. StatusFits(t)'
    BY <1>1, <2>1 DEF StatusFits
  <2>4. ExecFits(t)'
    BY <1>1, <2>1 DEF Fits, ExecFits
  <2>5. JudgedFits(t)'
    BY <1>1, <1>3, <2>1 DEF Fits, JudgedFits
  <2>6. SkipFits(t)'
    BY <1>1, <1>3, <2>1 DEF SkipFits
  <2> QED
    BY <2>2, <2>3, <2>4, <2>5, <2>6 DEF Fits
<1> QED
  BY <1>2, <1>6, <1>7, <1>8 DEF LInv

(* The event that pauses, resumes or ends the run is accepted.             *)
LEMMA RunEventAccepted ==
  ASSUME IInv, CInv, LInv, pc = "record", note \notin keys.run
  PROVE  /\ RecordRun(pg, note).ok
         /\ RecordRun(pg, note).run = IF note = "resumed" THEN "running" ELSE note
         /\ note = "paused" => pg.run = "running" /\ "resumed" \notin keys.run
         /\ note = "resumed" => pg.run = "paused"
         /\ note # "cancelled" => RecordRun(pg, note).task = pg.task
         /\ note = "cancelled" => RecordRun(pg, note).task =
              [t \in Tasks |-> IF pg.task[t] \in {"pending", "scheduled"}
                                 THEN "skipped" ELSE pg.task[t]]
<1>0. pg \in Projections /\ pg.ok /\ note \in RunOutcomes
  BY DEF IInv, TypeOK, Control, LInv
<1>1. pg.run \in {"running", "paused"}
  BY DEF LInv, RunStands
<1>2. CASE note = "completed"
  <2>1. \A t \in Tasks : pg.task[t] = "completed"
    BY <1>2 DEF CInv, Verdicts, AllTerminal, Terminal, FollowsLog, LInv
  <2>2. pg.run = "running"
    BY <1>2 DEF LInv, RunStands
  <2>3. RecordRun(pg, note) = [pg EXCEPT !.run = "completed"]
    BY <1>2, <2>1, <2>2 DEF RecordRun, RunCompleted, TerminalTask, MoveRun, RunMay
  <2> QED
    BY <1>0, <1>2, <2>3 DEF Projections
<1>3. CASE note = "failed"
  <2>1. pg.run = "running"
    BY <1>3 DEF LInv, RunStands
  <2>2. RecordRun(pg, note) = [pg EXCEPT !.run = "failed"]
    BY <1>3, <2>1 DEF RecordRun, RunFailed, MoveRun, RunMay
  <2> QED
    BY <1>0, <1>3, <2>2 DEF Projections
<1>4. CASE note = "cancelled"
  <2> DEFINE left == [t \in Tasks |-> IF pg.task[t] \in {"pending", "scheduled"}
                                       THEN "skipped" ELSE pg.task[t]]
  <2>1. RecordRun(pg, note) = [pg EXCEPT !.run = "cancelled", !.task = left]
    BY <1>1, <1>4 DEF RecordRun, RunCancelled, RunMay
  <2> HIDE DEF left
  <2>2. RecordRun(pg, note).ok /\ RecordRun(pg, note).run = "cancelled"
        /\ RecordRun(pg, note).task = left
    BY <1>0, <2>1 DEF Projections
  <2> QED
    BY <1>4, <2>2 DEF left
<1>5. CASE note = "paused"
  <2>1. pg.run = "running" /\ "resumed" \notin keys.run
    BY <1>1, <1>5 DEF LInv, Pauses
  <2>2. RecordRun(pg, note) = [pg EXCEPT !.run = "paused"]
    BY <1>5, <2>1 DEF RecordRun, RunPaused, MoveRun, RunMay
  <2> QED
    BY <1>0, <1>5, <2>1, <2>2 DEF Projections
<1>6. CASE note = "resumed"
  <2>1. pg.run = "paused"
    BY <1>1, <1>6 DEF LInv, Pauses, TerminalRun
  <2>2. RecordRun(pg, note) = [pg EXCEPT !.run = "running"]
    BY <1>6, <2>1 DEF RecordRun, RunResumed, MoveRun, RunMay
  <2> QED
    BY <1>0, <1>6, <2>1, <2>2 DEF Projections
<1> QED
  BY <1>0, <1>2, <1>3, <1>4, <1>5, <1>6 DEF RunOutcomes

LEMMA RecordRunFits == IInv /\ CInv /\ LInv /\ RecordRunTerminal => LInv'
<1> SUFFICES ASSUME IInv, CInv, LInv, RecordRunTerminal PROVE LInv'
  OBVIOUS
<1>0. /\ pg \in Projections /\ keys \in EventKeys /\ wf \in Memories
      /\ pc = "record" /\ note \in RunOutcomes
  BY DEF RecordRunTerminal, IInv, TypeOK, Control
<1>1. pg.ok /\ pg.run \in {"running", "paused"} /\ Pauses
  BY <1>0 DEF LInv, RunStands
<1>2. UNCHANGED <<todo, act, cmd>>
  BY DEF RecordRunTerminal
<1>3. /\ note = "paused" => wf' = [wf EXCEPT !.pauseDirty = FALSE] /\ pc' = "paused"
      /\ note = "resumed" => wf' = [wf EXCEPT !.resumeDirty = FALSE] /\ pc' = "resumed"
      /\ note \notin {"paused", "resumed"} => UNCHANGED wf /\ pc' = "closed"
  BY DEF RecordRunTerminal, Goto
<1>4. /\ wf'.completed = wf.completed /\ wf'.failed = wf.failed
      /\ wf'.skipped = wf.skipped /\ wf'.tries = wf.tries /\ wf'.paused = wf.paused
      /\ wf'.resumeDirty = IF note = "resumed" THEN FALSE ELSE wf.resumeDirty
  <2>1. CASE note = "paused"
    BY <1>0, <1>3, <2>1 DEF Memories
  <2>2. CASE note = "resumed"
    BY <1>0, <1>3, <2>2 DEF Memories
  <2>3. CASE note \notin {"paused", "resumed"}
    BY <1>3, <2>3
  <2> QED
    BY <2>1, <2>2, <2>3
<1>5. \/ UNCHANGED <<pg, keys>> /\ note \in keys.run
      \/ /\ note \notin keys.run /\ pg' = RecordRun(pg, note)
         /\ keys' = [keys EXCEPT !.run = @ \cup {note}]
  BY DEF RecordRunTerminal
<1>6. /\ keys'.run = keys.run \cup {note} /\ keys'.skipped = keys.skipped
      /\ \A u, k : HasBegun(u, k)' <=> HasBegun(u, k)
      /\ \A u, k : HasEnded(u, k)' <=> HasEnded(u, k)
  <2>1. /\ keys'.run = keys.run \cup {note} /\ keys'.skipped = keys.skipped
        /\ keys'.begun = keys.begun /\ keys'.ended = keys.ended
    <3>1. CASE UNCHANGED keys /\ note \in keys.run
      BY <3>1
    <3>2. CASE keys' = [keys EXCEPT !.run = @ \cup {note}]
      BY <1>0, <3>2 DEF EventKeys
    <3> QED
      BY <1>5, <3>1, <3>2
  <2> QED
    BY <2>1 DEF HasBegun, HasEnded
<1>7. /\ pg'.ok
      /\ pg'.run \in {"running", "paused"} \/ pc' = "closed"
      /\ note = "paused" /\ note \notin keys.run =>
           pg'.run = "paused" /\ "resumed" \notin keys.run
      /\ note = "resumed" => pg'.run # "paused" /\ "paused" \in keys.run
      /\ note \in keys.run => pg'.run = pg.run
      /\ pg.run = "paused" /\ pg'.run # "paused" => "resumed" \in keys'.run \/ pg'.run \in TerminalRun
      /\ pg'.run = "paused" /\ pg.run # "paused" => note = "paused" /\ note \notin keys.run
  <2>1. CASE note \in keys.run
    BY <1>1, <1>5, <2>1 DEF Pauses
  <2>2. CASE note \notin keys.run
    <3>1. /\ pg'.ok /\ pg'.run = IF note = "resumed" THEN "running" ELSE note
          /\ note = "paused" => pg.run = "running" /\ "resumed" \notin keys.run
          /\ note = "resumed" => pg.run = "paused"
      BY <1>0, <1>5, <2>2, RunEventAccepted
    <3> QED
      BY <1>0, <1>1, <1>3, <1>6, <2>2, <3>1 DEF Pauses, RunOutcomes, TerminalRun
  <2> QED
    BY <2>1, <2>2
<1>8. RunStands'
  BY <1>0, <1>3, <1>7 DEF RunStands, TerminalRun, Working, RunOutcomes
<1>9. Pauses'
  <2>1. pc' = "resumed" => wf'.paused \/ pg'.run # "paused"
    BY <1>0, <1>3, <1>7 DEF RunOutcomes
  <2>2. pc' # "record"
    BY <1>3
  <2>3. pg'.run = "paused" =>
          /\ "paused" \in keys'.run /\ "resumed" \notin keys'.run
          /\ wf'.paused \/ wf'.resumeDirty
    BY <1>0, <1>1, <1>4, <1>6, <1>7 DEF Pauses
  <2>4. "resumed" \in keys'.run => "paused" \in keys'.run
    BY <1>1, <1>6, <1>7 DEF Pauses
  <2>5. wf'.resumeDirty => wf.resumeDirty
    BY <1>4
  <2>6. ASSUME NEW c \in Commands, Kind[c] = "resume", cmd[c] # "new"
        PROVE  "resumed" \in keys'.run \/ pg'.run \in {"paused"} \cup TerminalRun
    BY <1>0, <1>1, <1>6, <1>7, <2>6 DEF Pauses, TerminalRun
  <2> QED
    BY <1>1, <1>2, <2>1, <2>2, <2>3, <2>4, <2>5, <2>6 DEF Pauses
<1>10. ASSUME NEW t \in Tasks PROVE Fits(t)' /\ SkipFits(t)'
  <2>1. Fits(t) /\ SkipFits(t)
    BY DEF LInv
  <2>2. \/ pg'.task[t] = pg.task[t]
        \/ /\ pg'.task[t] = "skipped" /\ pg'.run = "cancelled"
           /\ pg.task[t] \in {"pending", "scheduled"}
    <3>1. CASE UNCHANGED pg
      BY <3>1
    <3>2. CASE note \notin keys.run /\ pg' = RecordRun(pg, note)
      BY <1>0, <3>2, RunEventAccepted
    <3> QED
      BY <1>5, <3>1, <3>2
  <2>3. KeysFit(t)'
    BY <1>4, <1>6, <2>1 DEF Fits, KeysFit
  <2>4. StatusFits(t)'
    <3>1. CASE pg'.task[t] = pg.task[t]
      BY <1>4, <1>6, <2>1, <3>1 DEF Fits, StatusFits
    <3>2. CASE /\ pg'.task[t] = "skipped"
               /\ pg.task[t] \in {"pending", "scheduled"}
      <4>1. wf.tries[t] = 0 \/ HasEnded(t, wf.tries[t])
        BY <1>0, OpenIsInFlight DEF InFlight, AtTask
      <4>2. wf.tries[t] = 0
        BY <2>1, <3>2, <4>1 DEF Fits, StatusFits
      <4> QED
        BY <1>4, <3>2, <4>2 DEF StatusFits
    <3> QED
      BY <2>2, <3>1, <3>2
  <2>5. ExecFits(t)'
    <3>1. act[t].phase = "ended" => pg'.task[t] = pg.task[t]
      BY <2>1, <2>2 DEF Fits, ExecFits, StatusFits
    <3> QED
      BY <1>2, <1>4, <1>6, <2>1, <3>1 DEF Fits, ExecFits
  <2>6. JudgedFits(t)'
    BY <1>4, <1>6, <2>1 DEF Fits, JudgedFits
  <2>7. SkipFits(t)'
    BY <1>0, <1>1, <1>3, <1>4, <1>6, <2>1, <2>2 DEF SkipFits, TerminalRun, RunOutcomes
  <2> QED
    BY <2>3, <2>4, <2>5, <2>6, <2>7 DEF Fits
<1> QED
  BY <1>7, <1>8, <1>9, <1>10 DEF LInv

(* Unattempted nodes behind a failed one are skipped together, ...         *)
LEMMA PlanSkipsFits == IInv /\ LInv /\ PlanSkips => LInv'
<1> SUFFICES ASSUME IInv, LInv, PlanSkips PROVE LInv'
  OBVIOUS
<1>1. /\ pc = "plan" /\ UNCHANGED <<pg, keys, act, cmd>> /\ todo' = Unreachable
      /\ wf' = [wf EXCEPT !.skipped = @ \cup Unreachable]
      /\ pc' = IF Unreachable = {} THEN "dispatch" ELSE "skip"
  BY DEF PlanSkips, Goto, logVars
<1>2. /\ wf'.completed = wf.completed /\ wf'.failed = wf.failed /\ wf'.tries = wf.tries
      /\ wf'.skipped = wf.skipped \cup Unreachable
      /\ wf'.paused = wf.paused /\ wf'.resumeDirty = wf.resumeDirty
  BY <1>1 DEF IInv, TypeOK, Memories
<1>3. \A t \in Unreachable : t \in Tasks /\ t \notin Terminal
  BY DEF Unreachable
<1>4. \A t \in Unreachable : wf.tries[t] = 0
  <2>1. InFlight = {} /\ pc # "dead"
    BY <1>1 DEF InFlight, AtTask
  <2> QED
    BY <1>3, <2>1 DEF IInv, Rounds
<1>5. pg.run = "running" /\ pc' \notin {"start_run", "closed", "dead", "record", "resumed"}
  BY <1>1 DEF LInv, RunStands, Working
<1>6. RunStands' /\ Pauses'
  <2>1. RunStands'
    BY <1>1, <1>5 DEF RunStands, TerminalRun
  <2> QED
    BY <1>1, <1>2, <1>5, <2>1, SamePause DEF LInv
<1>7. ASSUME NEW t \in Tasks PROVE Fits(t)' /\ SkipFits(t)'
  <2>1. Fits(t) /\ SkipFits(t)
    BY DEF LInv
  <2>2. \A k : (HasBegun(t, k)' <=> HasBegun(t, k))
    BY <1>1 DEF HasBegun
  <2>3. \A k : (HasEnded(t, k)' <=> HasEnded(t, k))
    BY <1>1 DEF HasEnded
  <2>4. KeysFit(t)'
    BY <1>2, <2>1, <2>2, <2>3 DEF Fits, KeysFit
  <2>5. StatusFits(t)'
    BY <1>1, <1>2, <2>1, <2>2, <2>3 DEF Fits, StatusFits
  <2>6. ExecFits(t)'
    BY <1>1, <1>2, <2>1, <2>2, <2>3 DEF Fits, ExecFits
  <2>7. JudgedFits(t)'
    BY <1>2, <1>4, <2>1, <2>3 DEF Fits, JudgedFits
  <2>8. t \in wf.skipped => t \notin Unreachable
    BY <1>3 DEF Terminal
  <2>9. SkipFits(t)'
    BY <1>1, <1>2, <2>1, <2>8 DEF SkipFits
  <2> QED
    BY <2>4, <2>5, <2>6, <2>7, <2>9 DEF Fits
<1> QED
  BY <1>1, <1>6, <1>7 DEF LInv

(* ... and recorded one by one: a skip is recorded of a pending node.      *)
LEMMA RecordSkipFits == IInv /\ CInv /\ LInv /\ RecordTaskSkipped => LInv'
<1> SUFFICES ASSUME IInv, CInv, LInv, RecordTaskSkipped,
                    NEW t, t = FirstOf(todo)
             PROVE  LInv'
  OBVIOUS
<1>0. pg \in Projections /\ pg.ok /\ keys \in EventKeys /\ pc = "skip"
  BY DEF IInv, TypeOK, LInv, RecordTaskSkipped
<1>1. t \in todo /\ t \in Tasks
  BY <1>0, FirstOfIsMember DEF IInv, TypeOK, Control
<1>2. pg.run = "running"
  BY <1>0 DEF LInv, RunStands, Working
<1>3. t \in wf.skipped /\ wf.tries[t] = 0 /\ pg.task[t] # "skipped" /\ t \notin keys.skipped
  BY <1>0, <1>1, <1>2 DEF LInv, SkipFits, Fits, JudgedFits, TerminalRun
<1>4. pg.task[t] = "pending"
  BY <1>0, <1>1, <1>3 DEF LInv, Fits, StatusFits, CInv, Known
<1>5. /\ pg' = TaskSkipped(pg, t) /\ keys' = [keys EXCEPT !.skipped = @ \cup {t}]
      /\ todo' = todo \ {t} /\ UNCHANGED <<wf, note, act, cmd>>
      /\ pc' = IF todo' = {} THEN "dispatch" ELSE "skip"
  BY <1>3 DEF RecordTaskSkipped, Goto
<1>6. pg' = [pg EXCEPT !.task[t] = "skipped"]
  BY <1>4, <1>5 DEF TaskSkipped, MoveTask, TaskMay
<1>7. /\ pg'.ok /\ pg'.run = pg.run /\ pg'.task[t] = "skipped"
      /\ \A u \in Tasks \ {t} : pg'.task[u] = pg.task[u]
  BY <1>0, <1>1, <1>6 DEF Projections
<1>8. /\ keys'.run = keys.run /\ keys'.skipped = keys.skipped \cup {t}
      /\ keys'.begun = keys.begun /\ keys'.ended = keys.ended
  BY <1>0, <1>5 DEF EventKeys
<1>9. RunStands' /\ Pauses'
  <2>1. RunStands'
    BY <1>2, <1>5, <1>7 DEF RunStands, TerminalRun
  <2> QED
    BY <1>5, <1>7, <1>8, <2>1, SamePause
<1>10. ASSUME NEW u \in Tasks PROVE Fits(u)' /\ SkipFits(u)'
  <2>1. Fits(u) /\ SkipFits(u)
    BY DEF LInv
  <2>2. \A k : (HasBegun(u, k)' <=> HasBegun(u, k))
    BY <1>8 DEF HasBegun
  <2>3. \A k : (HasEnded(u, k)' <=> HasEnded(u, k))
    BY <1>8 DEF HasEnded
  <2>4. CASE u = t
    <3>1. KeysFit(u)'
      BY <1>5, <2>1, <2>2, <2>3 DEF Fits, KeysFit
    <3>2. StatusFits(u)'
      BY <1>3, <1>5, <1>7, <2>4 DEF StatusFits
    <3>3. ExecFits(u)'
      BY <1>3, <1>5, <2>1, <2>4 DEF Fits, ExecFits
    <3>4. JudgedFits(u)'
      BY <1>5, <2>1, <2>3 DEF Fits, JudgedFits
    <3>5. SkipFits(u)'
      BY <1>3, <1>5, <1>7, <2>4 DEF SkipFits
    <3> QED
      BY <3>1, <3>2, <3>3, <3>4, <3>5 DEF Fits
  <2>5. CASE u # t
    <3>1. Unmoved(u)
      BY <1>5, <1>7, <2>2, <2>3, <2>5 DEF Unmoved
    <3>2. Fits(u)'
      BY <2>1, <3>1, UnmovedFits
    <3>3. u \in todo' <=> u \in todo
      BY <1>5, <2>5
    <3>4. SkipFits(u)'
      BY <1>0, <1>5, <1>7, <1>8, <2>1, <2>5, <3>3 DEF SkipFits
    <3> QED
      BY <3>2, <3>4
  <2> QED
    BY <2>4, <2>5
<1> QED
  BY <1>7, <1>9, <1>10 DEF LInv

(* The status of a task in the log and the flags of the workflow do not    *)
(* change when the workflow fails, nor when nothing happens.               *)
LEMMA StandingFits ==
  ASSUME IInv, LInv, UNCHANGED <<pg, keys, wf, todo, note, act, cmd>>,
         pc' = pc \/ (pc # "closed" /\ pc' = "dead")
  PROVE  LInv'
<1>1. RunStands' /\ Pauses'
  <2>1. RunStands'
    BY DEF LInv, RunStands, Working
  <2>2. Pauses'
    BY DEF LInv, Pauses
  <2> QED
    BY <2>1, <2>2
<1>2. ASSUME NEW u \in Tasks PROVE Fits(u)' /\ SkipFits(u)'
  <2>1. Fits(u) /\ SkipFits(u)
    BY DEF LInv
  <2>2. Unmoved(u)
    BY DEF Unmoved, HasBegun, HasEnded
  <2>3. SkipFits(u)'
    BY <2>1 DEF SkipFits
  <2> QED
    BY <2>1, <2>2, <2>3, UnmovedFits
<1> QED
  BY <1>1, <1>2 DEF LInv

LEMMA FitsDead == IInv /\ LInv /\ WorkflowFails => LInv'
<1> SUFFICES ASSUME IInv, LInv, WorkflowFails PROVE LInv'
  OBVIOUS
<1>1. pc # "closed" /\ pc' = "dead" /\ UNCHANGED <<pg, keys, wf, todo, note, act, cmd>>
  BY DEF WorkflowFails, Goto, logVars
<1> QED
  BY <1>1, StandingFits

LEMMA FitsUnchanged == IInv /\ LInv /\ UNCHANGED vars => LInv'
<1> SUFFICES ASSUME IInv, LInv, UNCHANGED vars PROVE LInv'
  OBVIOUS
<1>1. UNCHANGED <<pg, keys, wf, pc, todo, note, act, cmd>>
  BY DEF vars
<1> QED
  BY <1>1, StandingFits

LEMMA InitLInv == Init => LInv
<1> SUFFICES ASSUME Init PROVE LInv
  OBVIOUS
<1>1. /\ pg = EmptyProjection /\ pc = "start_run" /\ note = "none" /\ todo = {}
      /\ keys = [run |-> {}, skipped |-> {}, begun |-> {}, ended |-> {}]
      /\ act = [t \in Tasks |-> NoActivity] /\ cmd = [c \in Commands |-> "new"]
  BY DEF Init
<1>2. /\ pg.ok /\ pg.run = "none" /\ \A t \in Tasks : pg.task[t] = "absent"
  BY <1>1 DEF EmptyProjection
<1>3. /\ wf.completed = {} /\ wf.failed = {} /\ wf.skipped = {}
      /\ \A t \in Tasks : wf.tries[t] = 0
      /\ ~wf.paused /\ ~wf.resumeDirty
  BY DEF Init
<1>4. RunStands /\ Pauses
  <2>1. RunStands
    BY <1>1, <1>2 DEF RunStands, TerminalRun, Working
  <2>2. Pauses
    BY <1>1, <1>2, <1>3 DEF Pauses
  <2> QED
    BY <2>1, <2>2
<1>5. ASSUME NEW t \in Tasks PROVE Fits(t) /\ SkipFits(t)
  <2>1. act[t].phase = "none"
    BY <1>1 DEF NoActivity
  <2>2. \A k : ~HasBegun(t, k) /\ ~HasEnded(t, k)
    BY <1>1 DEF HasBegun, HasEnded
  <2>3. KeysFit(t) /\ StatusFits(t)
    <3>1. \A k \in 1..MaxAttempts : ~(k < 0)
      BY ReducerAssumption DEF ReducerAssumption
    <3>2. KeysFit(t)
      BY <1>3, <2>2, <3>1 DEF KeysFit
    <3>3. StatusFits(t)
      BY <1>2, <1>3 DEF StatusFits
    <3> QED
      BY <3>2, <3>3
  <2>4. ExecFits(t) /\ JudgedFits(t)
    BY <1>3, <2>1 DEF ExecFits, JudgedFits
  <2>5. SkipFits(t)
    BY <1>1, <1>2, <1>3 DEF SkipFits
  <2> QED
    BY <2>3, <2>4, <2>5 DEF Fits
<1> QED
  BY <1>2, <1>4, <1>5 DEF LInv

-----------------------------------------------------------------------------
(* The transactions of the workflow that open and end an attempt at once.  *)
LEMMA RecordedAtOnce ==
  ASSUME IInv, LInv, pc \in {"record_outcome", "record_failed"}, NEW t \in Tasks,
         t \in InFlight, ~HasEnded(t, wf.tries[t]), NEW out \in SUBSET Fields
  PROVE  LET opened == Opened(pg, t, wf.tries[t], "derived")
         IN /\ Moves(pg, FailedNow(opened, t, wf.tries[t], "derived"), t, "failed")
            /\ Moves(pg, Succeeded(opened, t, wf.tries[t], "derived", out), t, "completed")
            /\ FailedNow(opened, t, wf.tries[t], "derived").conflicts = pg.conflicts
            /\ \A c \in Succeeded(opened, t, wf.tries[t], "derived", out).conflicts :
                 c \in pg.conflicts \/ c.second = t
<1> DEFINE n == wf.tries[t]
           opened == Opened(pg, t, n, "derived")
<1>0. pg \in Projections /\ pg.ok /\ Fits(t) /\ n # 0 /\ n \in 1..MaxAttempts
  <2>1. n # 0
    BY ReducerAssumption DEF IInv, Rounds, TypeOK, Memories, ReducerAssumption
  <2> QED
    BY <2>1, TriesType DEF LInv, IInv, TypeOK
<1>1. Moves(pg, opened, t, "started") /\ opened.conflicts = pg.conflicts
  <2>1. CASE HasBegun(t, n)
    <3>1. opened = pg
      BY <2>1 DEF Opened, HasBegun
    <3>2. pg.task[t] = "started"
      BY <1>0, <2>1 DEF Fits, StatusFits
    <3> QED
      BY <1>0, <3>1, <3>2 DEF Moves
  <2>2. CASE ~HasBegun(t, n)
    BY <1>0, <2>2, OpeningAccepted
  <2> QED
    BY <2>1, <2>2
<1>2. opened \in Projections
  BY <1>0, OpenedIsLater
<1>3. opened.ok /\ opened.task[t] = "started" /\ <<t, n>> \notin keys.ended
  BY <1>1 DEF Moves, HasEnded
<1> HIDE DEF n, opened
<1>4. /\ Moves(opened, FailedNow(opened, t, n, "derived"), t, "failed")
      /\ Moves(opened, Succeeded(opened, t, n, "derived", out), t, "completed")
      /\ FailedNow(opened, t, n, "derived").conflicts = opened.conflicts
      /\ \A c \in Succeeded(opened, t, n, "derived", out).conflicts :
           c \in opened.conflicts \/ c.second = t
  BY <1>0, <1>2, <1>3, ClosedMoves
<1>5. /\ Moves(pg, FailedNow(opened, t, n, "derived"), t, "failed")
      /\ Moves(pg, Succeeded(opened, t, n, "derived", out), t, "completed")
  BY <1>1, <1>4, MovesCompose
<1> QED
  BY <1>1, <1>4, <1>5 DEF n, opened

(* Every other step of the workflow.                                       *)
LEMMA FitsWorkflow == IInv /\ CInv /\ LInv /\ Workflow => LInv'
<1> SUFFICES ASSUME IInv, CInv, LInv, Workflow PROVE LInv'
  OBVIOUS
<1>0. TypeOK /\ Control /\ wf \in Memories
  BY DEF IInv, TypeOK
<1> USE <1>0 DEF Goto
<1>2. ASSUME LoopTop PROVE LInv'
  <2>1. /\ UNCHANGED <<pg, keys, wf, act, cmd>>
        /\ pc \in {"loop", "paused", "resumed"}
        /\ pc' \in {"record", "paused", "resumed", "wait_resume", "plan"}
    BY <1>2 DEF LoopTop, logVars
  <2>2. /\ pc' = "record" => note' \in {"cancelled", "paused", "resumed"}
        /\ pc' = "record" /\ note' = "paused" => wf.paused
        /\ pc' = "record" /\ note' = "resumed" => wf.resumeDirty
        /\ pc' = "resumed" => wf.paused \/ ~wf.resumeDirty
        /\ pc' = "plan" => pc = "resumed" /\ ~wf.paused
    BY <1>2 DEF LoopTop
  <2>3. pg.run \in {"running", "paused"}
    BY <2>1 DEF LInv, RunStands
  <2>4. Pauses'
    BY <2>1, <2>2 DEF LInv, Pauses
  <2>5. pc' = "plan" => pg.run = "running"
    BY <2>2, <2>3 DEF LInv, Pauses
  <2> QED
    BY <2>1, <2>2, <2>4, <2>5, QuietFits DEF Working, Marking
<1>4. ASSUME WakeFromPause PROVE LInv'
  <2>1. /\ UNCHANGED <<pg, keys, wf, act, cmd>> /\ pc = "wait_resume" /\ pc' = "loop"
    BY <1>4 DEF WakeFromPause, logVars
  <2>2. Pauses'
    BY <2>1, SamePause
  <2> QED
    BY <2>1, <2>2, QuietFits DEF Working, Marking
<1>7. ASSUME FinishRun PROVE LInv'
  <2>1. /\ UNCHANGED <<pg, keys, wf, act, cmd>> /\ pc = "dispatch" /\ pc' = "record"
        /\ note' \in {"completed", "failed"}
    BY <1>7 DEF FinishRun, logVars, FinalVerdict
  <2>2. pg.run = "running"
    BY <2>1 DEF LInv, RunStands, Working
  <2>3. Pauses'
    BY <2>1 DEF LInv, Pauses
  <2> QED
    BY <2>1, <2>2, <2>3, QuietFits DEF Marking
<1>8. ASSUME HoldBack \/ AskApproval \/ CreateApproval \/ ApprovalTimeout \/ Dispatch
               \/ AwaitNext \/ InterpretError
      PROVE  LInv'
  <2>1. /\ UNCHANGED <<pg, keys, wf, act, cmd>>
        /\ pc \in {"dispatch", "create_approval", "wait_approval", "parallel", "await"}
        /\ pc' \in {"wait_resume", "create_approval", "wait_approval",
                    "check_approval", "serial", "round_done", "await", "record_failed"}
    BY <1>8 DEF HoldBack, AskApproval, CreateApproval, ApprovalTimeout, Dispatch,
                AwaitNext, InterpretError, logVars
  <2> QED
    BY <2>1, WorkFits DEF Working
<1>11. ASSUME WakeFromApproval PROVE LInv'
  <2>1. pc = "wait_approval" /\ cur \in ToStart /\ UNCHANGED <<pg, keys, act, cmd, cur>>
    BY <1>11 DEF WakeFromApproval, Control, ToStart, logVars
  <2>2. CASE UNCHANGED wf /\ pc' = "loop"
    BY <2>1, <2>2, WorkFits DEF Working
  <2>3. CASE Verdict(wf, wf.decisions[cur])
    BY <2>1, <2>3, VerdictFits
  <2> QED
    BY <1>11, <2>2, <2>3 DEF WakeFromApproval
<1>13. ASSUME CheckApproval PROVE LInv'
  <2> DEFINE known == [wf EXCEPT !.decisions[cur] = Found(cur)]
  <2>1. /\ pc = "check_approval" /\ cur \in ToStart /\ cur \in Tasks
        /\ approval[cur].row # "none" /\ UNCHANGED <<pg, keys, act, cmd, cur>>
    BY <1>13 DEF CheckApproval, Control, ToStart, IInv, Requests, logVars
  <2>2. Found(cur) \in Decisions
    BY <2>1 DEF TypeOK, Found, ApprovalRows, Decisions
  <2>3. /\ known \in Memories /\ known.completed = wf.completed
        /\ known.failed = wf.failed /\ known.skipped = wf.skipped
        /\ known.tries = wf.tries /\ known.paused = wf.paused
        /\ known.resumeDirty = wf.resumeDirty
    BY <2>1, <2>2 DEF Memories
  <2>4. (wf' = known /\ pc' = "loop") \/ Verdict(known, Found(cur))
    BY <1>13 DEF CheckApproval
  <2> HIDE DEF known
  <2>5. CASE wf' = known /\ pc' = "loop"
    BY <2>1, <2>3, <2>5, WorkFits DEF Working
  <2>6. CASE Verdict(known, Found(cur))
    BY <2>1, <2>3, <2>6, VerdictFits
  <2> QED
    BY <2>4, <2>5, <2>6
<1>14. ASSUME RecordApprovalOutcome, NEW t, t = cur PROVE LInv'
  <2> DEFINE n == wf.tries[t]
             opened == Opened(pg, t, n, "derived")
  <2>1. /\ pc = "record_outcome" /\ pc' = "loop" /\ keys' = Ended(t, n)
        /\ UNCHANGED <<act, cmd>>
    BY <1>14 DEF RecordApprovalOutcome
  <2>2. t \in Tasks /\ t \in InFlight
    BY <1>14, <2>1 DEF InFlight, Control
  <2>3. act[t].phase = "none" /\ ~HasEnded(t, n)
    BY <1>14, <2>1 DEF CInv, EndedOnce, HasEnded
  <2>4. \/ /\ wf' = [wf EXCEPT !.completed = @ \cup {t}]
           /\ pg' = Succeeded(opened, t, n, "derived", ApprovalField)
        \/ /\ wf' = [wf EXCEPT !.failed = @ \cup {t}, !.cancel = @ \/ Policy[t] = "cancel"]
           /\ pg' = FailedNow(opened, t, n, "derived")
    BY <1>14 DEF RecordApprovalOutcome
  <2>5. /\ Moves(pg, FailedNow(opened, t, n, "derived"), t, "failed")
        /\ Moves(pg, Succeeded(opened, t, n, "derived", ApprovalField), t, "completed")
    BY <2>1, <2>2, <2>3, RunAssumption, RecordedAtOnce DEF RunAssumption
  <2> HIDE DEF opened
  <2>6. /\ pg'.ok /\ pg'.run = pg.run /\ pg'.task[t] \in {"completed", "failed"}
        /\ \A u \in Tasks \ {t} : pg'.task[u] = pg.task[u]
    BY <2>4, <2>5 DEF Moves
  <2>7. CASE wf' = [wf EXCEPT !.completed = @ \cup {t}]
    <3>1. /\ wf'.completed = wf.completed \cup {t} /\ wf'.failed = wf.failed
          /\ wf'.skipped = wf.skipped /\ wf'.tries = wf.tries
          /\ wf'.paused = wf.paused /\ wf'.resumeDirty = wf.resumeDirty
      BY <2>7 DEF Memories
    <3> QED
      BY <2>1, <2>2, <2>3, <2>6, <3>1, JudgeFits DEF Working
  <2>8. CASE wf' = [wf EXCEPT !.failed = @ \cup {t}, !.cancel = @ \/ Policy[t] = "cancel"]
    <3>1. /\ wf'.completed = wf.completed /\ wf'.failed = wf.failed \cup {t}
          /\ wf'.skipped = wf.skipped /\ wf'.tries = wf.tries
          /\ wf'.paused = wf.paused /\ wf'.resumeDirty = wf.resumeDirty
      BY <2>8 DEF Memories
    <3> QED
      BY <2>1, <2>2, <2>3, <2>6, <3>1, JudgeFits DEF Working
  <2> QED
    BY <2>4, <2>7, <2>8
<1>16. ASSUME RunSerial, NEW t, t = FirstOf(todo) PROVE LInv'
  <2>1. /\ pc = "serial" /\ pc' = "await" /\ Start({t}) /\ UNCHANGED <<pg, keys, cmd>>
        /\ todo # {}
    BY <1>16 DEF RunSerial, logVars
  <2>2. t \in ToStart
    BY <1>16, <2>1, StartsAreFresh
  <2>3. t \in Tasks /\ t \notin Terminal /\ wf.tries[t] = 0 /\ pg.task[t] = "pending"
    BY <2>1, <2>2, ToStartIsPending DEF Marking
  <2>4. 0 < MaxAttempts
    BY ReducerAssumption DEF ReducerAssumption
  <2> QED
    BY <2>1, <2>3, <2>4, StartFits DEF Working
<1>17. ASSUME RunParallel PROVE LInv'
  <2>1. pc = "serial" /\ UNCHANGED <<pg, keys, cmd>>
    BY <1>17 DEF RunParallel, logVars
  <2>2. CASE UNCHANGED <<wf, act>> /\ pc' = "round_done"
    BY <2>1, <2>2, WorkFits DEF Working
  <2>3. CASE Start(batch \cap ParallelSafe) /\ pc' = "parallel"
    <3>1. \A t \in batch \cap ParallelSafe : t \in ToStart
      BY <2>1, StartsAreFresh
    <3>2. \A t \in batch \cap ParallelSafe :
            t \in Tasks /\ t \notin Terminal /\ wf.tries[t] = 0 /\ pg.task[t] = "pending"
      BY <2>1, <3>1, ToStartIsPending DEF Marking
    <3>3. 0 < MaxAttempts
      BY ReducerAssumption DEF ReducerAssumption
    <3>4. batch \cap ParallelSafe \in SUBSET Tasks
      BY <3>2
    <3> QED
      BY <2>1, <2>3, <3>2, <3>3, <3>4, StartFits DEF Working
  <2> QED
    BY <1>17, <2>2, <2>3 DEF RunParallel
<1>19. ASSUME InterpretResult, NEW t, t = cur PROVE LInv'
  <2>1. /\ t \in Tasks /\ t \in InFlight /\ act[t].phase = "ended" /\ ~act[t].lost
        /\ pc = "await" /\ UNCHANGED <<pg, keys, cmd>>
    BY <1>19 DEF InterpretResult, Control, InFlight, AtTask, logVars
  <2>2. /\ HasEnded(t, wf.tries[t]) /\ t \notin Terminal
        /\ wf.tries[t] # 0
        /\ act[t].out = "failed" => pg.task[t] = "failed"
    BY <2>1 DEF LInv, Fits, ExecFits, IInv, Rounds
  <2>3. CASE MayRetry(t) /\ Start({t}) /\ UNCHANGED <<pc, todo>> /\ act[t].out = "failed"
    BY <2>1, <2>2, <2>3, StartFits DEF MayRetry, Working
  <2>4. ASSUME UNCHANGED act, NEW b, NextTask(b),
               \/ wf' = [wf EXCEPT !.completed = @ \cup {t}]
               \/ wf' = [wf EXCEPT !.failed = @ \cup {t}]
               \/ wf' = [wf EXCEPT !.failed = @ \cup {t},
                            !.cancel = @ \/ Policy[t] = "cancel"]
        PROVE  LInv'
    <3>1. pc' \in {"parallel", "serial"}
      BY <2>4, NextTaskPlace
    <3>2. /\ \/ wf'.completed = wf.completed \cup {t} /\ wf'.failed = wf.failed
             \/ wf'.completed = wf.completed /\ wf'.failed = wf.failed \cup {t}
          /\ wf'.skipped = wf.skipped /\ wf'.tries = wf.tries
          /\ wf'.paused = wf.paused /\ wf'.resumeDirty = wf.resumeDirty
      <4>1. CASE wf' = [wf EXCEPT !.completed = @ \cup {t}]
        BY <4>1 DEF Memories
      <4>2. CASE wf' = [wf EXCEPT !.failed = @ \cup {t}]
        BY <4>2 DEF Memories
      <4>3. CASE wf' = [wf EXCEPT !.failed = @ \cup {t},
                            !.cancel = @ \/ Policy[t] = "cancel"]
        BY <4>3 DEF Memories
      <4> QED
        BY <2>4, <4>1, <4>2, <4>3
    <3>3. pg'.ok /\ pg'.run = pg.run /\ \A u \in Tasks \ {t} : pg'.task[u] = pg.task[u]
      BY <2>1 DEF LInv
    <3> QED
      BY <2>1, <2>2, <2>4, <3>1, <3>2, <3>3, JudgeFits DEF Working
  <2> QED
    BY <1>19, <2>3, <2>4, EndsHow
<1>21. ASSUME RecordTaskFailed, NEW t, t = cur PROVE LInv'
  <2> DEFINE n == wf.tries[t]
             opened == Opened(pg, t, n, "derived")
  <2>1. /\ pc = "record_failed" /\ pc' \in {"parallel", "serial"}
        /\ keys' = Ended(t, n) /\ UNCHANGED <<act, cmd>>
        /\ wf' = [wf EXCEPT !.failed = @ \cup {t}]
        /\ pg' = IF HasEnded(t, n) THEN pg ELSE FailedNow(opened, t, n, "derived")
    BY <1>21, NextTaskPlace DEF RecordTaskFailed, HasEnded
  <2>2. t \in Tasks /\ t \in InFlight
    BY <1>21, <2>1 DEF InFlight, AtTask, Control
  <2>3. act[t].lost
    BY <1>21, <2>1, <2>2 DEF CInv, EndedOnce, LInv, Fits, ExecFits
  <2>4. /\ wf'.completed = wf.completed /\ wf'.failed = wf.failed \cup {t}
        /\ wf'.skipped = wf.skipped /\ wf'.tries = wf.tries
        /\ wf'.paused = wf.paused /\ wf'.resumeDirty = wf.resumeDirty
    BY <2>1 DEF Memories
  <2>5. /\ pg'.ok /\ pg'.run = pg.run /\ pg'.task[t] \in {"completed", "failed"}
        /\ \A u \in Tasks \ {t} : pg'.task[u] = pg.task[u]
    <3>1. CASE HasEnded(t, n)
      <4>1. n # 0
        BY <2>2 DEF IInv, Rounds, TypeOK, Memories
      <4> QED
        BY <2>1, <2>2, <3>1, <4>1 DEF LInv, Fits, StatusFits
    <3>2. CASE ~HasEnded(t, n)
      <4>1. Moves(pg, FailedNow(opened, t, n, "derived"), t, "failed")
        BY <2>1, <2>2, <3>2, RecordedAtOnce
      <4> HIDE DEF opened
      <4> QED
        BY <2>1, <3>2, <4>1 DEF Moves
    <3> QED
      BY <3>1, <3>2
  <2> QED
    BY <2>1, <2>2, <2>3, <2>4, <2>5, JudgeFits DEF Working
<1>22. ASSUME RoundDone PROVE LInv'
  <2>1. /\ pc = "round_done" /\ pc' \in {"recheck", "loop"}
        /\ UNCHANGED <<pg, keys, act, cmd>>
    BY <1>22 DEF RoundDone, logVars
  <2>2. /\ wf'.completed = wf.completed /\ wf'.failed = wf.failed
        /\ wf'.skipped = wf.skipped /\ wf'.tries = wf.tries
        /\ wf'.paused = wf.paused /\ wf'.resumeDirty = wf.resumeDirty
    BY <1>22 DEF RoundDone, Memories
  <2> QED
    BY <2>1, <2>2, WorkFits DEF Working
<1>23. ASSUME RecheckIntent PROVE LInv'
  <2>1. /\ pc = "recheck" /\ pc' \in {"record", "loop", "continue_as_new"}
        /\ pc' = "record" => note' = "cancelled"
        /\ UNCHANGED <<pg, keys, act, cmd>>
        /\ \/ wf' = wf
           \/ wf' = [wf EXCEPT !.cancel = TRUE]
           \/ wf' = [wf EXCEPT !.paused = TRUE, !.pauseDirty = TRUE]
    BY <1>23 DEF RecheckIntent, logVars
  <2>2. /\ wf'.completed = wf.completed /\ wf'.failed = wf.failed
        /\ wf'.skipped = wf.skipped /\ wf'.tries = wf.tries
        /\ wf.paused => wf'.paused
        /\ wf'.resumeDirty = wf.resumeDirty
    <3>1. CASE wf' = wf
      BY <3>1
    <3>2. CASE wf' = [wf EXCEPT !.cancel = TRUE]
      BY <3>2 DEF Memories
    <3>3. CASE wf' = [wf EXCEPT !.paused = TRUE, !.pauseDirty = TRUE]
      BY <3>3 DEF Memories
    <3> QED
      BY <2>1, <3>1, <3>2, <3>3
  <2>3. Pauses'
    BY <2>1, <2>2 DEF LInv, Pauses
  <2>4. pg.run = "running"
    BY <2>1 DEF LInv, RunStands, Working
  <2> QED
    BY <2>1, <2>2, <2>3, <2>4, QuietFits DEF Marking
<1>24. ASSUME ContinueAsNew PROVE LInv'
  <2>1. /\ pc = "continue_as_new" /\ pc' = "loop" /\ UNCHANGED <<pg, keys, act, cmd>>
        /\ wf' = Carried(wf)
    BY <1>24 DEF ContinueAsNew, logVars
  <2>2. /\ wf'.completed = wf.completed /\ wf'.failed = wf.failed
        /\ wf'.skipped = wf.skipped /\ wf'.tries = wf.tries
        /\ wf'.paused = wf.paused /\ wf'.resumeDirty = wf.resumeDirty
    BY <2>1 DEF Carried
  <2> QED
    BY <2>1, <2>2, WorkFits DEF Working
<1> QED
  BY <1>2, <1>4, <1>7, <1>8, <1>11, <1>13, <1>14, <1>16, <1>17, <1>19, <1>21,
     <1>22, <1>23, <1>24, StartRunFits, RecordRunFits, PlanSkipsFits, RecordSkipFits
     DEF Workflow

LEMMA NextLInv ==
  ASSUME IInv, CInv, LInv, Polite, ~Ambiguity, [Next]_vars
  PROVE  LInv'
BY NextIsEither, FitsWorkflow, FitsOutside, FitsDead, FitsUnchanged

(* Every committed event list replays: no activity ever appends an event   *)
(* the reducer refuses, for every graph, policy and handler, with retries, *)
(* timeouts, approvals, cancels and failing workflows, as long as          *)
(* operators resume only what they see paused and no commit is reported    *)
(* failed.                                                                 *)
THEOREM LogStaysReplayable == Polite /\ ~Ambiguity => (Spec => []LogReplayable)
<1> SUFFICES ASSUME Polite, ~Ambiguity PROVE Spec => []LogReplayable
  OBVIOUS
<1>1. Init => DInv /\ LInv
  BY InitDInv, InitLInv
<1>2. DInv /\ LInv /\ [Next]_vars => (DInv /\ LInv)'
  BY NextDInv, NextLInv DEF DInv
<1>3. LInv => LogReplayable
  BY DEF LInv, LogReplayable
<1> QED
  BY <1>1, <1>2, <1>3, PTL DEF Spec

(* So the order of dependencies needs no further condition.                *)
THEOREM DependenciesAlwaysFirst ==
  Polite /\ ~Ambiguity => (Spec => []DependenciesFirst)
BY LogStaysReplayable, DependenciesComeFirst, PTL

-----------------------------------------------------------------------------
(* Synthesis                                                               *)

(* A handler ran to its end only in an attempt the workflow counted.       *)
RanInAttempt == \A t \in Tasks : act[t].out = "completed" => wf.tries[t] # 0
SInv == NoSynthesisOverConflict /\ RanInAttempt

(* New conflicts are of tasks that had not completed, while those a         *)
(* synthesis depends on had: nobody completes them a second time.          *)
LEMMA ConflictStep ==
  ASSUME DInv, LInv, SInv,
         \A t \in Tasks : wf.tries[t] # 0 => wf'.tries[t] # 0,
         \A t \in Tasks : act'[t].out = "completed" =>
           \/ act[t].out = "completed"
           \/ wf.tries[t] # 0 /\ (t \in Synth => pg'.conflicts = {}),
         \A c \in pg'.conflicts : c \in pg.conflicts \/ pg.task[c.second] # "completed"
  PROVE  SInv'
<1>1. RanInAttempt'
  BY DEF SInv, RanInAttempt
<1>2. ASSUME NEW t \in Synth, act'[t].out = "completed", NEW c \in pg'.conflicts,
             {c.first, c.second} \subseteq Deps[t]
      PROVE  FALSE
  <2>1. t \in Tasks /\ Deps[t] \subseteq Tasks
    BY RunAssumption DEF RunAssumption
  <2>2. act[t].out = "completed" /\ wf.tries[t] # 0
    BY <1>2, <2>1 DEF SInv, RanInAttempt
  <2>3. c.second \in wf.completed
    BY <1>2, <2>1, <2>2 DEF DInv, Supported
  <2>4. pg.task[c.second] = "completed"
    BY <2>3 DEF DInv, CInv, FollowsLog, LInv
  <2> QED
    BY <1>2, <2>2, <2>4 DEF SInv, NoSynthesisOverConflict
<1> QED
  BY <1>1, <1>2 DEF SInv, NoSynthesisOverConflict

(* The workflow never forgets an attempt, ...                              *)
LEMMA TriesGrow ==
  ASSUME IInv, Workflow, NEW u \in Tasks, wf.tries[u] # 0
  PROVE  wf'.tries[u] # 0
<1>0. wf \in Memories /\ wf.tries \in [Tasks -> 0..MaxAttempts] /\ Control
  BY DEF IInv, TypeOK, Memories
<1>1. ASSUME NEW S, Start(S) PROVE wf'.tries[u] # 0
  <2> DEFINE more == [t \in Tasks |-> IF t \in S THEN wf.tries[t] + 1 ELSE wf.tries[t]]
  <2>1. wf' = [wf EXCEPT !.tries = more]
    BY <1>1 DEF Start
  <2>2. wf.tries[u] \in Nat /\ more[u] # 0
    BY <1>0, ReducerAssumption DEF ReducerAssumption
  <2> HIDE DEF more
  <2>3. wf'.tries = more
    BY <1>0, <2>1 DEF Memories
  <2> QED
    BY <2>2, <2>3
<1>2. ASSUME NEW w \in Memories, w.tries = wf.tries, NEW d, Verdict(w, d)
      PROVE  wf'.tries[u] # 0
  <2>1. wf' = [w EXCEPT !.tries[cur] = @ + 1]
    BY <1>2 DEF Verdict
  <2>2. wf'.tries = [wf.tries EXCEPT ![cur] = @ + 1]
    BY <1>2, <2>1 DEF Memories
  <2>3. wf.tries[u] \in Nat
    BY <1>0, ReducerAssumption DEF ReducerAssumption
  <2> QED
    BY <1>0, <2>2, <2>3
<1>3. CASE wf'.tries = wf.tries
  BY <1>3
<1>4. CASE RunSerial \/ RunParallel
  BY <1>1, <1>3, <1>4 DEF RunSerial, RunParallel
<1>5. CASE InterpretResult
  <2>1. CASE Start({cur})
    BY <1>1, <2>1
  <2>2. CASE \/ wf' = [wf EXCEPT !.completed = @ \cup {cur}]
             \/ wf' = [wf EXCEPT !.failed = @ \cup {cur}]
             \/ wf' = [wf EXCEPT !.failed = @ \cup {cur},
                            !.cancel = @ \/ Policy[cur] = "cancel"]
    <3>1. CASE wf' = [wf EXCEPT !.completed = @ \cup {cur}]
      BY <1>0, <1>3, <3>1 DEF Memories
    <3>2. CASE wf' = [wf EXCEPT !.failed = @ \cup {cur}]
      BY <1>0, <1>3, <3>2 DEF Memories
    <3>3. CASE wf' = [wf EXCEPT !.failed = @ \cup {cur},
                            !.cancel = @ \/ Policy[cur] = "cancel"]
      BY <1>0, <1>3, <3>3 DEF Memories
    <3> QED
      BY <2>2, <3>1, <3>2, <3>3
  <2> QED
    BY <1>5, <2>1, <2>2, EndsHow
<1>6. CASE WakeFromApproval
  BY <1>0, <1>2, <1>3, <1>6 DEF WakeFromApproval
<1>7. CASE CheckApproval
  <2> DEFINE known == [wf EXCEPT !.decisions[cur] = Found(cur)]
  <2>1. cur \in Tasks /\ approval[cur].row # "none" /\ approval[cur] \in ApprovalRows
    BY <1>0, <1>7 DEF CheckApproval, Control, IInv, Requests, TypeOK
  <2>2. Found(cur) \in Decisions
    BY <2>1 DEF Found, ApprovalRows, Decisions
  <2>3. known \in Memories /\ known.tries = wf.tries
    BY <1>0, <2>1, <2>2 DEF Memories
  <2>4. wf' = known \/ Verdict(known, Found(cur))
    BY <1>7 DEF CheckApproval
  <2> HIDE DEF known
  <2> QED
    BY <1>2, <1>3, <2>3, <2>4
<1>8. CASE RecordApprovalOutcome
  <2>1. CASE wf' = [wf EXCEPT !.completed = @ \cup {cur}]
    BY <1>0, <1>3, <2>1 DEF Memories
  <2>2. CASE wf' = [wf EXCEPT !.failed = @ \cup {cur},
                            !.cancel = @ \/ Policy[cur] = "cancel"]
    BY <1>0, <1>3, <2>2 DEF Memories
  <2> QED
    BY <1>8, <2>1, <2>2 DEF RecordApprovalOutcome
<1>9. CASE RecordRunTerminal
  <2>1. \/ wf' = wf
        \/ wf' = [wf EXCEPT !.pauseDirty = FALSE]
        \/ wf' = [wf EXCEPT !.resumeDirty = FALSE]
    BY <1>9 DEF RecordRunTerminal
  <2> QED
    BY <1>0, <1>3, <2>1 DEF Memories
<1>10. CASE RecheckIntent
  <2>1. \/ wf' = wf
        \/ wf' = [wf EXCEPT !.cancel = TRUE]
        \/ wf' = [wf EXCEPT !.paused = TRUE, !.pauseDirty = TRUE]
    BY <1>10 DEF RecheckIntent
  <2> QED
    BY <1>0, <1>3, <2>1 DEF Memories
<1>11. CASE PlanSkips \/ RecordTaskFailed \/ RoundDone \/ ContinueAsNew
  <2>1. CASE PlanSkips
    BY <1>0, <1>3, <2>1 DEF PlanSkips, Memories
  <2>2. CASE RecordTaskFailed
    BY <1>0, <1>3, <2>2 DEF RecordTaskFailed, Memories
  <2>3. CASE RoundDone
    BY <1>0, <1>3, <2>3 DEF RoundDone, Memories
  <2>4. CASE ContinueAsNew
    BY <1>0, <1>3, <2>4 DEF ContinueAsNew, Carried
  <2> QED
    BY <1>11, <2>1, <2>2, <2>3, <2>4
<1>12. CASE UNCHANGED wf
  BY <1>3, <1>12
<1> QED
  BY <1>4, <1>5, <1>6, <1>7, <1>8, <1>9, <1>10, <1>11, <1>12
  DEF Workflow, StartRun, LoopTop, WakeFromPause, RecordTaskSkipped, FinishRun,
      HoldBack, AskApproval, CreateApproval, ApprovalTimeout, Dispatch, AwaitNext,
      InterpretError

(* ... an attempt it starts has no outcome yet, ...                        *)
LEMMA StartsHaveNoOutcome ==
  ASSUME IInv, Workflow, NEW t \in Tasks, act'[t].out = "completed"
  PROVE  act[t].out = "completed"
<1>1. ASSUME NEW S, Start(S) PROVE act[t].out = "completed"
  <2>1. act'[t] = IF t \in S THEN [phase |-> "queued", n |-> wf.tries[t] + 1,
                                   out |-> "none", lost |-> FALSE]
                  ELSE act[t]
    BY <1>1 DEF Start
  <2> QED
    BY <2>1
<1>2. CASE InterpretResult
  BY <1>1, <1>2, EndsHow
<1>3. CASE RunSerial \/ RunParallel
  BY <1>1, <1>3 DEF RunSerial, RunParallel
<1>4. CASE UNCHANGED act
  BY <1>4
<1> QED
  BY <1>2, <1>3, <1>4
  DEF Workflow, StartRun, LoopTop, RecordRunTerminal, WakeFromPause, PlanSkips,
      RecordTaskSkipped, FinishRun, HoldBack, AskApproval, CreateApproval,
      WakeFromApproval, ApprovalTimeout, CheckApproval, RecordApprovalOutcome,
      Dispatch, AwaitNext, InterpretError, RecordTaskFailed, RoundDone,
      RecheckIntent, ContinueAsNew

(* ... and the run's own events make no conflict.                          *)
LEMMA RecordRunConflicts ==
  ASSUME NEW p \in Projections, NEW o \in RunOutcomes
  PROVE  RecordRun(p, o).conflicts = p.conflicts
<1> DEFINE left == [t \in Tasks |-> IF p.task[t] \in {"pending", "scheduled"}
                                     THEN "skipped" ELSE p.task[t]]
<1> HIDE DEF left
<1>1. \/ RecordRun(p, o) = Refuse(p)
      \/ \E to : RecordRun(p, o) = MoveRun(p, to)
      \/ RecordRun(p, o) = [p EXCEPT !.run = "cancelled", !.task = left]
  BY DEF RecordRun, RunOutcomes, RunCompleted, RunFailed, RunPaused, RunResumed,
         RunCancelled, left
<1>2. Refuse(p).conflicts = p.conflicts
  BY DEF Refuse, Projections
<1>3. \A to : MoveRun(p, to).conflicts = p.conflicts
  BY <1>2 DEF MoveRun, Projections
<1>4. [p EXCEPT !.run = "cancelled", !.task = left].conflicts = p.conflicts
  BY DEF Projections
<1> QED
  BY <1>1, <1>2, <1>3, <1>4

(* A task whose attempt is open has not completed.                         *)
LEMMA OpenHasNotCompleted ==
  ASSUME LInv, NEW t \in Tasks, wf.tries[t] # 0, ~HasEnded(t, wf.tries[t])
  PROVE  pg.task[t] # "completed"
BY DEF LInv, Fits, StatusFits

LEMMA ConflictsOfWorkflow ==
  ASSUME IInv, CInv, LInv, Workflow, NEW c \in pg'.conflicts
  PROVE  c \in pg.conflicts \/ pg.task[c.second] # "completed"
<1>0. pg \in Projections /\ Control
  BY DEF IInv, TypeOK
<1>1. CASE StartRun
  BY <1>1 DEF StartRun, RunStarted, RunCreated, EmptyProjection
<1>2. CASE RecordRunTerminal
  <2>1. note \in RunOutcomes
    BY <1>0, <1>2 DEF RecordRunTerminal, Control
  <2>2. pg' = pg \/ pg' = RecordRun(pg, note)
    BY <1>2 DEF RecordRunTerminal
  <2> QED
    BY <1>0, <2>1, <2>2, RecordRunConflicts
<1>3. CASE RecordTaskSkipped
  <2>1. pg' = pg \/ pg' = TaskSkipped(pg, FirstOf(todo))
    BY <1>3 DEF RecordTaskSkipped
  <2>2. TaskSkipped(pg, FirstOf(todo)).conflicts = pg.conflicts
    BY <1>0 DEF TaskSkipped, MoveTask, Refuse, Projections
  <2> QED
    BY <2>1, <2>2
<1>4. ASSUME RecordApprovalOutcome, NEW t, t = cur
      PROVE  c \in pg.conflicts \/ pg.task[c.second] # "completed"
  <2> DEFINE n == wf.tries[t]
             opened == Opened(pg, t, n, "derived")
  <2>1. pc = "record_outcome" /\ t \in Tasks /\ t \in InFlight /\ ~HasEnded(t, n)
    BY <1>0, <1>4 DEF RecordApprovalOutcome, Control, InFlight, CInv, EndedOnce, HasEnded
  <2>2. wf.tries[t] # 0
    BY <2>1 DEF IInv, Rounds, TypeOK, Memories
  <2>3. \/ pg' = Succeeded(opened, t, n, "derived", ApprovalField)
        \/ pg' = FailedNow(opened, t, n, "derived")
    BY <1>4 DEF RecordApprovalOutcome
  <2>4. /\ FailedNow(opened, t, n, "derived").conflicts = pg.conflicts
        /\ \A e \in Succeeded(opened, t, n, "derived", ApprovalField).conflicts :
             e \in pg.conflicts \/ e.second = t
    BY <2>1, RunAssumption, RecordedAtOnce DEF RunAssumption
  <2>5. pg.task[t] # "completed"
    BY <2>1, <2>2, OpenHasNotCompleted
  <2> HIDE DEF opened
  <2> QED
    BY <2>3, <2>4, <2>5
<1>5. ASSUME RecordTaskFailed, NEW t, t = cur
      PROVE  c \in pg.conflicts
  <2> DEFINE n == wf.tries[t]
             opened == Opened(pg, t, n, "derived")
  <2>1. pc = "record_failed" /\ t \in Tasks /\ t \in InFlight
    BY <1>0, <1>5 DEF RecordTaskFailed, Control, InFlight, AtTask
  <2>2. pg' = IF HasEnded(t, n) THEN pg ELSE FailedNow(opened, t, n, "derived")
    BY <1>5 DEF RecordTaskFailed, HasEnded
  <2>3. ~HasEnded(t, n) => FailedNow(opened, t, n, "derived").conflicts = pg.conflicts
    BY <2>1, RecordedAtOnce
  <2> HIDE DEF opened
  <2> QED
    BY <2>2, <2>3
<1>6. CASE UNCHANGED pg
  BY <1>6
<1> QED
  BY <1>1, <1>2, <1>3, <1>4, <1>5, <1>6
  DEF Workflow, LoopTop, WakeFromPause, PlanSkips, FinishRun, HoldBack, AskApproval,
      CreateApproval, WakeFromApproval, ApprovalTimeout, CheckApproval, Dispatch,
      RunSerial, RunParallel, AwaitNext, InterpretResult, InterpretError, RoundDone,
      RecheckIntent, ContinueAsNew, logVars

LEMMA SynthesisWorkflow == DInv /\ LInv /\ SInv /\ Workflow => SInv'
<1> SUFFICES ASSUME DInv, LInv, SInv, Workflow PROVE SInv'
  OBVIOUS
<1>1. IInv /\ CInv
  BY DEF DInv
<1>2. \A t \in Tasks : wf.tries[t] # 0 => wf'.tries[t] # 0
  BY <1>1, TriesGrow
<1>3. \A t \in Tasks : act'[t].out = "completed" => act[t].out = "completed"
  BY <1>1, StartsHaveNoOutcome
<1>4. \A c \in pg'.conflicts : c \in pg.conflicts \/ pg.task[c.second] # "completed"
  BY <1>1, ConflictsOfWorkflow
<1> QED
  BY <1>2, <1>3, <1>4, ConflictStep

LEMMA SynthesisOutside == DInv /\ LInv /\ SInv /\ ~Ambiguity /\ Outside => SInv'
<1> SUFFICES ASSUME DInv, LInv, SInv, ~Ambiguity, Outside PROVE SInv'
  OBVIOUS
<1>0. IInv /\ CInv /\ act \in [Tasks -> Executions] /\ pg \in Projections
  BY DEF DInv, IInv, TypeOK
<1>1. \A t \in Tasks : wf.tries[t] # 0 => wf'.tries[t] # 0
  BY <1>0, OutsideStaysInPlace DEF SamePlace
<1>2. ASSUME NEW t \in Tasks, BeginTask(t) PROVE SInv'
  <2> DEFINE n == act[t].n
  <2>1. act[t].phase = "queued" /\ pg' = Opened(pg, t, n, "drawn")
        /\ act' = [act EXCEPT ![t].phase = "begun"]
    BY <1>2 DEF BeginTask, Step
  <2>2. wf.tries[t] # 0 /\ n = wf.tries[t]
    BY <2>1 DEF LInv, Fits, ExecFits
  <2>3. pg'.conflicts = pg.conflicts
    <3>1. CASE HasBegun(t, n)
      BY <2>1, <3>1 DEF Opened, HasBegun
    <3>2. CASE ~HasBegun(t, n)
      BY <1>0, <2>1, <2>2, <3>2, OpeningAccepted
    <3> QED
      BY <3>1, <3>2
  <2>4. \A u \in Tasks : act'[u].out = act[u].out
    BY <1>0, <2>1 DEF Executions
  <2> QED
    BY <1>1, <2>3, <2>4, ConflictStep
<1>3. ASSUME NEW t \in Tasks, RunHandler(t) PROVE SInv'
  <2>1. act[t].phase = "begun" /\ UNCHANGED pg
    BY <1>3 DEF RunHandler, logVars
  <2>2. wf.tries[t] # 0
    BY <2>1 DEF LInv, Fits, ExecFits
  <2>3. \E out : /\ act' = [act EXCEPT ![t].phase = "ran", ![t].out = out]
                 /\ out = "completed" => ~Downgraded(t)
    BY <1>3 DEF RunHandler, LInv
  <2>4. /\ \A u \in Tasks \ {t} : act'[u].out = act[u].out
        /\ act'[t].out = "completed" => ~Downgraded(t)
    BY <1>0, <2>3 DEF Executions
  <2>5. act'[t].out = "completed" => (t \in Synth => pg'.conflicts = {})
    BY <2>1, <2>4 DEF Downgraded
  <2> QED
    BY <1>1, <2>1, <2>2, <2>4, <2>5, ConflictStep
<1>4. ASSUME NEW t \in Tasks, EndTask(t) PROVE SInv'
  <2> DEFINE n == wf.tries[t]
  <2>1. act[t].phase = "ran" /\ act' = [act EXCEPT ![t].phase = "ended"] /\ Commit(t)
    BY <1>4 DEF EndTask, Step, LInv
  <2>2. /\ wf.tries[t] # 0 /\ act[t].n = n /\ Fits(t) /\ n \in 1..MaxAttempts
        /\ HasBegun(t, n)
    BY <1>0, <2>1, TriesType DEF LInv, Fits, ExecFits
  <2>3. \/ pg' = Succeeded(pg, t, n, "drawn", Output(t))
        \/ pg' = FailedNow(pg, t, n, "drawn")
    BY <2>1, <2>2 DEF Commit
  <2>4. \A u \in Tasks : act'[u].out = act[u].out
    BY <1>0, <2>1 DEF Executions
  <2>5. \A c \in pg'.conflicts : c \in pg.conflicts \/ pg.task[c.second] # "completed"
    <3>1. CASE HasEnded(t, n)
      BY <2>3, <3>1 DEF Succeeded, FailedNow, HasEnded
    <3>2. CASE ~HasEnded(t, n)
      <4>1. pg.ok /\ pg.task[t] = "started" /\ <<t, n>> \notin keys.ended
        BY <2>2, <3>2 DEF LInv, Fits, StatusFits, HasEnded
      <4> DEFINE out == Output(t)
      <4>0. out \in SUBSET Fields
        BY OutputType
      <4> HIDE DEF n, out
      <4>2. /\ \A c \in Succeeded(pg, t, n, "drawn", out).conflicts :
                 c \in pg.conflicts \/ c.second = t
            /\ FailedNow(pg, t, n, "drawn").conflicts = pg.conflicts
        <5>1. n \in 1..MaxAttempts /\ pg \in Projections
          BY <1>0, <2>2
        <5> QED
          BY <4>0, <4>1, <5>1, ClosedMoves
      <4> QED
        BY <2>3, <4>1, <4>2 DEF out
    <3> QED
      BY <3>1, <3>2
  <2> QED
    BY <1>1, <2>4, <2>5, ConflictStep
<1>5. ASSUME NEW t \in Tasks, RetryTask(t) \/ LoseTask(t) PROVE SInv'
  <2>1. UNCHANGED pg
        /\ \/ act' = [act EXCEPT ![t].phase = "queued", ![t].out = "none"]
           \/ act' = [act EXCEPT ![t].lost = TRUE]
    BY <1>5 DEF RetryTask, LoseTask, logVars
  <2>2. \A u \in Tasks : act'[u].out = "completed" => act[u].out = "completed"
    <3>1. CASE act' = [act EXCEPT ![t].phase = "queued", ![t].out = "none"]
      BY <1>0, <3>1 DEF Executions
    <3>2. CASE act' = [act EXCEPT ![t].lost = TRUE]
      BY <1>0, <3>2 DEF Executions
    <3> QED
      BY <2>1, <3>1, <3>2
  <2> QED
    BY <1>1, <2>1, <2>2, ConflictStep
<1>6. CASE UNCHANGED <<pg, act>>
  BY <1>1, <1>6, ConflictStep
<1>7. ASSUME NEW t \in Tasks, Decisive(t) \/ Expire(t) \/ SignalDecision(t)
      PROVE  UNCHANGED <<pg, act>>
  BY <1>7 DEF Decisive, Decide, CommitDecision, Expire, SignalDecision, logVars
<1>8. ASSUME NEW c \in Commands, Submit(c) \/ Signal(c) \/ TooLate(c)
      PROVE  UNCHANGED <<pg, act>>
  BY <1>8 DEF Submit, Signal, TooLate, logVars
<1> QED
  BY <1>2, <1>3, <1>4, <1>5, <1>6, <1>7, <1>8 DEF Outside, Activity

(* A Synthesize node never runs over an unresolved conflict between two of *)
(* the nodes it depends on, for every graph and whatever the handlers      *)
(* write: such a conflict is in the log before the synthesis reads it, and *)
(* no later event adds one.                                                *)
THEOREM SynthesisSeesConflicts ==
  Polite /\ ~Ambiguity => (Spec => []NoSynthesisOverConflict)
<1> SUFFICES ASSUME Polite, ~Ambiguity PROVE Spec => []NoSynthesisOverConflict
  OBVIOUS
<1> DEFINE Inv == DInv /\ LInv /\ SInv
<1>1. Init => Inv
  <2> SUFFICES ASSUME Init PROVE SInv
    BY InitDInv, InitLInv
  <2>1. \A t \in Tasks : act[t].out # "completed"
    BY DEF Init, NoActivity
  <2> QED
    BY <2>1, RunAssumption DEF SInv, NoSynthesisOverConflict, RanInAttempt, RunAssumption
<1>2. Inv /\ [Next]_vars => Inv'
  <2> SUFFICES ASSUME Inv, [Next]_vars PROVE Inv'
    OBVIOUS
  <2>1. DInv' /\ LInv'
    BY NextDInv, NextLInv DEF DInv
  <2>2. CASE Workflow
    BY <2>1, <2>2, SynthesisWorkflow
  <2>3. CASE Outside
    BY <2>1, <2>3, SynthesisOutside
  <2>4. CASE WorkflowFails \/ UNCHANGED vars
    <3>1. UNCHANGED <<pg, wf, act>>
      BY <2>4 DEF WorkflowFails, vars, logVars
    <3>2. SInv'
      BY <3>1, ConflictStep
    <3> QED
      BY <2>1, <3>2
  <2> QED
    BY <2>2, <2>3, <2>4, NextIsEither
<1>3. Inv => NoSynthesisOverConflict
  BY DEF SInv
<1> QED
  BY <1>1, <1>2, <1>3, PTL DEF Spec

-----------------------------------------------------------------------------
(* No execution times out                                                  *)

UnderWay == {"queued", "begun", "ran"}

(* Every execution answers, and none outlives a workflow that failed.      *)
Answered ==
  /\ pc # "record_failed" /\ \A t \in Tasks : ~act[t].lost
  /\ pc = "dead" => \A t \in Tasks : act[t].phase \notin UnderWay

(* What an execution under way belongs to.                                 *)
LEMMA UnderWayIsAwaited ==
  ASSUME IInv, CInv, LInv, Answered, NEW t \in Tasks, act[t].phase \in UnderWay
  PROVE  /\ wf.tries[t] # 0 /\ act[t].n = wf.tries[t] /\ t \notin Terminal
         /\ ~HasEnded(t, wf.tries[t])
         /\ pc \in {"await", "parallel"} /\ pg.run = "running"
<1>1. wf.tries[t] # 0 /\ act[t].n = wf.tries[t]
  BY DEF LInv, Fits, ExecFits, UnderWay
<1>2. ~HasEnded(t, wf.tries[t])
  BY <1>1 DEF CInv, EndedOnce, Answered, UnderWay, HasEnded
<1>3. t \notin Terminal
  BY <1>1, <1>2 DEF LInv, Fits, JudgedFits, Terminal
<1>4. t \in InFlight
  BY <1>1, <1>2, OpenIsInFlight DEF Answered
<1>5. pc # "record_outcome"
  BY <1>4 DEF InFlight, AtTask, CInv, EndedOnce, UnderWay
<1>6. pc \in {"await", "parallel"}
  BY <1>4, <1>5 DEF InFlight, AtTask, Answered
<1>7. pg.run = "running"
  BY <1>6 DEF LInv, RunStands, Working
<1> QED
  BY <1>1, <1>2, <1>3, <1>6, <1>7

LEMMA AnsweredOutside ==
  ASSUME IInv, CInv, LInv, Answered, ~Timeouts, Outside
  PROVE  Answered'
<1>0. act \in [Tasks -> Executions] /\ UNCHANGED pc
  BY OutsideStaysInPlace DEF IInv, TypeOK, SamePlace
<1>1. ASSUME NEW t \in Tasks, Activity(t) \/ RetryTask(t)
      PROVE  act[t].phase \in UnderWay /\ \A u \in Tasks : ~act'[u].lost
  <2>1. act[t].phase \in UnderWay
    BY <1>1 DEF Activity, BeginTask, RunHandler, EndTask, RetryTask, UnderWay
  <2>2. \/ \E p : act' = [act EXCEPT ![t].phase = p]
        \/ \E p, o : act' = [act EXCEPT ![t].phase = p, ![t].out = o]
    BY <1>1 DEF Activity, BeginTask, RunHandler, EndTask, RetryTask, Step
  <2>3. ASSUME NEW p, act' = [act EXCEPT ![t].phase = p]
        PROVE  \A u \in Tasks : act'[u].lost = act[u].lost
    BY <1>0, <2>3 DEF Executions
  <2>4. ASSUME NEW p, NEW o, act' = [act EXCEPT ![t].phase = p, ![t].out = o]
        PROVE  \A u \in Tasks : act'[u].lost = act[u].lost
    BY <1>0, <2>4 DEF Executions
  <2> QED
    BY <2>1, <2>2, <2>3, <2>4 DEF Answered
<1>2. CASE \E t \in Tasks : Activity(t) \/ RetryTask(t)
  <2>1. pc # "dead"
    BY <1>1, <1>2 DEF Answered
  <2> QED
    BY <1>0, <1>1, <1>2, <2>1 DEF Answered
<1>3. CASE UNCHANGED act
  BY <1>0, <1>3 DEF Answered
<1>4. ASSUME NEW t \in Tasks, LoseTask(t) PROVE FALSE
  BY <1>4 DEF LoseTask
<1>5. ASSUME NEW t \in Tasks, Decisive(t) \/ Expire(t) \/ SignalDecision(t)
      PROVE  UNCHANGED act
  BY <1>5 DEF Decisive, Decide, CommitDecision, Expire, SignalDecision
<1>6. ASSUME NEW c \in Commands, Submit(c) \/ Signal(c) \/ TooLate(c)
      PROVE  UNCHANGED act
  BY <1>6 DEF Submit, Signal, TooLate
<1> QED
  BY <1>2, <1>3, <1>4, <1>5, <1>6 DEF Outside

LEMMA AnsweredWorkflow ==
  ASSUME IInv, LInv, Answered, Workflow
  PROVE  Answered'
<1>1. ASSUME NEW S, Start(S) PROVE \A t \in Tasks : ~act'[t].lost
  <2> SUFFICES ASSUME NEW t \in Tasks PROVE ~act'[t].lost
    OBVIOUS
  <2> DEFINE fresh == [phase |-> "queued", n |-> wf.tries[t] + 1,
                       out |-> "none", lost |-> FALSE]
  <2>1. act'[t] = IF t \in S THEN fresh ELSE act[t]
    BY <1>1 DEF Start
  <2>2. ~fresh.lost
    OBVIOUS
  <2> HIDE DEF fresh
  <2> QED
    BY <2>1, <2>2 DEF Answered
<1>2. \A t \in Tasks : ~act'[t].lost
  <2>1. CASE InterpretResult
    BY <1>1, <2>1, EndsHow DEF Answered
  <2>2. CASE RunSerial \/ RunParallel
    BY <1>1, <2>2 DEF RunSerial, RunParallel, Answered
  <2>3. CASE UNCHANGED act
    BY <2>3 DEF Answered
  <2> QED
    BY <2>1, <2>2, <2>3
    DEF Workflow, StartRun, LoopTop, RecordRunTerminal, WakeFromPause, PlanSkips,
        RecordTaskSkipped, FinishRun, HoldBack, AskApproval, CreateApproval,
        WakeFromApproval, ApprovalTimeout, CheckApproval, RecordApprovalOutcome,
        Dispatch, AwaitNext, InterpretError, RecordTaskFailed, RoundDone,
        RecheckIntent, ContinueAsNew
<1>3. ~InterpretError
  <2>1. pc = "await" => cur \in Tasks
    BY DEF IInv, Control
  <2>2. ASSUME NEW t \in Tasks PROVE ~act[t].lost /\ act[t].phase # "error"
    BY DEF Answered, LInv, Fits, ExecFits
  <2> QED
    BY <2>1, <2>2 DEF InterpretError
<1>4. pc' \notin {"record_failed", "dead"}
  <2>1. CASE InterpretResult
    <3>1. pc = "await" /\ (UNCHANGED pc \/ \E b : NextTask(b))
      BY <2>1, EndsHow DEF InterpretResult
    <3> QED
      BY <3>1, NextTaskPlace
  <2>2. CASE RecordTaskFailed
    BY <2>2 DEF RecordTaskFailed, Answered
  <2>3. CASE StartRun \/ WakeFromPause \/ FinishRun \/ HoldBack \/ AskApproval
               \/ CreateApproval \/ ApprovalTimeout \/ RecordApprovalOutcome
               \/ Dispatch \/ RunSerial \/ ContinueAsNew
    BY <2>3 DEF StartRun, WakeFromPause, FinishRun, HoldBack, AskApproval,
                CreateApproval, ApprovalTimeout, RecordApprovalOutcome, Dispatch,
                RunSerial, ContinueAsNew, Goto
  <2>4. CASE LoopTop
    BY <2>4 DEF LoopTop, Goto
  <2>5. CASE RecordRunTerminal
    BY <2>5 DEF RecordRunTerminal, Goto
  <2>6. CASE PlanSkips \/ RecordTaskSkipped \/ RunParallel \/ AwaitNext
    BY <2>6 DEF PlanSkips, RecordTaskSkipped, RunParallel, AwaitNext, Goto
  <2>7. CASE WakeFromApproval \/ CheckApproval
    BY <2>7 DEF WakeFromApproval, CheckApproval, Verdict, Goto
  <2>8. CASE RoundDone \/ RecheckIntent
    BY <2>8 DEF RoundDone, RecheckIntent, Goto
  <2> QED
    BY <1>3, <2>1, <2>2, <2>3, <2>4, <2>5, <2>6, <2>7, <2>8 DEF Workflow
<1> QED
  BY <1>2, <1>4 DEF Answered

LEMMA AnsweredDead ==
  ASSUME IInv, CInv, LInv, Answered, WorkflowFails
  PROVE  Answered'
<1>1. pc \notin {"await", "parallel"} /\ pc' = "dead" /\ UNCHANGED act
  BY DEF WorkflowFails, Goto
<1>2. \A t \in Tasks : act[t].phase \notin UnderWay
  BY <1>1, UnderWayIsAwaited
<1> QED
  BY <1>1, <1>2 DEF Answered

(* What a step does to the tasks and the run in the log.                   *)
Worked(t) ==
  /\ t \in Tasks /\ t \notin Terminal /\ wf.tries[t] # 0
  /\ pg.run = "running" /\ pg.task[t] \in {"pending", "started", "failed"}
  /\ \E s \in {"started", "completed", "failed"} : Moves(pg, pg', t, s)

LogMoves ==
  \/ pg'.run = pg.run /\ pg'.task = pg.task
  \/ \E t \in Tasks : Worked(t)
  \/ StartRun \/ RecordRunTerminal \/ RecordTaskSkipped

LEMMA LogMovesOutside ==
  ASSUME IInv, CInv, LInv, Answered, ~Ambiguity, Outside
  PROVE  LogMoves
<1>0. pg \in Projections /\ pg.ok
  BY DEF IInv, TypeOK, LInv
<1>1. ASSUME NEW t \in Tasks, BeginTask(t) PROVE LogMoves
  <2> DEFINE n == wf.tries[t]
  <2>1. act[t].phase \in UnderWay /\ pg' = Opened(pg, t, act[t].n, "drawn")
    BY <1>1 DEF BeginTask, UnderWay
  <2>2. /\ n # 0 /\ act[t].n = n /\ t \notin Terminal /\ ~HasEnded(t, n)
        /\ pg.run = "running"
    BY <2>1, UnderWayIsAwaited
  <2>3. CASE HasBegun(t, n)
    BY <2>1, <2>2, <2>3 DEF Opened, HasBegun, LogMoves
  <2>4. CASE ~HasBegun(t, n)
    <3>1. Moves(pg, pg', t, "started")
      BY <2>1, <2>2, <2>4, OpeningAccepted
    <3>2. pg.task[t] \in {"pending", "failed"}
      BY <2>2, <2>4 DEF LInv, Fits, StatusFits
    <3> QED
      BY <2>2, <3>1, <3>2 DEF Worked, LogMoves
  <2> QED
    BY <2>3, <2>4
<1>2. ASSUME NEW t \in Tasks, EndTask(t) PROVE LogMoves
  <2> DEFINE n == wf.tries[t]
             out == Output(t)
  <2>1. act[t].phase \in UnderWay /\ act[t].phase = "ran" /\ Commit(t)
    BY <1>0, <1>2 DEF EndTask, UnderWay
  <2>2. /\ n # 0 /\ act[t].n = n /\ t \notin Terminal /\ ~HasEnded(t, n)
        /\ pg.run = "running"
    BY <2>1, UnderWayIsAwaited
  <2>3. \/ pg' = Succeeded(pg, t, n, "drawn", out)
        \/ pg' = FailedNow(pg, t, n, "drawn")
    BY <2>1, <2>2 DEF Commit
  <2>4. pg.task[t] = "started" /\ <<t, n>> \notin keys.ended
    BY <2>1, <2>2 DEF LInv, Fits, StatusFits, ExecFits, HasEnded
  <2>5. n \in 1..MaxAttempts /\ out \in SUBSET Fields
    BY <2>2, TriesType, OutputType
  <2> HIDE DEF n, out
  <2>6. /\ Moves(pg, Succeeded(pg, t, n, "drawn", out), t, "completed")
        /\ Moves(pg, FailedNow(pg, t, n, "drawn"), t, "failed")
    BY <1>0, <2>4, <2>5, ClosedMoves
  <2>7. \E s \in {"started", "completed", "failed"} : Moves(pg, pg', t, s)
    BY <2>3, <2>6
  <2> QED
    BY <2>2, <2>4, <2>7 DEF Worked, LogMoves, n
<1>3. ASSUME NEW t \in Tasks, RunHandler(t) \/ RetryTask(t) \/ LoseTask(t)
               \/ Decisive(t) \/ Expire(t) \/ SignalDecision(t)
      PROVE  LogMoves
  BY <1>3 DEF RunHandler, RetryTask, LoseTask, Decisive, Decide,
      CommitDecision, Expire, SignalDecision,
              logVars, LogMoves
<1>4. ASSUME NEW c \in Commands, Submit(c) \/ Signal(c) \/ TooLate(c)
      PROVE  LogMoves
  BY <1>4 DEF Submit, Signal, TooLate, logVars, LogMoves
<1> QED
  BY <1>1, <1>2, <1>3, <1>4 DEF Outside, Activity

LEMMA LogMovesWorkflow ==
  ASSUME IInv, CInv, LInv, Answered, Workflow
  PROVE  LogMoves
<1>1. ASSUME RecordApprovalOutcome, NEW t, t = cur PROVE LogMoves
  <2> DEFINE n == wf.tries[t]
             opened == Opened(pg, t, n, "derived")
  <2>1. pc = "record_outcome" /\ t \in Tasks /\ t \in InFlight /\ ~HasEnded(t, n)
    BY <1>1 DEF RecordApprovalOutcome, IInv, Control, InFlight, CInv, EndedOnce, HasEnded
  <2>2. wf.tries[t] # 0 /\ t \notin Terminal
    BY <2>1 DEF IInv, Rounds, TypeOK, Memories
  <2>3. \/ pg' = Succeeded(opened, t, n, "derived", ApprovalField)
        \/ pg' = FailedNow(opened, t, n, "derived")
    BY <1>1 DEF RecordApprovalOutcome
  <2>4. /\ Moves(pg, FailedNow(opened, t, n, "derived"), t, "failed")
        /\ Moves(pg, Succeeded(opened, t, n, "derived", ApprovalField), t, "completed")
    BY <2>1, RunAssumption, RecordedAtOnce DEF RunAssumption
  <2>5. pg.task[t] \in {"pending", "started", "failed"}
    BY <2>1, <2>2 DEF LInv, Fits, StatusFits
  <2>6. pg.run = "running"
    BY <2>1 DEF LInv, RunStands, Working
  <2> HIDE DEF opened
  <2>7. \E s \in {"started", "completed", "failed"} : Moves(pg, pg', t, s)
    BY <2>3, <2>4
  <2> QED
    BY <2>1, <2>2, <2>5, <2>6, <2>7 DEF Worked, LogMoves
<1>2. ~RecordTaskFailed
  BY DEF RecordTaskFailed, Answered
<1>3. CASE UNCHANGED pg
  BY <1>3 DEF LogMoves
<1> QED
  BY <1>1, <1>2, <1>3
  DEF Workflow, LoopTop, WakeFromPause, PlanSkips, FinishRun, HoldBack, AskApproval,
      CreateApproval, WakeFromApproval, ApprovalTimeout, CheckApproval, Dispatch,
      RunSerial, RunParallel, AwaitNext, InterpretResult, InterpretError, RoundDone,
      RecheckIntent, ContinueAsNew, logVars, LogMoves

-----------------------------------------------------------------------------
(* What the workflow believes of the nodes is in the log                   *)

FailuresFollow == \A t \in wf.failed : pg.task[t] = "failed"

(* No step of the log takes a failure of a judged task back.               *)
LEMMA FailuresKept ==
  ASSUME IInv, CInv, LInv, LogMoves, NEW t \in wf.failed, pg.task[t] = "failed"
  PROVE  pg'.task[t] = "failed"
<1>0. t \in Tasks /\ wf.tries[t] # 0 /\ pg \in Projections
  BY DEF IInv, TypeOK, Memories, LInv, Fits, JudgedFits
<1>1. ASSUME NEW u \in Tasks, Worked(u) PROVE pg'.task[t] = "failed"
  BY <1>0, <1>1 DEF Worked, Moves, Terminal
<1>2. ~StartRun
  BY <1>0 DEF StartRun, CInv, Fresh
<1>3. CASE RecordRunTerminal
  <2>1. pc = "record"
    BY <1>3 DEF RecordRunTerminal
  <2>2. CASE pg' = RecordRun(pg, note) /\ note \notin keys.run
    BY <1>0, <2>1, <2>2, RunEventAccepted
  <2> QED
    BY <1>3, <2>2 DEF RecordRunTerminal
<1>4. ASSUME RecordTaskSkipped, NEW u, u = FirstOf(todo) PROVE pg'.task[t] = "failed"
  <2>1. u \in Tasks
    BY <1>4, FirstOfIsMember DEF RecordTaskSkipped, IInv, TypeOK, Control
  <2>2. pg' \in {pg, Refuse(pg), [pg EXCEPT !.task[u] = "skipped"]}
        /\ (pg.task[u] = "failed" => pg' \in {pg, Refuse(pg)})
    BY <1>4, <2>1 DEF RecordTaskSkipped, TaskSkipped, MoveTask, TaskMay
  <2>3. Refuse(pg).task = pg.task
    BY <1>0 DEF Refuse, Projections
  <2>4. u # t => [pg EXCEPT !.task[u] = "skipped"].task[t] = pg.task[t]
    BY <1>0, <2>1 DEF Projections
  <2> QED
    BY <2>2, <2>3, <2>4
<1> QED
  BY <1>1, <1>2, <1>3, <1>4 DEF LogMoves, Worked

(* Three steps of the workflow judge a task.                               *)
LEMMA OnlyJudgesFail ==
  ASSUME IInv, Workflow, ~InterpretResult, ~RecordApprovalOutcome, ~RecordTaskFailed
  PROVE  wf'.failed = wf.failed
<1>0. wf \in Memories /\ Control
  BY DEF IInv, TypeOK
<1>1. ASSUME NEW w \in Memories, w.failed = wf.failed, NEW d, Verdict(w, d)
      PROVE  wf'.failed = wf.failed
  BY <1>1 DEF Verdict, Memories
<1>2. ASSUME NEW S, Start(S) PROVE wf'.failed = wf.failed
  BY <1>0, <1>2 DEF Start, Memories
<1>3. CASE RunSerial \/ RunParallel
  BY <1>2, <1>3 DEF RunSerial, RunParallel
<1>4. CASE WakeFromApproval
  BY <1>0, <1>1, <1>4 DEF WakeFromApproval
<1>5. CASE CheckApproval
  <2> DEFINE known == [wf EXCEPT !.decisions[cur] = Found(cur)]
  <2>1. cur \in Tasks /\ approval[cur].row # "none"
    BY <1>0, <1>5 DEF CheckApproval, Control, IInv, Requests
  <2>2. Found(cur) \in Decisions
    BY <2>1 DEF IInv, TypeOK, Found, ApprovalRows, Decisions
  <2>3. known \in Memories /\ known.failed = wf.failed
    BY <1>0, <2>1, <2>2 DEF Memories
  <2>4. wf' = known \/ Verdict(known, Found(cur))
    BY <1>5 DEF CheckApproval
  <2> HIDE DEF known
  <2> QED
    BY <1>1, <2>3, <2>4
<1>6. CASE RecordRunTerminal
  <2>1. wf' \in {wf, [wf EXCEPT !.pauseDirty = FALSE], [wf EXCEPT !.resumeDirty = FALSE]}
    BY <1>6 DEF RecordRunTerminal
  <2> QED
    BY <1>0, <2>1 DEF Memories
<1>7. CASE PlanSkips
  BY <1>0, <1>7 DEF PlanSkips, Memories
<1>8. CASE RoundDone
  BY <1>0, <1>8 DEF RoundDone, Memories
<1>9. CASE RecheckIntent
  <2>1. wf' \in {wf, [wf EXCEPT !.cancel = TRUE],
                 [wf EXCEPT !.paused = TRUE, !.pauseDirty = TRUE]}
    BY <1>9 DEF RecheckIntent
  <2> QED
    BY <1>0, <2>1 DEF Memories
<1>10. CASE ContinueAsNew
  BY <1>10 DEF ContinueAsNew, Carried
<1>11. CASE UNCHANGED wf
  BY <1>11
<1> QED
  BY <1>3, <1>4, <1>5, <1>6, <1>7, <1>8, <1>9, <1>10, <1>11
  DEF Workflow, StartRun, LoopTop, WakeFromPause, RecordTaskSkipped, FinishRun,
      HoldBack, AskApproval, CreateApproval, ApprovalTimeout, Dispatch, AwaitNext,
      InterpretError

LEMMA FailuresWorkflow ==
  ASSUME IInv, CInv, LInv, Answered, FailuresFollow, Workflow
  PROVE  FailuresFollow'
<1>0. LogMoves /\ wf \in Memories /\ Control
  BY LogMovesWorkflow DEF IInv, TypeOK
<1>1. \A t \in wf.failed : pg'.task[t] = "failed"
  BY <1>0, FailuresKept DEF FailuresFollow
<1>2. ASSUME InterpretResult, NEW t, t = cur PROVE FailuresFollow'
  <2>1. /\ t \in Tasks /\ act[t].phase = "ended" /\ ~act[t].lost /\ UNCHANGED pg
    BY <1>0, <1>2 DEF InterpretResult, Control, logVars
  <2>2. \/ wf'.failed = wf.failed
        \/ /\ act[t].out \notin {"completed", "downgraded"}
           /\ wf'.failed = wf.failed \cup {t}
    <3>1. CASE act[t].out \in {"completed", "downgraded"}
      BY <1>0, <1>2, <3>1 DEF InterpretResult, Memories
    <3>2. CASE act[t].out \notin {"completed", "downgraded"}
      <4>1. \/ Start({t})
            \/ wf' = [wf EXCEPT !.completed = @ \cup {t}]
               /\ act[t].out \in {"completed", "downgraded"}
            \/ wf' = [wf EXCEPT !.failed = @ \cup {t}]
            \/ wf' = [wf EXCEPT !.failed = @ \cup {t},
                         !.cancel = @ \/ Policy[t] = "cancel"]
        BY <1>2, EndsHow
      <4>2. CASE Start({t})
        BY <1>0, <4>2 DEF Start, Memories
      <4>3. CASE wf' = [wf EXCEPT !.failed = @ \cup {t}]
        BY <1>0, <3>2, <4>3 DEF Memories
      <4>4. CASE wf' = [wf EXCEPT !.failed = @ \cup {t},
                           !.cancel = @ \/ Policy[t] = "cancel"]
        BY <1>0, <3>2, <4>4 DEF Memories
      <4> QED
        BY <3>2, <4>1, <4>2, <4>3, <4>4
    <3> QED
      BY <3>1, <3>2
  <2>3. act[t].out \notin {"completed", "downgraded"} => pg.task[t] = "failed"
    BY <2>1 DEF LInv, Fits, ExecFits
  <2> QED
    BY <1>1, <2>1, <2>2, <2>3 DEF FailuresFollow
<1>3. ASSUME RecordApprovalOutcome, NEW t, t = cur PROVE FailuresFollow'
  <2> DEFINE n == wf.tries[t]
             opened == Opened(pg, t, n, "derived")
  <2>1. pc = "record_outcome" /\ t \in Tasks /\ t \in InFlight /\ ~HasEnded(t, n)
    BY <1>3 DEF RecordApprovalOutcome, IInv, Control, InFlight, CInv, EndedOnce, HasEnded
  <2>2. \/ wf' = [wf EXCEPT !.completed = @ \cup {t}]
        \/ /\ wf' = [wf EXCEPT !.failed = @ \cup {t}, !.cancel = @ \/ Policy[t] = "cancel"]
           /\ pg' = FailedNow(opened, t, n, "derived")
    BY <1>3 DEF RecordApprovalOutcome
  <2>3. Moves(pg, FailedNow(opened, t, n, "derived"), t, "failed")
    BY <2>1, RecordedAtOnce
  <2> HIDE DEF opened
  <2>4. CASE wf' = [wf EXCEPT !.completed = @ \cup {t}]
    <3>1. wf'.failed = wf.failed
      BY <1>0, <2>4 DEF Memories
    <3> QED
      BY <1>1, <3>1 DEF FailuresFollow
  <2>5. CASE /\ wf' = [wf EXCEPT !.failed = @ \cup {t}, !.cancel = @ \/ Policy[t] = "cancel"]
             /\ pg' = FailedNow(opened, t, n, "derived")
    <3>1. wf'.failed = wf.failed \cup {t}
      BY <1>0, <2>5 DEF Memories
    <3>2. pg'.task[t] = "failed"
      BY <2>3, <2>5 DEF Moves
    <3> QED
      BY <1>1, <3>1, <3>2 DEF FailuresFollow
  <2> QED
    BY <2>2, <2>4, <2>5
<1>4. ~RecordTaskFailed
  BY DEF RecordTaskFailed, Answered
<1>5. CASE ~InterpretResult /\ ~RecordApprovalOutcome
  <2>1. wf'.failed = wf.failed
    BY <1>4, <1>5, OnlyJudgesFail
  <2> QED
    BY <1>1, <2>1 DEF FailuresFollow
<1> QED
  BY <1>2, <1>3, <1>5

(* Everything known of a run whose operators are polite, whose commits are *)
(* reported as they were, and whose executions answer.                     *)
KInv == DInv /\ LInv /\ Answered /\ FailuresFollow

LEMMA InitKInv == Init => KInv
<1> SUFFICES ASSUME Init PROVE Answered /\ FailuresFollow
  BY InitDInv, InitLInv DEF KInv
<1>1. pc = "start_run" /\ act = [t \in Tasks |-> NoActivity] /\ wf.failed = {}
  BY DEF Init
<1> QED
  BY <1>1 DEF Answered, FailuresFollow, NoActivity

LEMMA NextKInv ==
  ASSUME KInv, Polite, ~Ambiguity, ~Timeouts, [Next]_vars
  PROVE  KInv'
<1>0. DInv /\ IInv /\ CInv /\ LInv /\ Answered /\ FailuresFollow
  BY DEF KInv, DInv
<1>1. DInv' /\ LInv'
  BY <1>0, NextDInv, NextLInv
<1>2. CASE Workflow
  BY <1>0, <1>1, <1>2, AnsweredWorkflow, FailuresWorkflow DEF KInv
<1>3. CASE Outside
  <2>1. LogMoves /\ wf'.failed = wf.failed
    BY <1>0, <1>3, LogMovesOutside, OutsideStaysInPlace DEF SamePlace
  <2>2. FailuresFollow'
    BY <1>0, <2>1, FailuresKept DEF FailuresFollow
  <2> QED
    BY <1>0, <1>1, <1>3, <2>2, AnsweredOutside DEF KInv
<1>4. CASE WorkflowFails
  <2>1. UNCHANGED <<pg, wf>>
    BY <1>4 DEF WorkflowFails, logVars
  <2> QED
    BY <1>0, <1>1, <1>4, <2>1, AnsweredDead DEF KInv, FailuresFollow
<1>5. CASE UNCHANGED vars
  <2>1. UNCHANGED <<pg, wf, pc, act>>
    BY <1>5 DEF vars
  <2> QED
    BY <1>0, <1>1, <2>1 DEF KInv, FailuresFollow, Answered
<1> QED
  BY <1>2, <1>3, <1>4, <1>5, NextIsEither

(* The workflow holds no truth of its own: whenever it is about to decide  *)
(* what to do next, what it believes of the nodes is what the log says.    *)
THEOREM TheWorkflowFollowsTheLog ==
  Polite /\ ~Ambiguity /\ ~Timeouts => (Spec => []WorkflowFollowsLog)
<1> SUFFICES ASSUME Polite, ~Ambiguity, ~Timeouts PROVE Spec => []WorkflowFollowsLog
  OBVIOUS
<1>1. KInv /\ [Next]_vars => KInv'
  BY NextKInv
<1>2. KInv => WorkflowFollowsLog
  <2> SUFFICES ASSUME KInv, pc = "loop"
               PROVE  /\ wf.completed = {t \in Tasks : pg.task[t] = "completed"}
                      /\ wf.failed = {t \in Tasks : pg.task[t] = "failed"}
                      /\ wf.skipped = {t \in Tasks : pg.task[t] = "skipped"}
    BY DEF WorkflowFollowsLog
  <2>0. IInv /\ CInv /\ LInv /\ FailuresFollow /\ wf \in Memories
    BY DEF KInv, DInv, IInv, TypeOK
  <2>1. wf.completed \subseteq Tasks /\ wf.failed \subseteq Tasks /\ wf.skipped \subseteq Tasks
    BY <2>0 DEF Memories
  <2>2. \A t \in wf.completed : pg.task[t] = "completed"
    BY <2>0 DEF CInv, FollowsLog, LInv
  <2>3. \A t \in Tasks : pg.task[t] = "skipped" <=> t \in wf.skipped
    BY <2>0 DEF LInv, RunStands, SkipFits
  <2>4. ASSUME NEW t \in Tasks, pg.task[t] \in {"completed", "failed"}
        PROVE  t \in wf.completed \/ t \in wf.failed
    <3>1. wf.tries[t] # 0
      BY <2>0, <2>4 DEF LInv, Fits, StatusFits
    <3>2. InFlight = {}
      BY DEF InFlight, AtTask
    <3>3. t \in Terminal
      BY <2>0, <3>1, <3>2 DEF IInv, Rounds
    <3> QED
      BY <2>0, <3>1, <3>3 DEF Terminal, LInv, Fits, JudgedFits
  <2> QED
    BY <2>0, <2>1, <2>2, <2>3, <2>4 DEF FailuresFollow
<1> QED
  BY <1>1, <1>2, InitKInv, PTL DEF Spec
-----------------------------------------------------------------------------
(* The promise of RunLifecycle is kept                                     *)

Ruined(t) == Deps[t] \cap (wf.failed \cup wf.skipped) # {}

(* Skips are planned behind ruined dependencies, and leave none; a run     *)
(* fails when every node came to its end and one of them failed.           *)
Planned ==
  /\ pc \in {"skip", "dispatch"} => \A t \in Tasks \ Terminal : ~Ruined(t)
  /\ pc = "skip" => \A t \in todo : Ruined(t)
  /\ pc = "record" /\ note = "failed" => AllTerminal /\ wf.failed # {}

(* What cannot be reached has a ruined or unreachable dependency, and      *)
(* nothing else does: or it would not be the least such set.               *)
LEMMA UnreachableIsRuined ==
  /\ Unreachable \subseteq Tasks \ Terminal
  /\ \A t \in Tasks \ Terminal :
       t \in Unreachable <=>
         Deps[t] \cap (wf.failed \cup wf.skipped \cup Unreachable) # {}
<1> DEFINE waiting == Tasks \ Terminal
           bad == wf.failed \cup wf.skipped
           Closed(S) == \A t \in waiting : Deps[t] \cap (bad \cup S) # {} => t \in S
           U == {t \in waiting : \A S \in SUBSET waiting : Closed(S) => t \in S}
<1>1. Unreachable = U
  BY DEF Unreachable
<1>2. U \subseteq waiting
  OBVIOUS
<1>3. ASSUME NEW S \in SUBSET waiting, Closed(S) PROVE U \subseteq S
  BY <1>3
<1>4. ASSUME NEW t \in waiting, \A S \in SUBSET waiting : Closed(S) => t \in S
      PROVE  t \in U
  BY <1>4
<1> HIDE DEF U
<1>5. ASSUME NEW t \in waiting, Deps[t] \cap (bad \cup U) # {}
      PROVE  t \in U
  <2>1. ASSUME NEW S \in SUBSET waiting, Closed(S) PROVE t \in S
    <3>1. Deps[t] \cap (bad \cup S) # {}
      BY <1>3, <1>5, <2>1
    <3> QED
      BY <2>1, <3>1
  <2> QED
    BY <1>4, <2>1
<1>6. ASSUME NEW t \in U, Deps[t] \cap (bad \cup U) = {}
      PROVE  FALSE
  <2>1. Closed(U \ {t})
    <3>1. ASSUME NEW u \in waiting, Deps[u] \cap (bad \cup (U \ {t})) # {}
          PROVE  u \in U \ {t}
      BY <1>5, <1>6, <3>1
    <3> QED
      BY <3>1
  <2>2. U \ {t} \in SUBSET waiting
    BY <1>2
  <2> HIDE DEF Closed
  <2>3. U \subseteq U \ {t}
    BY <1>3, <2>1, <2>2
  <2> QED
    BY <1>6, <2>3
<1> QED
  BY <1>1, <1>2, <1>5, <1>6

(* An acyclic graph with nodes that wait and no ruined one among them has  *)
(* one that is ready: the scheduling is never stuck.                       *)
LEMMA NeverStuck ==
  ASSUME \A t \in Tasks \ Terminal : ~Ruined(t), Ready = {}
  PROVE  AllTerminal
<1> SUFFICES ASSUME Tasks \ Terminal # {} PROVE FALSE
  BY DEF AllTerminal
<1>1. PICK t \in Tasks \ Terminal : \A u \in Tasks \ Terminal : t =< u
  BY SomeTaskIsLeast
<1>2. ASSUME NEW d \in Deps[t] PROVE d \in wf.completed
  <2>1. d \in Tasks /\ d < t
    BY RunAssumption DEF RunAssumption
  <2>2. d \in Terminal
    BY <1>1, <2>1, ReducerAssumption DEF ReducerAssumption
  <2> QED
    BY <2>2 DEF Ruined, Terminal
<1> QED
  BY <1>2 DEF Ready

LEMMA PlannedWorkflow ==
  ASSUME IInv, Planned, Workflow
  PROVE  Planned'
<1>0. wf \in Memories /\ Control /\ todo \subseteq Tasks
  BY DEF IInv, TypeOK
<1>1. CASE PlanSkips
  <2>1. /\ wf' = [wf EXCEPT !.skipped = @ \cup Unreachable] /\ todo' = Unreachable
        /\ pc' \in {"dispatch", "skip"}
    BY <1>1 DEF PlanSkips, Goto
  <2>2. /\ wf'.completed = wf.completed /\ wf'.failed = wf.failed
        /\ wf'.skipped = wf.skipped \cup Unreachable
    BY <1>0, <2>1 DEF Memories
  <2>3. ASSUME NEW t \in Tasks \ Terminal' PROVE ~Ruined(t)'
    BY <2>2, UnreachableIsRuined DEF Terminal, Ruined
  <2>4. ASSUME NEW t \in todo' PROVE Ruined(t)'
    BY <2>1, <2>2, UnreachableIsRuined DEF Ruined
  <2> QED
    BY <2>1, <2>3, <2>4 DEF Planned
<1>2. CASE RecordTaskSkipped
  <2>1. pc = "skip" /\ UNCHANGED wf /\ todo' \subseteq todo /\ pc' \in {"dispatch", "skip"}
    BY <1>2 DEF RecordTaskSkipped, Goto
  <2> QED
    BY <2>1 DEF Planned, Terminal, Ruined
<1>3. CASE FinishRun
  <2>1. /\ pc = "dispatch" /\ Ready = {} /\ UNCHANGED wf
        /\ pc' = "record" /\ note' = FinalVerdict
    BY <1>3 DEF FinishRun, Goto
  <2>2. AllTerminal
    BY <2>1, NeverStuck DEF Planned
  <2>3. note' = "failed" => wf.failed # {}
    BY <2>1, <2>2 DEF FinalVerdict
  <2> QED
    BY <2>1, <2>2, <2>3 DEF Planned, AllTerminal, Terminal
<1>4. ASSUME pc' \notin {"skip", "dispatch"}, pc' = "record" => note' # "failed"
      PROVE  Planned'
  BY <1>4 DEF Planned
<1>5. CASE StartRun \/ WakeFromPause \/ HoldBack \/ AskApproval \/ CreateApproval
             \/ ApprovalTimeout \/ RecordApprovalOutcome \/ Dispatch \/ RunSerial
             \/ ContinueAsNew \/ InterpretError
  BY <1>4, <1>5 DEF StartRun, WakeFromPause, HoldBack, AskApproval, CreateApproval,
     ApprovalTimeout, RecordApprovalOutcome, Dispatch, RunSerial, ContinueAsNew,
     InterpretError, Goto
<1>6. CASE LoopTop
  BY <1>4, <1>6 DEF LoopTop, Goto
<1>7. CASE RecordRunTerminal
  BY <1>4, <1>7 DEF RecordRunTerminal, Goto
<1>8. CASE RunParallel \/ AwaitNext
  BY <1>4, <1>8 DEF RunParallel, AwaitNext, Goto
<1>9. CASE WakeFromApproval \/ CheckApproval
  BY <1>4, <1>9 DEF WakeFromApproval, CheckApproval, Verdict, Goto
<1>10. CASE RoundDone \/ RecheckIntent
  BY <1>4, <1>10 DEF RoundDone, RecheckIntent, Goto
<1>11. CASE InterpretResult
  <2>1. pc = "await" /\ (UNCHANGED pc \/ \E b : NextTask(b))
    BY <1>11, EndsHow DEF InterpretResult
  <2> QED
    BY <1>4, <2>1, NextTaskPlace
<1>12. CASE RecordTaskFailed
  BY <1>4, <1>12, NextTaskPlace DEF RecordTaskFailed
<1> QED
  BY <1>1, <1>2, <1>3, <1>5, <1>6, <1>7, <1>8, <1>9, <1>10, <1>11, <1>12 DEF Workflow

LEMMA NextPlanned ==
  ASSUME IInv, Planned, [Next]_vars
  PROVE  Planned'
<1>1. CASE Workflow
  BY <1>1, PlannedWorkflow
<1>2. CASE Outside
  BY <1>2, OutsideStaysInPlace DEF SamePlace, Planned, Terminal, AllTerminal, Ruined
<1>3. CASE WorkflowFails
  BY <1>3 DEF WorkflowFails, Goto, Planned
<1>4. CASE UNCHANGED vars
  BY <1>4 DEF vars, Planned, Terminal, AllTerminal, Ruined
<1> QED
  BY <1>1, <1>2, <1>3, <1>4, NextIsEither

(* One step of the run is one of the promised ones, or none.               *)
LEMMA StepKeepsLifecycle ==
  ASSUME KInv, Planned, ~Ambiguity, pg' \in Projections, [Next]_vars
  PROVE  [View!LNext]_(View!lvars)
<1>0. /\ DInv /\ IInv /\ CInv /\ LInv /\ Answered /\ FailuresFollow /\ Supported
      /\ pg \in Projections /\ pg.ok
  BY DEF KInv, DInv, LInv, IInv, TypeOK
<1>1. pg.task \in [Tasks -> TaskStatuses] /\ pg'.task \in [Tasks -> TaskStatuses]
  BY <1>0 DEF Projections
<1>2. CASE pg'.run = pg.run /\ pg'.task = pg.task
  BY <1>2 DEF View!lvars
<1>3. ASSUME NEW t \in Tasks, Worked(t) PROVE View!Work(t)
  <2>1. /\ pg.run = "running" /\ wf.tries[t] # 0
        /\ pg.task[t] \in {"pending", "started", "failed"}
    BY <1>3 DEF Worked
  <2>2. PICK s \in {"started", "completed", "failed"} : Moves(pg, pg', t, s)
    BY <1>3 DEF Worked
  <2>3. pg'.run = pg.run /\ pg'.task = [pg.task EXCEPT ![t] = s]
    BY <1>1, <2>2 DEF Moves
  <2>4. \A d \in Deps[t] : pg.task[d] = "completed"
    BY <1>0, <2>1 DEF Supported, CInv, FollowsLog
  <2> QED
    BY <2>1, <2>3, <2>4 DEF View!Work
<1>4. CASE StartRun
  <2>1. pg.run = "none"
    BY <1>0, <1>4 DEF StartRun, LInv, RunStands
  <2>2. pg'.run = "running" /\ pg'.task = [t \in Tasks |-> "pending"]
    BY <1>4, StartIsProjection DEF StartRun, RunStarted, RunCreated, EmptyProjection
  <2> QED
    BY <2>1, <2>2 DEF View!Begin, View!LNext
<1>5. ASSUME RecordTaskSkipped, NEW t, t = FirstOf(todo) PROVE View!Skip(t) /\ t \in Tasks
  <2>1. /\ pc = "skip" /\ t \in todo /\ t \in Tasks /\ todo \subseteq Tasks
        /\ \A u \in todo : t =< u
    BY <1>0, <1>5, FirstOfIsLeast DEF RecordTaskSkipped, IInv, TypeOK, Control
  <2>2. pg.run = "running"
    BY <1>0, <2>1 DEF LInv, RunStands, Working
  <2>3. t \in wf.skipped /\ wf.tries[t] = 0 /\ pg.task[t] # "skipped" /\ t \notin keys.skipped
    BY <1>0, <2>1, <2>2 DEF LInv, SkipFits, Fits, JudgedFits, TerminalRun
  <2>4. pg.task[t] = "pending"
    BY <1>0, <2>1, <2>3 DEF LInv, Fits, StatusFits, CInv, Known
  <2>5. pg' = [pg EXCEPT !.task[t] = "skipped"]
    BY <1>5, <2>3, <2>4 DEF RecordTaskSkipped, TaskSkipped, MoveTask, TaskMay
  <2>6. pg'.run = pg.run /\ pg'.task = [pg.task EXCEPT ![t] = "skipped"]
    BY <1>0, <2>5 DEF Projections
  <2>7. \E d \in Deps[t] : pg.task[d] \in {"failed", "skipped"}
    <3>1. PICK d \in Deps[t] : d \in wf.failed \/ d \in wf.skipped
      BY <2>1 DEF Planned, Ruined
    <3>2. d \in Tasks /\ d < t
      BY <2>1, RunAssumption DEF RunAssumption
    <3>3. d \notin todo
      BY <2>1, <3>2, ReducerAssumption DEF ReducerAssumption
    <3> QED
      BY <1>0, <2>1, <3>1, <3>2, <3>3 DEF FailuresFollow, LInv, SkipFits
  <2> QED
    BY <2>1, <2>2, <2>4, <2>6, <2>7 DEF View!Skip
<1>6. CASE RecordRunTerminal /\ pg' = RecordRun(pg, note) /\ note \notin keys.run
  <2>1. pc = "record" /\ note \in RunOutcomes /\ pg.run \in {"running", "paused"}
    BY <1>0, <1>6 DEF RecordRunTerminal, IInv, Control, LInv, RunStands
  <2>2. /\ pg'.run = IF note = "resumed" THEN "running" ELSE note
        /\ note = "paused" => pg.run = "running"
        /\ note = "resumed" => pg.run = "paused"
        /\ note # "cancelled" => pg'.task = pg.task
        /\ note = "cancelled" => pg'.task =
             [t \in Tasks |-> IF pg.task[t] \in {"pending", "scheduled"}
                                THEN "skipped" ELSE pg.task[t]]
    BY <1>0, <1>6, <2>1, RunEventAccepted
  <2>3. note \in {"completed", "failed"} => pg.run = "running"
    BY <1>0, <2>1 DEF LInv, RunStands
  <2>4. CASE note = "completed"
    <3>1. \A t \in Tasks : pg.task[t] = "completed"
      BY <1>0, <2>1, <2>4 DEF CInv, Verdicts, AllTerminal, Terminal, FollowsLog
    <3> QED
      BY <2>2, <2>3, <2>4, <3>1 DEF View!Complete, View!LNext
  <2>5. CASE note = "failed"
    <3>1. AllTerminal /\ wf.failed # {} /\ wf.failed \subseteq Tasks
      BY <1>0, <2>1, <2>5 DEF Planned, IInv, TypeOK, Memories
    <3>2. \A t \in Tasks : t \in wf.completed => pg.task[t] = "completed"
      BY <1>0 DEF CInv, FollowsLog
    <3>3. \A t \in Tasks : t \in wf.failed => pg.task[t] = "failed"
      BY <1>0 DEF FailuresFollow
    <3>4. \A t \in Tasks : t \in wf.skipped => pg.task[t] = "skipped"
      BY <1>0, <2>1 DEF LInv, SkipFits
    <3>5. \A t \in Tasks : pg.task[t] \in {"completed", "failed", "skipped"}
      BY <3>1, <3>2, <3>3, <3>4 DEF AllTerminal, Terminal
    <3>6. \E t \in Tasks : pg.task[t] = "failed"
      BY <3>1, <3>3
    <3> QED
      BY <2>2, <2>3, <2>5, <3>5, <3>6 DEF View!Fail, View!LNext
  <2>6. CASE note = "cancelled"
    <3>1. ASSUME NEW t \in Tasks PROVE pg.task[t] \notin {"started", "scheduled"}
      <4>1. wf.tries[t] = 0 \/ HasEnded(t, wf.tries[t])
        BY <1>0, <2>1, OpenIsInFlight DEF InFlight, AtTask
      <4>2. StatusFits(t)
        BY <1>0 DEF LInv, Fits
      <4> QED
        BY <4>1, <4>2 DEF StatusFits
    <3>2. pg'.task = [t \in Tasks |-> IF pg.task[t] = "pending"
                                        THEN "skipped" ELSE pg.task[t]]
      BY <2>2, <2>6, <3>1
    <3> QED
      BY <2>1, <2>2, <2>6, <3>1, <3>2 DEF View!Cancel, View!LNext
  <2>7. CASE note = "paused"
    BY <2>2, <2>7 DEF View!Pause, View!LNext
  <2>8. CASE note = "resumed"
    BY <2>2, <2>8 DEF View!Resume, View!LNext
  <2> QED
    BY <2>1, <2>4, <2>5, <2>6, <2>7, <2>8 DEF RunOutcomes
<1>7. CASE RecordRunTerminal
  BY <1>2, <1>6, <1>7 DEF RecordRunTerminal
<1>8. CASE LogMoves
  <2>1. ASSUME NEW t \in Tasks, View!Work(t) \/ View!Skip(t) PROVE View!LNext
    BY <2>1 DEF View!LNext
  <2> QED
    BY <1>2, <1>3, <1>4, <1>5, <1>7, <1>8, <2>1 DEF LogMoves, Worked
<1>9. CASE WorkflowFails \/ UNCHANGED vars
  <2>1. UNCHANGED pg
    BY <1>9 DEF WorkflowFails, logVars, vars
  <2> QED
    BY <1>2, <2>1
<1> QED
  BY <1>0, <1>8, <1>9, LogMovesWorkflow, LogMovesOutside, NextIsEither

(* The projection of the committed log keeps the promise of RunLifecycle:  *)
(* every run of the workflow, seen through its log, is a run of that       *)
(* specification.                                                          *)
THEOREM TheRunKeepsItsLifecycle ==
  Polite /\ ~Ambiguity /\ ~Timeouts => (Spec => KeepsLifecycle)
<1> SUFFICES ASSUME Polite, ~Ambiguity, ~Timeouts PROVE Spec => KeepsLifecycle
  OBVIOUS
<1>1. Init => KInv /\ Planned /\ View!LInit
  <2>1. Init => Planned
    BY DEF Init, Planned
  <2>2. Init => View!LInit
    BY DEF Init, EmptyProjection, View!LInit
  <2> QED
    BY <2>1, <2>2, InitKInv
<1>2. KInv /\ Planned /\ [Next]_vars => (KInv /\ Planned)'
  BY NextKInv, NextPlanned DEF KInv, DInv
<1>3. KInv /\ Planned /\ KInv' /\ [Next]_vars => [View!LNext]_(View!lvars)
  BY StepKeepsLifecycle DEF KInv, DInv, IInv, TypeOK
<1> QED
  BY <1>1, <1>2, <1>3, PTL DEF Spec, KeepsLifecycle, View!Lifecycle
-----------------------------------------------------------------------------
(* Approvals                                                               *)

Asked(t) == approval[t].row # "none"

(* What stands behind a decision the workflow knows of: the row of the     *)
(* request, or that it was open when it was too late to decide in time.    *)
Stands(t, decision) ==
  \/ decision \in {"approved", "rejected"} /\ approval[t].row = decision
  \/ /\ decision = "expired" /\ approval[t].expired
     /\ Asked(t) /\ (approval[t].row = "pending" \/ approval[t].late)

(* Rows only move forward: what stands stands for good, and only           *)
(* create_approval asks.                                                   *)
RowsStand ==
  \A t \in Tasks :
    /\ \A d \in Decisions : Stands(t, d) => Stands(t, d)'
    /\ approval[t].expired => approval'[t].expired
    /\ Asked(t) => Asked(t)'
    /\ Asked(t)' => Asked(t) \/ (CreateApproval /\ t = cur)

LEMMA RowsStandOutside == IInv /\ Outside => RowsStand
<1> SUFFICES ASSUME IInv, Outside PROVE RowsStand
  OBVIOUS
<1>0. approval \in [Tasks -> ApprovalRows]
  BY DEF IInv, TypeOK
<1>1. ASSUME NEW t \in Tasks, NEW row \in {"approved", "rejected"}, Decide(t, row)
      PROVE  RowsStand
  BY <1>0, <1>1 DEF Decide, RowsStand, Stands, Asked, ApprovalRows, Decisions
<1>7. ASSUME NEW t \in Tasks, NEW row \in {"approved", "rejected"},
             CommitDecision(t, row)
      PROVE  RowsStand
  BY <1>0, <1>7 DEF CommitDecision, RowsStand, Stands, Asked, ApprovalRows, Decisions
<1>2. ASSUME NEW t \in Tasks, Expire(t)
      PROVE  RowsStand
  BY <1>0, <1>2 DEF Expire, RowsStand, Stands, Asked, ApprovalRows, Decisions
<1>3. ASSUME NEW t \in Tasks, SignalDecision(t)
      PROVE  RowsStand
  BY <1>0, <1>3 DEF SignalDecision, RowsStand, Stands, Asked, ApprovalRows, Decisions
<1>4. ASSUME UNCHANGED approval
      PROVE  RowsStand
  BY <1>4 DEF RowsStand, Stands, Asked
<1>5. ASSUME NEW t \in Tasks, Activity(t) \/ RetryTask(t) \/ LoseTask(t)
      PROVE  UNCHANGED approval
  BY <1>5 DEF Activity, BeginTask, RunHandler, EndTask, RetryTask, LoseTask
<1>6. ASSUME NEW c \in Commands, Submit(c) \/ Signal(c) \/ TooLate(c)
      PROVE  UNCHANGED approval
  BY <1>6 DEF Submit, Signal, TooLate
<1> QED
  BY <1>1, <1>2, <1>3, <1>4, <1>5, <1>6, <1>7 DEF Outside, Decisive

LEMMA RowsStandWorkflow == IInv /\ Workflow => RowsStand
<1> SUFFICES ASSUME IInv, Workflow PROVE RowsStand
  OBVIOUS
<1>1. CASE CreateApproval
  <2>1. approval \in [Tasks -> ApprovalRows]
    BY DEF IInv, TypeOK
  <2> QED
    BY <1>1, <2>1 DEF CreateApproval, RowsStand, Stands, Asked, ApprovalRows, Decisions
<1>2. CASE UNCHANGED approval
  BY <1>2 DEF RowsStand, Stands, Asked
<1> QED
  BY <1>1, <1>2
  DEF Workflow, StartRun, LoopTop, RecordRunTerminal, WakeFromPause, PlanSkips,
      RecordTaskSkipped, FinishRun, HoldBack, AskApproval, WakeFromApproval,
      ApprovalTimeout, CheckApproval, RecordApprovalOutcome, Dispatch, RunSerial,
      RunParallel, AwaitNext, InterpretResult, InterpretError, RecordTaskFailed,
      RoundDone, RecheckIntent, ContinueAsNew

(* The workflow never forgets a decision nor a cancel, and learns of       *)
(* decisions from check_approval alone.                                    *)
LEMMA WorkflowRemembers ==
  ASSUME IInv, Workflow
  PROVE  /\ wf.cancel => wf'.cancel
         /\ CheckApproval \/ wf'.decisions = wf.decisions
<1> DEFINE Kept == (wf.cancel => wf'.cancel) /\ wf'.decisions = wf.decisions
<1>0. wf \in Memories /\ Control
  BY DEF IInv, TypeOK
<1>1. ASSUME NEW S, Start(S) PROVE Kept
  BY <1>0, <1>1 DEF Start, Memories
<1>2. CASE RunSerial \/ RunParallel
  BY <1>1, <1>2 DEF RunSerial, RunParallel
<1>3. CASE InterpretResult
  <2>1. CASE Start({cur})
    BY <1>1, <2>1
  <2>2. CASE wf' = [wf EXCEPT !.completed = @ \cup {cur}]
    BY <1>0, <2>2 DEF Memories
  <2>3. CASE wf' = [wf EXCEPT !.failed = @ \cup {cur}]
    BY <1>0, <2>3 DEF Memories
  <2>4. CASE wf' = [wf EXCEPT !.failed = @ \cup {cur},
                         !.cancel = @ \/ Policy[cur] = "cancel"]
    BY <1>0, <2>4 DEF Memories
  <2> QED
    BY <1>3, <2>1, <2>2, <2>3, <2>4, EndsHow
<1>4. CASE WakeFromApproval
  <2>1. wf' = wf \/ wf' = [wf EXCEPT !.tries[cur] = @ + 1]
    BY <1>4 DEF WakeFromApproval, Verdict
  <2> QED
    BY <1>0, <2>1 DEF Memories
<1>5. CASE CheckApproval
  <2> DEFINE known == [wf EXCEPT !.decisions[cur] = Found(cur)]
  <2>1. known.cancel = wf.cancel /\ DOMAIN known = DOMAIN wf
    BY <1>0 DEF Memories
  <2>2. wf' = known \/ wf' = [known EXCEPT !.tries[cur] = @ + 1]
    BY <1>5 DEF CheckApproval, Verdict
  <2> HIDE DEF known
  <2> QED
    BY <1>0, <1>5, <2>1, <2>2 DEF Memories
<1>6. CASE RecordApprovalOutcome
  <2>1. CASE wf' = [wf EXCEPT !.completed = @ \cup {cur}]
    BY <1>0, <2>1 DEF Memories
  <2>2. CASE wf' = [wf EXCEPT !.failed = @ \cup {cur},
                            !.cancel = @ \/ Policy[cur] = "cancel"]
    BY <1>0, <2>2 DEF Memories
  <2> QED
    BY <1>6, <2>1, <2>2 DEF RecordApprovalOutcome
<1>7. CASE RecordRunTerminal
  <2>1. \/ wf' = wf
        \/ wf' = [wf EXCEPT !.pauseDirty = FALSE]
        \/ wf' = [wf EXCEPT !.resumeDirty = FALSE]
    BY <1>7 DEF RecordRunTerminal
  <2> QED
    BY <1>0, <2>1 DEF Memories
<1>8. CASE RecheckIntent
  <2>1. \/ wf' = wf
        \/ wf' = [wf EXCEPT !.cancel = TRUE]
        \/ wf' = [wf EXCEPT !.paused = TRUE, !.pauseDirty = TRUE]
    BY <1>8 DEF RecheckIntent
  <2> QED
    BY <1>0, <2>1 DEF Memories
<1>9. CASE PlanSkips \/ RecordTaskFailed \/ RoundDone \/ ContinueAsNew
  <2>1. CASE PlanSkips
    BY <1>0, <2>1 DEF PlanSkips, Memories
  <2>2. CASE RecordTaskFailed
    BY <1>0, <2>2 DEF RecordTaskFailed, Memories
  <2>3. CASE RoundDone
    BY <1>0, <2>3 DEF RoundDone, Memories
  <2>4. CASE ContinueAsNew
    BY <1>0, <2>4 DEF ContinueAsNew, Carried
  <2> QED
    BY <1>9, <2>1, <2>2, <2>3, <2>4
<1>10. CASE UNCHANGED wf
  BY <1>10
<1> QED
  BY <1>2, <1>3, <1>4, <1>5, <1>6, <1>7, <1>8, <1>9, <1>10
  DEF Workflow, StartRun, LoopTop, WakeFromPause, RecordTaskSkipped, FinishRun,
      HoldBack, AskApproval, CreateApproval, ApprovalTimeout, Dispatch, AwaitNext,
      InterpretError

(* What is known of a request stands in its row, the verdict being         *)
(* recorded too.                                                           *)
Stood ==
  /\ \A t \in Tasks : wf.decisions[t] # "none" => Stands(t, wf.decisions[t])
  /\ pc = "record_outcome" => Stands(cur, note)
  /\ pc = "check_approval" => approval[cur].expired

LEMMA StoodOutside == IInv /\ Stood /\ Outside => Stood'
<1> SUFFICES ASSUME IInv, Stood, Outside PROVE Stood'
  OBVIOUS
<1>0. RowsStand /\ SamePlace /\ Control /\ wf \in Memories
  BY RowsStandOutside, OutsideStaysInPlace DEF IInv, TypeOK
<1>1. /\ pc' = "record_outcome" => Stands(cur, note)'
      /\ pc' = "check_approval" => approval'[cur'].expired
  <2>1. UNCHANGED <<pc, cur, note>>
    BY <1>0 DEF SamePlace
  <2>2. pc = "record_outcome" => Stands(cur, note)' 
    <3>1. pc = "record_outcome" => cur \in Tasks /\ note \in Decisions
      BY <1>0 DEF Control
    <3> QED
      BY <1>0, <2>1, <3>1 DEF RowsStand, Stood, Stands
  <2> QED
    BY <1>0, <2>1, <2>2 DEF RowsStand, Stood, Control
<1>2. ASSUME wf'.decisions = wf.decisions PROVE Stood'
  BY <1>0, <1>1, <1>2 DEF Stood, RowsStand, Memories
<1>3. ASSUME NEW c \in Commands, Signal(c) PROVE wf'.decisions = wf.decisions
  <2>1. Kind[c] \in {"cancel", "pause", "resume"}
    BY RunAssumption DEF RunAssumption
  <2> QED
    BY <1>0, <1>3, <2>1 DEF Signal, Signalled, Memories
<1>4. ASSUME NEW t \in Tasks, SignalDecision(t) PROVE Stood'
  <2>1. approval[t].row \in {"approved", "rejected"} /\ approval'[t].row = approval[t].row
    BY <1>4 DEF SignalDecision, IInv, Requests, TypeOK, ApprovalRows
  <2>2. wf'.decisions = [wf.decisions EXCEPT ![t] = approval[t].row]
    BY <1>0, <1>4 DEF SignalDecision, Memories
  <2>3. ASSUME NEW u \in Tasks
        PROVE  (wf.decisions[u] # "none" => Stands(u, wf.decisions[u]))'
    <3>1. CASE u = t
      BY <1>0, <2>1, <2>2, <3>1 DEF Stands, Asked, Memories
    <3>2. CASE u # t
      <4>1. wf'.decisions[u] = wf.decisions[u] /\ wf.decisions[u] \in Decisions \cup {"none"}
        BY <1>0, <2>2, <3>2 DEF Memories
      <4> QED
        BY <1>0, <4>1 DEF Stood, RowsStand, Stands
    <3> QED
      BY <3>1, <3>2
  <2> QED
    BY <1>1, <2>3 DEF Stood
<1>5. ASSUME UNCHANGED wfVars PROVE wf'.decisions = wf.decisions
  BY <1>5 DEF wfVars
<1> QED
  BY <1>2, <1>3, <1>4, <1>5
  DEF Outside, Activity, BeginTask, RunHandler, EndTask, RetryTask, LoseTask,
      Decisive, Decide, CommitDecision, Expire, Submit, TooLate

LEMMA StoodWorkflow == IInv /\ Stood /\ Workflow => Stood'
<1> SUFFICES ASSUME IInv, Stood, Workflow PROVE Stood'
  OBVIOUS
<1>0. /\ RowsStand /\ Control /\ Requests /\ wf \in Memories
      /\ approval \in [Tasks -> ApprovalRows]
  BY RowsStandWorkflow DEF IInv, TypeOK
<1>1. ASSUME wf'.decisions = wf.decisions
      PROVE  \A t \in Tasks : (wf.decisions[t] # "none" => Stands(t, wf.decisions[t]))'
  <2> TAKE t \in Tasks
  <2>1. wf'.decisions[t] = wf.decisions[t] /\ wf.decisions[t] \in Decisions \cup {"none"}
    BY <1>0, <1>1 DEF Memories
  <2> QED
    BY <1>0, <2>1 DEF Stood, RowsStand, Stands
<1>2. CASE CheckApproval
  <2>1. /\ cur \in Tasks /\ pc = "check_approval" /\ UNCHANGED <<approval, cur>>
        /\ approval[cur].row # "none" /\ approval[cur].expired
    BY <1>0, <1>2 DEF CheckApproval, Control, Requests, Stood
  <2>2. approval[cur] \in ApprovalRows
    BY <1>0, <2>1
  <2>3. Found(cur) \in Decisions /\ Stands(cur, Found(cur))
    BY <2>1, <2>2 DEF Found, Stands, Asked, ApprovalRows, Decisions
  <2>0. PICK found \in Decisions : found = Found(cur) /\ Stands(cur, found)
    BY <2>3
  <2> DEFINE known == [wf EXCEPT !.decisions[cur] = found]
  <2>4. \/ wf' = known /\ pc' = "loop"
        \/ wf' = [known EXCEPT !.tries[cur] = @ + 1] /\ note' = found /\ pc' = "record_outcome"
    BY <1>2, <2>0 DEF CheckApproval, Verdict, Goto
  <2>5. known \in Memories /\ known.decisions = [wf.decisions EXCEPT ![cur] = found]
    BY <1>0, <2>0, <2>1 DEF Memories
  <2> HIDE DEF known
  <2>6. wf'.decisions = [wf.decisions EXCEPT ![cur] = found]
    BY <2>4, <2>5 DEF Memories
  <2>7. ASSUME NEW t \in Tasks
        PROVE  (wf.decisions[t] # "none" => Stands(t, wf.decisions[t]))'
    <3>1. CASE t = cur
      <4>1. wf'.decisions[t] = found /\ Stands(t, found)'
        BY <1>0, <2>0, <2>1, <2>6, <3>1 DEF Stands, Asked, Memories
      <4> QED
        BY <4>1 DEF Stands, Asked
    <3>2. CASE t # cur
      <4>1. wf'.decisions[t] = wf.decisions[t] /\ wf.decisions[t] \in Decisions \cup {"none"}
        BY <1>0, <2>6, <3>2 DEF Memories
      <4> QED
        BY <1>0, <4>1 DEF Stood, RowsStand, Stands
    <3> QED
      BY <3>1, <3>2
  <2>8. pc' = "record_outcome" => Stands(cur, note)'
    BY <2>0, <2>1, <2>4 DEF Stands, Asked
  <2>9. pc' # "check_approval"
    BY <2>4
  <2> QED
    BY <2>7, <2>8, <2>9 DEF Stood
<1>3. CASE WakeFromApproval
  <2>1. /\ cur \in Tasks /\ UNCHANGED <<approval, cur>>
        /\ wf'.decisions = wf.decisions
        /\ \/ pc' = "loop"
           \/ /\ pc' = "record_outcome" /\ note' = wf.decisions[cur]
              /\ wf.decisions[cur] # "none"
    BY <1>0, <1>3, WorkflowRemembers
    DEF WakeFromApproval, CheckApproval, Verdict, Control, Goto
  <2>2. pc' = "record_outcome" => Stands(cur, note)'
    BY <2>1 DEF Stood, Stands, Asked
  <2> QED
    BY <1>1, <2>1, <2>2 DEF Stood
<1>4. CASE ApprovalTimeout
  <2>1. /\ pc' = "check_approval" /\ UNCHANGED <<approval, cur, wf>>
        /\ approval[cur].expired
    BY <1>4 DEF ApprovalTimeout, Goto
  <2> QED
    BY <1>1, <2>1 DEF Stood
<1>5. ASSUME pc' \notin {"record_outcome", "check_approval"}, ~CheckApproval PROVE Stood'
  BY <1>1, <1>5, WorkflowRemembers DEF Stood
<1>6. CASE InterpretResult \/ RecordTaskFailed
  <2>1. pc' \in {"await", "parallel", "serial"}
    BY <1>6, EndsHow, NextTaskPlace DEF InterpretResult, RecordTaskFailed
  <2>2. ~CheckApproval
    BY <1>6 DEF InterpretResult, RecordTaskFailed, CheckApproval
  <2> QED
    BY <1>5, <2>1, <2>2
<1>7. CASE \/ StartRun \/ LoopTop \/ RecordRunTerminal \/ WakeFromPause
           \/ PlanSkips \/ RecordTaskSkipped \/ FinishRun \/ HoldBack
           \/ AskApproval \/ CreateApproval \/ RecordApprovalOutcome
  <2>1. pc' \notin {"record_outcome", "check_approval"} /\ pc # "check_approval"
    BY <1>7 DEF StartRun, LoopTop, RecordRunTerminal, WakeFromPause, PlanSkips,
      RecordTaskSkipped, FinishRun, HoldBack, AskApproval, CreateApproval,
      RecordApprovalOutcome, Goto
  <2> QED
    BY <1>5, <2>1 DEF CheckApproval
<1>8. CASE \/ Dispatch \/ RunSerial \/ RunParallel \/ AwaitNext
           \/ InterpretError \/ RoundDone \/ RecheckIntent \/ ContinueAsNew
  <2>1. pc' \notin {"record_outcome", "check_approval"} /\ pc # "check_approval"
    BY <1>8 DEF Dispatch, RunSerial, RunParallel, AwaitNext, InterpretError, RoundDone,
      RecheckIntent, ContinueAsNew, Goto
  <2> QED
    BY <1>5, <2>1 DEF CheckApproval
<1> QED
  BY <1>2, <1>3, <1>4, <1>6, <1>7, <1>8 DEF Workflow

(* A task in flight has an execution, unless a verdict is being recorded.  *)
Executing == pc # "record_outcome" => \A t \in InFlight : act[t].phase # "none"

(* What flies after a step of the workflow flew before it or was started   *)
(* by it.                                                                  *)
LEMMA FlightsGoOn ==
  ASSUME IInv, Workflow, pc' # "record_outcome", NEW t \in InFlight'
  PROVE  act'[t].phase = "queued" \/ (act'[t] = act[t] /\ t \in InFlight /\ pc # "record_outcome")
<1>0. Control /\ t \in Tasks /\ todo \subseteq Tasks /\ batch \subseteq Tasks
  BY DEF IInv, TypeOK, InFlight
<1>1. ASSUME NEW S, Start(S), t \in S PROVE act'[t].phase = "queued"
  BY <1>0, <1>1 DEF Start
<1>2. ASSUME pc' \notin {"await", "record_failed", "parallel"} PROVE FALSE
  BY <1>2 DEF InFlight, AtTask
<1>3. CASE RunSerial
  <2>1. /\ pc = "serial" /\ todo # {} /\ pc' = "await" /\ Start({FirstOf(todo)})
        /\ cur' = FirstOf(todo) /\ todo' \subseteq todo
    BY <1>3 DEF RunSerial, Goto
  <2>2. cur' \in todo
    BY <1>0, <2>1, FirstOfIsMember
  <2>3. cur' \notin ParallelSafe
    BY <1>0, <2>1, <2>2 DEF Control
  <2>4. t = cur'
    BY <2>1, <2>3 DEF InFlight, AtTask
  <2> QED
    BY <1>1, <2>1, <2>4
<1>4. CASE RunParallel
  <2>1. \/ /\ Start(batch \cap ParallelSafe) /\ pc' = "parallel"
           /\ todo' = batch \cap ParallelSafe
        \/ pc' = "round_done"
    BY <1>4 DEF RunParallel, Goto
  <2>2. pc' = "parallel" => t \in todo'
    BY DEF InFlight, AtTask
  <2> QED
    BY <1>1, <1>2, <2>1, <2>2
<1>5. CASE AwaitNext
  <2>1. /\ pc = "parallel" /\ act' = act
        /\ \/ pc' = "round_done"
           \/ /\ todo # {} /\ pc' = "await"
              /\ cur' = FirstOf(todo) /\ todo' \subseteq todo
    BY <1>5 DEF AwaitNext, Goto
  <2>2. pc' = "await" => cur' \in todo
    BY <1>0, <2>1, FirstOfIsMember
  <2>3. t \in todo
    BY <1>2, <2>1, <2>2 DEF InFlight, AtTask
  <2> QED
    BY <1>0, <2>1, <2>3 DEF InFlight, AtTask
<1>6. ASSUME NEW b, NextTask(b), AtTask, UNCHANGED <<act, cur>>
      PROVE  act'[t] = act[t] /\ t \in InFlight /\ pc # "record_outcome"
  <2>1. /\ pc' \in {"parallel", "serial"} /\ todo' \subseteq todo
        /\ cur \notin ParallelSafe => pc' = "serial"
    BY <1>6, NextTaskPlace
  <2>2. t \in todo /\ cur \in ParallelSafe
    BY <1>6, <2>1 DEF InFlight, AtTask
  <2> QED
    BY <1>0, <1>6, <2>2 DEF InFlight, AtTask
<1>7. CASE InterpretResult
  <2>1. pc = "await" /\ cur' = cur
    BY <1>7 DEF InterpretResult
  <2>2. CASE Start({cur}) /\ UNCHANGED <<pc, todo>>
    <3>1. t \in InFlight
      BY <2>1, <2>2 DEF InFlight, AtTask
    <3>2. t # cur => act'[t] = act[t]
      BY <1>0, <2>2 DEF Start
    <3> QED
      BY <1>1, <2>1, <2>2, <3>1, <3>2
  <2>3. CASE UNCHANGED act /\ \E b : NextTask(b)
    BY <1>6, <2>1, <2>3 DEF AtTask
  <2> QED
    BY <1>7, <2>2, <2>3, EndsHow
<1>8. CASE InterpretError
  <2>1. pc = "await" /\ pc' = "record_failed" /\ UNCHANGED <<act, cur, todo>>
    BY <1>8 DEF InterpretError, Goto
  <2> QED
    BY <2>1 DEF InFlight, AtTask
<1>9. CASE RecordTaskFailed
  BY <1>6, <1>9 DEF RecordTaskFailed, AtTask
<1>10. CASE \/ StartRun \/ LoopTop \/ RecordRunTerminal \/ WakeFromPause \/ PlanSkips
            \/ RecordTaskSkipped \/ FinishRun \/ HoldBack \/ AskApproval \/ CreateApproval
  <2>1. pc' \notin {"await", "record_failed", "parallel"}
    BY <1>10 DEF StartRun, LoopTop, RecordRunTerminal, WakeFromPause, PlanSkips,
      RecordTaskSkipped, FinishRun, HoldBack, AskApproval, CreateApproval, Goto
  <2> QED
    BY <1>2, <2>1
<1>11. CASE \/ WakeFromApproval \/ ApprovalTimeout \/ CheckApproval
            \/ RecordApprovalOutcome \/ Dispatch \/ RoundDone \/ RecheckIntent
            \/ ContinueAsNew
  <2>1. pc' \notin {"await", "record_failed", "parallel"}
    BY <1>11 DEF WakeFromApproval, ApprovalTimeout, CheckApproval, Verdict,
      RecordApprovalOutcome, Dispatch, RoundDone, RecheckIntent, ContinueAsNew, Goto
  <2> QED
    BY <1>2, <2>1
<1> QED
  BY <1>3, <1>4, <1>5, <1>7, <1>8, <1>9, <1>10, <1>11 DEF Workflow

LEMMA ExecutingWorkflow == IInv /\ Executing /\ Workflow => Executing'
<1> SUFFICES ASSUME IInv, Executing, Workflow, pc' # "record_outcome", NEW t \in InFlight'
             PROVE  act'[t].phase # "none"
  BY DEF Executing
<1> QED
  BY FlightsGoOn DEF Executing

(* Executions are begun by the workflow alone, and leave a record.         *)
LEMMA ExecutionsStay ==
  ASSUME IInv, Outside, NEW u \in Tasks
  PROVE  act'[u].phase = "none" <=> act[u].phase = "none"
<1>0. act \in [Tasks -> Executions]
  BY DEF IInv, TypeOK
<1>1. ASSUME NEW t \in Tasks, BeginTask(t) \/ EndTask(t)
      PROVE  act'[u].phase = "none" <=> act[u].phase = "none"
  BY <1>0, <1>1 DEF BeginTask, EndTask, Step, Executions
<1>2. ASSUME NEW t \in Tasks, RunHandler(t)
      PROVE  act'[u].phase = "none" <=> act[u].phase = "none"
  BY <1>0, <1>2 DEF RunHandler, Step, Executions
<1>3. ASSUME NEW t \in Tasks, RetryTask(t) \/ LoseTask(t)
      PROVE  act'[u].phase = "none" <=> act[u].phase = "none"
  BY <1>0, <1>3 DEF RetryTask, LoseTask, Executions
<1>4. CASE UNCHANGED act
  BY <1>4
<1> QED
  BY <1>1, <1>2, <1>3, <1>4
  DEF Outside, Activity, Decisive, Decide,
      CommitDecision, Expire, SignalDecision, Submit, Signal, TooLate

LEMMA ExecutingOutside == IInv /\ Executing /\ Outside => Executing'
<1> SUFFICES ASSUME IInv, Executing, Outside PROVE Executing'
  OBVIOUS
<1>1. UNCHANGED <<pc, todo, cur>>
  BY OutsideStaysInPlace DEF SamePlace
<1>2. InFlight' = InFlight
  BY <1>1 DEF InFlight, AtTask
<1> QED
  BY <1>1, <1>2, ExecutionsStay DEF Executing, InFlight

-----------------------------------------------------------------------------
(* Once the workflow acts on a cancel it only records the end.             *)
Halting ==
  \/ pc = "loop" /\ wf.cancel
  \/ pc = "record" /\ note = "cancelled"
  \/ pc \in {"closed", "dead"}

(* A node whose approval was asked for is not executed: its request is     *)
(* being waited for, was judged, or was dropped for a cancel.              *)
Apart ==
  \A t \in Tasks : Asked(t) =>
    /\ act[t].phase = "none"
    /\ wf.tries[t] # 0 \/ (pc \in {"wait_approval", "check_approval"} /\ cur = t) \/ Halting

(* Nor does anybody else take a cancel back.                               *)
LEMMA CancelStands ==
  ASSUME IInv, Outside
  PROVE  wf.cancel => wf'.cancel
<1>1. wf \in Memories
  BY DEF IInv, TypeOK
<1>2. ASSUME NEW c \in Commands, Signal(c) PROVE wf.cancel => wf'.cancel
  <2>1. Kind[c] \in {"cancel", "pause", "resume"}
    BY RunAssumption DEF RunAssumption
  <2> QED
    BY <1>1, <1>2, <2>1 DEF Signal, Signalled, Memories
<1>3. ASSUME NEW u \in Tasks, SignalDecision(u) PROVE wf'.cancel = wf.cancel
  BY <1>1, <1>3 DEF SignalDecision, Memories
<1>4. ASSUME UNCHANGED wfVars PROVE wf'.cancel = wf.cancel
  BY <1>4 DEF wfVars
<1> QED
  BY <1>2, <1>3, <1>4
  DEF Outside, Activity, BeginTask, RunHandler, EndTask, RetryTask, LoseTask,
      Decisive, Decide, CommitDecision, Expire, Submit, TooLate

LEMMA ApartOutside == IInv /\ Apart /\ Outside => Apart'
<1> SUFFICES ASSUME IInv, Apart, Outside, NEW t \in Tasks, Asked(t)'
             PROVE  /\ act'[t].phase = "none"
                    /\ \/ wf'.tries[t] # 0
                       \/ pc' \in {"wait_approval", "check_approval"} /\ cur' = t
                       \/ Halting'
  BY DEF Apart
<1>1. SamePlace /\ RowsStand
  BY OutsideStaysInPlace, RowsStandOutside
<1>2. Asked(t)
  <2>1. pc' = pc /\ wf'.tries = wf.tries
    BY <1>1 DEF SamePlace
  <2>2. ~CreateApproval
    <3>1. CreateApproval => pc = "create_approval" /\ pc' = "wait_approval"
      BY DEF CreateApproval, Goto
    <3> QED
      BY <2>1, <3>1
  <2> QED
    BY <1>1, <2>2 DEF RowsStand
<1>3. wf.cancel => wf'.cancel
  BY CancelStands
<1> QED
  BY <1>1, <1>2, <1>3, ExecutionsStay DEF Apart, SamePlace, Halting

(* A task that was asked for is not started.                               *)
LEMMA AskedIsNotStarted ==
  ASSUME IInv, Apart, Executing, Workflow, NEW t \in Tasks, Asked(t)
  PROVE  act'[t] = act[t]
<1>0. Control /\ act[t].phase = "none"
  BY DEF IInv, Apart
<1>1. ASSUME NEW S, Start(S), t \notin S PROVE act'[t] = act[t]
  BY <1>1 DEF Start
<1>2. ASSUME pc = "serial" PROVE t \notin ToStart
  BY <1>2, NothingUsedYet DEF Apart, Halting
<1>3. CASE RunSerial
  <2>1. pc = "serial" /\ todo # {} /\ Start({FirstOf(todo)})
    BY <1>3 DEF RunSerial
  <2>2. FirstOf(todo) \in ToStart
    BY <2>1, StartsAreFresh
  <2> QED
    BY <1>1, <1>2, <2>1, <2>2
<1>4. CASE RunParallel
  <2>1. pc = "serial" /\ (Start(batch \cap ParallelSafe) \/ UNCHANGED act)
    BY <1>4 DEF RunParallel
  <2>2. batch \cap ParallelSafe \subseteq ToStart
    BY <2>1, StartsAreFresh
  <2> QED
    BY <1>1, <1>2, <2>1, <2>2
<1>5. CASE InterpretResult
  <2>1. pc = "await" /\ cur \in Tasks
    BY <1>0, <1>5 DEF InterpretResult, Control
  <2>2. cur \in InFlight
    BY <2>1 DEF InFlight, AtTask
  <2>3. t # cur
    BY <1>0, <2>1, <2>2 DEF Executing
  <2> QED
    BY <1>1, <1>5, <2>3, EndsHow
<1>6. CASE UNCHANGED act
  BY <1>6
<1> QED
  BY <1>3, <1>4, <1>5, <1>6
  DEF Workflow, StartRun, LoopTop, RecordRunTerminal, WakeFromPause, PlanSkips,
      RecordTaskSkipped, FinishRun, HoldBack, AskApproval, CreateApproval,
      WakeFromApproval, ApprovalTimeout, CheckApproval, RecordApprovalOutcome,
      Dispatch, AwaitNext, InterpretError, RecordTaskFailed, RoundDone,
      RecheckIntent, ContinueAsNew

LEMMA ApartWorkflow == IInv /\ Apart /\ Executing /\ Workflow => Apart'
<1> SUFFICES ASSUME IInv, Apart, Executing, Workflow, NEW t \in Tasks, Asked(t)'
             PROVE  /\ act'[t].phase = "none"
                    /\ \/ wf'.tries[t] # 0
                       \/ pc' \in {"wait_approval", "check_approval"} /\ cur' = t
                       \/ Halting'
  BY DEF Apart
<1>0. Control /\ RowsStand /\ wf \in Memories
  BY RowsStandWorkflow DEF IInv, TypeOK
<1>1. CASE CreateApproval /\ t = cur
  <2>1. pc = "create_approval" /\ pc' = "wait_approval" /\ UNCHANGED <<cur, act>>
    BY <1>1 DEF CreateApproval, Goto
  <2>2. t \in ToStart
    BY <1>1, <2>1 DEF ToStart
  <2> QED
    BY <1>1, <2>1, <2>2, NothingUsedYet
<1>2. CASE Asked(t)
  <2>1. act'[t].phase = "none"
    BY <1>2, AskedIsNotStarted DEF Apart
  <2>2. CASE wf.tries[t] # 0
    BY <2>1, <2>2, TriesGrow
  <2>3. CASE pc \in {"wait_approval", "check_approval"} /\ cur = t
    <3>1. ASSUME NEW w \in Memories, NEW d, Verdict(w, d), w.tries = wf.tries
          PROVE  wf'.tries[t] # 0
      <4>1. wf'.tries[t] = wf.tries[t] + 1
        BY <1>0, <2>3, <3>1 DEF Verdict, Memories
      <4> QED
        BY <4>1, TriesType
    <3>2. CASE WakeFromApproval
      <4>1. \/ wf.cancel /\ pc' = "loop" /\ UNCHANGED wf
            \/ Verdict(wf, wf.decisions[cur])
        BY <3>2 DEF WakeFromApproval, Goto
      <4> QED
        BY <1>0, <2>1, <3>1, <4>1 DEF Halting
    <3>3. CASE ApprovalTimeout
      BY <2>1, <2>3, <3>3 DEF ApprovalTimeout, Goto
    <3>4. CASE CheckApproval
      <4> DEFINE known == [wf EXCEPT !.decisions[cur] = Found(cur)]
      <4>1. Found(cur) \in Decisions
        <5>1. approval[cur].row # "none" /\ approval[cur] \in ApprovalRows
          BY <2>3, <3>4 DEF IInv, Requests, TypeOK
        <5> QED
          BY <5>1 DEF Found, ApprovalRows, Decisions
      <4>2. known \in Memories /\ known.tries = wf.tries /\ known.cancel = wf.cancel
        BY <1>0, <2>3, <4>1 DEF Memories
      <4>3. \/ wf.cancel /\ pc' = "loop" /\ wf' = known
            \/ Verdict(known, Found(cur))
        BY <3>4 DEF CheckApproval, Goto
      <4> HIDE DEF known
      <4> QED
        BY <2>1, <3>1, <4>2, <4>3 DEF Halting
    <3>5. \/ WakeFromApproval \/ ApprovalTimeout \/ CheckApproval
      BY <2>3 DEF Workflow, StartRun, LoopTop, RecordRunTerminal, WakeFromPause, PlanSkips,
        RecordTaskSkipped, FinishRun, HoldBack, AskApproval, CreateApproval,
        RecordApprovalOutcome, Dispatch, RunSerial, RunParallel, AwaitNext,
        InterpretResult, InterpretError, RecordTaskFailed, RoundDone, RecheckIntent,
        ContinueAsNew
    <3> QED
      BY <3>2, <3>3, <3>4, <3>5
  <2>4. CASE Halting
    <3>1. \/ LoopTop /\ pc = "loop" /\ wf.cancel
          \/ RecordRunTerminal /\ pc = "record" /\ note = "cancelled"
      BY <2>4 DEF Halting, Workflow, StartRun, LoopTop, RecordRunTerminal, WakeFromPause,
        PlanSkips, RecordTaskSkipped, FinishRun, HoldBack, AskApproval, CreateApproval,
        WakeFromApproval, ApprovalTimeout, CheckApproval,
        RecordApprovalOutcome, Dispatch, RunSerial, RunParallel, AwaitNext,
        InterpretResult, InterpretError, RecordTaskFailed, RoundDone, RecheckIntent,
        ContinueAsNew
    <3>2. Halting'
      BY <3>1 DEF LoopTop, RecordRunTerminal, Goto, Halting
    <3> QED
      BY <2>1, <3>2
  <2> QED
    BY <1>2, <2>1, <2>2, <2>3, <2>4 DEF Apart
<1> QED
  BY <1>0, <1>1, <1>2 DEF RowsStand

-----------------------------------------------------------------------------
(* What the transactions of one attempt can make of its task.              *)
LEMMA AttemptStatus ==
  ASSUME NEW p \in Projections, NEW t \in Tasks, NEW n \in 1..MaxAttempts,
         NEW id \in {"drawn", "derived"}, NEW out \in SUBSET Fields
  PROVE  /\ Opened(p, t, n, id).task[t] \in {p.task[t], "scheduled", "started"}
         /\ Succeeded(p, t, n, id, out).task[t] \in {p.task[t], "completed"}
         /\ FailedNow(p, t, n, id).task[t] \in {p.task[t], "failed"}
<1> DEFINE a == <<t, n, id>>
<1>0. a \in AttemptIds /\ {"committed", "aborted"} \subseteq AttemptStatuses
  BY DEF AttemptIds, AttemptStatuses
<1>1. ASSUME NEW q \in Projections, NEW to \in TaskStatuses
      PROVE  MoveTask(q, t, to).task[t] \in {q.task[t], to}
  BY DEF MoveTask, Refuse, Projections
<1>2. ASSUME NEW q \in Projections
      PROVE  /\ TaskScheduled(q, t).task[t] \in {q.task[t], "scheduled"}
             /\ AttemptCreated(q, t, a).task[t] = q.task[t]
             /\ TaskStarted(q, t, a).task[t] \in {q.task[t], "started"}
  <2>1. TaskScheduled(q, t).task[t] \in {q.task[t], "scheduled"}
    BY <1>1 DEF TaskScheduled, Refuse, Projections, TaskStatuses
  <2>2. AttemptCreated(q, t, a).task[t] = q.task[t]
    BY DEF AttemptCreated, Refuse, Projections
  <2>3. TaskStarted(q, t, a).task[t] \in {q.task[t], "started"}
    BY DEF TaskStarted, Refuse, Projections
  <2> QED
    BY <2>1, <2>2, <2>3
<1>3. Opened(p, t, n, id).task[t] \in {p.task[t], "scheduled", "started"}
  <2> DEFINE s == TaskScheduled(p, t)
  <2>1. s \in Projections /\ s.task[t] \in {p.task[t], "scheduled"}
    BY <1>2, TaskScheduledIsLater
  <2>2. PICK first \in {p, s} :
          Opened(p, t, n, id) \in {p, TaskStarted(AttemptCreated(first, t, a), t, a)}
    BY DEF Opened
  <2> HIDE DEF s, a
  <2>3. first \in Projections /\ AttemptCreated(first, t, a) \in Projections
    BY <1>0, <2>1, <2>2, AttemptCreatedIsLater
  <2> QED
    BY <1>2, <2>1, <2>2, <2>3
<1>4. /\ TaskCompleted(p, t, out) \in Projections
      /\ TaskCompleted(p, t, out).task[t] \in {p.task[t], "completed"}
  <2>1. TaskCompleted(p, t, out).task[t] \in {p.task[t], "completed"}
    BY DEF TaskCompleted, Refuse, Projections
  <2> QED
    BY <2>1, TaskCompletedIsLater
<1>5. TaskFailed(p, t) \in Projections /\ TaskFailed(p, t).task[t] \in {p.task[t], "failed"}
  BY <1>1, TaskEndsAreLater DEF TaskFailed, TaskStatuses
<1>6. Succeeded(p, t, n, id, out).task[t] \in {p.task[t], "completed"}
  <2> DEFINE done == TaskCompleted(p, t, out)
  <2>1. Succeeded(p, t, n, id, out) \in {p, AttemptClosed(done, t, a, "committed")}
    BY DEF Succeeded
  <2>2. done \in Projections /\ done.task[t] \in {p.task[t], "completed"}
    BY <1>4
  <2> HIDE DEF done, a
  <2>3. AttemptClosed(done, t, a, "committed").task = done.task
    BY <1>0, <2>2, AttemptClosedIsLater
  <2> QED
    BY <2>1, <2>2, <2>3
<1>7. FailedNow(p, t, n, id).task[t] \in {p.task[t], "failed"}
  <2> DEFINE lost == TaskFailed(p, t)
  <2>1. FailedNow(p, t, n, id) \in {p, AttemptClosed(lost, t, a, "aborted")}
    BY DEF FailedNow
  <2>2. lost \in Projections /\ lost.task[t] \in {p.task[t], "failed"}
    BY <1>5
  <2> HIDE DEF lost, a
  <2>3. AttemptClosed(lost, t, a, "aborted").task = lost.task
    BY <1>0, <2>2, AttemptClosedIsLater
  <2> QED
    BY <2>1, <2>2, <2>3
<1> QED
  BY <1>3, <1>6, <1>7

(* Who may have ended a task in the log, in a step of the workflow.        *)
LEMMA EndsInWorkflow ==
  ASSUME IInv, Workflow, NEW u \in Tasks, pg'.task[u] \in {"completed", "failed"}
  PROVE  \/ pg'.task[u] = pg.task[u]
         \/ RecordTaskFailed /\ u = cur /\ pg'.task[u] = "failed"
         \/ /\ RecordApprovalOutcome /\ u = cur
            /\ pg'.task[u] = "completed" <=> note = "approved"
<1>0. /\ Control /\ pg \in Projections /\ ApprovalField \in SUBSET Fields
      /\ pg'.task[u] \in Tried
  BY RunAssumption DEF IInv, TypeOK, RunAssumption, Tried
<1>1. CASE StartRun
  BY <1>1, StartIsProjection DEF StartRun
<1>2. CASE RecordRunTerminal
  <2>1. note \in RunOutcomes /\ pg' \in {pg, RecordRun(pg, note)}
    BY <1>0, <1>2 DEF RecordRunTerminal, Control
  <2> QED
    BY <1>0, <2>1, NothingOpened
<1>3. CASE RecordTaskSkipped
  <2>1. FirstOf(todo) \in Tasks
    BY <1>3, FirstOfIsMember DEF RecordTaskSkipped, Control, IInv, TypeOK
  <2>2. pg' \in {pg, TaskSkipped(pg, FirstOf(todo))}
    BY <1>3 DEF RecordTaskSkipped
  <2> QED
    BY <1>0, <2>1, <2>2, NothingOpened
<1>4. CASE RecordApprovalOutcome \/ RecordTaskFailed
  <2> DEFINE n == wf.tries[cur]
             opened == Opened(pg, cur, n, "derived")
  <2>1. cur \in Tasks /\ cur \in InFlight
    BY <1>0, <1>4 DEF RecordApprovalOutcome, RecordTaskFailed, InFlight, AtTask, Control
  <2>2. n \in 1..MaxAttempts
    BY <2>1, TriesType DEF IInv, Rounds
  <2>3. \/ pg' = pg
        \/ /\ pg' = Succeeded(opened, cur, n, "derived", ApprovalField)
           /\ RecordApprovalOutcome /\ note = "approved"
        \/ /\ pg' = FailedNow(opened, cur, n, "derived")
           /\ RecordTaskFailed \/ (RecordApprovalOutcome /\ note # "approved")
    BY <1>4 DEF RecordApprovalOutcome, RecordTaskFailed
  <2> HIDE DEF n, opened
  <2>4. /\ opened \in Projections /\ OnlyOf(pg, opened, cur)
        /\ opened.task[cur] \in {pg.task[cur], "scheduled", "started"}
    BY <1>0, <2>1, <2>2, OpenedIsLater, OpenedIsOfIt, AttemptStatus DEF opened
  <2>5. /\ OnlyOf(opened, Succeeded(opened, cur, n, "derived", ApprovalField), cur)
        /\ OnlyOf(opened, FailedNow(opened, cur, n, "derived"), cur)
        /\ Succeeded(opened, cur, n, "derived", ApprovalField).task[cur]
             \in {opened.task[cur], "completed"}
        /\ FailedNow(opened, cur, n, "derived").task[cur] \in {opened.task[cur], "failed"}
    BY <1>0, <2>1, <2>2, <2>4, ClosedIsOfIt, AttemptStatus
  <2>6. u # cur => pg'.task[u] = pg.task[u]
    BY <2>3, <2>4, <2>5 DEF OnlyOf
  <2>7. CASE pg' = Succeeded(opened, cur, n, "derived", ApprovalField)
             /\ RecordApprovalOutcome /\ note = "approved"
    BY <2>4, <2>5, <2>6, <2>7
  <2>8. CASE /\ pg' = FailedNow(opened, cur, n, "derived")
             /\ RecordTaskFailed \/ (RecordApprovalOutcome /\ note # "approved")
    BY <2>4, <2>5, <2>6, <2>8
  <2> QED
    BY <2>3, <2>7, <2>8
<1>5. CASE UNCHANGED pg
  BY <1>5
<1> QED
  BY <1>1, <1>2, <1>3, <1>4, <1>5
  DEF Workflow, LoopTop, WakeFromPause, PlanSkips, FinishRun, HoldBack, AskApproval,
      CreateApproval, WakeFromApproval, ApprovalTimeout, CheckApproval, Dispatch,
      RunSerial, RunParallel, AwaitNext, InterpretResult, InterpretError, RoundDone,
      RecheckIntent, ContinueAsNew, logVars

(* An activity moves the task it executes, and no other.                   *)
LEMMA EndsOutside ==
  ASSUME IInv, Outside, NEW u \in Tasks
  PROVE  pg'.task[u] = pg.task[u] \/ act[u].phase # "none"
<1>0. pg \in Projections
  BY DEF IInv, TypeOK
<1>1. ASSUME NEW t \in Tasks, act[t].phase # "none", OnlyOf(pg, pg', t)
      PROVE  pg'.task[u] = pg.task[u] \/ act[u].phase # "none"
  BY <1>1 DEF OnlyOf
<1>2. ASSUME NEW t \in Tasks, BeginTask(t)
      PROVE  act[t].phase # "none" /\ OnlyOf(pg, pg', t)
  <2>1. act[t].phase # "none" /\ pg' = Opened(pg, t, act[t].n, "drawn")
    BY <1>2 DEF BeginTask
  <2> QED
    BY <1>0, <2>1, NumberOfExecution, OpenedIsOfIt
<1>3. ASSUME NEW t \in Tasks, act[t].phase # "none", Commit(t)
      PROVE  OnlyOf(pg, pg', t)
  <2>1. pg' \in {Succeeded(pg, t, act[t].n, "drawn", Output(t)),
                FailedNow(pg, t, act[t].n, "drawn")}
    BY <1>3 DEF Commit
  <2> QED
    BY <1>0, <1>3, <2>1, NumberOfExecution, OutputType, ClosedIsOfIt
<1>4. ASSUME NEW t \in Tasks, EndTask(t) \/ RetryTask(t)
      PROVE  UNCHANGED pg \/ (act[t].phase # "none" /\ Commit(t))
  BY <1>4 DEF EndTask, RetryTask, logVars
<1>5. CASE UNCHANGED pg
  BY <1>5
<1>6. ASSUME NEW t \in Tasks,
             \/ RunHandler(t) \/ LoseTask(t)
             \/ Decisive(t) \/ Expire(t) \/ SignalDecision(t)
      PROVE  UNCHANGED pg
  BY <1>6 DEF RunHandler, LoseTask, Decisive, Decide,
      CommitDecision, Expire, SignalDecision, logVars
<1>7. ASSUME NEW c \in Commands, Submit(c) \/ Signal(c) \/ TooLate(c)
      PROVE  UNCHANGED pg
  BY <1>7 DEF Submit, Signal, TooLate, logVars
<1> QED
  BY <1>1, <1>2, <1>3, <1>4, <1>5, <1>6, <1>7 DEF Outside, Activity

(* What the log says of a node whose approval was asked for is what the    *)
(* request came to.                                                        *)
Recorded ==
  \A t \in Tasks : Asked(t) =>
    /\ pg.task[t] = "completed" => Stands(t, "approved")
    /\ pg.task[t] = "failed" => Stands(t, "rejected") \/ Stands(t, "expired")

HInv == IInv /\ Counted /\ Stood /\ Executing /\ Apart /\ Recorded

LEMMA RecordedWorkflow == HInv /\ Workflow => Recorded'
<1> SUFFICES ASSUME HInv, Workflow, NEW t \in Tasks, Asked(t)'
             PROVE  /\ pg'.task[t] = "completed" => Stands(t, "approved")'
                    /\ pg'.task[t] = "failed" => Stands(t, "rejected")' \/ Stands(t, "expired")'
  BY DEF Recorded
<1>0. /\ IInv /\ Counted /\ Stood /\ Executing /\ Apart /\ Recorded /\ RowsStand /\ Control
  BY RowsStandWorkflow DEF HInv, IInv
<1>1. CASE CreateApproval /\ t = cur
  <2>1. pc = "create_approval" /\ UNCHANGED pg
    BY <1>1 DEF CreateApproval, logVars
  <2>2. t \in ToStart
    BY <1>1, <2>1 DEF ToStart
  <2>3. wf.tries[t] = 0
    BY <1>0, <2>1, <2>2, NothingUsedYet
  <2> QED
    BY <1>0, <2>1, <2>3 DEF Counted, Tried
<1>2. CASE Asked(t)
  <2>1. \A d \in Decisions : Stands(t, d) => Stands(t, d)'
    BY <1>0 DEF RowsStand
  <2>2. {"approved", "rejected", "expired"} \subseteq Decisions
    BY DEF Decisions
  <2>3. CASE pg'.task[t] = pg.task[t]
    BY <1>0, <1>2, <2>1, <2>2, <2>3 DEF Recorded
  <2>4. CASE RecordTaskFailed /\ t = cur
    <3>1. pc = "record_failed" /\ t \in InFlight
      BY <2>4 DEF RecordTaskFailed, InFlight, AtTask
    <3> QED
      BY <1>0, <1>2, <3>1 DEF Executing, Apart
  <2>5. CASE /\ RecordApprovalOutcome /\ t = cur
             /\ pg'.task[t] = "completed" <=> note = "approved"
    <3>1. note \in Decisions /\ Stands(t, note)
      BY <1>0, <2>5 DEF RecordApprovalOutcome, Stood, Control
    <3> QED
      BY <2>1, <2>2, <2>5, <3>1 DEF Decisions
  <2>6. CASE pg'.task[t] \in {"completed", "failed"}
    BY <1>0, <2>3, <2>4, <2>5, <2>6, EndsInWorkflow
  <2> QED
    BY <2>6
<1> QED
  BY <1>0, <1>1, <1>2 DEF RowsStand

LEMMA RecordedOutside == HInv /\ Outside => Recorded'
<1> SUFFICES ASSUME HInv, Outside, NEW t \in Tasks, Asked(t)'
             PROVE  /\ pg'.task[t] = "completed" => Stands(t, "approved")'
                    /\ pg'.task[t] = "failed" => Stands(t, "rejected")' \/ Stands(t, "expired")'
  BY DEF Recorded
<1>0. IInv /\ Apart /\ Recorded /\ RowsStand
  BY RowsStandOutside DEF HInv
<1>1. Asked(t)
  <2>1. pc' = pc
    BY <1>0, OutsideStaysInPlace DEF SamePlace
  <2>2. CreateApproval => pc = "create_approval" /\ pc' = "wait_approval"
    BY DEF CreateApproval, Goto
  <2> QED
    BY <1>0, <2>1, <2>2 DEF RowsStand
<1>2. pg'.task[t] = pg.task[t]
  BY <1>0, <1>1, EndsOutside DEF Apart
<1>3. \A d \in Decisions : Stands(t, d) => Stands(t, d)'
  BY <1>0 DEF RowsStand
<1>4. {"approved", "rejected", "expired"} \subseteq Decisions
  BY DEF Decisions
<1> QED
  BY <1>0, <1>1, <1>2, <1>3, <1>4 DEF Recorded

LEMMA InitHInv == Init => HInv
<1> SUFFICES ASSUME Init PROVE Counted /\ Stood /\ Executing /\ Apart /\ Recorded
  BY InitIInv DEF HInv
<1>1. Counted
  BY InitDInv DEF DInv
<1>2. /\ pc = "start_run" /\ wf.decisions = [t \in Tasks |-> "none"]
      /\ \A t \in Tasks : approval[t].row = "none"
  BY DEF Init
<1>3. InFlight = {}
  BY <1>2 DEF InFlight, AtTask
<1> QED
  BY <1>1, <1>2, <1>3 DEF Stood, Executing, Apart, Recorded, Asked

LEMMA NextHInv == HInv /\ [Next]_vars => HInv'
<1> SUFFICES ASSUME HInv, [Next]_vars PROVE HInv'
  OBVIOUS
<1>0. IInv /\ Counted /\ Stood /\ Executing /\ Apart /\ Recorded
  BY DEF HInv
<1>1. IInv'
  BY <1>0, NextIInv
<1>2. CASE Workflow
  BY <1>0, <1>1, <1>2, CountedWorkflow, StoodWorkflow, ExecutingWorkflow, ApartWorkflow,
     RecordedWorkflow DEF HInv
<1>3. CASE Outside
  BY <1>0, <1>1, <1>3, CountedOutside, StoodOutside, ExecutingOutside, ApartOutside,
     RecordedOutside DEF HInv
<1>4. CASE WorkflowFails
  <2>1. /\ pc' = "dead" /\ UNCHANGED <<pg, wf, approval, act>>
    BY <1>4 DEF WorkflowFails, Goto, logVars
  <2>2. InFlight' = {}
    BY <2>1 DEF InFlight, AtTask
  <2>3. Counted'
    BY <1>0, <2>1, CountedQuiet
  <2>4. Stood'
    BY <1>0, <2>1 DEF Stood, Stands, Asked
  <2>5. Executing'
    BY <2>2 DEF Executing
  <2>6. Apart'
    BY <1>0, <2>1 DEF Apart, Asked, Halting
  <2>7. Recorded'
    BY <1>0, <2>1 DEF Recorded, Asked, Stands
  <2> QED
    BY <1>1, <2>3, <2>4, <2>5, <2>6, <2>7 DEF HInv
<1>5. CASE UNCHANGED vars
  <2>1. UNCHANGED <<pg, wf, approval, act, pc, cur, note, todo, batch>>
    BY <1>5 DEF vars
  <2>2. InFlight' = InFlight
    BY <2>1 DEF InFlight, AtTask
  <2>3. Counted' /\ Stood'
    BY <1>0, <2>1 DEF Counted, Stood, Stands, Asked
  <2>4. Executing' /\ Apart' /\ Recorded'
    BY <1>0, <2>1, <2>2 DEF Executing, Apart, Recorded, Asked, Halting, Stands
  <2> QED
    BY <1>1, <2>3, <2>4 DEF HInv
<1> QED
  BY <1>2, <1>3, <1>4, <1>5, NextIsEither

(* An approval that was granted in time is never recorded as expired or    *)
(* rejected, however late its signal comes, whatever is cancelled, retried *)
(* or reported failed, and whichever nodes ask for approvals.              *)
THEOREM DecisionsHonoured == Spec => []DecisionsAreHonoured
<1>1. Init => HInv
  BY InitHInv
<1>2. HInv /\ [Next]_vars => HInv'
  BY NextHInv
<1>3. HInv => DecisionsAreHonoured
  <2> SUFFICES ASSUME Recorded, NEW t \in Approval, pg.task[t] = "failed"
               PROVE  approval[t].row # "approved" \/ approval[t].late
    BY DEF HInv, DecisionsAreHonoured
  <2>1. t \in Tasks
    BY RunAssumption DEF RunAssumption
  <2>2. CASE Asked(t)
    BY <2>1, <2>2 DEF Recorded, Stands, Asked
  <2>3. CASE ~Asked(t)
    BY <2>3 DEF Asked
  <2> QED
    BY <2>2, <2>3
<1> QED
  BY <1>1, <1>2, <1>3, PTL DEF Spec

(* The serial tasks a round would still execute.                           *)
Due == IF pc \in {"serial", "await", "record_failed"} THEN ToStart ELSE {}

(* Unless a cancel came, an approval is no task like others: it is neither *)
(* executed nor due, and completes only if it was asked for.               *)
Spared ==
  wf.cancel \/ \A t \in Approval :
    /\ act[t].phase = "none"
    /\ pg.task[t] = "completed" => Asked(t)
    /\ t \notin Due

LEMMA SparedOutside == IInv /\ Spared /\ Outside => Spared'
<1> SUFFICES ASSUME IInv, Spared, Outside, ~wf'.cancel, NEW t \in Approval
             PROVE  /\ act'[t].phase = "none"
                    /\ pg'.task[t] = "completed" => Asked(t)'
                    /\ t \notin Due'
  BY DEF Spared
<1>0. t \in Tasks /\ SamePlace /\ RowsStand
  BY RunAssumption, OutsideStaysInPlace, RowsStandOutside DEF RunAssumption
<1>1. ~wf.cancel
  BY CancelStands
<1>2. Due' = Due
  BY <1>0 DEF SamePlace, Due, ToStart, AtTask
<1> QED
  BY <1>0, <1>1, <1>2, ExecutionsStay, EndsOutside DEF Spared, RowsStand

(* The verdicts on requests come before a round is dispatched.             *)
LEMMA ReadyIsUnasked ==
  ASSUME IInv, Apart, pc = "dispatch", NEW t \in Ready
  PROVE  ~Asked(t)
<1>1. t \in Tasks /\ t \notin Terminal /\ InFlight = {}
  BY DEF Ready, InFlight, AtTask
<1>2. wf.tries[t] = 0
  BY <1>1 DEF IInv, Rounds
<1> QED
  BY <1>1, <1>2 DEF Apart, Halting

LEMMA DueInWorkflow ==
  ASSUME Approval \cap ParallelSafe = {}, HInv, Workflow, ~wf.cancel, NEW t \in Approval,
         t \in Due'
  PROVE  t \in Due
<1>0. /\ IInv /\ Control /\ Stood /\ Apart /\ t \in Tasks /\ t \notin ParallelSafe
      /\ todo \subseteq Tasks
  BY RunAssumption DEF HInv, IInv, TypeOK, RunAssumption
<1>1. pc' \in {"serial", "await", "record_failed"} /\ t \in ToStart'
  BY DEF Due
<1>2. CASE Dispatch
  <2>1. /\ pc = "dispatch" /\ Undecided(Ready) = {} /\ UNCHANGED wf
        /\ pc' = "serial" /\ todo' = Serial(Ready) /\ batch' = Ready
    BY <1>2 DEF Dispatch, Goto
  <2>2. t \in Serial(Ready)
    BY <1>0, <1>1, <2>1 DEF ToStart, AtTask
  <2>3. t \in Ready /\ wf.decisions[t] # "none"
    BY <2>1, <2>2 DEF Undecided, Serial
  <2>4. Asked(t)
    BY <1>0, <2>3 DEF Stood, Stands, Asked
  <2> QED
    BY <1>0, <2>1, <2>3, <2>4, ReadyIsUnasked
<1>3. CASE RunSerial
  <2>1. pc = "serial" /\ todo' \subseteq todo /\ batch' = batch /\ pc' = "await"
    BY <1>3 DEF RunSerial, Goto
  <2> QED
    BY <1>1, <2>1 DEF ToStart, AtTask, Due
<1>4. CASE AwaitNext
  <2>1. /\ pc = "parallel" /\ \/ pc' = "round_done"
                              \/ todo # {} /\ pc' = "await" /\ cur' = FirstOf(todo)
    BY <1>4 DEF AwaitNext, Goto
  <2>2. todo # {} => FirstOf(todo) \in ParallelSafe
    BY <1>0, <2>1, FirstOfIsMember DEF Control
  <2> QED
    BY <1>1, <2>1, <2>2 DEF ToStart, AtTask
<1>5. ASSUME pc \in {"await", "record_failed"}, NEW b, NextTask(b), UNCHANGED <<cur, batch>>
      PROVE  t \in Due
  <2>1. ToStart' \subseteq ToStart
    BY <1>0, <1>5, NextTaskPlans DEF AtTask
  <2> QED
    BY <1>1, <1>5, <2>1 DEF Due
<1>6. CASE InterpretResult
  <2>1. pc = "await" /\ UNCHANGED <<cur, batch>>
    BY <1>6 DEF InterpretResult
  <2>2. CASE UNCHANGED <<pc, todo>>
    BY <1>1, <2>1, <2>2 DEF ToStart, AtTask, Due
  <2>3. CASE \E b : NextTask(b)
    BY <1>5, <2>1, <2>3
  <2> QED
    BY <1>0, <1>6, <2>2, <2>3, EndsHow
<1>7. CASE RecordTaskFailed
  BY <1>5, <1>7 DEF RecordTaskFailed
<1>8. CASE InterpretError
  <2>1. pc = "await" /\ pc' = "record_failed" /\ UNCHANGED <<cur, batch, todo>>
    BY <1>8 DEF InterpretError, Goto
  <2> QED
    BY <1>1, <2>1 DEF ToStart, AtTask, Due
<1>9. CASE \/ StartRun \/ LoopTop \/ RecordRunTerminal \/ WakeFromPause \/ PlanSkips
           \/ RecordTaskSkipped \/ FinishRun \/ HoldBack \/ AskApproval \/ CreateApproval
  <2>1. pc' \notin {"serial", "await", "record_failed"}
    BY <1>9 DEF StartRun, LoopTop, RecordRunTerminal, WakeFromPause, PlanSkips,
      RecordTaskSkipped, FinishRun, HoldBack, AskApproval, CreateApproval, Goto
  <2> QED
    BY <1>1, <2>1
<1>10. CASE \/ WakeFromApproval \/ ApprovalTimeout \/ CheckApproval
            \/ RecordApprovalOutcome \/ RunParallel \/ RoundDone \/ RecheckIntent
            \/ ContinueAsNew
  <2>1. pc' \notin {"serial", "await", "record_failed"}
    BY <1>10 DEF WakeFromApproval, ApprovalTimeout, CheckApproval, Verdict,
      RecordApprovalOutcome, RunParallel, RoundDone, RecheckIntent, ContinueAsNew, Goto
  <2> QED
    BY <1>1, <2>1
<1> QED
  BY <1>2, <1>3, <1>4, <1>6, <1>7, <1>8, <1>9, <1>10 DEF Workflow

LEMMA SparedWorkflow ==
  ASSUME Approval \cap ParallelSafe = {}, HInv, Spared, Workflow
  PROVE  Spared'
<1> SUFFICES ASSUME ~wf'.cancel, NEW t \in Approval
             PROVE  /\ act'[t].phase = "none"
                    /\ pg'.task[t] = "completed" => Asked(t)'
                    /\ t \notin Due'
  BY DEF Spared
<1>0. /\ IInv /\ Control /\ Stood /\ Executing /\ RowsStand /\ ~wf.cancel
      /\ t \in Tasks /\ t \notin ParallelSafe
  BY RunAssumption, RowsStandWorkflow, WorkflowRemembers
  DEF HInv, IInv, RunAssumption
<1>1. act[t].phase = "none" /\ (pg.task[t] = "completed" => Asked(t)) /\ t \notin Due
  BY <1>0 DEF Spared
<1>2. act'[t].phase = "none"
  <2>1. ASSUME NEW S, Start(S), t \notin S PROVE act'[t] = act[t]
    BY <1>0, <2>1 DEF Start
  <2>2. CASE RunSerial
    <3>1. pc = "serial" /\ todo # {} /\ Start({FirstOf(todo)})
      BY <2>2 DEF RunSerial
    <3>2. FirstOf(todo) \in Due
      BY <1>0, <3>1, StartsAreFresh DEF Due
    <3> QED
      BY <1>1, <2>1, <3>1, <3>2
  <2>3. CASE RunParallel
    BY <1>0, <1>1, <2>1, <2>3 DEF RunParallel
  <2>4. CASE InterpretResult
    <3>1. pc = "await" /\ cur \in InFlight
      BY <1>0, <2>4 DEF InterpretResult, Control, InFlight, AtTask
    <3>2. t # cur
      BY <1>0, <1>1, <3>1 DEF Executing
    <3> QED
      BY <1>0, <1>1, <2>1, <2>4, <3>2, EndsHow
  <2>5. CASE UNCHANGED act
    BY <1>1, <2>5
  <2> QED
    BY <2>2, <2>3, <2>4, <2>5
    DEF Workflow, StartRun, LoopTop, RecordRunTerminal, WakeFromPause, PlanSkips,
        RecordTaskSkipped, FinishRun, HoldBack, AskApproval, CreateApproval,
        WakeFromApproval, ApprovalTimeout, CheckApproval, RecordApprovalOutcome,
        Dispatch, AwaitNext, InterpretError, RecordTaskFailed, RoundDone,
        RecheckIntent, ContinueAsNew
<1>3. ASSUME pg'.task[t] = "completed" PROVE Asked(t)'
  <2>1. CASE pg'.task[t] = pg.task[t]
    BY <1>0, <1>1, <1>3, <2>1 DEF RowsStand
  <2>2. CASE RecordApprovalOutcome /\ t = cur
    <3>1. Stands(t, note)
      BY <1>0, <2>2 DEF Stood, RecordApprovalOutcome
    <3>2. Asked(t)
      BY <3>1 DEF Stands, Asked
    <3> QED
      BY <1>0, <3>2 DEF RowsStand
  <2> QED
    BY <1>0, <1>3, <2>1, <2>2, EndsInWorkflow
<1> QED
  BY <1>0, <1>1, <1>2, <1>3, DueInWorkflow

(* A RequestApproval node completes only by an approver's decision, as     *)
(* long as no cancel reached the workflow and no approval is marked        *)
(* parallel_safe: both execute it as if it were a task (MCApprovalSkipped  *)
(* for the cancel).                                                        *)
THEOREM ApprovalsAreDecided ==
  Approval \cap ParallelSafe = {} => (Spec => [](~wf.cancel => ApprovalsWereDecided))
<1> SUFFICES ASSUME Approval \cap ParallelSafe = {}
             PROVE  Spec => [](~wf.cancel => ApprovalsWereDecided)
  OBVIOUS
<1>0. Approval \subseteq Tasks
  BY RunAssumption DEF RunAssumption
<1>1. Init => HInv /\ Spared
  <2> SUFFICES ASSUME Init PROVE Spared
    BY InitHInv
  <2>1. /\ Due = {}
        /\ \A t \in Tasks : act[t].phase = "none" /\ pg.task[t] = "absent"
    BY DEF Init, Due, EmptyProjection, NoActivity
  <2> QED
    BY <1>0, <2>1 DEF Spared
<1>2. HInv /\ Spared /\ [Next]_vars => (HInv /\ Spared)'
  <2> SUFFICES ASSUME HInv, Spared, [Next]_vars PROVE Spared'
    BY NextHInv
  <2>1. CASE Workflow
    BY <2>1, SparedWorkflow
  <2>2. CASE Outside
    BY <2>2, SparedOutside DEF HInv
  <2>3. CASE WorkflowFails
    <3>1. pc' = "dead" /\ UNCHANGED <<pg, wf, approval, act>>
      BY <2>3 DEF WorkflowFails, Goto, logVars
    <3>2. Due' = {}
      BY <3>1 DEF Due
    <3> QED
      BY <3>1, <3>2 DEF Spared, Asked
  <2>4. CASE UNCHANGED vars
    <3>1. UNCHANGED <<pg, wf, approval, act, pc, cur, todo, batch>>
      BY <2>4 DEF vars
    <3>2. Due' = Due
      BY <3>1 DEF Due, ToStart, AtTask
    <3> QED
      BY <3>1, <3>2 DEF Spared, Asked
  <2> QED
    BY <2>1, <2>2, <2>3, <2>4, NextIsEither
<1>3. HInv /\ Spared => (~wf.cancel => ApprovalsWereDecided)
  <2> SUFFICES ASSUME Recorded, Spared, ~wf.cancel, NEW t \in Approval,
                      pg.task[t] = "completed"
               PROVE  approval[t].row = "approved"
    BY DEF HInv, ApprovalsWereDecided
  <2> QED
    BY <1>0 DEF Spared, Recorded, Stands, Asked
<1> QED
  BY <1>1, <1>2, <1>3, PTL DEF Spec

-----------------------------------------------------------------------------
(* The merge of one canonical field: CanonicalMerge.                       *)

(* A stable sort by key is a rearrangement in which a pair with a lower    *)
(* key, or with the same key and an earlier place, comes first.            *)
Rearranges(f, n) ==
  /\ f \in [1 .. n -> 1 .. n]
  /\ \A i \in 1 .. n : \E p \in 1 .. n : f[p] = i
KeepsOrder(f, s, n) ==
  \A p, q \in 1 .. n : p < q =>
    \/ s[f[p]].key < s[f[q]].key
    \/ s[f[p]].key = s[f[q]].key /\ f[p] < f[q]

LEMMA StableSortKeepsOrder ==
  ASSUME NEW n \in Nat, NEW s, DOMAIN s = 1 .. n, \A i \in 1 .. n : s[i].key \in Nat
  PROVE  \E f : /\ Rearranges(f, n) /\ KeepsOrder(f, s, n)
                /\ StableSort(s) = [p \in 1 .. n |-> s[f[p]]]
<1> DEFINE Upto(j, i) == s[j].key < s[i].key \/ (s[j].key = s[i].key /\ j <= i)
           Down(i) == {j \in 1 .. n : Upto(j, i)}
           rank == [i \in 1 .. n |-> Cardinality(Down(i))]
           f == [p \in 1 .. n |-> CHOOSE i \in 1 .. n : Cardinality(Down(i)) = p]
<1>1. IsFiniteSet(1 .. n) /\ Cardinality(1 .. n) = n
  <2>1. n \in Int /\ 1 \in Int /\ (n = 0 \/ n >= 1)
    OBVIOUS
  <2>2. IsFiniteSet(1 .. n) /\ Cardinality(1 .. n) = IF 1 > n THEN 0 ELSE n - 1 + 1
    BY <2>1, FS_Interval
  <2> QED
    BY <2>1, <2>2
<1>2. \A i \in 1 .. n : i \in Nat /\ i \in Down(i)
  OBVIOUS
<1>3. \A i, j \in 1 .. n : Upto(i, j) \/ Upto(j, i)
  OBVIOUS
<1>4. \A i, j \in 1 .. n : Upto(i, j) /\ Upto(j, i) => i = j
  OBVIOUS
<1>5. \A i, j, k \in 1 .. n : Upto(i, j) /\ Upto(j, k) => Upto(i, k)
  OBVIOUS
<1>6. StableSort(s) = [p \in 1 .. n |-> s[f[p]]]
  BY DEF StableSort
<1> HIDE DEF Upto
<1>7. \A i \in 1 .. n : /\ IsFiniteSet(Down(i)) /\ Cardinality(Down(i)) \in 1 .. n
  <2> SUFFICES ASSUME NEW i \in 1 .. n
               PROVE  IsFiniteSet(Down(i)) /\ Cardinality(Down(i)) \in 1 .. n
    OBVIOUS
  <2>1. Down(i) \in SUBSET (1 .. n) /\ Down(i) # {}
    BY <1>2
  <2> HIDE DEF Down
  <2>2. IsFiniteSet(Down(i)) /\ Cardinality(Down(i)) <= n
    BY <1>1, <2>1, FS_Subset
  <2>3. Cardinality(Down(i)) \in Nat /\ Cardinality(Down(i)) # 0
    BY <2>1, <2>2, FS_CardinalityType, FS_EmptySet
  <2> QED
    BY <2>2, <2>3
<1>8. \A i, j \in 1 .. n : Upto(i, j) /\ i # j => Cardinality(Down(i)) < Cardinality(Down(j))
  <2> SUFFICES ASSUME NEW i \in 1 .. n, NEW j \in 1 .. n, Upto(i, j), i # j
               PROVE  Cardinality(Down(i)) < Cardinality(Down(j))
    OBVIOUS
  <2>1. Down(i) \in SUBSET Down(j) /\ j \in Down(j) /\ j \notin Down(i)
    BY <1>2, <1>4, <1>5
  <2> HIDE DEF Down
  <2>2. /\ Cardinality(Down(i)) <= Cardinality(Down(j))
        /\ Cardinality(Down(j)) = Cardinality(Down(i)) => Down(j) = Down(i)
    BY <1>7, <2>1, FS_Subset
  <2>3. Cardinality(Down(i)) \in 1 .. n /\ Cardinality(Down(j)) \in 1 .. n
    BY <1>7, Zenon
  <2>4. Cardinality(Down(j)) # Cardinality(Down(i))
    BY <2>1, <2>2, Zenon
  <2>5. \A a, b \in 1 .. n : a <= b /\ b # a => a < b
    OBVIOUS
  <2> QED
    BY <2>2, <2>3, <2>4, <2>5
<1> HIDE DEF Down
<1>9. \A i, j \in 1 .. n : rank[i] = rank[j] => i = j
  <2> SUFFICES ASSUME NEW i \in 1 .. n, NEW j \in 1 .. n, rank[i] = rank[j], i # j
               PROVE  FALSE
    OBVIOUS
  <2>1. Cardinality(Down(i)) \in Nat /\ Cardinality(Down(j)) \in Nat
    BY <1>7
  <2>2. rank[i] < rank[j] \/ rank[j] < rank[i]
    BY <1>3, <1>8
  <2> QED
    BY <2>1, <2>2
<1>10. rank \in Injection(1 .. n, 1 .. n)
  BY <1>7, <1>9 DEF Injection, IsInjective
<1>11. rank \in Surjection(1 .. n, 1 .. n)
  BY <1>1, <1>10, FS_Injection
<1>12. \A p \in 1 .. n : f[p] \in 1 .. n /\ rank[f[p]] = p
  <2> SUFFICES ASSUME NEW p \in 1 .. n PROVE f[p] \in 1 .. n /\ rank[f[p]] = p
    OBVIOUS
  <2>1. \E i \in 1 .. n : Cardinality(Down(i)) = p
    BY <1>11 DEF Surjection
  <2> QED
    BY <2>1
<1>13. \A i \in 1 .. n : rank[i] \in 1 .. n /\ f[rank[i]] = i
  BY <1>7, <1>9, <1>12
<1>14. f \in [1 .. n -> 1 .. n]
  BY <1>12
<1>15. Rearranges(f, n)
  BY <1>13, <1>14 DEF Rearranges
<1>16. KeepsOrder(f, s, n)
  <2> SUFFICES ASSUME NEW p \in 1 .. n, NEW q \in 1 .. n, p < q
               PROVE  \/ s[f[p]].key < s[f[q]].key
                      \/ s[f[p]].key = s[f[q]].key /\ f[p] < f[q]
    BY DEF KeepsOrder
  <2>1. f[p] \in 1 .. n /\ f[q] \in 1 .. n /\ f[p] # f[q]
    <3>1. f[p] \in 1 .. n /\ f[q] \in 1 .. n /\ rank[f[p]] = p /\ rank[f[q]] = q
      BY <1>12
    <3> HIDE DEF f, rank
    <3> QED
      BY <3>1
  <2>2. ~Upto(f[q], f[p])
    <3> SUFFICES ASSUME Upto(f[q], f[p]) PROVE FALSE
      OBVIOUS
    <3>1. Cardinality(Down(f[q])) < Cardinality(Down(f[p]))
      BY <1>8, <2>1
    <3>2. rank[f[q]] = q /\ rank[f[p]] = p
      BY <1>12
    <3> HIDE DEF f
    <3>3. q < p
      BY <2>1, <3>1, <3>2
    <3> QED
      BY <3>3
  <2>3. Upto(f[p], f[q])
    BY <1>3, <2>1, <2>2
  <2> HIDE DEF f
  <2> QED
    BY <2>1, <2>3 DEF Upto
<1> QED
  BY <1>6, <1>15, <1>16

(* The type of what an append merges, and the places the entries have.     *)
Stored == Writers \X (1 .. 2)
Keys == Writers \cup {Unregistered}
Held == Len(value.items)
Added(w) == Len(Items(w))

LEMMA ItemsOf ==
  ASSUME FieldTypes, NEW w \in Writers
  PROVE  /\ Len(Items(w)) \in 0 .. 2 /\ DOMAIN Items(w) = 1 .. Len(Items(w))
         /\ Items(w) \in Seq(Stored)
         /\ \A i \in 1 .. Len(Items(w)) : Items(w)[i] = <<w, i>>
<1> DEFINE k == Size[shape[w]]
<1>1. k \in 0 .. 2
  BY DEF FieldTypes, Shapes, Size
<1>2. Items(w) = [i \in 1 .. k |-> <<w, i>>]
  BY DEF Items
<1> HIDE DEF k
<1>3. \A i \in 1 .. k : <<w, i>> \in Stored
  BY <1>1 DEF Stored
<1>4. Items(w) \in [1 .. k -> Stored]
  BY <1>2, <1>3
<1>5. Items(w) \in Seq(Stored) /\ Len(Items(w)) = k
  BY <1>1, <1>4
<1> QED
  BY <1>1, <1>2, <1>5

LEMMA EntriesOf ==
  ASSUME FieldTypes, NEW w \in Writers
  PROVE  /\ Held \in Nat /\ Added(w) \in 0 .. 2
         /\ DOMAIN Entries(w) = 1 .. Held + Added(w)
         /\ \A i \in 1 .. Held : /\ Entries(w)[i].item = value.items[i]
                                 /\ Entries(w)[i].key \in Keys
                                 /\ Held = Len(registry) => Entries(w)[i].key = registry[i]
         /\ \A i \in 1 .. Added(w) : /\ Entries(w)[Held + i].item = <<w, i>>
                                     /\ Entries(w)[Held + i].key = w
<1> DEFINE m == Held
           k == Added(w)
           missing == m - Len(registry)
           held == [i \in DOMAIN value.items |->
                      [item |-> value.items[i],
                       key |-> IF i <= missing THEN Unregistered ELSE registry[i - missing]]]
           new == [i \in DOMAIN Items(w) |-> [item |-> Items(w)[i], key |-> w]]
           Entry == [item : Stored, key : Keys]
<1>1. /\ value.items \in Seq(Stored) /\ registry \in Seq(Keys)
      /\ m \in Nat /\ DOMAIN value.items = 1 .. m /\ missing \in Int
      /\ \A i \in 1 .. m : value.items[i] \in Stored
      /\ \A i \in 1 .. Len(registry) : registry[i] \in Keys
      /\ Len(registry) \in Nat
  BY DEF FieldTypes, Stored, Keys, Held
<1>2. /\ k \in 0 .. 2 /\ DOMAIN Items(w) = 1 .. k
      /\ \A i \in 1 .. k : Items(w)[i] = <<w, i>> /\ <<w, i>> \in Stored
  <2>1. k \in 0 .. 2 /\ DOMAIN Items(w) = 1 .. k /\ \A i \in 1 .. k : Items(w)[i] = <<w, i>>
    BY ItemsOf DEF Added
  <2> HIDE DEF k
  <2>2. \A i \in 1 .. k : <<w, i>> \in Stored
    BY <2>1 DEF Stored
  <2> QED
    BY <2>1, <2>2
<1>3. Entries(w) = held \o new
  BY DEF Entries, Held
<1>4. \A i \in 1 .. m : (IF i <= missing THEN Unregistered ELSE registry[i - missing]) \in Keys
  <2> SUFFICES ASSUME NEW i \in 1 .. m, ~(i <= missing) PROVE registry[i - missing] \in Keys
    BY DEF Keys
  <2>1. i - missing \in 1 .. Len(registry)
    BY <1>1
  <2> QED
    BY <1>1, <2>1
<1>5. held \in [1 .. m -> Entry]
  <2>1. \A i \in 1 .. m : [item |-> value.items[i],
            key |-> IF i <= missing THEN Unregistered ELSE registry[i - missing]] \in Entry
    BY <1>1, <1>4
  <2> HIDE DEF missing, Entry
  <2> QED
    BY <1>1, <2>1
<1>6. new \in [1 .. k -> Entry]
  <2>1. \A i \in 1 .. k : [item |-> Items(w)[i], key |-> w] \in Entry
    BY <1>2 DEF Keys
  <2> HIDE DEF Entry
  <2> QED
    BY <1>2, <2>1
<1>7. \A i \in 1 .. m : /\ held[i].item = value.items[i]
                        /\ held[i].key \in Keys
                        /\ m = Len(registry) => held[i].key = registry[i]
  <2> SUFFICES ASSUME NEW i \in 1 .. m
               PROVE  /\ held[i].item = value.items[i]
                      /\ held[i].key \in Keys
                      /\ m = Len(registry) => held[i].key = registry[i]
    OBVIOUS
  <2>1. m = Len(registry) => missing = 0
    BY <1>1
  <2>2. m = Len(registry) => ~(i <= missing) /\ i - missing = i
    BY <1>1, <2>1
  <2> HIDE DEF missing
  <2> DEFINE key == IF i <= missing THEN Unregistered ELSE registry[i - missing]
  <2>3. held[i].item = value.items[i] /\ held[i].key = key
    BY <1>1
  <2>4. key \in Keys /\ (m = Len(registry) => key = registry[i])
    BY <1>4, <2>2
  <2> HIDE DEF key, held
  <2> QED
    BY <2>3, <2>4
<1>8. \A i \in 1 .. k : new[i].item = <<w, i>> /\ new[i].key = w
  BY <1>2
<1> HIDE DEF held, new, Entry
<1>9. /\ held \in Seq(Entry) /\ Len(held) = m
      /\ new \in Seq(Entry) /\ Len(new) = k
  <2>1. \A T : \A j \in Nat : \A s \in [1 .. j -> T] : s \in Seq(T) /\ Len(s) = j
    OBVIOUS
  <2>2. k \in Nat
    BY <1>2
  <2> QED
    BY <1>1, <1>5, <1>6, <2>1, <2>2
<1>10. /\ DOMAIN (held \o new) = 1 .. m + k
       /\ \A i \in 1 .. m : (held \o new)[i] = held[i]
       /\ \A i \in 1 .. k : (held \o new)[m + i] = new[i]
  <2>1. /\ held \o new \in Seq(Entry) /\ Len(held \o new) = m + k
        /\ \A i \in 1 .. m + k : (held \o new)[i] = IF i <= m THEN held[i] ELSE new[i - m]
    BY <1>9, ConcatProperties
  <2>3. \A i \in 1 .. m : i \in 1 .. m + k /\ i <= m
    BY <1>1, <1>2
  <2>4. \A i \in 1 .. m : (held \o new)[i] = held[i]
    BY <2>1, <2>3
  <2>5. \A i \in 1 .. k : (held \o new)[m + i] = new[i]
    <3> SUFFICES ASSUME NEW i \in 1 .. k PROVE (held \o new)[m + i] = new[i]
      OBVIOUS
    <3> DEFINE j == m + i
    <3>1. j \in 1 .. m + k /\ ~(j <= m) /\ j - m = i
      BY <1>1, <1>2
    <3> HIDE DEF j
    <3>2. (held \o new)[j] = new[i]
      BY <2>1, <3>1
    <3> QED
      BY <3>2 DEF j
  <2>6. DOMAIN (held \o new) = 1 .. m + k
    BY <2>1
  <2> QED
    BY <2>4, <2>5, <2>6
<1> QED
  <2>1. \A i \in 1 .. m : Entries(w)[i] = held[i]
    BY <1>3, <1>10
  <2>2. \A i \in 1 .. k : Entries(w)[m + i] = new[i]
    BY <1>3, <1>10
  <2>3. DOMAIN Entries(w) = 1 .. m + k
    BY <1>3, <1>10
  <2> QED
    BY <1>1, <1>2, <1>7, <1>8, <2>1, <2>2, <2>3

(* What an append leaves: the entries, rearranged by writer.               *)
LEMMA AppendRearranges ==
  ASSUME FieldTypes, NEW w \in Writers, AppendTo(w),
         NEW n, n = Held + Added(w)
  PROVE  \E f : /\ Rearranges(f, n) /\ KeepsOrder(f, Entries(w), n) /\ n \in Nat
                /\ value' = [kind |-> "list", items |-> [p \in 1 .. n |-> Entries(w)[f[p]].item]]
                /\ registry' = [p \in 1 .. n |-> Entries(w)[f[p]].key]
                /\ value'.items \in Seq(Stored) /\ Len(value'.items) = n
                /\ registry' \in Seq(Keys) /\ Len(registry') = n
                /\ DOMAIN value'.items = 1 .. n
<1> DEFINE m == Held
           k == Added(w)
<1>1. /\ m \in Nat /\ k \in 0 .. 2 /\ n = m + k /\ n \in Nat
      /\ DOMAIN Entries(w) = 1 .. n
      /\ \A i \in 1 .. m : Entries(w)[i].item = value.items[i] /\ Entries(w)[i].key \in Keys
      /\ \A i \in 1 .. k : Entries(w)[m + i].item = <<w, i>> /\ Entries(w)[m + i].key = w
  <2>1. /\ m \in Nat /\ k \in 0 .. 2
        /\ DOMAIN Entries(w) = 1 .. m + k
        /\ \A i \in 1 .. m : Entries(w)[i].item = value.items[i] /\ Entries(w)[i].key \in Keys
        /\ \A i \in 1 .. k : Entries(w)[m + i].item = <<w, i>> /\ Entries(w)[m + i].key = w
    BY EntriesOf, Zenon
  <2> HIDE DEF m, k
  <2>2. m + k \in Nat
    BY <2>1
  <2>3. n = m + k
    BY DEF m, k
  <2> QED
    BY <2>1, <2>2, <2>3, Zenon
<1>2. \A i \in 1 .. m : value.items[i] \in Stored
  BY DEF FieldTypes, Stored, Held
<1> HIDE DEF m, k
<1>4. \A i \in 1 .. k : <<w, i>> \in Stored
  BY <1>1 DEF Stored
<1>5. \A i \in 1 .. n : Entries(w)[i].item \in Stored /\ Entries(w)[i].key \in Keys
  <2> SUFFICES ASSUME NEW i \in 1 .. n
               PROVE  Entries(w)[i].item \in Stored /\ Entries(w)[i].key \in Keys
    OBVIOUS
  <2>1. CASE i \in 1 .. m
    BY <1>1, <1>2, <2>1
  <2>2. CASE i \notin 1 .. m
    <3>1. i - m \in 1 .. k /\ m + (i - m) = i
      BY <1>1, <2>2
    <3>2. Entries(w)[m + (i - m)].item = <<w, i - m>> /\ Entries(w)[m + (i - m)].key = w
      BY <1>1, <3>1
    <3>3. <<w, i - m>> \in Stored
      BY <1>4, <3>1
    <3> QED
      BY <3>1, <3>2, <3>3 DEF Keys
  <2> QED
    BY <2>1, <2>2
<1>6. \A i \in 1 .. n : Entries(w)[i].key \in Nat
  BY <1>5, WritersAreTasks DEF WritersAreTasks, Keys, Unregistered
<1>7. PICK f : /\ Rearranges(f, n) /\ KeepsOrder(f, Entries(w), n)
               /\ StableSort(Entries(w)) = [p \in 1 .. n |-> Entries(w)[f[p]]]
  <2> DEFINE s == Entries(w)
  <2>1. n \in Nat /\ DOMAIN s = 1 .. n /\ \A i \in 1 .. n : s[i].key \in Nat
    BY <1>1, <1>6
  <2> HIDE DEF s
  <2>2. \E f : /\ Rearranges(f, n) /\ KeepsOrder(f, s, n)
               /\ StableSort(s) = [p \in 1 .. n |-> s[f[p]]]
    BY <2>1, StableSortKeepsOrder
  <2> QED
    BY <2>2 DEF s
<1>8. \A p \in 1 .. n : f[p] \in 1 .. n
  BY <1>7 DEF Rearranges
<1> DEFINE items == [p \in 1 .. n |-> Entries(w)[f[p]].item]
           byWriter == [p \in 1 .. n |-> Entries(w)[f[p]].key]
<1>9. value' = [kind |-> "list", items |-> items] /\ registry' = byWriter
  <2> DEFINE s == [p \in 1 .. n |-> Entries(w)[f[p]]]
  <2>1. Keep(s)
    BY <1>7 DEF AppendTo
  <2>2. DOMAIN s = 1 .. n /\ \A p \in 1 .. n : s[p] = Entries(w)[f[p]]
    OBVIOUS
  <2> HIDE DEF s
  <2> QED
    BY <2>1, <2>2 DEF Keep
<1>10. items \in [1 .. n -> Stored] /\ byWriter \in [1 .. n -> Keys]
  BY <1>5, <1>8
<1> HIDE DEF items, byWriter
<1>11. /\ items \in Seq(Stored) /\ Len(items) = n /\ DOMAIN items = 1 .. n
       /\ byWriter \in Seq(Keys) /\ Len(byWriter) = n
  <2>1. \A S : \A j \in Nat : \A s \in [1 .. j -> S] : s \in Seq(S) /\ Len(s) = j
    OBVIOUS
  <2> QED
    BY <1>1, <1>10, <2>1, Zenon
<1>12. value'.items = items
  BY <1>9
<1> QED
  BY <1>1, <1>7, <1>9, <1>11, <1>12 DEF items, byWriter

(* An append keeps every item of the field and adds all of w's.            *)
Shows(v) == \A i \in DOMAIN Items(v) : \E p \in Places(value) : value.items[p] = <<v, i>>

LEMMA AppendShows ==
  ASSUME FieldTypes, NEW w \in Writers, AppendTo(w), UNCHANGED <<strategy, shape>>
  PROVE  /\ Shows(w)'
         /\ \A v : Shows(v) => Shows(v)'
<1> DEFINE n == Held + Added(w)
<1>1. PICK f : /\ Rearranges(f, n)
               /\ value' = [kind |-> "list", items |-> [p \in 1 .. n |-> Entries(w)[f[p]].item]]
               /\ DOMAIN value'.items = 1 .. n
  BY AppendRearranges
<1>2. /\ Held \in Nat /\ Added(w) \in 0 .. 2
      /\ \A i \in 1 .. Held : Entries(w)[i].item = value.items[i]
      /\ \A i \in 1 .. Added(w) : Entries(w)[Held + i].item = <<w, i>>
  BY EntriesOf
<1>3. \A v : Items(v)' = Items(v)
  BY DEF Items
<1> HIDE DEF n
<1>4. \A i \in 1 .. n : \E p \in Places(value)' : value'.items[p] = Entries(w)[i].item
  <2> SUFFICES ASSUME NEW i \in 1 .. n
               PROVE  \E p \in Places(value)' : value'.items[p] = Entries(w)[i].item
    OBVIOUS
  <2>1. PICK p \in 1 .. n : f[p] = i
    BY <1>1 DEF Rearranges
  <2>2. value'.items[p] = Entries(w)[f[p]].item
    BY <1>1
  <2>3. p \in Places(value)'
    BY <1>1 DEF Places
  <2> QED
    BY <2>1, <2>2, <2>3
<1>5. \A i \in DOMAIN Items(w) : \E p \in Places(value)' : value'.items[p] = <<w, i>>
  <2> SUFFICES ASSUME NEW i \in DOMAIN Items(w)
               PROVE  \E p \in Places(value)' : value'.items[p] = <<w, i>>
    OBVIOUS
  <2>1. i \in 1 .. Added(w)
    BY ItemsOf DEF Added
  <2>2. Held + i \in 1 .. n
    BY <1>2, <2>1 DEF n
  <2> QED
    BY <1>2, <1>4, <2>1, <2>2
<1>6. ASSUME NEW v, Shows(v), NEW i \in DOMAIN Items(v)
      PROVE  \E p \in Places(value)' : value'.items[p] = <<v, i>>
  <2>1. PICK q \in Places(value) : value.items[q] = <<v, i>>
    BY <1>6 DEF Shows
  <2>2. q \in 1 .. Held
    BY DEF Places, Held, FieldTypes
  <2>3. q \in 1 .. n
    BY <1>2, <2>2 DEF n
  <2> QED
    BY <1>2, <1>4, <2>1, <2>2, <2>3
<1> QED
  BY <1>3, <1>5, <1>6 DEF Shows

(* A field has a value from the first completion on, and a null is what    *)
(* its owner wrote.                                                        *)
Valued ==
  /\ completed = {} <=> value = Absent
  /\ value.kind = "none" => value = Absent
  /\ value.kind = "null" => owner \in completed /\ value = Written(owner)

(* The fields keep their types, and only a completion gives one a value.   *)
LEMMA FieldsAreTyped == MergeSpec => [](FieldTypes /\ Valued)
<1>1. MergeInit => FieldTypes /\ Valued
  BY DEF MergeInit, FieldTypes, Valued, Absent, NoWriter
<1>2. FieldTypes /\ Valued /\ [MergeNext]_mergeVars => FieldTypes' /\ Valued'
  <2> SUFFICES ASSUME FieldTypes, Valued, [MergeNext]_mergeVars PROVE FieldTypes' /\ Valued'
    OBVIOUS
  <2>1. CASE UNCHANGED mergeVars
    BY <2>1 DEF FieldTypes, Valued, mergeVars, Written, Items
  <2>2. CASE MergeNext
    <3>1. PICK w \in Writers : Complete(w)
      BY <2>2 DEF MergeNext
    <3>2. /\ completed' = completed \cup {w} /\ w \notin completed
          /\ strategy' = strategy /\ shape' = shape /\ w # NoWriter
      BY <3>1, WritersAreTasks DEF Complete, NoWriter, WritersAreTasks
    <3> DEFINE Kinds == {"none", "null", "scalar", "list"}
    <3>3. /\ Written(w).kind \in Kinds \ {"none"} /\ Written(w).items \in Seq(Stored)
          /\ Written(w) # Absent
          /\ \A v : Written(v)' = Written(v)
      <4>1. Items(w) \in Seq(Stored)
        BY ItemsOf
      <4>2. Written(w).kind \in Kinds \ {"none"} /\ Written(w).items = Items(w)
        BY DEF Written
      <4>3. Absent.kind = "none"
        BY DEF Absent
      <4>4. \A v : Written(v)' = Written(v)
        BY <3>2 DEF Written, Items
      <4> QED
        BY <4>1, <4>2, <4>3, <4>4
    <3>4. CASE MergeAppend(w)
      <4>1. /\ value'.kind = "list" /\ value'.items \in Seq(Stored) /\ registry' \in Seq(Keys)
        BY <3>4, AppendRearranges DEF MergeAppend
      <4>2. value' # Absent
        BY <4>1 DEF Absent
      <4>3. owner' \in completed' \cup {NoWriter} /\ owner' # NoWriter
        BY <3>2, <3>4 DEF FieldTypes, MergeAppend, AppendOwner
      <4> QED
        BY <3>2, <4>1, <4>2, <4>3 DEF FieldTypes, Valued, Stored, Keys
    <3>5. CASE value' = Written(w) /\ owner' = w /\ registry' \in {registry, <<>>}
      <4>1. registry' \in Seq(Keys)
        <5>1. registry \in Seq(Keys)
          BY DEF FieldTypes, Keys
        <5>2. <<>> \in Seq(Keys)
          OBVIOUS
        <5> QED
          BY <3>5, <5>1, <5>2
      <4> QED
        BY <3>2, <3>3, <3>5, <4>1 DEF FieldTypes, Valued, Stored, Keys
    <3>6. CASE value # Absent /\ value' = value /\ owner' = owner /\ registry' = registry
      BY <3>2, <3>3, <3>6 DEF FieldTypes, Valued
    <3>7. ~Unwritten => value # Absent
      BY DEF Unwritten, Absent
    <3> QED
      BY <3>1, <3>4, <3>5, <3>6, <3>7
        DEF Complete, MergeLastWriteWins, MergePreserving, Overwrites, Overwrite
  <2> QED
    BY <2>1, <2>2
<1> QED
  BY <1>1, <1>2, PTL DEF MergeSpec

(* Unless some writer asked for last_write_wins no write of a value other  *)
(* than null disappears (ADR-005, supplement 3): an append keeps every     *)
(* item, a write that finds the field taken goes into a conflict record    *)
(* beside the value, and a write that replaces a null replaces the only    *)
(* item of the field.                                                      *)
InConflict(v) == \E c \in conflicts : v \in DOMAIN c /\ c[v] = Written(v)

LEMMA NothingIsLostByAStep ==
  ASSUME FieldTypes, Valued, NothingLost, [MergeNext]_mergeVars
  PROVE  NothingLost'
<1>1. CASE UNCHANGED mergeVars
  BY <1>1 DEF NothingLost, Survives, mergeVars, Items, Written, Places
<1>2. CASE MergeNext
  <2>1. PICK w \in Writers : Complete(w)
    BY <1>2 DEF MergeNext
  <2>2. /\ completed' = completed \cup {w} /\ w \notin completed
        /\ strategy' = strategy /\ shape' = shape /\ w # NoWriter
    BY <2>1, WritersAreTasks DEF Complete, NoWriter, WritersAreTasks
  <2>3. SUFFICES ASSUME \A v \in completed' : strategy[v] # "last_write_wins"
                 PROVE  \A v \in completed' :
                          shape[v] # "null" => (Shows(v) \/ InConflict(v))'
    BY <2>2 DEF NothingLost, Survives, Shows, InConflict
  <2>4. \A v \in completed : shape[v] # "null" => Shows(v) \/ InConflict(v)
    BY <2>2, <2>3 DEF NothingLost, Survives, Shows, InConflict
  <2>5. \A v : Items(v)' = Items(v) /\ Written(v)' = Written(v)
    BY <2>2 DEF Items, Written
  <2>6. strategy[w] # "last_write_wins"
    BY <2>2, <2>3
  <2>7. CASE MergeAppend(w)
    <3>1. /\ Shows(w)'
          /\ \A v : Shows(v) => Shows(v)'
      BY <2>2, <2>7, AppendShows DEF MergeAppend
    <3>2. \A v : InConflict(v) => InConflict(v)'
      BY <2>5, <2>7 DEF MergeAppend, InConflict
    <3> QED
      BY <2>2, <2>4, <3>1, <3>2
  <2>8. CASE MergePreserving(w)
    <3>1. CASE Unwritten \/ owner = NoWriter
      <4>1. value' = Written(w) /\ conflicts' = conflicts
        BY <2>8, <3>1 DEF MergePreserving
      <4>2. value'.items = Items(w)
        BY <4>1 DEF Written
      <4>3. \A i \in DOMAIN Items(w) : Items(w)[i] = <<w, i>>
        BY ItemsOf
      <4>4. Shows(w)'
        BY <2>5, <4>2, <4>3 DEF Shows, Places
      <4>5. ASSUME NEW v \in completed, shape[v] # "null"
            PROVE  (Shows(v) \/ InConflict(v))'
        <5>1. InConflict(v) => InConflict(v)'
          BY <2>5, <4>1 DEF InConflict
        <5>2. ASSUME Shows(v) PROVE Shows(v)'
          <6>1. value.kind = "null" /\ owner \in completed /\ value = Written(owner)
            BY <3>1 DEF Unwritten, FieldTypes, Valued
          <6>2. shape[owner] = "null" /\ v # owner /\ owner \in Writers
            BY <4>5, <6>1 DEF Written, FieldTypes
          <6>3. \A p \in Places(value) : value.items[p] # <<v, 1>> /\ value.items[p] # <<v, 2>>
            BY <6>1, <6>2, ItemsOf DEF Places, Written
          <6>4. DOMAIN Items(v) \subseteq {1, 2}
            BY ItemsOf DEF FieldTypes
          <6>5. DOMAIN Items(v) = {}
            BY <5>2, <6>3, <6>4 DEF Shows
          <6> QED
            BY <2>5, <6>5 DEF Shows
        <5> QED
          BY <2>4, <4>5, <5>1, <5>2
      <4> QED
        BY <2>2, <4>4, <4>5
    <3>2. CASE ~(Unwritten \/ owner = NoWriter)
      <4> DEFINE record == [v \in {owner, w} |-> IF v = owner THEN value ELSE Written(w)]
      <4>1. value' = value /\ conflicts' = conflicts \cup {record}
        BY <2>8, <3>2 DEF MergePreserving
      <4>2. owner # w
        BY <2>2 DEF FieldTypes
      <4>3. w \in DOMAIN record /\ record[w] = Written(w)
        BY <4>2
      <4> HIDE DEF record
      <4>4. InConflict(w)'
        BY <2>5, <4>1, <4>3 DEF InConflict
      <4>5. \A v : (Shows(v) => Shows(v)') /\ (InConflict(v) => InConflict(v)')
        BY <2>5, <4>1 DEF InConflict, Shows
      <4> QED
        BY <2>2, <2>4, <4>4, <4>5
    <3> QED
      BY <3>1, <3>2
  <2>9. ~MergeLastWriteWins(w)
    BY <2>6 DEF MergeLastWriteWins, StrategyOf
  <2> QED
    BY <2>1, <2>7, <2>8, <2>9 DEF Complete
<1> QED
  BY <1>1, <1>2

THEOREM NoWriteDisappears == MergeSpec => []NothingLost
<1>1. MergeInit => NothingLost
  BY DEF MergeInit, NothingLost
<1>2. FieldTypes /\ Valued /\ NothingLost /\ [MergeNext]_mergeVars => NothingLost'
  BY NothingIsLostByAStep
<1> QED
  BY <1>1, <1>2, FieldsAreTyped, PTL DEF MergeSpec

-----------------------------------------------------------------------------
(* While every writer appends, each item of the field is one a completed   *)
(* task wrote, registered under that task, and they stand in the order of  *)
(* the tasks, each task's as it listed them.                               *)
AllAppend == \A w \in completed : strategy[w] = "append"

Before(a, b) == a[1] < b[1] \/ (a[1] = b[1] /\ a[2] < b[2])

Registered ==
  /\ Len(registry) = Held
  /\ \A p \in 1 .. Held :
       /\ value.items[p][1] \in completed /\ registry[p] = value.items[p][1]
       /\ value.items[p][2] \in DOMAIN Items(value.items[p][1])
  /\ \A p, q \in 1 .. Held : p < q => Before(value.items[p], value.items[q])
  /\ \A v \in completed : Shows(v)

AppendsRegistered == AllAppend => Registered

LEMMA AppendsStayRegistered ==
  ASSUME FieldTypes, Valued, Registered, NEW w \in Writers \ completed, AppendTo(w),
         completed' = completed \cup {w}, UNCHANGED <<strategy, shape>>
  PROVE  Registered'
<1> DEFINE e == Entries(w)
           m == Held
           k == Added(w)
           n == m + k
<1>1. PICK f : /\ Rearranges(f, n) /\ KeepsOrder(f, e, n)
               /\ value' = [kind |-> "list", items |-> [p \in 1 .. n |-> e[f[p]].item]]
               /\ registry' = [p \in 1 .. n |-> e[f[p]].key]
               /\ Len(value'.items) = n /\ Len(registry') = n
               /\ value'.items \in Seq(Stored)
  BY AppendRearranges
<1>2. /\ m \in Nat /\ k \in 0 .. 2
      /\ \A i \in 1 .. m : e[i].item = value.items[i] /\ e[i].key = registry[i]
      /\ \A i \in 1 .. k : e[m + i].item = <<w, i>> /\ e[m + i].key = w
  BY EntriesOf DEF Registered
<1>3. \A v : Items(v)' = Items(v)
  BY DEF Items
<1>4. Held' = n
  BY <1>1 DEF Held
<1>5. DOMAIN Items(w) = 1 .. k
  BY ItemsOf DEF Added
<1> HIDE DEF e, m, k
<1> HIDE DEF n
<1>6. \A p \in 1 .. n : f[p] \in 1 .. n
  BY <1>1 DEF Rearranges
<1>7. \A i \in 1 .. m : /\ e[i].key = e[i].item[1] /\ e[i].key \in completed
                        /\ e[i].item[2] \in DOMAIN Items(e[i].key)
  BY <1>2 DEF Registered, m
<1>8. \A i \in 1 .. n : i \in 1 .. m \/ (i - m \in 1 .. k /\ i = m + (i - m))
  BY <1>2 DEF n
<1>9. \A i \in 1 .. n : i \notin 1 .. m =>
         /\ e[i].item = <<w, i - m>> /\ e[i].key = w /\ i - m \in DOMAIN Items(w)
  <2> SUFFICES ASSUME NEW i \in 1 .. n, i \notin 1 .. m
               PROVE  e[i].item = <<w, i - m>> /\ e[i].key = w /\ i - m \in DOMAIN Items(w)
    OBVIOUS
  <2>1. i - m \in 1 .. k /\ m + (i - m) = i
    BY <1>2, <1>8
  <2>2. e[m + (i - m)].item = <<w, i - m>> /\ e[m + (i - m)].key = w
    BY <1>2, <2>1
  <2> QED
    BY <1>5, <2>1, <2>2
<1>10. \A i \in 1 .. n : /\ e[i].key = e[i].item[1] /\ e[i].key \in completed'
                         /\ e[i].item[2] \in DOMAIN Items(e[i].key)
  <2> SUFFICES ASSUME NEW i \in 1 .. n
               PROVE  /\ e[i].key = e[i].item[1] /\ e[i].key \in completed'
                      /\ e[i].item[2] \in DOMAIN Items(e[i].key)
    OBVIOUS
  <2>1. CASE i \in 1 .. m
    BY <1>7, <2>1
  <2>2. CASE i \notin 1 .. m
    BY <1>9, <2>2
  <2> QED
    BY <2>1, <2>2
<1>11. \A i, j \in 1 .. n : e[i].key = e[j].key /\ i < j => e[i].item[2] < e[j].item[2]
  <2> SUFFICES ASSUME NEW i \in 1 .. n, NEW j \in 1 .. n, e[i].key = e[j].key, i < j
               PROVE  e[i].item[2] < e[j].item[2]
    OBVIOUS
  <2>1. CASE j \in 1 .. m
    <3>1. i \in 1 .. m
      BY <1>2, <2>1
    <3>2. Before(value.items[i], value.items[j])
      BY <2>1, <3>1 DEF Registered, m
    <3>3. /\ value.items[i] = e[i].item /\ value.items[j] = e[j].item
          /\ e[i].item[1] = e[j].item[1] /\ e[i].item[1] \in Nat
      BY <1>2, <1>7, <2>1, <3>1, WritersAreTasks DEF WritersAreTasks, FieldTypes
    <3> QED
      BY <3>2, <3>3 DEF Before
  <2>2. CASE j \notin 1 .. m
    <3>1. e[j].item = <<w, j - m>> /\ e[j].key = w
      BY <1>9, <2>2
    <3>2. i \notin 1 .. m
      BY <1>7, <3>1
    <3>3. e[i].item = <<w, i - m>>
      BY <1>9, <3>2
    <3> QED
      BY <1>2, <3>1, <3>3
  <2> QED
    BY <2>1, <2>2
<1>12. \A p \in 1 .. n : value'.items[p] = e[f[p]].item /\ registry'[p] = e[f[p]].key
  BY <1>1
<1>13. ASSUME NEW p \in 1 .. n
       PROVE  /\ value'.items[p][1] \in completed' /\ registry'[p] = value'.items[p][1]
              /\ value'.items[p][2] \in DOMAIN Items(value'.items[p][1])
  BY <1>6, <1>10, <1>12
<1>14. ASSUME NEW p \in 1 .. n, NEW q \in 1 .. n, p < q
       PROVE  Before(value'.items[p], value'.items[q])
  <2>1. /\ f[p] \in 1 .. n /\ f[q] \in 1 .. n
        /\ value'.items[p] = e[f[p]].item /\ value'.items[q] = e[f[q]].item
    BY <1>6, <1>12
  <2>2. \/ e[f[p]].key < e[f[q]].key
        \/ e[f[p]].key = e[f[q]].key /\ f[p] < f[q]
    BY <1>1, <1>14 DEF KeepsOrder
  <2>3. e[f[p]].key = value'.items[p][1] /\ e[f[q]].key = value'.items[q][1]
    BY <1>10, <2>1
  <2> QED
    BY <1>11, <2>1, <2>2, <2>3 DEF Before
<1>15. \A v \in completed' : Shows(v)'
  BY AppendShows DEF Registered
<1> QED
  BY <1>1, <1>3, <1>4, <1>13, <1>14, <1>15 DEF Registered

LEMMA AppendsAreRegistered == MergeSpec => []AppendsRegistered
<1>1. MergeInit => AppendsRegistered
  BY DEF MergeInit, AppendsRegistered, Registered, Held, Absent
<1>2. FieldTypes /\ Valued /\ AppendsRegistered /\ [MergeNext]_mergeVars => AppendsRegistered'
  <2> SUFFICES ASSUME FieldTypes, Valued, AppendsRegistered, [MergeNext]_mergeVars
               PROVE  AppendsRegistered'
    OBVIOUS
  <2>1. CASE UNCHANGED mergeVars
    <3>1. /\ completed' = completed /\ strategy' = strategy /\ shape' = shape
          /\ value' = value /\ registry' = registry
      BY <2>1 DEF mergeVars
    <3>2. \A v : Items(v)' = Items(v)
      BY <3>1, Zenon DEF Items
    <3>3. (AllAppend' <=> AllAppend) /\ Held' = Held /\ \A v : Shows(v)' <=> Shows(v)
      BY <3>1, <3>2, Zenon DEF AllAppend, Held, Shows, Places
    <3>4. Registered => Registered'
      BY <3>1, <3>2, <3>3, Zenon DEF Registered
    <3> QED
      BY <3>3, <3>4 DEF AppendsRegistered
  <2>2. CASE MergeNext
    <3>1. PICK w \in Writers : Complete(w)
      BY <2>2 DEF MergeNext
    <3>2. /\ completed' = completed \cup {w} /\ w \notin completed
          /\ UNCHANGED <<strategy, shape>>
      BY <3>1 DEF Complete
    <3>3. SUFFICES ASSUME AllAppend' PROVE Registered'
      BY DEF AppendsRegistered
    <3>4. AllAppend /\ strategy[w] = "append"
      BY <3>2, <3>3 DEF AllAppend
    <3>5. AppendTo(w)
      BY <3>1, <3>4
        DEF Complete, MergeAppend, MergeLastWriteWins, MergePreserving, StrategyOf
    <3>6. Registered
      BY <3>4 DEF AppendsRegistered
    <3> QED
      BY <3>2, <3>5, <3>6, AppendsStayRegistered
  <2> QED
    BY <2>1, <2>2
<1> QED
  BY <1>1, <1>2, FieldsAreTyped, PTL DEF MergeSpec

(* Every item of the completed tasks, once: a field of which the items are *)
(* in order has as many as there are.                                      *)
LEMMA RegisteredIsOrderFree ==
  ASSUME FieldTypes, AppendsRegistered
  PROVE  AppendIsOrderFree
<1> SUFFICES ASSUME AllAppend
             PROVE  /\ Held = Cardinality(UNION {{w} \X DOMAIN Items(w) : w \in completed})
                    /\ \A w \in completed : Shows(w)
                    /\ \A p, q \in Places(value) : p < q => Before(value.items[p], value.items[q])
  BY DEF AppendIsOrderFree, AllAppend, Shows, Held, Before
<1> DEFINE all == UNION {{w} \X DOMAIN Items(w) : w \in completed}
<1>1. Registered
  BY DEF AppendsRegistered
<1>2. /\ value.items \in Seq(Stored) /\ Held \in Nat
      /\ Places(value) = 1 .. Held /\ DOMAIN value.items = 1 .. Held
  BY DEF FieldTypes, Stored, Held, Places
<1>3. \A p \in 1 .. Held : value.items[p] \in Stored
  BY <1>2
<1>4. \A p \in 1 .. Held : value.items[p] \in all
  <2> SUFFICES ASSUME NEW p \in 1 .. Held PROVE value.items[p] \in all
    OBVIOUS
  <2> DEFINE w == value.items[p][1]
             i == value.items[p][2]
  <2>1. value.items[p] = <<w, i>>
    BY <1>3 DEF Stored
  <2>2. w \in completed /\ i \in DOMAIN Items(w)
    BY <1>1 DEF Registered
  <2> HIDE DEF w, i
  <2>3. <<w, i>> \in {w} \X DOMAIN Items(w)
    BY <2>2
  <2> QED
    BY <2>1, <2>2, <2>3
<1>5. \A x \in all : \E p \in 1 .. Held : value.items[p] = x
  <2> SUFFICES ASSUME NEW x \in all PROVE \E p \in 1 .. Held : value.items[p] = x
    OBVIOUS
  <2>1. PICK w \in completed : x \in {w} \X DOMAIN Items(w)
    OBVIOUS
  <2>2. PICK i \in DOMAIN Items(w) : x = <<w, i>>
    BY <2>1
  <2>3. Shows(w)
    BY <1>1 DEF Registered
  <2> QED
    BY <1>2, <2>2, <2>3 DEF Shows
<1>6. \A p, q \in 1 .. Held : value.items[p] = value.items[q] => p = q
  <2> SUFFICES ASSUME NEW p \in 1 .. Held, NEW q \in 1 .. Held,
                      value.items[p] = value.items[q], p < q
               PROVE  FALSE
    BY <1>2
  <2>1. Before(value.items[p], value.items[q])
    BY <1>1 DEF Registered
  <2>2. value.items[p][1] \in Nat /\ value.items[p][2] \in Nat
    <3>1. \A x \in Stored : x[1] \in Writers /\ x[2] \in 1 .. 2
      BY DEF Stored
    <3>2. value.items[p] \in Stored
      BY <1>3
    <3>3. value.items[p][1] \in Writers /\ value.items[p][2] \in 1 .. 2
      BY <3>1, <3>2
    <3>4. /\ \A x \in Writers : x \in Nat
          /\ \A x \in 1 .. 2 : x \in Nat
      BY WritersAreTasks DEF WritersAreTasks
    <3> QED
      BY <3>3, <3>4, Zenon
  <2> QED
    BY <2>1, <2>2 DEF Before
<1> HIDE DEF all
<1>7. value.items \in Bijection(1 .. Held, all)
  <2>1. value.items \in [1 .. Held -> all]
    BY <1>2, <1>4
  <2> QED
    BY <1>5, <1>6, <2>1 DEF Bijection, Injection, Surjection, IsInjective
<1>8. IsFiniteSet(1 .. Held) /\ Cardinality(1 .. Held) = Held
  <2>1. Held \in Int /\ 1 \in Int /\ (Held = 0 \/ Held >= 1)
    BY <1>2
  <2>2. IsFiniteSet(1 .. Held) /\ Cardinality(1 .. Held) = IF 1 > Held THEN 0 ELSE Held - 1 + 1
    BY <2>1, FS_Interval
  <2> QED
    BY <1>2, <2>1, <2>2
<1>9. Cardinality(all) = Held
  BY <1>7, <1>8, FS_Bijection DEF ExistsBijection
<1> QED
  BY <1>1, <1>2, <1>9 DEF Registered, all

(* What tasks that all append leave does not depend on the order in which  *)
(* they completed (ADR-005, supplement 1).                                 *)
THEOREM AppendsAreOrderFree == MergeSpec => []AppendIsOrderFree
<1>1. FieldTypes /\ AppendsRegistered => AppendIsOrderFree
  BY RegisteredIsOrderFree
<1> QED
  BY <1>1, FieldsAreTyped, AppendsAreRegistered, PTL

=============================================================================
