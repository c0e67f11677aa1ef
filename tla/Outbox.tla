------------------------------- MODULE Outbox -------------------------------
(***************************************************************************)
(* The leased transactional outbox and its dispatchers                     *)
(* (persistence/outbox.py, workers/outbox_dispatcher.py,                   *)
(* runtime/outbox_handlers.py, workers/temporal_sender.py).                *)
(*                                                                         *)
(* Every operation of the repository is one transaction under row locks,   *)
(* so it is one action.  A dispatcher claims a batch, hands each message   *)
(* over outside any transaction, and then marks it in another one: the     *)
(* lease may lapse and another dispatcher may claim the row in between.    *)
(* The batch order (available_at, created_at) is left open: a retried row  *)
(* may have any available_at and locked rows are skipped, so a batch is    *)
(* any nonempty set of claimable rows.                                     *)
(*                                                                         *)
(* Dispatcher crashes, failed RPCs and hand-overs slower than the lease    *)
(* share one budget of MaxFaults.                                          *)
(***************************************************************************)
EXTENDS Naturals, FiniteSets

CONSTANTS
  Messages,      \* rows of the outbox table
  Start,         \* the start_run command of the run
  Poison,        \* commands whose payload does not parse
  Events,        \* messages of another topic than the runtime commands
  Sink,          \* whether an event sink is configured
  Workers,       \* dispatchers
  WorkerId,      \* worker_id of each dispatcher (the API ones of a tenant share one)
  BatchLimit,
  MaxAttempts,
  MaxFaults

NeedsHandOver == IF Sink THEN Messages ELSE Messages \ Events

ASSUME OutboxAssumption ==
  /\ Start \in Messages
  /\ Poison \subseteq Messages \ {Start}
  /\ Events \subseteq Messages \ ({Start} \cup Poison)
  /\ Sink \in BOOLEAN
  /\ DOMAIN WorkerId = Workers
  /\ BatchLimit \in Nat \ {0}
  /\ MaxAttempts \in Nat \ {0}
  /\ MaxFaults \in Nat

VARIABLES
  status,        \* status column
  attempts,      \* attempts column
  claim,         \* [by, token]: claimed_by and claim_token, token 0 for NULL
  drawn,         \* claim tokens drawn so far for the row (uuid4: never reused)
  due,           \* available_at <= now
  lapsed,        \* lease_expires_at <= now
  held,          \* claimed deliveries a dispatcher has yet to handle
  doing,         \* the delivery handled but not yet marked, with its outcome
  workflow,      \* absent, running or closed, as the Temporal server sees it
  received,      \* whether the receiver got the message
  failures,      \* failed hand-overs, counted by an observer
  faults

rowVars == <<status, attempts, claim, drawn, due, lapsed>>
vars == <<status, attempts, claim, drawn, due, lapsed, held, doing,
          workflow, received, failures, faults>>

Statuses == {"absent", "pending", "processing", "delivered", "dead_letter"}
Claims == [by : {"null"} \cup {WorkerId[w] : w \in Workers}, token : Nat]
NoClaim == [by |-> "null", token |-> 0]
Deliveries == [msg : Messages, token : Nat]
Reports == [msg : Messages, token : Nat, outcome : {"ok", "fail"}]
Idle == [outcome |-> "none"]

TypeOK ==
  /\ status \in [Messages -> Statuses]
  /\ attempts \in [Messages -> 0..MaxAttempts]
  /\ claim \in [Messages -> Claims]
  /\ drawn \in [Messages -> Nat]
  /\ due \in [Messages -> BOOLEAN]
  /\ lapsed \in [Messages -> BOOLEAN]
  /\ held \in [Workers -> SUBSET Deliveries]
  /\ doing \in [Workers -> Reports \cup {Idle}]
  /\ workflow \in {"absent", "running", "closed"}
  /\ received \in [Messages -> BOOLEAN]
  /\ failures \in [Messages -> Nat]
  /\ faults \in 0..MaxFaults

Init ==
  /\ status = [m \in Messages |-> "absent"]
  /\ attempts = [m \in Messages |-> 0]
  /\ claim = [m \in Messages |-> NoClaim]
  /\ drawn = [m \in Messages |-> 0]
  /\ due = [m \in Messages |-> FALSE]
  /\ lapsed = [m \in Messages |-> FALSE]
  /\ held = [w \in Workers |-> {}]
  /\ doing = [w \in Workers |-> Idle]
  /\ workflow = "absent"
  /\ received = [m \in Messages |-> FALSE]
  /\ failures = [m \in Messages |-> 0]
  /\ faults = 0

-----------------------------------------------------------------------------
(* The clock.                                                              *)

(* The backoff of a retried row is over.                                   *)
BecomeDue(m) ==
  /\ status[m] = "pending" /\ ~due[m]
  /\ due' = [due EXCEPT ![m] = TRUE]
  /\ UNCHANGED <<status, attempts, claim, drawn, lapsed, held, doing,
                 workflow, received, failures, faults>>

(* Dispatcher w has handled m under the claim the row shows, and has yet   *)
(* to mark it.                                                             *)
ReportsOn(m, w) ==
  doing[w] # Idle /\ doing[w].msg = m /\ doing[w].token = claim[m].token

HeldNow(m, w) ==
  \/ \E d \in held[w] : d.msg = m /\ d.token = claim[m].token
  \/ ReportsOn(m, w)

(* A lease nobody works under lapses for certain; one whose holder is only *)
(* slow costs a fault.                                                     *)
Lapse(m) ==
  /\ status[m] = "processing" /\ ~lapsed[m]
  /\ lapsed' = [lapsed EXCEPT ![m] = TRUE]
  /\ IF \E w \in Workers : HeldNow(m, w)
       THEN faults < MaxFaults /\ faults' = faults + 1
       ELSE UNCHANGED faults
  /\ UNCHANGED <<status, attempts, claim, drawn, due, held, doing,
                 workflow, received, failures>>

-----------------------------------------------------------------------------
(* RunCommandService and the unit of work insert a row with available_at   *)
(* = now in the business transaction.  No command addresses a run before   *)
(* its start_run row, which is inserted together with the Run.             *)
Submit(m) ==
  /\ status[m] = "absent"
  /\ m \in Events \/ m = Start \/ status[Start] # "absent"
  /\ status' = [status EXCEPT ![m] = "pending"]
  /\ due' = [due EXCEPT ![m] = TRUE]
  /\ UNCHANGED <<attempts, claim, drawn, lapsed, held, doing,
                 workflow, received, failures, faults>>

(* Mutant of Claimable: an expired lease is never taken over.              *)
ClaimableWhenPending(m) == status[m] = "pending" /\ due[m]

Claimable(m) ==
  \/ status[m] = "pending" /\ due[m]
  \/ status[m] = "processing" /\ lapsed[m]

NextToken(m) == drawn[m] + 1

(* claim_batch: an expired lease is taken over, attempts is not touched.   *)
ClaimBatch(w, batch) ==
  /\ held[w] = {} /\ doing[w] = Idle
  /\ batch # {} /\ Cardinality(batch) <= BatchLimit
  /\ \A m \in batch : Claimable(m)
  /\ status' = [m \in Messages |->
                  IF m \in batch THEN "processing" ELSE status[m]]
  /\ claim' = [m \in Messages |->
                 IF m \in batch THEN [by |-> WorkerId[w], token |-> NextToken(m)]
                 ELSE claim[m]]
  /\ drawn' = [m \in Messages |-> IF m \in batch THEN drawn[m] + 1 ELSE drawn[m]]
  /\ lapsed' = [m \in Messages |-> lapsed[m] /\ m \notin batch]
  /\ held' = [held EXCEPT ![w] = {[msg |-> m, token |-> NextToken(m)] : m \in batch}]
  /\ UNCHANGED <<attempts, due, doing, workflow, received, failures, faults>>

-----------------------------------------------------------------------------
(* Handling one delivery, outside any transaction.                         *)
Outcome(w, d, result) ==
  /\ doing' = [doing EXCEPT ![w] =
                 [msg |-> d.msg, token |-> d.token, outcome |-> result]]
  /\ held' = [held EXCEPT ![w] = @ \ {d}]
  /\ failures' = IF result = "fail" THEN [failures EXCEPT ![d.msg] = @ + 1]
                 ELSE failures
  /\ UNCHANGED rowVars

(* parse_command refuses the payload.                                      *)
HandlePoison(w, d) ==
  /\ d.msg \in Poison
  /\ Outcome(w, d, "fail")
  /\ UNCHANGED <<workflow, received, faults>>

(* start_workflow under REJECT_DUPLICATE: a workflow that was already      *)
(* started, even one that closed since, counts as delivered.               *)
HandleStart(w, d) ==
  /\ d.msg = Start
  /\ workflow' = IF workflow = "absent" THEN "running" ELSE workflow
  /\ received' = [received EXCEPT ![Start] = TRUE]
  /\ Outcome(w, d, "ok")
  /\ UNCHANGED faults

(* Mutant of HandleSignal: NOT_FOUND counts as delivered.                  *)
HandleSignalLeniently(w, d) ==
  /\ d.msg \notin Poison \cup Events \cup {Start}
  /\ received' = [received EXCEPT ![d.msg] = @ \/ workflow = "running"]
  /\ Outcome(w, d, "ok")
  /\ UNCHANGED <<workflow, faults>>

(* signal_workflow: NOT_FOUND before the start and after the close.        *)
HandleSignal(w, d) ==
  /\ d.msg \notin Poison \cup Events \cup {Start}
  /\ IF workflow = "running"
       THEN received' = [received EXCEPT ![d.msg] = TRUE] /\ Outcome(w, d, "ok")
       ELSE UNCHANGED received /\ Outcome(w, d, "fail")
  /\ UNCHANGED <<workflow, faults>>

(* An event goes to the sink, or nowhere when no sink is configured.       *)
HandleEvent(w, d) ==
  /\ d.msg \in Events
  /\ received' = IF Sink THEN [received EXCEPT ![d.msg] = TRUE] ELSE received
  /\ Outcome(w, d, "ok")
  /\ UNCHANGED <<workflow, faults>>

(* The RPC or the publication fails; the receiver may have acted on it.    *)
HandleError(w, d) ==
  /\ d.msg \in NeedsHandOver \ Poison
  /\ faults < MaxFaults /\ faults' = faults + 1
  /\ Outcome(w, d, "fail")
  /\ \/ UNCHANGED <<workflow, received>>
     \/ /\ d.msg = Start \/ d.msg \in Events \/ workflow = "running"
        /\ received' = [received EXCEPT ![d.msg] = TRUE]
        /\ workflow' = IF d.msg = Start /\ workflow = "absent"
                         THEN "running" ELSE workflow

Handle(w, d) ==
  /\ doing[w] = Idle /\ d \in held[w]
  /\ \/ HandlePoison(w, d) \/ HandleStart(w, d) \/ HandleSignal(w, d)
     \/ HandleEvent(w, d) \/ HandleError(w, d)

-----------------------------------------------------------------------------
(* Mutant of ClaimStands: the row is found by worker_id alone.             *)
ClaimStandsById(w, d) ==
  status[d.msg] = "processing" /\ claim[d.msg].by = WorkerId[w]

(* Marking the outcome: _locked_claim finds the row only under the claim   *)
(* that was handed out with the delivery.                                  *)
ClaimStands(w, d) ==
  /\ status[d.msg] = "processing"
  /\ claim[d.msg] = [by |-> WorkerId[w], token |-> d.token]

Release(m) ==
  /\ claim' = [claim EXCEPT ![m] = NoClaim]
  /\ lapsed' = [lapsed EXCEPT ![m] = FALSE]

(* A stale claim raises out of poll_once: the rest of the batch is dropped *)
(* and stays processing until its leases lapse.                            *)
MarkDelivered(w) ==
  /\ doing[w].outcome = "ok"
  /\ doing' = [doing EXCEPT ![w] = Idle]
  /\ \/ /\ ClaimStands(w, doing[w])
        /\ status' = [status EXCEPT ![doing[w].msg] = "delivered"]
        /\ Release(doing[w].msg)
        /\ UNCHANGED held
     \/ /\ ~ClaimStands(w, doing[w])
        /\ held' = [held EXCEPT ![w] = {}]
        /\ UNCHANGED <<status, claim, lapsed>>
  /\ UNCHANGED <<attempts, drawn, due, workflow, received, failures, faults>>

FailRow(m) ==
  /\ attempts' = [attempts EXCEPT ![m] = @ + 1]
  /\ Release(m)
  /\ IF attempts[m] + 1 >= MaxAttempts
       THEN status' = [status EXCEPT ![m] = "dead_letter"] /\ UNCHANGED due
       ELSE /\ status' = [status EXCEPT ![m] = "pending"]
            /\ due' = [due EXCEPT ![m] = FALSE]

(* A stale claim or a failed transaction is logged and swallowed: the      *)
(* batch goes on.                                                          *)
MarkFailed(w) ==
  /\ doing[w].outcome = "fail"
  /\ doing' = [doing EXCEPT ![w] = Idle]
  /\ \/ ClaimStands(w, doing[w]) /\ FailRow(doing[w].msg) /\ UNCHANGED faults
     \/ /\ ~ClaimStands(w, doing[w])
        /\ UNCHANGED <<status, attempts, claim, due, lapsed, faults>>
     \/ /\ faults < MaxFaults /\ faults' = faults + 1
        /\ UNCHANGED <<status, attempts, claim, due, lapsed>>
  /\ UNCHANGED <<drawn, held, workflow, received, failures>>

(* The process dies with its batch, or mark_delivered fails: what it had   *)
(* claimed waits for the leases.                                           *)
Crash(w) ==
  /\ held[w] # {} \/ doing[w] # Idle
  /\ faults < MaxFaults /\ faults' = faults + 1
  /\ held' = [held EXCEPT ![w] = {}]
  /\ doing' = [doing EXCEPT ![w] = Idle]
  /\ UNCHANGED <<status, attempts, claim, drawn, due, lapsed,
                 workflow, received, failures>>

(* The workflow of the run ends on its own.                                *)
CloseWorkflow ==
  /\ workflow = "running" /\ workflow' = "closed"
  /\ UNCHANGED <<status, attempts, claim, drawn, due, lapsed, held, doing,
                 received, failures, faults>>

Next ==
  \/ \E m \in Messages : Submit(m) \/ BecomeDue(m) \/ Lapse(m)
  \/ \E w \in Workers :
       \/ \E batch \in SUBSET Messages : ClaimBatch(w, batch)
       \/ \E d \in held[w] : Handle(w, d)
       \/ MarkDelivered(w) \/ MarkFailed(w) \/ Crash(w)
  \/ CloseWorkflow

Spec == Init /\ [][Next]_vars

(* The dispatcher polls for ever, the clock advances, and a handler always *)
(* returns.  Nothing obliges a lease to outlast a slow hand-over.          *)
Fairness ==
  /\ \A m \in Messages :
       /\ WF_vars(BecomeDue(m))
       /\ WF_vars(Lapse(m) /\ faults' = faults)
  /\ \A w \in Workers :
       /\ WF_vars(\E batch \in SUBSET Messages : ClaimBatch(w, batch))
       /\ WF_vars(\E d \in held[w] : Handle(w, d))
       /\ WF_vars(MarkDelivered(w))
       /\ WF_vars(MarkFailed(w))

FairSpec == Spec /\ Fairness

-----------------------------------------------------------------------------
(* Two dispatchers never hold the same claim of a row, so the claim a row  *)
(* shows names one holder even when every dispatcher runs under the same   *)
(* worker_id: the fence of _locked_claim rests on the token alone.         *)
OneHolderPerClaim ==
  \A m \in Messages :
    claim[m].token # 0 =>
      Cardinality({w \in Workers : HeldNow(m, w)}) <= 1

(* A claim whose lease runs is given up by its holder alone: the step that *)
(* takes it off the row is the holder's own, marking what it handled under *)
(* that claim.  No report of a dispatcher that lost the row to another one *)
(* touches it, though both run under the same worker_id.                   *)
ClaimsAreFenced ==
  [][\A m \in Messages :
       status[m] = "processing" /\ ~lapsed[m] /\ claim'[m] # claim[m] =>
         \E w \in Workers : ReportsOn(m, w) /\ doing'[w] = Idle]_vars

(* A row is dead-lettered exactly when its bounded retries are used up.    *)
DeadExactlyAtLimit ==
  \A m \in Messages : status[m] = "dead_letter" <=> attempts[m] = MaxAttempts

(* Delivery at least once, and both verdicts final: the outbox implements  *)
(* the promise of CommandDelivery.                                         *)
Fate == [m \in Messages |->
  CASE status[m] \in {"pending", "processing"} -> "queued"
    [] status[m] = "dead_letter" -> "dead"
    [] OTHER -> status[m]]

Promise == INSTANCE CommandDelivery WITH fate <- Fate, handed <- received

KeepsPromise == Promise!Delivery

(* Every committed message gets its verdict: no crash, stale claim or      *)
(* abandoned batch strands a row.                                          *)
EveryMessageSettles ==
  \A m \in Messages :
    status[m] # "absent" ~> status[m] \in {"delivered", "dead_letter"}

=============================================================================
