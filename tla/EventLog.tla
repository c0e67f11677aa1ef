------------------------------ MODULE EventLog ------------------------------
(***************************************************************************)
(* The canonical event log and the audit chain of one workspace            *)
(* (persistence/unit_of_work.py), as the database transactions that write  *)
(* them interleave.  A transaction is a script of steps; each step first   *)
(* takes an advisory lock, which it keeps until the transaction ends, and  *)
(* then reads what is committed or drafted by itself and drafts rows.      *)
(* Commit makes the drafts visible at once; a rollback drops them.         *)
(*                                                                         *)
(* A digest is modelled by what it tells apart: an event of a run by its   *)
(* idempotency key, an audit row by what it records.  Rows are kept in the *)
(* order of their commits; the verification of a chain that precedes each  *)
(* append is the property LogsAreChained.                                  *)
(***************************************************************************)
EXTENDS Naturals, Sequences, FiniteSets

CONSTANTS
  Runs,
  Txs,           \* transactions, each with the command it is to execute
  Command,       \* [kind, run, key, body] of each of them
  NoTx,
  None,          \* the predecessor of the first row of a chain
  MaxFaults      \* crashes and lost answers, all told

Kinds == {"append", "memory", "firstUse", "audit", "rebuild"}
Keys == {Command[t].key : t \in Txs}
Bodies == {Command[t].body : t \in Txs}

ASSUME EventLogAssumption ==
  /\ NoTx \notin Txs
  /\ Command \in [Txs -> [kind : Kinds, run : Runs, key : Keys, body : Bodies]]
  /\ MaxFaults \in Nat

Kind(t) == Command[t].kind
Run(t) == Command[t].run
Key(t) == Command[t].key

(* The families of advisory locks.                                         *)
RunLock(r) == <<"run", r>>
AuditLock == <<"audit">>
MemoryLock == <<"memory">>
FirstUseLock == <<"firstUse">>
Locks == {RunLock(r) : r \in Runs} \cup {AuditLock, MemoryLock, FirstUseLock}

Step(lock, does) == [lock |-> lock, does |-> does]

(* Mutant of AppendSteps: the audit chain is locked first.                 *)
AppendAuditFirst(r) ==
  <<Step(AuditLock, "lock"), Step(RunLock(r), "append"), Step(AuditLock, "link")>>

(* What each transaction does, under which lock, in order.  A memory write *)
(* enters its transition in the ledger and the audit chain before it       *)
(* appends its event to the run.                                           *)
AppendSteps(r) == <<Step(RunLock(r), "append"), Step(AuditLock, "link")>>

Steps == [t \in Txs |->
  CASE Kind(t) = "append" -> AppendSteps(Run(t))
    [] Kind(t) = "memory" ->
         <<Step(MemoryLock, "lock"), Step(AuditLock, "enter"),
           Step(RunLock(Run(t)), "append"), Step(AuditLock, "link")>>
    [] Kind(t) = "firstUse" ->
         <<Step(FirstUseLock, "look"),
           Step(RunLock(Run(t)), "append"), Step(AuditLock, "link")>>
    [] Kind(t) = "audit" -> <<Step(AuditLock, "enter")>>
    [] Kind(t) = "rebuild" -> <<Step(RunLock(Run(t)), "rebuild")>>]

EventOf == [seq : Nat, prev : Keys \cup {None}, key : Keys, body : Bodies, kind : Kinds]
Entries == {<<"event", r, k>> : r \in Runs, k \in Keys} \cup {<<"entry", t>> : t \in Txs}

VARIABLES
  events,        \* canonical_events of each run
  projection,    \* canonical_projections: the keys of the events reduced
  audit,         \* audit_events, each with the entry it links to
  outbox,        \* outbox rows, by run and key of their event
  status,        \* "open", "done" or "failed": what a caller was answered
  step,          \* steps a transaction has done
  draft,         \* rows it has written and not committed
  holder,        \* the transaction that holds a lock
  faults

vars == <<events, projection, audit, outbox, status, step, draft, holder, faults>>

NoDraft == [event |-> <<>>, projection |-> <<>>, audit |-> <<>>, outbox |-> {}]

-----------------------------------------------------------------------------
Ended(t) == step[t] = Len(Steps[t])
Next1(t) == Steps[t][step[t] + 1]

(* The transaction reaches a step that does this, with the step's lock.    *)
Reaches(t, does) ==
  /\ status[t] = "open" /\ ~Ended(t)
  /\ Next1(t).does = does
  /\ holder[Next1(t).lock] \in {NoTx, t}

(* Mutant of Held: the step does not wait for its lock to be its own.      *)
HeldByNone(t) == holder

Held(t) == [holder EXCEPT ![Next1(t).lock] = t]
Advance(t) == step' = [step EXCEPT ![t] = @ + 1]
Drafts(t, d) == draft' = [draft EXCEPT ![t] = d]
TableUnchanged == UNCHANGED <<events, projection, audit, outbox>>

KeysOf(s) == [n \in DOMAIN s |-> s[n].key]
KeyUsed(r, k) == \E n \in DOMAIN events[r] : events[r][n].key = k

(* Taking the workspace's memory lock.                                     *)
TakeLock(t) ==
  /\ Reaches(t, "lock")
  /\ holder' = Held(t) /\ Advance(t)
  /\ TableUnchanged /\ UNCHANGED <<status, draft, faults>>

-----------------------------------------------------------------------------
(* append_event                                                            *)

NewEvent(t) ==
  LET log == events[Run(t)]
  IN [seq |-> Len(log) + 1, prev |-> IF log = <<>> THEN None ELSE log[Len(log)].key,
      key |-> Key(t), body |-> Command[t].body, kind |-> Kind(t)]

(* The event and the projection replayed from all events of the run.       *)
DraftEvent(t) ==
  [draft[t] EXCEPT !.event = <<NewEvent(t)>>,
                   !.projection = Append(KeysOf(events[Run(t)]), Key(t))]

AppendEvent(t) ==
  /\ Reaches(t, "append")
  /\ ~KeyUsed(Run(t), Key(t))
  /\ projection[Run(t)] = KeysOf(events[Run(t)])
  /\ holder' = Held(t) /\ Advance(t)
  /\ Drafts(t, DraftEvent(t))
  /\ TableUnchanged /\ UNCHANGED <<status, faults>>

SameCommand(t) == \E n \in DOMAIN events[Run(t)] :
  events[Run(t)][n].key = Key(t) /\ events[Run(t)][n].body = Command[t].body

(* The idempotency key is in use: the same command is answered with the    *)
(* event that is there, and nothing is appended or linked for it.          *)
RepeatEvent(t) ==
  /\ Reaches(t, "append")
  /\ SameCommand(t)
  /\ holder' = Held(t)
  /\ step' = [step EXCEPT ![t] = Len(Steps[t])]
  /\ TableUnchanged /\ UNCHANGED <<status, draft, faults>>

(* Mutant of Released: the locks outlive the transaction.                  *)
ReleasedNothing(t) == holder

Released(t) == [l \in Locks |-> IF holder[l] = t THEN NoTx ELSE holder[l]]

(* The end of a transaction that commits nothing; again is what the caller *)
(* does next.  EventIdempotencyConflict, for another command, is final.    *)
RollBack(t, again) ==
  /\ status' = [status EXCEPT ![t] = again]
  /\ step' = [step EXCEPT ![t] = 0]
  /\ Drafts(t, NoDraft)
  /\ holder' = Released(t)
  /\ TableUnchanged

Conflict(t) ==
  /\ Reaches(t, "append")
  /\ KeyUsed(Run(t), Key(t)) /\ ~SameCommand(t)
  /\ RollBack(t, "failed")
  /\ UNCHANGED faults

-----------------------------------------------------------------------------
(* append_audit_chain                                                      *)

Visible(t) == audit \o draft[t].audit
Link(t, entry) ==
  [entry |-> entry, prev |-> LET rows == Visible(t)
                             IN IF rows = <<>> THEN None ELSE rows[Len(rows)].entry]
EventEntry(t) == <<"event", Run(t), Key(t)>>

LinkedDraft(t) ==
  [draft[t] EXCEPT !.audit = Append(@, Link(t, EventEntry(t))),
                   !.outbox = {<<Run(t), Key(t)>>}]

(* The audit row and the outbox row of the drafted event.                  *)
LinkEvent(t) ==
  /\ Reaches(t, "link")
  /\ holder' = Held(t) /\ Advance(t)
  /\ Drafts(t, LinkedDraft(t))
  /\ TableUnchanged /\ UNCHANGED <<status, faults>>

(* A ledger or typed audit entry; the ledger skips one it already has.     *)
Entered(t) == \E n \in DOMAIN audit : audit[n].entry = <<"entry", t>>
EnterAudit(t) ==
  /\ Reaches(t, "enter")
  /\ holder' = Held(t) /\ Advance(t)
  /\ IF Entered(t) THEN UNCHANGED draft
     ELSE Drafts(t, [draft[t] EXCEPT !.audit = Append(@, Link(t, <<"entry", t>>))])
  /\ TableUnchanged /\ UNCHANGED <<status, faults>>

-----------------------------------------------------------------------------
(* record_first_use and rebuild_projection                                 *)

(* Mutant of FirstUseSeen: the search ends at the run of the declaration.  *)
FirstUseSeenInRun(t) == \E n \in DOMAIN events[Run(t)] :
  events[Run(t)][n].kind = "firstUse" /\ events[Run(t)][n].key = Key(t)

(* Any run of the workspace may have declared the endpoint before.         *)
FirstUseSeen(t) == \E r \in Runs : \E n \in DOMAIN events[r] :
  events[r][n].kind = "firstUse" /\ events[r][n].key = Key(t)

LookForFirstUse(t) ==
  /\ Reaches(t, "look")
  /\ holder' = Held(t)
  /\ step' = [step EXCEPT ![t] = IF FirstUseSeen(t) THEN Len(Steps[t]) ELSE @ + 1]
  /\ TableUnchanged /\ UNCHANGED <<status, draft, faults>>

Rebuild(t) ==
  /\ Reaches(t, "rebuild")
  /\ holder' = Held(t) /\ Advance(t)
  /\ Drafts(t, [draft[t] EXCEPT !.projection = KeysOf(events[Run(t)])])
  /\ TableUnchanged /\ UNCHANGED <<status, faults>>

-----------------------------------------------------------------------------
(* The ends of a transaction                                               *)

(* Activities are executed again by Temporal after a crash; a request that *)
(* writes only an audit row is not.                                        *)
Repeats(t) == IF Kind(t) = "audit" THEN "failed" ELSE "open"

WritesProjection(t) == draft[t].event # <<>> \/ Kind(t) = "rebuild"
Store(t) ==
  LET r == Run(t)
  IN /\ events' = [events EXCEPT ![r] = @ \o draft[t].event]
     /\ projection' = IF WritesProjection(t)
                      THEN [projection EXCEPT ![r] = draft[t].projection] ELSE projection
     /\ audit' = audit \o draft[t].audit
     /\ outbox' = outbox \cup draft[t].outbox
     /\ draft' = [draft EXCEPT ![t] = NoDraft]
     /\ holder' = Released(t)
     /\ step' = [step EXCEPT ![t] = 0]

Commit(t) ==
  /\ status[t] = "open" /\ Ended(t)
  /\ Store(t)
  /\ status' = [status EXCEPT ![t] = "done"]
  /\ UNCHANGED faults

(* The commit stands and its answer is lost.                               *)
LostCommit(t) ==
  /\ status[t] = "open" /\ Ended(t)
  /\ faults < MaxFaults /\ faults' = faults + 1
  /\ Store(t)
  /\ status' = [status EXCEPT ![t] = Repeats(t)]

(* The worker or its connection dies, and the database rolls back.         *)
Crash(t) ==
  /\ status[t] = "open" /\ step[t] > 0
  /\ faults < MaxFaults /\ faults' = faults + 1
  /\ RollBack(t, Repeats(t))

(* Whom a transaction waits for; a circle of transactions waits for itself. *)
Blocker(t) == IF status[t] = "open" /\ ~Ended(t) THEN holder[Next1(t).lock] ELSE NoTx
Stuck == {t \in Txs : Blocker(t) \notin {NoTx, t}}
Circle(S) == S # {} /\ {Blocker(t) : t \in S} = S

(* PostgreSQL aborts one of the circle.  Temporal executes the activity of *)
(* a run again; the memory activity answers "error" and the first-use sink *)
(* raises, neither is executed again.                                      *)
Victim(t) ==
  /\ \E S \in SUBSET Stuck : t \in S /\ Circle(S)
  /\ RollBack(t, IF Kind(t) \in {"append", "rebuild"} THEN "open" ELSE "failed")
  /\ UNCHANGED faults

-----------------------------------------------------------------------------
Init ==
  /\ events = [r \in Runs |-> <<>>]
  /\ projection = [r \in Runs |-> <<>>]
  /\ audit = <<>> /\ outbox = {}
  /\ status = [t \in Txs |-> "open"]
  /\ step = [t \in Txs |-> 0]
  /\ draft = [t \in Txs |-> NoDraft]
  /\ holder = [l \in Locks |-> NoTx]
  /\ faults = 0

Works(t) ==
  \/ TakeLock(t) \/ AppendEvent(t) \/ RepeatEvent(t) \/ Conflict(t)
  \/ LinkEvent(t) \/ EnterAudit(t) \/ LookForFirstUse(t) \/ Rebuild(t)
  \/ Commit(t)

Next == \E t \in Txs : Works(t) \/ LostCommit(t) \/ Crash(t) \/ Victim(t)

Spec == Init /\ [][Next]_vars

(* A released lock goes to the transaction that waited longest, and the    *)
(* deadlock detector runs for every waiter.                                *)
FairSpec == Spec /\ \A t \in Txs : SF_vars(Works(t)) /\ WF_vars(Victim(t))

-----------------------------------------------------------------------------
(* Properties                                                              *)

Row == [entry : Entries, prev : Entries \cup {None}]
TypeOK ==
  /\ events \in [Runs -> Seq(EventOf)]
  /\ projection \in [Runs -> Seq(Keys)]
  /\ audit \in Seq(Row)
  /\ outbox \subseteq Runs \X Keys
  /\ status \in [Txs -> {"open", "done", "failed"}]
  /\ step \in [Txs -> Nat] /\ \A t \in Txs : step[t] <= Len(Steps[t])
  /\ draft \in [Txs -> [event : Seq(EventOf), projection : Seq(Keys), audit : Seq(Row),
                        outbox : SUBSET (Runs \X Keys)]]
  /\ holder \in [Locks -> Txs \cup {NoTx}]
  /\ faults \in 0 .. MaxFaults

Numbered(log) == \A n \in DOMAIN log :
  /\ log[n].seq = n
  /\ log[n].prev = IF n = 1 THEN None ELSE log[n - 1].key
Chained(rows) == \A n \in DOMAIN rows :
  rows[n].prev = IF n = 1 THEN None ELSE rows[n - 1].entry

(* Events of a run are numbered without gaps, each after its predecessor,  *)
(* the projection is their replay, and the audit rows of the workspace are *)
(* one chain that never branches, though nothing but the locks keeps two   *)
(* transactions from linking to the same row: a chain that branched would  *)
(* refuse every later write (verify_event_chain, verify_audit_chain).      *)
LogsAreChained ==
  /\ \A r \in Runs : Numbered(events[r]) /\ projection[r] = KeysOf(events[r])
  /\ Chained(audit)

(* A command answered as done has its event in the log, once, as it was    *)
(* given; an append fails only against another command under its key; and  *)
(* an endpoint is declared once in a workspace, by whichever run.          *)
CommandsTakeEffectOnce ==
  /\ \A t \in Txs : status[t] = "done" /\ Kind(t) \in {"append", "memory"} => SameCommand(t)
  /\ \A t \in Txs : status[t] = "failed" /\ Kind(t) = "append" =>
       KeyUsed(Run(t), Key(t)) /\ ~SameCommand(t)
  /\ \A r \in Runs : \A m, n \in DOMAIN events[r] :
       events[r][m].key = events[r][n].key => m = n
  /\ \A r, q \in Runs : \A m \in DOMAIN events[r], n \in DOMAIN events[q] :
       (events[r][m].kind = "firstUse" /\ events[q][n].kind = "firstUse"
          /\ events[r][m].key = events[q][n].key) => r = q

(* No circle of waiting transactions without a memory write: all others    *)
(* take the locks of their families in one order.                          *)
CirclesNeedAMemoryWrite == \A S \in SUBSET Stuck :
  Circle(S) => \E t \in S : Kind(t) = "memory"

(* Every transaction is answered in the end.                               *)
TransactionsSettle == \A t \in Txs : <>(status[t] # "open")
=============================================================================
