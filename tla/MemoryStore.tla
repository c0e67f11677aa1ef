----------------------------- MODULE MemoryStore -----------------------------
(***************************************************************************)
(* The memory lifecycle of one workspace (memory/repositories.py with the  *)
(* domain of memory/candidates.py and the ledger of memory/events.py), its *)
(* three writers: the memory activity of a run (workflows/activities/      *)
(* memory.py), the Memory Center (api/memory.py) and the TTL sweep         *)
(* (workflows/activities/memory_ttl.py).                                   *)
(*                                                                         *)
(* Every write path holds the workspace's memory lock from its first read  *)
(* to its commit, so a transaction is one action.  The Memory Center looks *)
(* its record up by id before it takes the lock, and then acts on whatever *)
(* record is active under the same key: these are two actions.             *)
(*                                                                         *)
(* Source references, observed_at and confidence all grow under a merge;   *)
(* they are one set, the evidence.  Ages are counted for candidates only,  *)
(* up to one more than the TTL.                                            *)
(***************************************************************************)
EXTENDS Naturals, Sequences, FiniteSets

CONSTANTS
  Ids,           \* record ids
  NoId,
  Keys,          \* dedup keys
  Values,
  Redacted,      \* what redact_value leaves of a value
  Writers,       \* memory activities, each writing one record
  Input,         \* [id, key, value, run, auto, undated] of each of them
  Requests,      \* requests to the Memory Center
  Idle,
  Ttl,           \* candidate_ttl
  MaxLost        \* answers of activities that are lost, all told

Status == {"candidate", "confirmed", "superseded", "revoked", "expired"}
Active == {"candidate", "confirmed"}
Actions == {"candidate.recorded", "candidate.merged", "record.recorded", "record.merged",
            "candidate.confirmed", "record.superseded", "record.revoked", "candidate.expired",
            "record.index_invalidated", "record.cache_invalidated"}
Runs == {Input[w].run : w \in Writers}

ASSUME MemoryAssumption ==
  /\ NoId \notin Ids
  /\ Redacted \notin Values
  /\ Input \in [Writers -> [id : Ids, key : Keys, value : Values, run : Runs,
                            auto : BOOLEAN, undated : BOOLEAN]]
  /\ Ttl \in Nat /\ MaxLost \in Nat

Row == [key : Keys, value : Values \cup {Redacted}, evidence : SUBSET Writers,
        status : Status, version : Nat, next : Ids \cup {NoId},
        tombstone : BOOLEAN, age : 0 .. Ttl + 1]

VARIABLES
  rows,          \* memory_records: a row for each id in use
  ledger,        \* memory_lifecycle_events of each record, oldest first
  runLog,        \* memory.candidate.recorded events, by run and record id
  writer,        \* "todo", "completed" or "error": what an activity answered
  seen,          \* what a request read before it took the lock
  lost

vars == <<rows, ledger, runLog, writer, seen, lost>>

Used == DOMAIN rows
(* new_id draws an id that no write derives from its content.              *)
Fresh == Ids \ (Used \cup {Input[w].id : w \in Writers})
Put(f, i, r) == [j \in DOMAIN f \cup {i} |-> IF j = i THEN r ELSE f[j]]

ActiveUnder(table, k) == {i \in DOMAIN table : table[i].key = k /\ table[i].status \in Active}
Forgotten == {"revoked", "expired"}

(* The ledger leaves timestamps out of the digest that makes a row unique. *)
Entry(r, action, from) ==
  [action |-> action, from |-> from, to |-> r.status, row |-> [r EXCEPT !.age = 0]]
Note(book, i, e) ==
  IF \E n \in DOMAIN book[i] : book[i][n] = e THEN book
  ELSE [book EXCEPT ![i] = Append(@, e)]

-----------------------------------------------------------------------------
(* The memory activity                                                     *)

NewRow(w) ==
  [key |-> Input[w].key, value |-> Input[w].value, evidence |-> {w},
   status |-> IF Input[w].auto THEN "confirmed" ELSE "candidate",
   version |-> 1, next |-> NoId, tombstone |-> FALSE,
   age |-> IF Input[w].undated /\ ~Input[w].auto THEN Ttl + 1 ELSE 0]

(* Evidence is joined, the value stays, and the status is the higher one.  *)
Merged(r, w) ==
  LET status == IF Input[w].auto THEN "confirmed" ELSE r.status
  IN [r EXCEPT !.evidence = @ \cup {w}, !.status = status,
               !.age = IF status = "candidate" THEN @ ELSE 0]

(* The record id of a write and the row it leaves, if the upsert succeeds. *)
Target(w) ==
  LET active == ActiveUnder(rows, Input[w].key)
  IN IF active = {} THEN Input[w].id ELSE CHOOSE i \in active : TRUE
Upserted(w) ==
  LET i == Target(w)
  IN IF i \in ActiveUnder(rows, Input[w].key) THEN Merged(rows[i], w) ELSE NewRow(w)
UpsertFails(w) == Target(w) \in Used \ ActiveUnder(rows, Input[w].key)

(* Mutant of UpsertEntry: a merge is entered with the record as it was.    *)
UpsertEntryStale(w) ==
  LET i == Target(w)
      new == IF i \in Used THEN rows[i] ELSE Upserted(w)
  IN Entry(new, "candidate.recorded", new.status)

UpsertEntry(w) ==
  LET i == Target(w)
      new == Upserted(w)
  IN IF i \in Used
     THEN Entry(new, IF new.status = "confirmed" THEN "record.merged" ELSE "candidate.merged",
                rows[i].status)
     ELSE Entry(new, IF new.status = "confirmed" THEN "record.recorded" ELSE "candidate.recorded",
                new.status)

(* The canonical event: its idempotency key is the record id, its digest   *)
(* covers the payload and the task.                                        *)
Payload(w) ==
  LET r == Upserted(w)
  IN [task |-> w, value |-> r.value, evidence |-> r.evidence, status |-> r.status]
EventConflicts(w) ==
  /\ Target(w) \in DOMAIN runLog[Input[w].run]
  /\ runLog[Input[w].run][Target(w)] # Payload(w)

(* commit_write: record, ledger and event in one transaction, or nothing.  *)
(* The answer may be lost, and the activity is then executed once more.    *)
Answer(w, answer) ==
  \/ writer' = [writer EXCEPT ![w] = answer] /\ lost' = lost
  \/ lost < MaxLost /\ lost' = lost + 1 /\ writer' = writer

CommitWrite(w) ==
  /\ writer[w] = "todo"
  /\ ~UpsertFails(w)
  /\ ~EventConflicts(w)
  /\ rows' = Put(rows, Target(w), Upserted(w))
  /\ ledger' = Note(ledger, Target(w), UpsertEntry(w))
  /\ runLog' = [runLog EXCEPT ![Input[w].run] = Put(@, Target(w), Payload(w))]
  /\ Answer(w, "completed")
  /\ UNCHANGED seen

(* Any exception is answered as an error, which Temporal does not retry.   *)
RollBackWrite(w) ==
  /\ writer[w] = "todo"
  /\ UpsertFails(w) \/ EventConflicts(w)
  /\ Answer(w, "error")
  /\ UNCHANGED <<rows, ledger, runLog, seen>>

-----------------------------------------------------------------------------
(* The Memory Center                                                       *)

(* Each handler looks its record up and checks its status without a lock.  *)
Look(q, op, i) ==
  /\ seen[q] = Idle
  /\ i \in Used
  /\ op = "confirm" => rows[i].status = "candidate"
  /\ op = "revoke" => rows[i].status \in Active
  /\ seen' = [seen EXCEPT ![q] = [op |-> op, id |-> i, row |-> rows[i]]]
  /\ UNCHANGED <<rows, ledger, runLog, writer, lost>>

Asked(q, op) == seen[q] # Idle /\ seen[q].op = op
Answered(q) == seen' = [seen EXCEPT ![q] = [op |-> "none"]]

(* Mutant of Current: the record the handler saw, as it is now.            *)
CurrentById(q) == {seen[q].id}

Current(q) == ActiveUnder(rows, seen[q].row.key)

(* The answer to a request that changed nothing.                           *)
Refuse(q) ==
  /\ seen[q] # Idle
  /\ \/ seen[q].op \in {"revoke", "correct"} /\ Current(q) = {}
     \/ seen[q].op = "confirm" /\ ~\E i \in Current(q) : rows[i].status = "candidate"
  /\ Answered(q)
  /\ UNCHANGED <<rows, ledger, runLog, writer, lost>>

Confirm(q) ==
  /\ Asked(q, "confirm")
  /\ \E i \in Current(q) :
       LET new == [rows[i] EXCEPT !.status = "confirmed", !.age = 0]
       IN /\ rows[i].status = "candidate"
          /\ rows' = [rows EXCEPT ![i] = new]
          /\ ledger' = Note(ledger, i, Entry(new, "candidate.confirmed", "candidate"))
  /\ Answered(q)
  /\ UNCHANGED <<runLog, writer, lost>>

(* Mutant of Forget: a forgotten record gives up its sources too.          *)
ForgetWithSources(r, status) ==
  [r EXCEPT !.status = status, !.value = Redacted, !.evidence = {}, !.tombstone = TRUE, !.age = 0]

(* Revocation and user deletion, with the cascade entries of the handler.  *)
Forget(r, status) ==
  [r EXCEPT !.status = status, !.value = Redacted, !.tombstone = TRUE, !.age = 0]
Revoke(q) ==
  /\ Asked(q, "revoke")
  /\ \E i \in Current(q) :
       LET new == Forget(rows[i], "revoked")
       IN /\ rows' = [rows EXCEPT ![i] = new]
          /\ ledger' = LET revoked == Note(ledger, i, Entry(new, "record.revoked", rows[i].status))
                           index == Note(revoked, i, Entry(new, "record.index_invalidated", "revoked"))
                       IN Note(index, i, Entry(new, "record.cache_invalidated", "revoked"))
  /\ Answered(q)
  /\ UNCHANGED <<runLog, writer, lost>>

(* The correction is a copy of the record the handler saw, whatever its    *)
(* status, with a new id, the value of the request and perhaps another     *)
(* subject; it supersedes the record now active under the key.             *)
Correction(q, k, v) ==
  [seen[q].row EXCEPT !.key = k, !.value = v, !.status = "confirmed",
                      !.version = @ + 1, !.age = 0]

(* Mutant of KeyTaken: the correction is inserted unseen.                  *)
KeyNeverTaken(i, k) == FALSE

(* A correction under another key must not meet an active record there.    *)
KeyTaken(i, k) == k # rows[i].key /\ ActiveUnder(rows, k) # {}

Correct(q, k, v) ==
  /\ Asked(q, "correct")
  /\ \E i \in Current(q), new \in Fresh :
       LET row == Correction(q, k, v)
           old == [rows[i] EXCEPT !.status = "superseded", !.next = new, !.age = 0]
       IN /\ ~KeyTaken(i, k)
          /\ row.next = NoId
          /\ rows' = Put([rows EXCEPT ![i] = old], new, row)
          /\ ledger' = LET superseded == Note(ledger, i, Entry(old, "record.superseded", rows[i].status))
                       IN Note(superseded, new, Entry(row, "record.recorded", "confirmed"))
  /\ Answered(q)
  /\ UNCHANGED <<runLog, writer, lost>>

(* A collision at the new key, or a copy that still names a successor, is  *)
(* refused by the repository or the table and rolls everything back.       *)
RollBackCorrection(q, k) ==
  /\ Asked(q, "correct")
  /\ \E i \in Current(q) : KeyTaken(i, k) \/ seen[q].row.next # NoId
  /\ Answered(q)
  /\ UNCHANGED <<rows, ledger, runLog, writer, lost>>

-----------------------------------------------------------------------------
(* Time and the TTL sweep                                                  *)

(* Mutant of Expirable: the cutoff on the wrong side of the TTL.           *)
ExpirableWhileYoung == {i \in Used : rows[i].status = "candidate" /\ rows[i].age < Ttl}

Expirable == {i \in Used : rows[i].status = "candidate" /\ rows[i].age > Ttl}

Sweep ==
  /\ Expirable # {}
  /\ rows' = [i \in Used |-> IF i \in Expirable THEN Forget(rows[i], "expired") ELSE rows[i]]
  /\ ledger' = [i \in Ids |->
       IF i \in Expirable
       THEN Note(ledger, i, Entry(Forget(rows[i], "expired"), "candidate.expired", "candidate"))[i]
       ELSE ledger[i]]
  /\ UNCHANGED <<runLog, writer, seen, lost>>

Young == {i \in Used : rows[i].status = "candidate" /\ rows[i].age <= Ttl}
Tick ==
  /\ Young # {}
  /\ rows' = [i \in Used |-> IF i \in Young THEN [rows[i] EXCEPT !.age = @ + 1] ELSE rows[i]]
  /\ UNCHANGED <<ledger, runLog, writer, seen, lost>>

-----------------------------------------------------------------------------
Init ==
  /\ rows = [i \in {} |-> NoId]
  /\ ledger = [i \in Ids |-> <<>>]
  /\ runLog = [r \in Runs |-> [i \in {} |-> NoId]]
  /\ writer = [w \in Writers |-> "todo"]
  /\ seen = [q \in Requests |-> Idle]
  /\ lost = 0

Request(q) ==
  \/ \E op \in {"confirm", "revoke", "correct"}, i \in Ids : Look(q, op, i)
  \/ Refuse(q) \/ Confirm(q) \/ Revoke(q)
  \/ \E k \in Keys : RollBackCorrection(q, k) \/ \E v \in Values : Correct(q, k, v)

Next ==
  \/ \E w \in Writers : CommitWrite(w) \/ RollBackWrite(w)
  \/ \E q \in Requests : Request(q)
  \/ Sweep
  \/ Tick

Spec == Init /\ [][Next]_vars

(* Time passes and the schedule starts the sweep again and again.          *)
FairSpec == Spec /\ WF_vars(Tick) /\ WF_vars(Sweep)

-----------------------------------------------------------------------------
(* Properties                                                              *)

TypeOK ==
  /\ Used \subseteq Ids /\ rows \in [Used -> Row]
  /\ ledger \in [Ids -> Seq([action : Actions, from : Status, to : Status, row : Row])]
  /\ DOMAIN runLog = Runs
  /\ writer \in [Writers -> {"todo", "completed", "error"}]
  /\ DOMAIN seen = Requests
  /\ lost \in 0 .. MaxLost

(* A key never has two active records, however writes, corrections under   *)
(* another subject, revocations and retries of a write interleave          *)
(* (_find_active takes the first row it gets).                             *)
OneActivePerKey == \A i, j \in Used :
  rows[i].key = rows[j].key /\ rows[i].status \in Active /\ rows[j].status \in Active => i = j

(* The ledger accounts for every record: its entries chain from status to  *)
(* status and the last one describes the record as it stands, although an  *)
(* entry that was already written is skipped.                              *)
LedgerTellsStatus == \A i \in Ids :
  /\ i \in Used <=> ledger[i] # <<>>
  /\ \A n \in 2 .. Len(ledger[i]) : ledger[i][n].from = ledger[i][n - 1].to
  /\ i \in Used => ledger[i][Len(ledger[i])].row = [rows[i] EXCEPT !.age = 0]

(* What a run's log says was written is in the memory: the record exists   *)
(* under the key of the write and still carries the evidence of the event. *)
EventsAreBacked == \A r \in Runs : \A i \in DOMAIN runLog[r] :
  /\ i \in Used
  /\ rows[i].key = Input[runLog[r][i].task].key
  /\ runLog[r][i].evidence \subseteq rows[i].evidence

(* A superseded, revoked or expired record never changes again: no steward *)
(* acting on an old view of it, retry or sweep revives it or its value.    *)
TerminalIsFinal ==
  [][\A i \in Used : rows[i].status \notin Active => i \in DOMAIN rows' /\ rows'[i] = rows[i]]_vars

(* The queue of candidates converges: each is confirmed, merged into a     *)
(* confirmed record, superseded, revoked or expired in the end.            *)
QueueConverges == \A i \in Ids :
  (i \in Used /\ rows[i].status = "candidate")
    ~> (i \in Used /\ rows[i].status # "candidate")

(* Once a record is revoked or expired its value is gone from the records  *)
(* and from the logs of runs (docs/PERMISSIONS.md:208-209).                *)
ForgottenLeavesNoValue == \A i \in Used : rows[i].status \in Forgotten =>
  \A r \in Runs : i \in DOMAIN runLog[r] => runLog[r][i].value = Redacted
=============================================================================
