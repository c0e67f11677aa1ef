------------------------------ MODULE EvalRuns ------------------------------
(***************************************************************************)
(* Evaluation runs and campaigns (evals/runs.py, evals/campaigns.py) over  *)
(* the artifacts of their workspace.  Each operation is one transaction:   *)
(* it takes the row lock of its run or campaign, uploads what it has to,   *)
(* and commits.  What an upload or a statement before the lock has read is *)
(* carried in the view of the transaction.                                 *)
(***************************************************************************)
EXTENDS ArtifactStore

CONSTANTS
  Runs, Units,
  Results,            \* terminal outcomes of a unit
  Registered,         \* a unit without an outcome
  CampaignOf,         \* the campaign of each run
  Datasets,           \* the size of the registry of a suite
  DatasetOf,          \* the dataset each run is created with: its place in
                      \* the sorted registry
  NoSeal,
  Casts               \* [op, born]: what each transaction does, and the runs
                      \* that are there at the start

ASSUME EvalAssumption ==
  /\ Registered \notin Results
  /\ Datasets \in Nat /\ DatasetOf \in [Runs -> 1 .. Datasets]
  /\ \A cast \in Casts :
       /\ cast.born \subseteq Runs
       /\ \A t \in Txs :
            /\ cast.op[t].run \in Runs
            /\ cast.op[t].runs \in Seq(Runs)
            /\ cast.op[t].kind = "record" =>
                 cast.op[t].unit \in Units /\ cast.op[t].result \in Results
       /\ \A q, r \in cast.born : DatasetOf[q] = DatasetOf[r] => q = r

(* Creations name their runs and campaigns with fresh identities.          *)
FreshFor(cast, t, r) ==
  /\ \A q \in cast.born : CampaignOf[q] # CampaignOf[r]
  /\ \A s \in Txs \ {t} : cast.op[s].kind = "create" =>
       \A n \in DOMAIN cast.op[s].runs : CampaignOf[cast.op[s].runs[n]] # CampaignOf[r]

ASSUME FreshAssumption == \A cast \in Casts, t \in Txs :
  cast.op[t].kind = "create" =>
    \A n \in DOMAIN cast.op[t].runs : FreshFor(cast, t, cast.op[t].runs[n])

InRegistryOrder(s) ==
  \A m, n \in DOMAIN s : m < n => DatasetOf[s[m]] < DatasetOf[s[n]]

Arrangements(runs) == [DOMAIN runs -> {runs[n] : n \in DOMAIN runs}]

(* A registry with duplicates is refused, so runs can be arranged in       *)
(* the order of the registry.                                              *)
ASSUME RegistryAssumption == \A cast \in Casts, t \in Txs :
  cast.op[t].kind = "create" =>
    \E s \in Arrangements(cast.op[t].runs) : InRegistryOrder(s)

VARIABLES
  op,                 \* what each transaction is to do
  status,             \* eval_runs.status, "absent" before the run is created
  samples,            \* eval_samples: the outcome of each unit
  campaign,           \* eval_campaigns.status
  sealEvent,          \* the seal in the run's eval.run.sealed event
  view                \* the status and outcomes a transaction has read of its run

evalVars == <<op, status, samples, campaign, sealEvent, view>>
vars == <<storeVars, evalVars>>

Campaigns == {CampaignOf[r] : r \in Runs}
Children(g) == {r \in Runs : CampaignOf[r] = g /\ status[r] # "absent"}

Kind(t) == op[t].kind
Run(t) == op[t].run
RunLock(r) == <<"run", r>>
CampaignLock(g) == <<"campaign", g>>

(* Contents of objects.  A seal holds the outcomes and the manifest of the *)
(* test report, which is told apart by the transaction that inserted it.   *)
Dataset(r) == <<"eval.dataset", DatasetOf[r]>>
TestReport(t) == <<"gate.test-report", op[t].report>>
Report(t) == <<"eval.report", Run(t), op[t].report>>
SealOf(r, by, outcomes) == <<"eval.sealed-run", r, by, outcomes>>

DatasetOwner(r) == <<"dataset_version", r>>
ReportOwner(r) == <<"eval_test_report", r>>
SealOwner(r) == <<"eval_run", r>>

ReportRow(t) == CHOOSE m \in RowsOf(t, TestReport(t)) : TRUE
SealContent(t) == SealOf(Run(t), ReportRow(t).by, view[t].outcomes)

Created(t) == {op[t].runs[n] : n \in DOMAIN op[t].runs}

(* Mutant of ChildrenToCreate: the registry is not sorted.                 *)
ChildrenAsGiven(t) == op[t].runs

(* The registry is sorted before it is cut, so children are created in the *)
(* order of their datasets.                                                *)
ChildrenToCreate(t) ==
  CHOOSE s \in Arrangements(op[t].runs) : InRegistryOrder(s)

UploadsOf(t) ==
  CASE Kind(t) = "create" ->
         [n \in DOMAIN op[t].runs |->
            [content |-> Dataset(ChildrenToCreate(t)[n]),
             owner |-> DatasetOwner(ChildrenToCreate(t)[n])]]
    [] Kind(t) = "seal" ->
         <<[content |-> TestReport(t), owner |-> ReportOwner(Run(t))],
           [content |-> IF uploads[t] = 0 THEN <<>> ELSE SealContent(t),
            owner |-> SealOwner(Run(t))]>>
    [] Kind(t) = "report" -> <<[content |-> Report(t), owner |-> SealOwner(Run(t))]>>
    [] OTHER -> <<>>

Uploaded(t) == pc[t] = "upload" /\ uploads[t] = Len(UploadsOf(t))

-----------------------------------------------------------------------------
(* Taking the row lock                                                     *)

Complete(r) == \A u \in Units : samples[r][u] # Registered

(* What EvalRunState allows of a run that has this status.                 *)
Allowed(t, seen) ==
  /\ seen \notin {"absent", "sealed"}
  /\ Kind(t) = "record" => samples[Run(t)][op[t].unit] = Registered
  /\ Kind(t) = "seal" => Complete(Run(t)) /\ Dataset(Run(t)) \in objects

Reads(t, seen) ==
  view' = [view EXCEPT ![t] = [status |-> seen, outcomes |-> samples[Run(t)]]]

(* resume_child loads the run before the row lock is taken; the locked row *)
(* is then answered from the session's identity map.                       *)
Seen(t) == IF pc[t] = "peeked" THEN view[t].status ELSE status[Run(t)]

(* Mutant of AwaitedRun: the row is read without FOR UPDATE.               *)
AwaitedNothing(t) == <<"unlocked", t>>

AwaitedRun(t) == RunLock(Run(t))

LockRun(t) ==
  /\ \/ pc[t] = "start" /\ Kind(t) \in {"record", "pause", "resume", "seal"}
     \/ pc[t] = "peeked"
  /\ Free(t, AwaitedRun(t))
  /\ \/ /\ Allowed(t, Seen(t))
        /\ locks' = Taken(t, AwaitedRun(t))
        /\ Goes(t, "upload")
        /\ Reads(t, Seen(t))
        /\ UNCHANGED <<objects, temps, manifests, draft, uploads, target, todo>>
     \/ /\ ~Allowed(t, Seen(t))
        /\ RollBack(t, "refused")
        /\ UNCHANGED <<objects, temps, view>>
  /\ UNCHANGED <<op, status, samples, campaign, sealEvent>>

(* Mutant of AwaitedCampaign: the campaign is read without FOR UPDATE.     *)
AwaitedNoCampaign(t) == <<"unlocked", t>>

AwaitedCampaign(t) == CampaignLock(CampaignOf[Run(t)])

MayComplete(g) == Children(g) # {} /\ \A r \in Children(g) : status[r] = "sealed"

LockCampaign(t) ==
  LET g == CampaignOf[Run(t)] IN
  /\ pc[t] = "start" /\ Kind(t) \in {"complete", "resumeChild"}
  /\ Free(t, AwaitedCampaign(t))
  /\ \/ /\ campaign[g] = "running"
        /\ Kind(t) = "complete" => MayComplete(g)
        /\ locks' = Taken(t, AwaitedCampaign(t))
        /\ IF Kind(t) = "complete"
           THEN Goes(t, "upload") /\ UNCHANGED view
           ELSE Goes(t, "peeked") /\ Reads(t, status[Run(t)])
        /\ UNCHANGED <<objects, temps, manifests, draft, uploads, target, todo>>
     \/ /\ campaign[g] # "running" \/ (Kind(t) = "complete" /\ ~MayComplete(g))
        /\ RollBack(t, "refused")
        /\ UNCHANGED <<objects, temps, view>>
  /\ UNCHANGED <<op, status, samples, campaign, sealEvent>>

-----------------------------------------------------------------------------
(* verify_sealed, on its own and before a report is sealed                 *)

SealRows(r) == {m \in manifests : m.owner = SealOwner(r)}

(* The row found under the owner is the seal, and all it names is there.   *)
Verifies(r, m) ==
  /\ m.content[1] = "eval.sealed-run" /\ m.content[2] = r
  /\ {m.content, Dataset(r)} \subseteq objects
  /\ \E report \in manifests : report.by = m.content[3]
       /\ report.owner = ReportOwner(r) /\ report.content \in objects

(* The statement that looks for the seal has no order and takes no heed of *)
(* the schema: any row of the owner may be the first.                      *)
Verify(t) ==
  /\ pc[t] = "start" /\ Kind(t) \in {"verify", "report"}
  /\ LET r == Run(t) IN
     \/ status[r] # "sealed" /\ RollBack(t, "refused")
     \/ /\ status[r] = "sealed"
        /\ \/ SealRows(r) = {} /\ RollBack(t, "unverified")
           \/ \E m \in SealRows(r) :
                \/ ~Verifies(r, m) /\ RollBack(t, "unverified")
                \/ /\ Verifies(r, m)
                   /\ Goes(t, "upload")
                   /\ UNCHANGED <<manifests, draft, locks, uploads, target, todo>>
  /\ UNCHANGED <<objects, temps, evalVars>>

-----------------------------------------------------------------------------
(* Creation, uploads and the commit                                        *)

(* create locks no row: its runs are new.                                  *)
BeginCreate(t) ==
  /\ pc[t] = "start" /\ Kind(t) = "create"
  /\ Goes(t, "upload")
  /\ UNCHANGED <<objects, temps, manifests, draft, locks, uploads, target, todo, evalVars>>

DoUpload(t) ==
  /\ \/ /\ pc[t] = "upload" /\ uploads[t] < Len(UploadsOf(t))
        /\ WriteTemporary(t, UploadsOf(t)[uploads[t] + 1])
     \/ Upload(t)
  /\ UNCHANGED evalVars

(* The idempotency key of the event is that of the run, so another seal of *)
(* the run is another command under its key.                               *)
KeyTaken(t) == Kind(t) = "seal" /\ sealEvent[Run(t)] \notin {NoSeal, SealContent(t)}

Conflict(t) ==
  /\ Uploaded(t)
  /\ KeyTaken(t)
  /\ RollBack(t, "refused")
  /\ UNCHANGED <<objects, temps, evalVars>>

(* The statuses that t writes; a status it read and leaves is not written. *)
NewStatus(t) == [r \in Runs |->
  CASE Kind(t) = "create" /\ r \in Created(t) -> "running"
    [] Kind(t) = "seal" /\ r = Run(t) -> "sealed"
    [] Kind(t) = "pause" /\ r = Run(t) /\ view[t].status # "partial" -> "partial"
    [] Kind(t) \in {"resume", "resumeChild"} /\ r = Run(t) /\ view[t].status # "running" -> "running"
    [] OTHER -> status[r]]

Commit(t) ==
  /\ Uploaded(t)
  /\ ~KeyTaken(t)
  /\ CommitRows(t)
  /\ status' = NewStatus(t)
  /\ samples' = IF Kind(t) = "record"
                THEN [samples EXCEPT ![Run(t)][op[t].unit] = op[t].result] ELSE samples
  /\ campaign' = [g \in Campaigns |->
       CASE Kind(t) = "create" /\ \E r \in Created(t) : CampaignOf[r] = g -> "running"
         [] Kind(t) = "complete" /\ g = CampaignOf[Run(t)] -> "completed"
         [] OTHER -> campaign[g]]
  /\ sealEvent' = IF Kind(t) = "seal"
                  THEN [sealEvent EXCEPT ![Run(t)] = SealContent(t)] ELSE sealEvent
  /\ UNCHANGED <<op, view>>

-----------------------------------------------------------------------------
Reconcile(t) ==
  /\ \/ Kind(t) = "reconcile" /\ ReconcileOrphans(t)
     \/ Kind(t) = "reconcileTemporary" /\ ReconcileTemporary(t)
     \/ EndReconcile(t)
  /\ UNCHANGED evalVars

(* A process dies, in a promotion perhaps between the link and the unlink; *)
(* or its connection does, and its next statement fails.                   *)
Crash(t) ==
  /\ Live(t) /\ pc[t] # "start"
  /\ RollBack(t, "failed")
  /\ objects' \in {objects} \cup
       {objects \cup {target[t].content} : x \in {y \in {t} : pc[y] = "promote"}}
  /\ UNCHANGED <<temps, evalVars>>

FailUpload(t) == FailPromotion(t) /\ UNCHANGED evalVars

(* The connection dies before a step on files.                             *)
Disconnect(t) ==
  /\ LoseConnection(t) \/ FinishAlone(t)
  /\ UNCHANGED evalVars

(* Whom a transaction waits for.                                           *)
Awaited(t) ==
  CASE pc[t] = "lockTemporary" -> TemporaryLock(File(t))
    [] pc[t] = "lockObject" -> UploadLock(t)
    [] pc[t] = "lockOrphan" -> OrphanLock(t)
    [] pc[t] = "lockStale" -> StaleLock(t)
    [] pc[t] = "peeked" -> AwaitedRun(t)
    [] pc[t] = "start" /\ Kind(t) \in {"record", "pause", "resume", "seal"} -> AwaitedRun(t)
    [] pc[t] = "start" /\ Kind(t) \in {"complete", "resumeChild"} -> AwaitedCampaign(t)
    [] OTHER -> <<"nothing", t>>

WaitsFor(t, s) == s # t /\ <<Awaited(t), s>> \in locks
Circle(S) == S # {} /\ \A t \in S : \E s \in S : WaitsFor(t, s)

(* PostgreSQL aborts one transaction of a circle.                          *)
Victim(t) ==
  /\ Live(t)
  /\ \E S \in SUBSET Txs : t \in S /\ Circle(S)
  /\ RollBack(t, "failed")
  /\ UNCHANGED <<objects, temps, evalVars>>

Works(t) ==
  \/ LockRun(t) \/ LockCampaign(t) \/ Verify(t) \/ BeginCreate(t)
  \/ DoUpload(t) \/ Conflict(t) \/ Commit(t) \/ Reconcile(t)

Init ==
  /\ \E cast \in Casts :
       /\ op = cast.op
       /\ status = [r \in Runs |-> IF r \in cast.born THEN "running" ELSE "absent"]
       /\ campaign = [g \in Campaigns |->
            IF \E r \in cast.born : CampaignOf[r] = g THEN "running" ELSE "absent"]
       /\ manifests = {[content |-> Dataset(r), owner |-> DatasetOwner(r), by |-> NoTx] :
                         r \in cast.born}
       /\ objects = {Dataset(r) : r \in cast.born}
  /\ samples = [r \in Runs |-> [u \in Units |-> Registered]]
  /\ sealEvent = [r \in Runs |-> NoSeal]
  /\ temps = {} /\ locks = {}
  /\ draft = [t \in Txs |-> {}]
  /\ pc = [t \in Txs |-> "start"]
  /\ uploads = [t \in Txs |-> 0]
  /\ target = [t \in Txs |-> Nothing]
  /\ todo = [t \in Txs |-> {}]
  /\ view = [t \in Txs |->
       [status |-> "absent", outcomes |-> [u \in Units |-> Registered]]]

Next == \E t \in Txs :
  Works(t) \/ FailUpload(t) \/ Crash(t) \/ Disconnect(t) \/ Victim(t)

Spec == Init /\ [][Next]_vars

-----------------------------------------------------------------------------
(* Properties                                                              *)

Places == Ended \cup {"start", "peeked", "upload", "lockTemporary", "lockObject",
                      "promote", "manifest", "orphans", "lockOrphan", "look", "delete",
                      "temporaries", "lockStale", "unlink"}

TypeOK ==
  /\ pc \in [Txs -> Places]
  /\ status \in [Runs -> {"absent", "running", "partial", "sealed"}]
  /\ view \in [Txs -> [status : {"absent", "running", "partial", "sealed"},
                       outcomes : [Units -> Results \cup {Registered}]]]
  /\ samples \in [Runs -> [Units -> Results \cup {Registered}]]
  /\ campaign \in [Campaigns -> {"absent", "running", "completed"}]
  /\ \A held \in locks : Live(held[2])

SealManifests == {m \in manifests : m.content[1] = "eval.sealed-run"}

(* A seal that is committed tells the outcomes of all units of its run as  *)
(* they are, ever after, although they are read before its two uploads.    *)
SealsTellTheOutcomes == \A m \in SealManifests :
  LET r == m.content[2] IN
  /\ m.owner = SealOwner(r)
  /\ Complete(r) /\ m.content[4] = samples[r]

(* A completed campaign has none but sealed children, while they can be    *)
(* resumed beside its completion.                                          *)
CompletedMeansSealed == \A r \in Runs :
  campaign[CampaignOf[r]] = "completed" /\ status[r] # "absent" => status[r] = "sealed"

(* No circle of waiting transactions without a reconciliation, which locks *)
(* in the order of keys what creations lock in the order of the registry.  *)
CirclesNeedAReconciler == \A S \in SUBSET Txs :
  Circle(S) => \E t \in S : Kind(t) \in {"reconcile", "reconcileTemporary"}

(* "sealed: no transition is allowed any more" (RunPhase): a run whose     *)
(* seal is committed is sealed.                                            *)
SealedStaysSealed == \A r \in Runs : sealEvent[r] # NoSeal => status[r] = "sealed"

(* A sealed run is found sealed by whoever verifies it.                    *)
SealsVerify == \A t \in Txs : pc[t] # "unverified"
=============================================================================
