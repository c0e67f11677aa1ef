-------------------------- MODULE EvalRunsProofs --------------------------
(***************************************************************************)
(* Proofs about EvalRuns and the artifact store below it: a manifest has   *)
(* its object and an object one manifest, because the advisory lock of an  *)
(* object is kept until the commit; a completed campaign has only sealed   *)
(* runs, because the rows that decide are locked from their reading on.    *)
(***************************************************************************)
EXTENDS EvalRuns, WellFoundedInduction, TLAPS

-----------------------------------------------------------------------------
(* The inductive invariant of the store                                    *)

Shape == DOMAIN pc = Txs /\ DOMAIN draft = Txs /\ DOMAIN target = Txs

OneHolder == \A a, b \in locks : a[1] = b[1] => a[2] = b[2]

Has(t, c) == <<ObjectLock(c), t>> \in locks
NoManifest(c) == \A m \in manifests : m.content # c

(* An object that is needed is there, or was deleted by a reconciliation   *)
(* that had lost its lock.                                                 *)
Kept(c) == c \in objects \/ Strayed(c)

(* What a transaction has inserted is of an object that it has locked, that*)
(* is there, and that has no other manifest.                               *)
DraftHeld(t) == \A m \in draft[t] :
  /\ Has(t, m.content)
  /\ Kept(m.content)
  /\ NoManifest(m.content)
  /\ \A n \in draft[t] : n.content = m.content => n = m

WorkHeld(t) ==
  /\ pc[t] \in {"promote", "manifest", "look", "delete"} => Has(t, target[t].content)
  /\ pc[t] = "manifest" => Kept(target[t].content)
  /\ pc[t] = "delete" => NoManifest(target[t].content)

(* Reconciliations insert nothing.                                         *)
Empty == {"start", "orphans", "lockOrphan", "look", "delete",
          "temporaries", "lockStale", "unlink"}
NothingInserted(t) == pc[t] \in Empty => draft[t] = {}

StoreInv ==
  /\ Shape /\ OneHolder
  /\ ManifestsHaveObjects /\ OneManifestPerObject
  /\ \A t \in Txs : DraftHeld(t) /\ WorkHeld(t) /\ NothingInserted(t)

-----------------------------------------------------------------------------
(* The inductive invariant of the rows                                     *)

Uploading(t) == pc[t] \in {"upload", "lockTemporary", "lockObject", "promote", "manifest"}

(* A transaction that has locked a run has read the status that is there;  *)
(* only resume_child may have read another.                                *)
RunHeld(t) ==
  Uploading(t) /\ Kind(t) \in {"record", "pause", "resume", "seal", "resumeChild"} =>
    /\ <<RunLock(Run(t)), t>> \in locks
    /\ Kind(t) # "resumeChild" => status[Run(t)] \notin {"absent", "sealed"}

OnCampaign(t) ==
  \/ pc[t] = "peeked"
  \/ Uploading(t) /\ Kind(t) \in {"complete", "resumeChild"}

CampaignHeld(t) == OnCampaign(t) =>
     LET g == CampaignOf[Run(t)] IN
     /\ <<CampaignLock(g), t>> \in locks
     /\ campaign[g] = "running"
     /\ Kind(t) \in {"complete", "resumeChild"}
     /\ Kind(t) = "complete" => pc[t] # "peeked" /\ MayComplete(g)

(* What is still to be created is not there.                               *)
StillFresh(t) == Kind(t) = "create" /\ Live(t) =>
  \A r \in Created(t) :
    /\ campaign[CampaignOf[r]] = "absent"
    /\ \A q \in Runs : CampaignOf[q] = CampaignOf[r] => status[q] = "absent"

RowTypes ==
  /\ \E cast \in Casts : op = cast.op
  /\ DOMAIN status = Runs
  /\ DOMAIN campaign = Campaigns
  /\ \A t \in Txs : Run(t) \in Runs /\ Created(t) \subseteq Runs

RowInv ==
  /\ RowTypes /\ CompletedMeansSealed
  /\ \A t \in Txs : RunHeld(t) /\ CampaignHeld(t) /\ StillFresh(t)

-----------------------------------------------------------------------------
(* Steps that write neither objects nor manifests                          *)

(* A step of another transaction, or of this one before it has strayed.    *)
LEMMA StayKept ==
  ASSUME Shape, NEW t \in Txs, NEW place, Goes(t, place), pc[t] # "strayed",
         \A s \in Txs \ {t} : target'[s] = target[s],
         NEW c, Kept(c), c \in objects => c \in objects'
  PROVE  Kept(c)'
<1>1. CASE c \in objects BY <1>1 DEF Kept
<1>2. CASE Strayed(c)
  <2>1. PICK s \in Txs : pc[s] = "strayed" /\ target[s].content = c BY <1>2 DEF Strayed
  <2>2. s # t /\ pc'[s] = "strayed" /\ target'[s] = target[s] BY <2>1 DEF Shape, Goes
  <2> QED BY <2>1, <2>2 DEF Kept, Strayed
<1> QED BY <1>1, <1>2 DEF Kept

LEMMA QuietStep ==
  ASSUME StoreInv, NEW t \in Txs, NEW place, Goes(t, place),
         place \notin {"promote", "manifest", "look", "delete"},
         place \in Empty => pc[t] \in Empty,
         UNCHANGED <<objects, manifests, draft, locks>>,
         DOMAIN target' = Txs, \A s \in Txs \ {t} : target'[s] = target[s],
         pc[t] # "strayed"
  PROVE  StoreInv'
<1>1. Shape' BY DEF StoreInv, Shape, Goes
<1>k. \A c : Kept(c) => Kept(c)' BY StayKept DEF StoreInv
<1>2. OneHolder' /\ ManifestsHaveObjects' /\ OneManifestPerObject'
  BY <1>k DEF StoreInv, OneHolder, ManifestsHaveObjects, Kept, OneManifestPerObject
<1>3. ASSUME NEW s \in Txs PROVE DraftHeld(s)' /\ NothingInserted(s)' /\ WorkHeld(s)'
  <2>1. DraftHeld(s)' BY <1>k DEF StoreInv, DraftHeld, Has, NoManifest
  <2>2. pc'[s] = IF s = t THEN place ELSE pc[s] BY DEF StoreInv, Shape, Goes
  <2>3. NothingInserted(s)' BY <2>2 DEF StoreInv, NothingInserted
  <2>4. WorkHeld(s)' BY <1>k, <2>2 DEF StoreInv, WorkHeld, Has, NoManifest
  <2> QED BY <2>1, <2>3, <2>4
<1> QED BY <1>1, <1>2, <1>3 DEF StoreInv

LEMMA LockStep ==
  ASSUME StoreInv, NEW t \in Txs, NEW place, NEW l, Goes(t, place),
         Free(t, l), locks' = Taken(t, l),
         place \notin {"manifest", "delete"},
         place \in {"promote", "look"} => l = ObjectLock(target[t].content),
         place \in Empty => pc[t] \in Empty,
         UNCHANGED <<objects, manifests, draft, target>>, pc[t] # "strayed"
  PROVE  StoreInv'
<1>1. Shape' BY DEF StoreInv, Shape, Goes
<1>k. \A c : Kept(c) => Kept(c)' BY StayKept DEF StoreInv
<1>2. ManifestsHaveObjects' /\ OneManifestPerObject'
  BY <1>k DEF StoreInv, ManifestsHaveObjects, Kept, OneManifestPerObject
<1>3. OneHolder' BY DEF StoreInv, OneHolder, Free, Taken
<1>4. ASSUME NEW s, NEW c, Has(s, c) PROVE Has(s, c)' BY <1>4 DEF Has, Taken
<1>5. ASSUME NEW s \in Txs PROVE DraftHeld(s)' /\ NothingInserted(s)' /\ WorkHeld(s)'
  <2>1. DraftHeld(s)' BY <1>k, <1>4 DEF StoreInv, DraftHeld, NoManifest
  <2>2. pc'[s] = IF s = t THEN place ELSE pc[s] BY DEF StoreInv, Shape, Goes
  <2>3. NothingInserted(s)' BY <2>2 DEF StoreInv, NothingInserted
  <2>4. CASE s # t BY <1>k, <2>1, <2>2, <2>3, <2>4, <1>4 DEF StoreInv, WorkHeld, NoManifest
  <2>5. CASE s = t
    <3>1. place \in {"promote", "look"} => Has(t, target[t].content)'
      BY DEF Has, Taken
    <3> QED BY <2>1, <2>2, <2>3, <2>5, <3>1 DEF WorkHeld
  <2> QED BY <2>4, <2>5
<1> QED BY <1>1, <1>2, <1>3, <1>5 DEF StoreInv

-----------------------------------------------------------------------------
(* The ends of a transaction                                               *)

LEMMA Keeps ==
  ASSUME NEW t, NEW s, s # t, locks' = Released(t), NEW c, Has(s, c)
  PROVE  Has(s, c)'
BY DEF Released, Has

LEMMA RollBackStep ==
  ASSUME StoreInv, NEW t \in Txs, NEW answer \in Ended, RollBack(t, answer),
         objects \subseteq objects', pc[t] # "strayed"
  PROVE  StoreInv'
<1>1. Shape' BY DEF StoreInv, Shape, RollBack, Goes
<1>k. \A c : Kept(c) => Kept(c)' BY StayKept DEF StoreInv, RollBack
<1>2. ManifestsHaveObjects' /\ OneManifestPerObject'
  BY <1>k DEF StoreInv, ManifestsHaveObjects, Kept, OneManifestPerObject, RollBack
<1>3. OneHolder' BY DEF StoreInv, OneHolder, RollBack, Released
<1>4. ASSUME NEW s \in Txs PROVE DraftHeld(s)' /\ NothingInserted(s)' /\ WorkHeld(s)'
  <2>1. CASE s = t
    <3>1. draft'[s] = {} /\ pc'[s] = answer
      BY <2>1 DEF StoreInv, Shape, RollBack, Goes
    <3> QED BY <3>1 DEF DraftHeld, NothingInserted, WorkHeld, Ended
  <2>2. CASE s # t
    <3>1. draft'[s] = draft[s] /\ pc'[s] = pc[s] /\ target'[s] = target[s]
      BY <2>2 DEF StoreInv, Shape, RollBack, Goes
    <3>2. ASSUME NEW c, Has(s, c) PROVE Has(s, c)' BY <2>2, <3>2, Keeps DEF RollBack
    <3>3. ASSUME NEW c, NoManifest(c) PROVE NoManifest(c)'
      BY <3>3 DEF RollBack, NoManifest
    <3>4. DraftHeld(s)' BY <1>k, <3>1, <3>2, <3>3 DEF StoreInv, DraftHeld
    <3>5. WorkHeld(s)' BY <1>k, <3>1, <3>2, <3>3 DEF StoreInv, WorkHeld
    <3>6. NothingInserted(s)' BY <3>1 DEF StoreInv, NothingInserted
    <3> QED BY <3>4, <3>5, <3>6
  <2> QED BY <2>1, <2>2
<1> QED BY <1>1, <1>2, <1>3, <1>4 DEF StoreInv

(* What becomes a manifest has been locked, so no other transaction is at  *)
(* work on its object.                                                     *)
LEMMA CommitStep ==
  ASSUME StoreInv, NEW t \in Txs, CommitRows(t), pc[t] # "strayed"
  PROVE  StoreInv'
<1>1. Shape' BY DEF StoreInv, Shape, CommitRows, Goes
<1>k. \A c : Kept(c) => Kept(c)' BY StayKept DEF StoreInv, CommitRows
<1>2. ManifestsHaveObjects'
  BY <1>k DEF StoreInv, ManifestsHaveObjects, Kept, CommitRows, DraftHeld
<1>3. OneManifestPerObject'
  BY DEF StoreInv, OneManifestPerObject, CommitRows, DraftHeld, NoManifest
<1>4. OneHolder' BY DEF StoreInv, OneHolder, CommitRows, Released
<1>5. ASSUME NEW s \in Txs PROVE DraftHeld(s)' /\ NothingInserted(s)' /\ WorkHeld(s)'
  <2>1. CASE s = t
    <3>1. draft'[s] = {} /\ pc'[s] = "done"
      BY <2>1 DEF StoreInv, Shape, CommitRows, Goes
    <3> QED BY <3>1 DEF DraftHeld, NothingInserted, WorkHeld, Empty
  <2>2. CASE s # t
    <3>1. draft'[s] = draft[s] /\ pc'[s] = pc[s] /\ target'[s] = target[s]
      BY <2>2 DEF StoreInv, Shape, CommitRows, Goes
    <3>2. ASSUME NEW c, Has(s, c) PROVE Has(s, c)' BY <2>2, <3>2, Keeps DEF CommitRows
    <3>3. ASSUME NEW c, NoManifest(c), Has(s, c) PROVE NoManifest(c)'
      <4>1. ASSUME NEW m \in draft[t] PROVE m.content # c
        <5>1. Has(t, m.content) BY <4>1 DEF StoreInv, DraftHeld
        <5> QED BY <2>2, <3>3, <5>1 DEF StoreInv, OneHolder, Has
      <4> QED BY <3>3, <4>1 DEF CommitRows, NoManifest
    <3>4. DraftHeld(s)' BY <1>k, <3>1, <3>2, <3>3 DEF StoreInv, DraftHeld, CommitRows
    <3>5. WorkHeld(s)' BY <1>k, <3>1, <3>2, <3>3 DEF StoreInv, WorkHeld, CommitRows
    <3>6. NothingInserted(s)' BY <3>1 DEF StoreInv, NothingInserted
    <3> QED BY <3>4, <3>5, <3>6
  <2> QED BY <2>1, <2>2
<1> QED BY <1>1, <1>2, <1>3, <1>4, <1>5 DEF StoreInv

-----------------------------------------------------------------------------
(* Uploads and deletions                                                   *)

LEMMA PromoteStep ==
  ASSUME StoreInv, NEW t \in Txs, Promote(t)
  PROVE  StoreInv'
<1> USE DEF Promote
<1>1. Shape' BY DEF StoreInv, Shape, Goes
<1>k. \A c : Kept(c) => Kept(c)' BY StayKept DEF StoreInv
<1>2. OneHolder' /\ ManifestsHaveObjects' /\ OneManifestPerObject'
  BY <1>k DEF StoreInv, OneHolder, ManifestsHaveObjects, Kept, OneManifestPerObject
<1>3. ASSUME NEW s \in Txs PROVE DraftHeld(s)' /\ NothingInserted(s)' /\ WorkHeld(s)'
  <2>1. DraftHeld(s)' BY <1>k DEF StoreInv, DraftHeld, Has, NoManifest
  <2>2. pc'[s] = IF s = t THEN "manifest" ELSE pc[s] BY DEF StoreInv, Shape, Goes
  <2>3. NothingInserted(s)' BY <2>2 DEF StoreInv, NothingInserted, Empty
  <2>4. Has(t, target[t].content) BY DEF StoreInv, WorkHeld
  <2>5. WorkHeld(s)' BY <1>k, <2>2, <2>4 DEF StoreInv, WorkHeld, Has, NoManifest, Kept
  <2> QED BY <2>1, <2>3, <2>5
<1> QED BY <1>1, <1>2, <1>3 DEF StoreInv

LEMMA InsertStep ==
  ASSUME StoreInv, NEW t \in Txs, InsertManifest(t)
  PROVE  StoreInv'
<1> USE DEF InsertManifest
<1> DEFINE c == target[t].content
           row == [content |-> c, owner |-> target[t].owner, by |-> t]
<1>1. Shape' BY DEF StoreInv, Shape, Goes
<1>k. \A d : Kept(d) => Kept(d)' BY StayKept DEF StoreInv
<1>2. OneHolder' /\ ManifestsHaveObjects' /\ OneManifestPerObject'
  BY <1>k DEF StoreInv, OneHolder, ManifestsHaveObjects, Kept, OneManifestPerObject
<1>3. ASSUME NEW s \in Txs PROVE DraftHeld(s)' /\ NothingInserted(s)' /\ WorkHeld(s)'
  <2>1. pc'[s] = IF s = t THEN "upload" ELSE pc[s] BY DEF StoreInv, Shape, Goes
  <2>2. WorkHeld(s)' BY <1>k, <2>1 DEF StoreInv, WorkHeld, Has, NoManifest
  <2>3. s # t => draft'[s] = draft[s] BY DEF StoreInv, Shape
  <2>4. NothingInserted(s)' BY <2>1, <2>3 DEF StoreInv, NothingInserted, Empty
  <2>5. Has(t, c) /\ Kept(c) BY DEF StoreInv, WorkHeld
  <2>6. CASE s # t \/ Existing(t) # {}
    <3>1. draft'[s] = draft[s] BY <2>3, <2>6 DEF StoreInv, Shape
    <3> QED BY <1>k, <2>2, <2>4, <3>1 DEF StoreInv, DraftHeld, Has, NoManifest
  <2>7. CASE s = t /\ Existing(t) = {}
    <3>1. draft'[t] = draft[t] \cup {row} BY <2>7 DEF StoreInv, Shape
    <3>2. row.content = c OBVIOUS
    <3>3. \A m \in manifests \cup draft[t] : m.content # c
      BY <2>7 DEF Existing, RowsOf, Visible
    <3>4. DraftHeld(t) BY DEF StoreInv
    <3>5. ASSUME NEW m \in draft'[t]
          PROVE  /\ Has(t, m.content)' /\ Kept(m.content)' /\ NoManifest(m.content)'
                 /\ \A n \in draft'[t] : n.content = m.content => n = m
      <4> HIDE DEF row
      <4>1. CASE m = row
        BY <4>1, <1>k, <2>5, <3>1, <3>2, <3>3 DEF Has, NoManifest
      <4>2. CASE m \in draft[t]
        BY <4>2, <1>k, <3>1, <3>2, <3>3, <3>4 DEF DraftHeld, Has, NoManifest
      <4> QED BY <3>1, <4>1, <4>2
    <3> QED BY <2>2, <2>4, <2>7, <3>5 DEF DraftHeld
  <2> QED BY <2>6, <2>7
<1> QED BY <1>1, <1>2, <1>3 DEF StoreInv

LEMMA LookUpStep ==
  ASSUME StoreInv, NEW t \in Txs, LookUp(t)
  PROVE  StoreInv'
<1> USE DEF LookUp
<1>1. Shape' BY DEF StoreInv, Shape, Goes
<1>k. \A c : Kept(c) => Kept(c)' BY StayKept DEF StoreInv
<1>2. OneHolder' /\ ManifestsHaveObjects' /\ OneManifestPerObject'
  BY <1>k DEF StoreInv, OneHolder, ManifestsHaveObjects, Kept, OneManifestPerObject
<1>3. ASSUME NEW s \in Txs PROVE DraftHeld(s)' /\ NothingInserted(s)' /\ WorkHeld(s)'
  <2>1. DraftHeld(s)' BY <1>k DEF StoreInv, DraftHeld, Has, NoManifest
  <2>2. pc'[s] = IF s = t THEN "delete" ELSE pc[s] BY DEF StoreInv, Shape, Goes
  <2>3. NothingInserted(s)' BY <2>2 DEF StoreInv, NothingInserted, Empty
  <2>4. Has(t, target[t].content) BY DEF StoreInv, WorkHeld
  <2>5. NoManifest(target[t].content) BY DEF NoManifest, RowsOf, Visible
  <2>6. WorkHeld(s)' BY <1>k, <2>2, <2>4, <2>5 DEF StoreInv, WorkHeld, Has, NoManifest
  <2> QED BY <2>1, <2>3, <2>6
<1> QED BY <1>1, <1>2, <1>3 DEF StoreInv

(* The object that is deleted is locked by the reconciliation, which has   *)
(* inserted nothing itself.                                                *)
LEMMA DeleteStep ==
  ASSUME StoreInv, NEW t \in Txs, DeleteObject(t)
  PROVE  StoreInv'
<1> USE DEF DeleteObject
<1> DEFINE c == target[t].content
<1>1. Shape' BY DEF StoreInv, Shape, Goes
<1>2. OneHolder' /\ OneManifestPerObject'
  BY DEF StoreInv, OneHolder, OneManifestPerObject
<1>3. Has(t, c) /\ NoManifest(c) /\ draft[t] = {}
  BY DEF StoreInv, WorkHeld, NothingInserted, Empty
<1>k. \A d : Kept(d) /\ d # c => Kept(d)' BY StayKept DEF StoreInv
<1>4. ManifestsHaveObjects'
  BY <1>3, <1>k DEF StoreInv, ManifestsHaveObjects, Kept, NoManifest
<1>5. ASSUME NEW s \in Txs, s # t, NEW d, Has(s, d) PROVE d # c
  BY <1>3, <1>5 DEF StoreInv, OneHolder, Has
<1>6. ASSUME NEW s \in Txs PROVE DraftHeld(s)' /\ NothingInserted(s)' /\ WorkHeld(s)'
  <2>1. DraftHeld(s)'
    BY <1>3, <1>5, <1>k DEF StoreInv, DraftHeld, Has, NoManifest
  <2>2. pc'[s] = IF s = t THEN "orphans" ELSE pc[s] BY DEF StoreInv, Shape, Goes
  <2>3. NothingInserted(s)' BY <2>2, <1>3 DEF StoreInv, NothingInserted, Empty
  <2>4. WorkHeld(s)'
    BY <2>2, <1>5, <1>k DEF StoreInv, WorkHeld, Has, NoManifest
  <2> QED BY <2>1, <2>3, <2>4
<1> QED BY <1>1, <1>2, <1>4, <1>6 DEF StoreInv

(* What a process does alone: it adds an object, or is the reconciliation  *)
(* that has strayed.                                                       *)
LEMMA AloneStep ==
  ASSUME StoreInv, NEW t \in Txs, FinishAlone(t)
  PROVE  StoreInv'
<1> DEFINE c == target[t].content
<1>1. PICK place \in {"failed", "strayed"} :
        /\ Goes(t, place) /\ pc[t] \in {"promoteAlone", "deleteAlone", "unlinkAlone"}
        /\ objects \subseteq objects' \/ (objects' = objects \ {c} /\ place = "strayed")
        /\ UNCHANGED <<manifests, draft, locks, target>>
  BY DEF FinishAlone
<1>2. Shape' /\ pc' = [pc EXCEPT ![t] = place] BY <1>1 DEF StoreInv, Shape, Goes
<1>3. ASSUME NEW d, Kept(d) PROVE Kept(d)'
  <2>1. CASE d \in objects => d \in objects'
    BY <1>1, <1>3, <2>1, StayKept DEF StoreInv
  <2>2. CASE d = c /\ place = "strayed"
    BY <1>1, <1>2, <2>2 DEF StoreInv, Shape, Kept, Strayed
  <2> QED BY <1>1, <2>1, <2>2
<1>4. OneHolder' /\ ManifestsHaveObjects' /\ OneManifestPerObject'
  BY <1>1, <1>3 DEF StoreInv, OneHolder, ManifestsHaveObjects, Kept, OneManifestPerObject
<1>5. ASSUME NEW s \in Txs PROVE DraftHeld(s)' /\ NothingInserted(s)' /\ WorkHeld(s)'
  <2>1. DraftHeld(s)' BY <1>1, <1>3 DEF StoreInv, DraftHeld, Has, NoManifest
  <2>2. pc'[s] = IF s = t THEN place ELSE pc[s] BY <1>2 DEF StoreInv, Shape
  <2>3. NothingInserted(s)' BY <1>1, <2>2 DEF StoreInv, NothingInserted, Empty
  <2>4. WorkHeld(s)' BY <1>1, <1>3, <2>2 DEF StoreInv, WorkHeld, Has, NoManifest
  <2> QED BY <2>1, <2>3, <2>4
<1> QED BY <1>2, <1>4, <1>5 DEF StoreInv

-----------------------------------------------------------------------------
(* Every step of the specification                                         *)

LEMMA UploadSteps ==
  ASSUME StoreInv, NEW t \in Txs, DoUpload(t) \/ FailUpload(t)
  PROVE  StoreInv'
<1> USE DEF Ended
<1>1. CASE \E upload : WriteTemporary(t, upload)
  BY <1>1, QuietStep DEF WriteTemporary, StoreInv, Shape, Empty
<1>2. CASE AwaitLock(t, "lockTemporary", TemporaryLock(File(t)), "lockObject")
  BY <1>2, LockStep DEF AwaitLock, Empty
<1>3. CASE AwaitLock(t, "lockObject", UploadLock(t), "promote")
  BY <1>3, LockStep DEF AwaitLock, UploadLock, Empty
<1>4. CASE Promote(t) BY <1>4, PromoteStep
<1>5. CASE LoseTemporary(t) BY <1>5, RollBackStep DEF LoseTemporary
<1>6. CASE InsertManifest(t) BY <1>6, InsertStep
<1>7. CASE RefuseManifest(t) BY <1>7, RollBackStep DEF RefuseManifest
<1>8. CASE FailPromotion(t)
  <2>1. objects \subseteq objects' BY <1>8 DEF FailPromotion
  <2> QED BY <1>8, <2>1, RollBackStep DEF FailPromotion
<1> QED
  BY <1>1, <1>2, <1>3, <1>4, <1>5, <1>6, <1>7, <1>8 DEF DoUpload, Upload, FailUpload

LEMMA ReconcileSteps ==
  ASSUME StoreInv, NEW t \in Txs, Reconcile(t)
  PROVE  StoreInv'
<1>1. CASE \E files, place : List(t, files, place) /\ place \in {"orphans", "temporaries"}
  BY <1>1, QuietStep DEF List, StoreInv, Shape, Empty
<1>2. CASE Pick(t, "orphans", "lockOrphan") \/ Pick(t, "temporaries", "lockStale")
  BY <1>2, QuietStep DEF Pick, StoreInv, Shape, Empty
<1>3. CASE AwaitLock(t, "lockOrphan", OrphanLock(t), "look")
  BY <1>3, LockStep DEF AwaitLock, OrphanLock, Empty
<1>4. CASE AwaitLock(t, "lockStale", StaleLock(t), "unlink")
  BY <1>4, LockStep DEF AwaitLock, Empty
<1>5. CASE Spare(t) BY <1>5, QuietStep DEF Spare, StoreInv, Shape, Empty
<1>6. CASE LookUp(t) BY <1>6, LookUpStep
<1>7. CASE DeleteObject(t) BY <1>7, DeleteStep
<1>8. CASE DeleteTemporary(t)
  BY <1>8, QuietStep DEF DeleteTemporary, StoreInv, Shape, Empty
<1>9. CASE EndReconcile(t) BY <1>9, CommitStep DEF EndReconcile
<1> QED
  BY <1>1, <1>2, <1>3, <1>4, <1>5, <1>6, <1>7, <1>8, <1>9
  DEF Reconcile, ReconcileOrphans, ReconcileTemporary

LEMMA RowSteps ==
  ASSUME StoreInv, NEW t \in Txs,
         LockRun(t) \/ LockCampaign(t) \/ Verify(t) \/ BeginCreate(t)
  PROVE  StoreInv'
<1> DEFINE Refused == \E answer \in Ended : RollBack(t, answer)
<1>0. pc[t] # "strayed" BY DEF LockRun, LockCampaign, Verify, BeginCreate
<1>1. CASE Refused /\ UNCHANGED <<objects, temps>>
  BY <1>0, <1>1, RollBackStep
<1>2. ASSUME NEW l, Free(t, l), locks' = Taken(t, l),
             Goes(t, "upload") \/ Goes(t, "peeked"),
             UNCHANGED <<objects, temps, manifests, draft, uploads, target, todo>>
      PROVE  StoreInv'
  BY <1>0, <1>2, LockStep DEF Empty
<1>3. CASE Goes(t, "upload") /\ UNCHANGED <<objects, manifests, draft, locks, target>>
  BY <1>0, <1>3, QuietStep DEF StoreInv, Shape, Empty
<1>4. CASE LockRun(t)
  <2>1. CASE RollBack(t, "refused") /\ UNCHANGED <<objects, temps>>
    BY <2>1, <1>1 DEF Ended
  <2> QED BY <1>4, <2>1, <1>2 DEF LockRun
<1>5. CASE LockCampaign(t)
  <2>1. CASE RollBack(t, "refused") /\ UNCHANGED <<objects, temps>>
    BY <2>1, <1>1 DEF Ended
  <2> QED BY <1>5, <2>1, <1>2 DEF LockCampaign
<1>6. CASE Verify(t)
  <2>1. CASE RollBack(t, "refused") \/ RollBack(t, "unverified")
    BY <1>6, <2>1, <1>1 DEF Ended, Verify
  <2> QED BY <1>6, <2>1, <1>3 DEF Verify
<1>7. CASE BeginCreate(t) BY <1>7, <1>3 DEF BeginCreate
<1> QED BY <1>4, <1>5, <1>6, <1>7

LEMMA EndSteps ==
  ASSUME StoreInv, NEW t \in Txs,
         Conflict(t) \/ Commit(t) \/ Crash(t) \/ Disconnect(t) \/ Victim(t)
  PROVE  StoreInv'
<1> USE DEF Ended
<1>1. CASE Conflict(t) BY <1>1, RollBackStep DEF Conflict, Uploaded
<1>2. CASE Commit(t) BY <1>2, CommitStep DEF Commit, Uploaded
<1>3. CASE Crash(t)
  <2>1. objects \subseteq objects' BY <1>3 DEF Crash
  <2> QED BY <1>3, <2>1, RollBackStep DEF Crash, Live
<1>4. CASE Victim(t) BY <1>4, RollBackStep DEF Victim, Live
<1>5. CASE LoseConnection(t) BY <1>5, RollBackStep DEF LoseConnection, Alone
<1>6. CASE FinishAlone(t) BY <1>6, AloneStep
<1> QED BY <1>1, <1>2, <1>3, <1>4, <1>5, <1>6 DEF Disconnect

LEMMA StoreStep == StoreInv /\ [Next]_vars => StoreInv'
<1> SUFFICES ASSUME StoreInv, [Next]_vars PROVE StoreInv' OBVIOUS
<1>1. CASE UNCHANGED vars
  <2>1. UNCHANGED <<objects, manifests, draft, locks, pc, target>>
    BY <1>1 DEF vars, storeVars
  <2>2. Shape' /\ OneHolder' /\ ManifestsHaveObjects' /\ OneManifestPerObject'
    BY <2>1
    DEF StoreInv, Shape, OneHolder, ManifestsHaveObjects, Strayed, OneManifestPerObject
  <2>3. \A t \in Txs : DraftHeld(t)' /\ WorkHeld(t)' /\ NothingInserted(t)'
    BY <2>1
    DEF StoreInv, DraftHeld, WorkHeld, NothingInserted, Has, Kept, Strayed, NoManifest
  <2> QED BY <2>2, <2>3 DEF StoreInv
<1>2. ASSUME NEW t \in Txs,
             Works(t) \/ FailUpload(t) \/ Crash(t) \/ Disconnect(t) \/ Victim(t)
      PROVE  StoreInv'
  BY <1>2, UploadSteps, ReconcileSteps, RowSteps, EndSteps DEF Works
<1> QED BY <1>1, <1>2 DEF Next

LEMMA StoreInit == Init => StoreInv
<1> SUFFICES ASSUME Init PROVE StoreInv OBVIOUS
<1>1. Shape /\ OneHolder BY DEF Init, Shape, OneHolder
<1>2. PICK cast \in Casts :
        /\ manifests = {[content |-> Dataset(r), owner |-> DatasetOwner(r), by |-> NoTx] :
                          r \in cast.born}
        /\ objects = {Dataset(r) : r \in cast.born}
  BY DEF Init
<1>3. ManifestsHaveObjects BY <1>2 DEF ManifestsHaveObjects
<1>4. OneManifestPerObject
  <2> SUFFICES ASSUME NEW m \in manifests, NEW n \in manifests, m.content = n.content
               PROVE  m = n
    BY DEF OneManifestPerObject
  <2>1. PICK q \in cast.born :
          m = [content |-> Dataset(q), owner |-> DatasetOwner(q), by |-> NoTx]
    BY <1>2
  <2>2. PICK r \in cast.born :
          n = [content |-> Dataset(r), owner |-> DatasetOwner(r), by |-> NoTx]
    BY <1>2
  <2>3. DatasetOf[q] = DatasetOf[r] BY <2>1, <2>2 DEF Dataset
  <2>4. q = r BY <2>3, EvalAssumption
  <2> QED BY <2>1, <2>2, <2>4
<1>5. \A t \in Txs : DraftHeld(t) /\ WorkHeld(t) /\ NothingInserted(t)
  BY DEF Init, DraftHeld, WorkHeld, NothingInserted
<1> QED BY <1>1, <1>3, <1>4, <1>5 DEF StoreInv

(* A committed manifest has its object: however uploads fail, crash or are *)
(* repeated while reconciliations delete files (commit_upload,             *)
(* reconcile_orphans).                                                     *)
THEOREM ObjectsAreKept == Spec => []ManifestsHaveObjects
<1>1. StoreInv => ManifestsHaveObjects BY DEF StoreInv
<1> QED BY StoreInit, StoreStep, <1>1, PTL DEF Spec

(* An object has one manifest, though its search and its insertion are two *)
(* statements (_commit_manifest).                                          *)
THEOREM ManifestsAreSingle == Spec => []OneManifestPerObject
<1>1. StoreInv => OneManifestPerObject BY DEF StoreInv
<1> QED BY StoreInit, StoreStep, <1>1, PTL DEF Spec

-----------------------------------------------------------------------------
(* The rows under steps that write none                                    *)

Rows == <<op, status, campaign>>
UploadPlaces == {"upload", "lockTemporary", "lockObject", "promote", "manifest"}
Held(t) == RunHeld(t) /\ CampaignHeld(t) /\ StillFresh(t)

LEMMA Elsewhere ==
  ASSUME RowInv, Shape, NEW t \in Txs, NEW place, Goes(t, place), UNCHANGED Rows,
         Released(t) \subseteq locks',
         NEW s \in Txs, s # t
  PROVE  Held(s)'
<1> USE DEF Rows, Kind, Run
<1>1. pc'[s] = pc[s] BY DEF Shape, Goes
<1>2. ASSUME NEW l, <<l, s>> \in locks PROVE <<l, s>> \in locks'
  BY <1>2 DEF Released
<1>3. RunHeld(s)' BY <1>1, <1>2 DEF RowInv, RunHeld, Uploading
<1>4. CampaignHeld(s)'
  BY <1>1, <1>2 DEF RowInv, CampaignHeld, OnCampaign, Uploading, MayComplete, Children
<1>5. StillFresh(s)' BY <1>1 DEF RowInv, StillFresh, Live, Created
<1> QED BY <1>3, <1>4, <1>5 DEF Held

LEMMA SameRows ==
  ASSUME RowInv, Shape, NEW t \in Txs, NEW place, Goes(t, place), UNCHANGED Rows,
         Released(t) \subseteq locks', Held(t)'
  PROVE  RowInv'
<1>1. RowTypes' /\ CompletedMeansSealed'
  BY DEF RowInv, RowTypes, CompletedMeansSealed, Rows, Run, Created
<1>2. \A s \in Txs : Held(s)' BY Elsewhere
<1> QED BY <1>1, <1>2 DEF RowInv, Held

(* A transaction at work goes on, or one that begins goes to a place that  *)
(* needs no row.                                                           *)
LEMMA MoveOn ==
  ASSUME RowInv, Shape, NEW t \in Txs, NEW place, Goes(t, place), UNCHANGED Rows,
         locks \subseteq locks', Live(t), place # "peeked",
         \/ place \notin UploadPlaces
         \/ Uploading(t)
         \/ Kind(t) \in {"create", "verify", "report"}
  PROVE  RowInv'
<1> USE DEF Rows, Kind, Run
<1>1. pc'[t] = place BY DEF Shape, Goes
<1>2. Uploading(t)' => Uploading(t) \/ Kind(t) \in {"create", "verify", "report"}
  BY <1>1 DEF Uploading, UploadPlaces
<1>3. RunHeld(t)' BY <1>2 DEF RowInv, RunHeld
<1>4. CampaignHeld(t)'
  BY <1>1, <1>2 DEF RowInv, CampaignHeld, OnCampaign, MayComplete, Children
<1>5. StillFresh(t)' BY DEF RowInv, StillFresh, Created
<1>6. Released(t) \subseteq locks' BY DEF Released
<1> QED BY <1>3, <1>4, <1>5, <1>6, SameRows DEF Held

LEMMA GiveUp ==
  ASSUME RowInv, Shape, NEW t \in Txs, NEW answer \in Ended, Goes(t, answer),
         Released(t) \subseteq locks', UNCHANGED Rows
  PROVE  RowInv'
<1>1. pc'[t] = answer BY DEF Shape, Goes
<1>2. Held(t)'
  BY <1>1 DEF Held, RunHeld, CampaignHeld, OnCampaign, StillFresh, Uploading, Live, Ended
<1> QED BY <1>2, SameRows

-----------------------------------------------------------------------------
(* Taking the row locks                                                    *)

LEMMA LockRunStep ==
  ASSUME RowInv, Shape, NEW t \in Txs, LockRun(t)
  PROVE  RowInv'
<1> USE DEF Rows
<1>1. CASE RollBack(t, "refused")
  BY <1>1, GiveUp DEF LockRun, RollBack, Ended
<1>2. CASE /\ Allowed(t, Seen(t)) /\ locks' = Taken(t, AwaitedRun(t))
           /\ Goes(t, "upload")
  <2>1. Held(t)
    BY DEF RowInv, Held
  <2>2. pc'[t] = "upload" BY <1>2 DEF Shape, Goes
  <2>3. UNCHANGED Rows BY DEF LockRun
  <2>4. Kind(t)' = Kind(t) /\ Run(t)' = Run(t) BY <2>3 DEF Kind, Run
  <2>5. pc[t] = "peeked" => Kind(t) = "resumeChild" /\ CampaignHeld(t)
    BY <2>1 DEF Held, CampaignHeld, OnCampaign
  <2>6. pc[t] # "peeked" => Kind(t) \in {"record", "pause", "resume", "seal"}
    BY DEF LockRun
  <2>7. RunHeld(t)'
    <3>1. Kind(t) # "resumeChild" => Seen(t) = status[Run(t)]
      BY <2>5 DEF Seen
    <3> QED BY <1>2, <2>3, <2>4, <3>1 DEF RunHeld, Taken, AwaitedRun, Allowed
  <2>8. CampaignHeld(t)'
    <3>1. CASE pc[t] = "peeked"
      BY <1>2, <2>2, <2>3, <2>4, <2>5, <3>1 DEF CampaignHeld, OnCampaign, Taken
    <3>2. CASE pc[t] # "peeked"
      BY <2>2, <2>4, <2>6, <3>2 DEF CampaignHeld, OnCampaign
    <3> QED BY <3>1, <3>2
  <2>9. StillFresh(t)' BY <2>4, <2>5, <2>6 DEF StillFresh
  <2>10. Released(t) \subseteq locks' BY <1>2 DEF Released, Taken
  <2> QED BY <1>2, <2>3, <2>7, <2>8, <2>9, <2>10, SameRows DEF Held
<1> QED BY <1>1, <1>2 DEF LockRun

LEMMA LockCampaignStep ==
  ASSUME RowInv, Shape, NEW t \in Txs, LockCampaign(t)
  PROVE  RowInv'
<1> DEFINE g == CampaignOf[Run(t)]
<1> USE DEF Rows
<1>1. CASE RollBack(t, "refused")
  BY <1>1, GiveUp DEF LockCampaign, RollBack, Ended
<1>2. CASE /\ campaign[g] = "running"
           /\ Kind(t) = "complete" => MayComplete(g)
           /\ locks' = Taken(t, AwaitedCampaign(t))
           /\ IF Kind(t) = "complete" THEN Goes(t, "upload") ELSE Goes(t, "peeked")
  <2>1. UNCHANGED Rows BY DEF LockCampaign
  <2>2. Kind(t)' = Kind(t) /\ Run(t)' = Run(t) BY <2>1 DEF Kind, Run
  <2>3. Kind(t) \in {"complete", "resumeChild"} BY DEF LockCampaign
  <2>4. pc'[t] = IF Kind(t) = "complete" THEN "upload" ELSE "peeked"
    BY <1>2 DEF Shape, Goes
  <2>5. RunHeld(t)' BY <2>2, <2>3, <2>4 DEF RunHeld, Uploading
  <2>6. CampaignHeld(t)'
    <3>1. g' = g BY <2>2
    <3>2. <<CampaignLock(g'), t>> \in locks' BY <1>2, <3>1 DEF Taken, AwaitedCampaign
    <3>3. campaign'[g'] = "running" BY <1>2, <2>1, <3>1
    <3>4. Kind(t)' = "complete" => MayComplete(g)'
      BY <1>2, <2>1, <2>2, <3>1 DEF MayComplete, Children
    <3>5. Kind(t)' = "complete" => pc'[t] # "peeked" BY <2>2, <2>4
    <3> QED BY <2>2, <2>3, <3>2, <3>3, <3>4, <3>5 DEF CampaignHeld
  <2>7. StillFresh(t)' BY <2>2, <2>3 DEF StillFresh
  <2>8. Released(t) \subseteq locks' BY <1>2 DEF Released, Taken
  <2> QED BY <1>2, <2>1, <2>5, <2>6, <2>7, <2>8, SameRows DEF Held
<1> QED BY <1>1, <1>2 DEF LockCampaign

-----------------------------------------------------------------------------
(* The commit                                                              *)

(* A commit changes the status of the run it has locked, or of runs that   *)
(* were not there.                                                         *)
LEMMA WhoseStatus ==
  ASSUME RowInv, NEW t \in Txs, Commit(t), NEW q \in Runs, status'[q] # status[q]
  PROVE  \/ Kind(t) = "create" /\ q \in Created(t) /\ status'[q] = "running"
         \/ Kind(t) = "seal" /\ q = Run(t) /\ status'[q] = "sealed"
         \/ Kind(t) \in {"pause", "resume", "resumeChild"} /\ q = Run(t)
BY DEF Commit, NewStatus

LEMMA WhoseCampaign ==
  ASSUME RowInv, NEW t \in Txs, Commit(t), NEW g \in Campaigns, campaign'[g] # campaign[g]
  PROVE  \/ Kind(t) = "create" /\ campaign'[g] = "running" /\ campaign[g] = "absent"
            /\ \E r \in Created(t) : CampaignOf[r] = g
         \/ Kind(t) = "complete" /\ g = CampaignOf[Run(t)] /\ campaign'[g] = "completed"
<1> USE DEF Commit
<1>1. CASE Kind(t) = "create" /\ \E r \in Created(t) : CampaignOf[r] = g
  <2>1. PICK r \in Created(t) : CampaignOf[r] = g BY <1>1
  <2>2. campaign[g] = "absent"
    BY <1>1, <2>1 DEF RowInv, StillFresh, Live, Uploaded, Ended
  <2>3. campaign'[g] = "running" BY <1>1
  <2> QED BY <1>1, <2>2, <2>3
<1>2. CASE Kind(t) = "complete" /\ g = CampaignOf[Run(t)] BY <1>2
<1> QED BY <1>1, <1>2

(* What a committing transaction holds.                                    *)
LEMMA Committing ==
  ASSUME RowInv, NEW t \in Txs, Commit(t)
  PROVE  /\ Uploading(t) /\ Live(t)
         /\ Kind(t) \in {"record", "pause", "resume", "seal", "resumeChild"} =>
              <<RunLock(Run(t)), t>> \in locks
         /\ Kind(t) \in {"record", "pause", "resume", "seal"} =>
              status[Run(t)] \notin {"absent", "sealed"}
         /\ Kind(t) \in {"complete", "resumeChild"} =>
              /\ <<CampaignLock(CampaignOf[Run(t)]), t>> \in locks
              /\ campaign[CampaignOf[Run(t)]] = "running"
         /\ Kind(t) = "complete" => MayComplete(CampaignOf[Run(t)])
<1>1. Uploading(t) /\ Live(t) BY DEF Commit, Uploaded, Uploading, Live, Ended
<1>2. RunHeld(t) /\ CampaignHeld(t) BY DEF RowInv
<1> QED BY <1>1, <1>2 DEF RunHeld, CampaignHeld, OnCampaign

LEMMA CreatedAfresh ==
  ASSUME RowInv, NEW s \in Txs, NEW t \in Txs, s # t,
         Kind(s) = "create", Kind(t) = "create",
         NEW q \in Created(s), NEW r \in Created(t)
  PROVE  CampaignOf[q] # CampaignOf[r]
<1>1. PICK cast \in Casts : op = cast.op BY DEF RowInv, RowTypes
<1>2. PICK n \in DOMAIN op[t].runs : r = op[t].runs[n] BY DEF Created
<1>3. PICK m \in DOMAIN op[s].runs : q = op[s].runs[m] BY DEF Created
<1>4. FreshFor(cast, t, r) BY <1>1, <1>2, FreshAssumption DEF Kind
<1> QED BY <1>1, <1>3, <1>4 DEF FreshFor, Kind

LEMMA CommitRowsStep ==
  ASSUME RowInv, StoreInv, NEW t \in Txs, Commit(t)
  PROVE  RowInv'
<1>1. op' = op BY DEF Commit
<1>2. RowTypes'
  BY <1>1 DEF RowInv, RowTypes, Commit, NewStatus, Run, Created
<1>3. \A s : Kind(s)' = Kind(s) /\ Run(s)' = Run(s) /\ Created(s)' = Created(s)
  BY <1>1 DEF Kind, Run, Created
<1>4. pc'[t] = "done" /\ \A s \in Txs \ {t} : pc'[s] = pc[s]
  BY DEF StoreInv, Shape, Commit, CommitRows, Goes
<1>5. Held(t)'
  BY <1>4 DEF Held, RunHeld, CampaignHeld, OnCampaign, StillFresh, Uploading, Live, Ended
<1>6. \A s \in Txs : Run(s) \in Runs /\ CampaignOf[Run(s)] \in Campaigns
  BY DEF RowInv, RowTypes, Campaigns
<1>7. CompletedMeansSealed'
  <2> SUFFICES ASSUME NEW r \in Runs, campaign'[CampaignOf[r]] = "completed",
                      status'[r] # "absent"
               PROVE  status'[r] = "sealed"
    BY DEF CompletedMeansSealed
  <2> DEFINE g == CampaignOf[r]
  <2>1. g \in Campaigns BY DEF Campaigns
  <2>2. CASE campaign[g] = "completed"
    <3>1. status[r] \in {"absent", "sealed"}
      BY <2>2 DEF RowInv, CompletedMeansSealed
    <3>2. CASE status'[r] # status[r]
      <4>1. CASE Kind(t) = "create" /\ r \in Created(t)
        <5>1. campaign[g] = "absent"
          BY <4>1, Committing DEF RowInv, StillFresh
        <5> QED BY <5>1, <2>2
      <4>2. CASE Kind(t) \in {"pause", "resume"} /\ r = Run(t)
        BY <4>2, <3>1, Committing
      <4>3. CASE Kind(t) = "resumeChild" /\ r = Run(t)
        BY <4>3, <2>2, Committing
      <4> QED BY <3>2, <4>1, <4>2, <4>3, WhoseStatus
    <3> QED BY <3>1, <3>2
  <2>3. CASE campaign[g] # "completed"
    <3>1. Kind(t) = "complete" /\ g = CampaignOf[Run(t)]
      BY <2>1, <2>3, WhoseCampaign
    <3>2. status'[r] = status[r] BY <3>1, WhoseStatus
    <3> QED BY <3>1, <3>2, Committing DEF MayComplete, Children
  <2> QED BY <2>2, <2>3
<1>8. ASSUME NEW s \in Txs, s # t PROVE Held(s)'
  <2>1. Held(s) BY DEF RowInv, Held
  <2>2. pc'[s] = pc[s] BY <1>4, <1>8
  <2>3. ASSUME NEW l, <<l, s>> \in locks PROVE <<l, s>> \in locks' /\ <<l, t>> \notin locks
    BY <1>8, <2>3 DEF StoreInv, OneHolder, Commit, CommitRows, Released
  <2>4. RunHeld(s)'
    <3> SUFFICES ASSUME Uploading(s),
                        Kind(s) \in {"record", "pause", "resume", "seal", "resumeChild"}
                 PROVE  /\ <<RunLock(Run(s)), s>> \in locks'
                        /\ Kind(s) # "resumeChild" => status'[Run(s)] \notin {"absent", "sealed"}
      BY <1>3, <2>2 DEF RunHeld, Uploading
    <3>1. <<RunLock(Run(s)), s>> \in locks
      BY <2>1 DEF Held, RunHeld
    <3>2. <<RunLock(Run(s)), s>> \in locks' /\ <<RunLock(Run(s)), t>> \notin locks
      BY <3>1, <2>3
    <3>3. ASSUME Kind(s) # "resumeChild" PROVE status'[Run(s)] = status[Run(s)]
      <4>1. status[Run(s)] # "absent" BY <2>1, <3>3 DEF Held, RunHeld
      <4>2. ASSUME Kind(t) = "create", Run(s) \in Created(t) PROVE FALSE
        BY <4>1, <4>2, <1>6, Committing DEF RowInv, StillFresh
      <4>3. ASSUME Kind(t) \in {"seal", "pause", "resume", "resumeChild"}, Run(s) = Run(t)
            PROVE  FALSE
        BY <4>3, <3>2, Committing
      <4> QED BY <1>6, <4>2, <4>3, WhoseStatus
    <3> QED BY <2>1, <3>2, <3>3 DEF Held, RunHeld
  <2>5. CampaignHeld(s)'
    <3> DEFINE g == CampaignOf[Run(s)]
    <3> SUFFICES ASSUME OnCampaign(s)
                 PROVE  /\ <<CampaignLock(g), s>> \in locks'
                        /\ campaign'[g] = "running"
                        /\ Kind(s) \in {"complete", "resumeChild"}
                        /\ Kind(s) = "complete" => pc[s] # "peeked" /\ MayComplete(g)'
      BY <1>3, <2>2 DEF CampaignHeld, OnCampaign, Uploading
    <3>1. /\ <<CampaignLock(g), s>> \in locks /\ campaign[g] = "running"
          /\ Kind(s) \in {"complete", "resumeChild"}
          /\ Kind(s) = "complete" => pc[s] # "peeked" /\ MayComplete(g)
      BY <2>1 DEF Held, CampaignHeld
    <3>2. <<CampaignLock(g), s>> \in locks' /\ <<CampaignLock(g), t>> \notin locks
      BY <3>1, <2>3
    <3>3. campaign'[g] = "running"
      <4>1. ASSUME Kind(t) = "complete", g = CampaignOf[Run(t)] PROVE FALSE
        BY <4>1, <3>2, Committing
      <4> QED BY <1>6, <3>1, <4>1, WhoseCampaign
    <3>4. ASSUME MayComplete(g) PROVE MayComplete(g)'
      <4>1. ASSUME NEW r \in Runs, CampaignOf[r] = g, status'[r] # status[r]
            PROVE  status[r] # "absent" /\ status'[r] = "sealed"
        <5>1. ASSUME Kind(t) = "create", r \in Created(t) PROVE FALSE
          BY <5>1, <4>1, <3>1, Committing DEF RowInv, StillFresh
        <5>2. ASSUME Kind(t) = "resumeChild", r = Run(t) PROVE FALSE
          BY <5>2, <4>1, <3>2, Committing
        <5>3. ASSUME Kind(t) \in {"pause", "resume"}, r = Run(t) PROVE FALSE
          BY <5>3, <4>1, <3>4, Committing DEF MayComplete, Children
        <5>4. Kind(t) = "seal" /\ r = Run(t) /\ status'[r] = "sealed"
          BY <4>1, <5>1, <5>2, <5>3, WhoseStatus
        <5> QED BY <5>4, Committing
      <4>2. g' = g BY <1>3
      <4>3. Children(g)' = Children(g)
        <5>1. ASSUME NEW r \in Runs, CampaignOf[r] = g
              PROVE  status'[r] # "absent" <=> status[r] # "absent"
          BY <5>1, <4>1
        <5> QED BY <5>1, <4>2 DEF Children
      <4>4. ASSUME NEW r \in Children(g) PROVE status'[r] = "sealed"
        BY <4>1, <4>4, <3>4 DEF MayComplete, Children
      <4> QED BY <4>2, <4>3, <4>4, <3>4 DEF MayComplete
    <3> QED BY <3>1, <3>2, <3>3, <3>4
  <2>6. StillFresh(s)'
    <3> SUFFICES ASSUME Kind(s) = "create", Live(s), NEW r \in Created(s)
                 PROVE  /\ campaign'[CampaignOf[r]] = "absent"
                        /\ \A q \in Runs : CampaignOf[q] = CampaignOf[r] =>
                             status'[q] = "absent"
      BY <1>3, <2>2 DEF StillFresh, Live
    <3>1. /\ campaign[CampaignOf[r]] = "absent"
          /\ \A q \in Runs : CampaignOf[q] = CampaignOf[r] => status[q] = "absent"
      BY <2>1 DEF Held, StillFresh
    <3>2. ASSUME NEW q \in Created(t), Kind(t) = "create", CampaignOf[q] = CampaignOf[r]
          PROVE  FALSE
      BY <3>2, <1>8, CreatedAfresh
    <3>3. ASSUME NEW q \in Runs, CampaignOf[q] = CampaignOf[r] PROVE status'[q] = status[q]
      <4>1. ASSUME Kind(t) \in {"seal", "pause", "resume", "resumeChild"}, q = Run(t)
            PROVE  FALSE
        BY <4>1, <3>1, <3>3, Committing
      <4> QED BY <3>2, <3>3, <4>1, WhoseStatus
    <3>4. campaign'[CampaignOf[r]] = "absent"
      <4>1. ASSUME Kind(t) = "complete", CampaignOf[r] = CampaignOf[Run(t)] PROVE FALSE
        BY <4>1, <3>1, Committing
      <4>2. CampaignOf[r] \in Campaigns BY DEF RowInv, RowTypes, Campaigns
      <4> QED BY <3>1, <3>2, <4>1, <4>2, WhoseCampaign
    <3> QED BY <3>1, <3>3, <3>4
  <2> QED BY <2>4, <2>5, <2>6 DEF Held
<1> QED BY <1>2, <1>5, <1>7, <1>8 DEF RowInv, Held

-----------------------------------------------------------------------------
(* Every step of the specification                                         *)

LEMMA UploadRows ==
  ASSUME RowInv, StoreInv, NEW t \in Txs, DoUpload(t) \/ FailUpload(t)
  PROVE  RowInv'
<1> USE DEF Rows, evalVars, UploadPlaces, Uploading, Live, Ended
<1>1. Shape BY DEF StoreInv
<1>2. UNCHANGED Rows BY DEF DoUpload, FailUpload
<1>3. CASE \E upload : WriteTemporary(t, upload)
  BY <1>1, <1>2, <1>3, MoveOn DEF WriteTemporary
<1>4. CASE \/ AwaitLock(t, "lockTemporary", TemporaryLock(File(t)), "lockObject")
           \/ AwaitLock(t, "lockObject", UploadLock(t), "promote")
  BY <1>1, <1>2, <1>4, MoveOn DEF AwaitLock, Taken
<1>5. CASE Promote(t) \/ InsertManifest(t)
  BY <1>1, <1>2, <1>5, MoveOn DEF Promote, InsertManifest
<1>6. CASE LoseTemporary(t) \/ RefuseManifest(t) \/ FailPromotion(t)
  BY <1>1, <1>2, <1>6, GiveUp DEF LoseTemporary, RefuseManifest, FailPromotion, RollBack
<1> QED BY <1>3, <1>4, <1>5, <1>6 DEF DoUpload, Upload, FailUpload

LEMMA ReconcileRows ==
  ASSUME RowInv, StoreInv, NEW t \in Txs, Reconcile(t)
  PROVE  RowInv'
<1> USE DEF Rows, evalVars, UploadPlaces, Live, Ended
<1>1. Shape BY DEF StoreInv
<1>2. UNCHANGED Rows BY DEF Reconcile
<1>3. CASE \E files, place : List(t, files, place) /\ place \in {"orphans", "temporaries"}
  BY <1>1, <1>2, <1>3, MoveOn DEF List
<1>4. CASE Pick(t, "orphans", "lockOrphan") \/ Pick(t, "temporaries", "lockStale")
  BY <1>1, <1>2, <1>4, MoveOn DEF Pick
<1>5. CASE \/ AwaitLock(t, "lockOrphan", OrphanLock(t), "look")
           \/ AwaitLock(t, "lockStale", StaleLock(t), "unlink")
  BY <1>1, <1>2, <1>5, MoveOn DEF AwaitLock, Taken
<1>6. CASE Spare(t) \/ LookUp(t) \/ DeleteObject(t) \/ DeleteTemporary(t)
  BY <1>1, <1>2, <1>6, MoveOn DEF Spare, LookUp, DeleteObject, DeleteTemporary
<1>7. CASE EndReconcile(t)
  BY <1>1, <1>2, <1>7, GiveUp DEF EndReconcile, CommitRows
<1> QED
  BY <1>3, <1>4, <1>5, <1>6, <1>7 DEF Reconcile, ReconcileOrphans, ReconcileTemporary

LEMMA OtherRows ==
  ASSUME RowInv, StoreInv, NEW t \in Txs,
         \/ Verify(t) \/ BeginCreate(t) \/ Conflict(t)
         \/ Crash(t) \/ Disconnect(t) \/ Victim(t)
  PROVE  RowInv'
<1> USE DEF Rows, evalVars, Live, Ended
<1>1. Shape BY DEF StoreInv
<1>2. UNCHANGED Rows BY DEF Verify, BeginCreate, Conflict, Crash, Disconnect, Victim
<1>3. CASE \E answer \in Ended : RollBack(t, answer)
  BY <1>1, <1>2, <1>3, GiveUp DEF RollBack
<1>4. CASE Conflict(t) \/ Crash(t) \/ Victim(t)
  BY <1>3, <1>4 DEF Conflict, Crash, Victim
<1>5. CASE Verify(t)
  <2>1. CASE RollBack(t, "refused") \/ RollBack(t, "unverified") BY <1>3, <2>1
  <2>2. CASE Goes(t, "upload") /\ locks' = locks
    BY <1>1, <1>2, <1>5, <2>2, MoveOn DEF Verify
  <2> QED BY <1>5, <2>1, <2>2 DEF Verify
<1>6. CASE BeginCreate(t)
  BY <1>1, <1>2, <1>6, MoveOn DEF BeginCreate
<1>7. CASE Disconnect(t)
  <2>1. CASE LoseConnection(t) BY <1>3, <2>1 DEF LoseConnection, Alone
  <2>2. CASE FinishAlone(t)
    <3>1. \E answer \in Ended : Goes(t, answer) /\ locks' = locks
      BY <2>2 DEF FinishAlone
    <3>2. Released(t) \subseteq locks BY DEF Released
    <3> QED BY <1>1, <1>2, <3>1, <3>2, GiveUp
  <2> QED BY <1>7, <2>1, <2>2 DEF Disconnect
<1> QED BY <1>4, <1>5, <1>6, <1>7

LEMMA RowStep == RowInv /\ StoreInv /\ [Next]_vars => RowInv'
<1> SUFFICES ASSUME RowInv, StoreInv, [Next]_vars PROVE RowInv' OBVIOUS
<1>1. CASE UNCHANGED vars
  <2>1. UNCHANGED <<op, status, campaign, pc, locks>>
    BY <1>1 DEF vars, storeVars, evalVars
  <2>2. RowTypes' /\ CompletedMeansSealed'
    BY <2>1 DEF RowInv, RowTypes, CompletedMeansSealed, Run, Created
  <2>3. ASSUME NEW t \in Txs PROVE RunHeld(t)' /\ CampaignHeld(t)' /\ StillFresh(t)'
    <3>1. RunHeld(t) /\ CampaignHeld(t) /\ StillFresh(t) BY DEF RowInv
    <3>2. RunHeld(t)' BY <2>1, <3>1 DEF RunHeld, Uploading, Kind, Run
    <3>3. CampaignHeld(t)'
      BY <2>1, <3>1
      DEF CampaignHeld, OnCampaign, Uploading, Kind, Run, MayComplete, Children
    <3>4. StillFresh(t)' BY <2>1, <3>1 DEF StillFresh, Live, Created, Kind
    <3> QED BY <3>2, <3>3, <3>4
  <2> QED BY <2>2, <2>3 DEF RowInv
<1>2. ASSUME NEW t \in Txs,
             Works(t) \/ FailUpload(t) \/ Crash(t) \/ Disconnect(t) \/ Victim(t)
      PROVE  RowInv'
  <2>1. Shape BY DEF StoreInv
  <2> QED
    BY <1>2, <2>1, UploadRows, ReconcileRows, OtherRows, LockRunStep, LockCampaignStep,
       CommitRowsStep
    DEF Works
<1> QED BY <1>1, <1>2 DEF Next

LEMMA RowInit == Init => RowInv
<1> SUFFICES ASSUME Init PROVE RowInv OBVIOUS
<1>1. PICK cast \in Casts :
        /\ op = cast.op
        /\ status = [r \in Runs |-> IF r \in cast.born THEN "running" ELSE "absent"]
        /\ campaign = [g \in Campaigns |->
             IF \E r \in cast.born : CampaignOf[r] = g THEN "running" ELSE "absent"]
  BY DEF Init
<1>2. RowTypes
  <2>1. \A t \in Txs : Run(t) \in Runs /\ Created(t) \subseteq Runs
    <3> SUFFICES ASSUME NEW t \in Txs PROVE Run(t) \in Runs /\ Created(t) \subseteq Runs
      OBVIOUS
    <3>1. op[t].run \in Runs /\ op[t].runs \in Seq(Runs) BY <1>1, EvalAssumption
    <3>2. \A n \in DOMAIN op[t].runs : op[t].runs[n] \in Runs BY <3>1
    <3> QED BY <3>1, <3>2 DEF Run, Created
  <2> QED BY <1>1, <2>1 DEF RowTypes
<1>3. CompletedMeansSealed
  <2>1. ASSUME NEW r \in Runs PROVE campaign[CampaignOf[r]] # "completed"
    BY <1>1 DEF Campaigns
  <2> QED BY <2>1 DEF CompletedMeansSealed
<1>4. ASSUME NEW t \in Txs PROVE RunHeld(t) /\ CampaignHeld(t) /\ StillFresh(t)
  <2>1. pc[t] = "start" BY DEF Init
  <2>2. RunHeld(t) /\ CampaignHeld(t)
    BY <2>1 DEF RunHeld, CampaignHeld, OnCampaign, Uploading
  <2>3. StillFresh(t)
    <3> SUFFICES ASSUME Kind(t) = "create", NEW r \in Created(t)
                 PROVE  /\ campaign[CampaignOf[r]] = "absent"
                        /\ \A q \in Runs : CampaignOf[q] = CampaignOf[r] =>
                             status[q] = "absent"
      BY DEF StillFresh
    <3>1. PICK n \in DOMAIN cast.op[t].runs : r = cast.op[t].runs[n]
      BY <1>1 DEF Created
    <3>2. FreshFor(cast, t, r) BY <1>1, <3>1, FreshAssumption DEF Kind
    <3>3. \A q \in cast.born : CampaignOf[q] # CampaignOf[r] BY <3>2 DEF FreshFor
    <3>4. CampaignOf[r] \in Campaigns BY <1>2 DEF RowTypes, Campaigns
    <3>5. campaign[CampaignOf[r]] = "absent" BY <1>1, <3>3, <3>4
    <3>6. ASSUME NEW q \in Runs, CampaignOf[q] = CampaignOf[r] PROVE status[q] = "absent"
      BY <1>1, <3>3, <3>6
    <3> QED BY <3>5, <3>6
  <2> QED BY <2>2, <2>3
<1> QED BY <1>2, <1>3, <1>4 DEF RowInv

(* A completed campaign has only sealed runs (complete, resume_child), for *)
(* the statuses that decide are locked or stand still.                     *)
THEOREM CompletionIsSound == Spec => []CompletedMeansSealed
<1>1. RowInv => CompletedMeansSealed BY DEF RowInv
<1> QED BY StoreInit, StoreStep, RowInit, RowStep, <1>1, PTL DEF Spec

-----------------------------------------------------------------------------
(* What seals tell                                                         *)

(* The content of a seal tells the outcomes of its run.                    *)
Tells(m) == m.content[1] = "eval.sealed-run" =>
  LET r == m.content[2] IN
  /\ r \in Runs /\ m.owner = SealOwner(r)
  /\ Complete(r) /\ m.content[4] = samples[r]

AtWork == {"lockTemporary", "lockObject", "promote", "manifest"}

(* A seal has read the outcomes that are there, and they are complete; what*)
(* a recorder is to overwrite is not an outcome.                           *)
Prepared(t) == Uploading(t) =>
  /\ Kind(t) = "seal" => Complete(Run(t)) /\ view[t].outcomes = samples[Run(t)]
  /\ Kind(t) = "record" => samples[Run(t)][op[t].unit] = Registered

Told(t) ==
  /\ \A m \in draft[t] : Tells(m)
  /\ pc[t] \in AtWork => Tells(target[t])
  /\ Prepared(t)

SealTypes ==
  /\ samples \in [Runs -> [Units -> Results \cup {Registered}]]
  /\ uploads \in [Txs -> Nat]
  /\ DOMAIN view = Txs
  /\ \A t \in Txs :
       /\ op[t].runs \in Seq(Runs)
       /\ Kind(t) = "record" => op[t].unit \in Units /\ op[t].result \in Results

SealInv ==
  /\ SealTypes
  /\ \A m \in manifests : Tells(m)
  /\ \A t \in Txs : Told(t)

LEMMA SealsTold == SealInv => SealsTellTheOutcomes
BY DEF SealInv, Tells, SealsTellTheOutcomes, SealManifests

(* Steps that write no outcome.                                            *)
LEMMA NoOutcome ==
  ASSUME SealInv, Shape, NEW t \in Txs, NEW place, Goes(t, place),
         UNCHANGED <<op, samples>>, manifests' \subseteq manifests \cup draft[t],
         uploads' \in [Txs -> Nat], DOMAIN view' = Txs,
         \A s \in Txs \ {t} :
           draft'[s] = draft[s] /\ target'[s] = target[s] /\ view'[s] = view[s],
         \A m \in draft'[t] : Tells(m),
         place \in AtWork => Tells(target'[t]),
         Prepared(t)'
  PROVE  SealInv'
<1>1. SealTypes' BY DEF SealInv, SealTypes, Kind
<1>2. ASSUME NEW m, Tells(m) PROVE Tells(m)' BY <1>2 DEF Tells, Complete
<1>3. \A m \in manifests' : Tells(m)' BY <1>2 DEF SealInv, Told
<1>4. pc'[t] = place /\ \A s \in Txs \ {t} : pc'[s] = pc[s] BY DEF Shape, Goes
<1>5. Told(t)'
  <2>1. \A m \in draft'[t] : Tells(m)' BY <1>2
  <2>2. place \in AtWork => Tells(target[t])'
    <3> SUFFICES ASSUME place \in AtWork PROVE Tells(target[t])' OBVIOUS
    <3>1. Tells(target'[t]) OBVIOUS
    <3> QED BY <3>1 DEF Tells, Complete
  <2> QED BY <1>4, <2>1, <2>2 DEF Told
<1>6. ASSUME NEW s \in Txs, s # t PROVE Told(s)'
  <2>1. Told(s) BY DEF SealInv
  <2>2. pc'[s] = pc[s] /\ draft'[s] = draft[s] /\ target'[s] = target[s] /\ view'[s] = view[s]
    BY <1>4, <1>6
  <2>3. \A m \in draft'[s] : Tells(m)' BY <1>2, <2>1, <2>2 DEF Told
  <2>4. pc'[s] \in AtWork => Tells(target[s])'
    BY <2>1, <2>2 DEF Told, Tells, Complete
  <2>5. Prepared(s)'
    BY <2>1, <2>2 DEF Told, Prepared, Uploading, Kind, Run, Complete
  <2> QED BY <2>3, <2>4, <2>5 DEF Told
<1> QED BY <1>1, <1>3, <1>5, <1>6 DEF SealInv

(* A transaction goes on without reading outcomes.                         *)
LEMMA GoesOn ==
  ASSUME SealInv, Shape, NEW t \in Txs, NEW place, Goes(t, place),
         UNCHANGED <<op, samples, view, manifests, draft>>,
         uploads' \in [Txs -> Nat],
         \A s \in Txs \ {t} : target'[s] = target[s],
         place \in AtWork => Tells(target'[t]),
         \/ place \notin UploadPlaces
         \/ Uploading(t)
         \/ Kind(t) \notin {"record", "seal"}
  PROVE  SealInv'
<1>1. Told(t) BY DEF SealInv
<1>2. pc'[t] = place BY DEF Shape, Goes
<1>3. Prepared(t)'
  BY <1>1, <1>2 DEF Told, Prepared, Uploading, UploadPlaces, Kind, Run, Complete
<1> QED BY <1>1, <1>3, NoOutcome DEF Told, SealInv, SealTypes

LEMMA GivesUp ==
  ASSUME SealInv, Shape, NEW t \in Txs, NEW answer \in Ended, RollBack(t, answer),
         UNCHANGED evalVars
  PROVE  SealInv'
<1> USE DEF RollBack, evalVars
<1>1. pc'[t] = answer BY DEF Shape, Goes
<1>2. Prepared(t)' BY <1>1 DEF Prepared, Uploading, Ended
<1>3. draft'[t] = {} /\ \A s \in Txs \ {t} : draft'[s] = draft[s] BY DEF Shape
<1>4. answer \notin AtWork BY DEF AtWork, Ended
<1> QED BY <1>2, <1>3, <1>4, NoOutcome DEF SealInv, SealTypes

(* What an upload is about to write is a seal only if it is the second     *)
(* upload of a seal.                                                       *)
LEMMA UploadTells ==
  ASSUME SealInv, RowInv, NEW t \in Txs, pc[t] = "upload", uploads[t] < Len(UploadsOf(t))
  PROVE  Tells(UploadsOf(t)[uploads[t] + 1])
<1> DEFINE k == uploads[t] + 1
           x == UploadsOf(t)[k]
<1>1. uploads[t] \in Nat BY DEF SealInv, SealTypes
<1>2. CASE Kind(t) = "create"
  <2>1. op[t].runs \in Seq(Runs) BY DEF SealInv, SealTypes
  <2>2. DOMAIN op[t].runs = 1 .. Len(op[t].runs) /\ Len(op[t].runs) \in Nat BY <2>1
  <2>3. UploadsOf(t) = [n \in 1 .. Len(op[t].runs) |->
            [content |-> Dataset(ChildrenToCreate(t)[n]),
             owner |-> DatasetOwner(ChildrenToCreate(t)[n])]]
    BY <1>2, <2>2 DEF UploadsOf
  <2>4. Len(UploadsOf(t)) = Len(op[t].runs) BY <2>2, <2>3
  <2>5. k \in 1 .. Len(op[t].runs) BY <1>1, <2>2, <2>4
  <2>6. x.content = Dataset(ChildrenToCreate(t)[k]) BY <2>3, <2>5
  <2>7. x.content[1] = "eval.dataset" BY <2>6 DEF Dataset
  <2> QED BY <2>7 DEF Tells
<1>3. CASE Kind(t) = "seal"
  <2>1. UploadsOf(t) =
          <<[content |-> TestReport(t), owner |-> ReportOwner(Run(t))],
            [content |-> IF uploads[t] = 0 THEN <<>> ELSE SealContent(t),
             owner |-> SealOwner(Run(t))]>>
    BY <1>3 DEF UploadsOf
  <2>2. k \in {1, 2} BY <1>1, <2>1
  <2>3. CASE k = 1
    <3>1. x.content[1] = "gate.test-report" BY <2>1, <2>3 DEF TestReport
    <3> QED BY <3>1 DEF Tells
  <2>4. CASE k = 2
    <3>1. uploads[t] # 0 BY <1>1, <2>4
    <3>2. x = [content |-> SealContent(t), owner |-> SealOwner(Run(t))]
      BY <2>1, <2>4, <3>1
    <3>3. Complete(Run(t)) /\ view[t].outcomes = samples[Run(t)]
      BY <1>3 DEF SealInv, Told, Prepared, Uploading
    <3>4. x.content[2] = Run(t) /\ x.content[4] = view[t].outcomes
      BY <3>2 DEF SealContent, SealOf
    <3>5. Run(t) \in Runs BY DEF RowInv, RowTypes
    <3> QED BY <3>2, <3>3, <3>4, <3>5 DEF Tells
  <2> QED BY <2>2, <2>3, <2>4
<1>4. CASE Kind(t) = "report"
  <2>1. UploadsOf(t) = <<[content |-> Report(t), owner |-> SealOwner(Run(t))]>>
    BY <1>4 DEF UploadsOf
  <2>2. k = 1 BY <1>1, <2>1
  <2>3. x.content[1] = "eval.report" BY <2>1, <2>2 DEF Report
  <2> QED BY <2>3 DEF Tells
<1>5. CASE Kind(t) \notin {"create", "seal", "report"}
  BY <1>1, <1>5 DEF UploadsOf
<1> QED BY <1>2, <1>3, <1>4, <1>5

LEMMA UploadSeals ==
  ASSUME SealInv, RowInv, StoreInv, NEW t \in Txs, DoUpload(t) \/ FailUpload(t)
  PROVE  SealInv'
<1> USE DEF evalVars, UploadPlaces, Uploading, AtWork
<1>1. Shape /\ Told(t) BY DEF StoreInv, SealInv
<1>2. UNCHANGED evalVars BY DEF DoUpload, FailUpload
<1>3. uploads \in [Txs -> Nat] BY DEF SealInv, SealTypes
<1>4. ASSUME uploads[t] < Len(UploadsOf(t)), WriteTemporary(t, UploadsOf(t)[uploads[t] + 1])
      PROVE  SealInv'
  <2>1. Tells(UploadsOf(t)[uploads[t] + 1]) BY <1>4, UploadTells DEF WriteTemporary
  <2>2. target'[t] = UploadsOf(t)[uploads[t] + 1] /\ \A s \in Txs \ {t} : target'[s] = target[s]
    BY <1>1, <1>4 DEF WriteTemporary, Shape
  <2>3. Tells(target'[t]) BY <2>1, <2>2
  <2> QED BY <1>1, <1>2, <1>3, <1>4, <2>2, <2>3, GoesOn DEF WriteTemporary
<1>5. ASSUME pc[t] \in AtWork, target' = target PROVE Tells(target'[t])
  BY <1>1, <1>5 DEF Told
<1>6. CASE \/ AwaitLock(t, "lockTemporary", TemporaryLock(File(t)), "lockObject")
           \/ AwaitLock(t, "lockObject", UploadLock(t), "promote")
           \/ Promote(t)
  <2>1. Tells(target'[t]) BY <1>5, <1>6 DEF AwaitLock, Promote
  <2> QED BY <1>1, <1>2, <1>3, <1>6, <2>1, GoesOn DEF AwaitLock, Promote
<1>7. CASE InsertManifest(t)
  <2> USE <1>7 DEF InsertManifest
  <2> DEFINE row == [content |-> target[t].content, owner |-> target[t].owner, by |-> t]
  <2>1. Tells(target[t]) BY <1>1 DEF Told
  <2>2. Tells(row) BY <2>1 DEF Tells
  <2>3. draft'[t] \subseteq draft[t] \cup {row} /\ \A s \in Txs \ {t} : draft'[s] = draft[s]
    BY <1>1 DEF Shape
  <2>4. \A m \in draft'[t] : Tells(m)
    <3> HIDE DEF row
    <3> QED BY <1>1, <2>2, <2>3 DEF Told
  <2>5. uploads' \in [Txs -> Nat] BY <1>3
  <2>6. Prepared(t)'
    BY <1>1, <1>2 DEF Told, Prepared, Kind, Run, Complete
  <2> QED BY <1>1, <1>2, <2>3, <2>4, <2>5, <2>6, NoOutcome DEF SealInv, SealTypes
<1>8. CASE LoseTemporary(t) \/ RefuseManifest(t) \/ FailPromotion(t)
  BY <1>1, <1>2, <1>8, GivesUp DEF LoseTemporary, RefuseManifest, FailPromotion, Ended
<1> QED BY <1>4, <1>6, <1>7, <1>8 DEF DoUpload, Upload, FailUpload

LEMMA ReconcileSeals ==
  ASSUME SealInv, StoreInv, NEW t \in Txs, Reconcile(t)
  PROVE  SealInv'
<1> USE DEF evalVars, UploadPlaces, AtWork
<1>1. Shape /\ Told(t) BY DEF StoreInv, SealInv
<1>2. UNCHANGED evalVars BY DEF Reconcile
<1>3. uploads \in [Txs -> Nat] BY DEF SealInv, SealTypes
<1>4. CASE \E files, place : List(t, files, place) /\ place \in {"orphans", "temporaries"}
  BY <1>1, <1>2, <1>3, <1>4, GoesOn DEF List
<1>5. CASE Pick(t, "orphans", "lockOrphan") \/ Pick(t, "temporaries", "lockStale")
  <2>1. \A s \in Txs \ {t} : target'[s] = target[s] BY <1>1, <1>5 DEF Pick, Shape
  <2> QED BY <1>1, <1>2, <1>3, <1>5, <2>1, GoesOn DEF Pick
<1>6. CASE \/ AwaitLock(t, "lockOrphan", OrphanLock(t), "look")
           \/ AwaitLock(t, "lockStale", StaleLock(t), "unlink")
           \/ Spare(t) \/ LookUp(t) \/ DeleteObject(t) \/ DeleteTemporary(t)
  BY <1>1, <1>2, <1>3, <1>6, GoesOn
  DEF AwaitLock, Spare, LookUp, DeleteObject, DeleteTemporary
<1>7. CASE EndReconcile(t)
  <2>1. draft'[t] = {} /\ \A s \in Txs \ {t} : draft'[s] = draft[s]
    BY <1>1, <1>7 DEF EndReconcile, CommitRows, Shape
  <2>2. pc'[t] = "done" BY <1>1, <1>7 DEF EndReconcile, CommitRows, Goes, Shape
  <2>3. Prepared(t)' BY <2>2 DEF Prepared, Uploading
  <2> QED
    BY <1>1, <1>2, <1>3, <1>7, <2>1, <2>3, NoOutcome
    DEF EndReconcile, CommitRows, SealInv, SealTypes
<1> QED
  BY <1>4, <1>5, <1>6, <1>7 DEF Reconcile, ReconcileOrphans, ReconcileTemporary

(* The locked row is read: a seal sees a complete run, a recorder a unit   *)
(* without an outcome.                                                     *)
LEMMA LockRunSeals ==
  ASSUME SealInv, RowInv, StoreInv, NEW t \in Txs, LockRun(t)
  PROVE  SealInv'
<1>1. Shape BY DEF StoreInv
<1>2. UNCHANGED <<op, samples>> /\ uploads \in [Txs -> Nat] /\ DOMAIN view = Txs
  BY DEF LockRun, SealInv, SealTypes
<1>3. CASE RollBack(t, "refused") /\ UNCHANGED view
  BY <1>1, <1>3, GivesUp DEF LockRun, evalVars, Ended
<1>4. CASE /\ Allowed(t, Seen(t)) /\ Goes(t, "upload") /\ Reads(t, Seen(t))
           /\ UNCHANGED <<objects, temps, manifests, draft, uploads, target, todo>>
  <2>1. view'[t].outcomes = samples[Run(t)] /\ \A s \in Txs \ {t} : view'[s] = view[s]
    BY <1>2, <1>4 DEF Reads
  <2>2. DOMAIN view' = Txs BY <1>2, <1>4 DEF Reads
  <2>3. Prepared(t)'
    BY <1>2, <1>4, <2>1 DEF Prepared, Allowed, Kind, Run, Complete
  <2>4. "upload" \notin AtWork BY DEF AtWork
  <2>5. \A m \in draft'[t] : Tells(m) BY <1>4 DEF SealInv, Told
  <2> QED BY <1>1, <1>2, <1>4, <2>1, <2>2, <2>3, <2>4, <2>5, NoOutcome
<1> QED BY <1>3, <1>4 DEF LockRun

LEMMA LockCampaignSeals ==
  ASSUME SealInv, StoreInv, NEW t \in Txs, LockCampaign(t)
  PROVE  SealInv'
<1>1. Shape BY DEF StoreInv
<1>2. UNCHANGED <<op, samples>> /\ uploads \in [Txs -> Nat] /\ DOMAIN view = Txs
  BY DEF LockCampaign, SealInv, SealTypes
<1>3. CASE RollBack(t, "refused") /\ UNCHANGED view
  BY <1>1, <1>3, GivesUp DEF LockCampaign, evalVars, Ended
<1>4. CASE /\ \/ Goes(t, "upload") /\ UNCHANGED view
              \/ Goes(t, "peeked") /\ Reads(t, status[Run(t)])
           /\ UNCHANGED <<objects, temps, manifests, draft, uploads, target, todo>>
  <2>1. PICK place \in {"upload", "peeked"} : Goes(t, place) BY <1>4
  <2>2. DOMAIN view' = Txs /\ \A s \in Txs \ {t} : view'[s] = view[s]
    BY <1>2, <1>4 DEF Reads
  <2>3. Prepared(t)' BY <1>2 DEF LockCampaign, Prepared, Kind
  <2>4. place \notin AtWork BY DEF AtWork
  <2>5. \A m \in draft'[t] : Tells(m) BY <1>4 DEF SealInv, Told
  <2> QED BY <1>1, <1>2, <1>4, <2>1, <2>2, <2>3, <2>4, <2>5, NoOutcome
<1> QED BY <1>3, <1>4 DEF LockCampaign

LEMMA OtherSeals ==
  ASSUME SealInv, StoreInv, NEW t \in Txs,
         \/ Verify(t) \/ BeginCreate(t) \/ Conflict(t)
         \/ Crash(t) \/ Disconnect(t) \/ Victim(t)
  PROVE  SealInv'
<1> USE DEF evalVars
<1>1. Shape BY DEF StoreInv
<1>2. UNCHANGED evalVars BY DEF Verify, BeginCreate, Conflict, Crash, Disconnect, Victim
<1>3. uploads \in [Txs -> Nat] BY DEF SealInv, SealTypes
<1>4. CASE \E answer \in Ended : RollBack(t, answer)
  BY <1>1, <1>2, <1>4, GivesUp
<1>5. CASE Conflict(t) \/ Crash(t) \/ Victim(t)
  BY <1>4, <1>5 DEF Conflict, Crash, Victim, Ended
<1>6. CASE Verify(t)
  <2>1. CASE RollBack(t, "refused") \/ RollBack(t, "unverified")
    BY <1>4, <2>1 DEF Ended
  <2>2. CASE Goes(t, "upload") /\ UNCHANGED <<manifests, draft, uploads, target>>
    <3>1. Kind(t) \notin {"record", "seal"} BY <1>6 DEF Verify
    <3>2. "upload" \notin AtWork BY DEF AtWork
    <3> QED BY <1>1, <1>2, <1>3, <2>2, <3>1, <3>2, GoesOn
  <2> QED BY <1>6, <2>1, <2>2 DEF Verify
<1>7. CASE BeginCreate(t)
  <2>1. Kind(t) \notin {"record", "seal"} BY <1>7 DEF BeginCreate
  <2>2. "upload" \notin AtWork BY DEF AtWork
  <2> QED BY <1>1, <1>2, <1>3, <1>7, <2>1, <2>2, GoesOn DEF BeginCreate
<1>8. CASE Disconnect(t)
  <2>1. CASE LoseConnection(t) BY <1>4, <2>1 DEF LoseConnection, Alone, Ended
  <2>2. CASE FinishAlone(t)
    <3>1. PICK place \in {"failed", "strayed"} :
            Goes(t, place) /\ UNCHANGED <<manifests, draft, uploads, target>>
      BY <2>2 DEF FinishAlone
    <3>2. place \notin AtWork /\ place \notin UploadPlaces BY DEF AtWork, UploadPlaces
    <3> QED BY <1>1, <1>2, <1>3, <3>1, <3>2, GoesOn
  <2> QED BY <1>8, <2>1, <2>2 DEF Disconnect
<1> QED BY <1>5, <1>6, <1>7, <1>8

(* An outcome is recorded where there is none, in a run that is therefore  *)
(* not complete: no seal tells of it.                                      *)
LEMMA CommitSeals ==
  ASSUME SealInv, RowInv, StoreInv, NEW t \in Txs, Commit(t)
  PROVE  SealInv'
<1> DEFINE run == Run(t)
           unit == op[t].unit
<1>1. Shape /\ Told(t) /\ Uploading(t) BY Committing DEF StoreInv, SealInv
<1>2. UNCHANGED <<op, view, target, uploads>> BY DEF Commit, CommitRows
<1>3. pc'[t] = "done" /\ \A s \in Txs \ {t} : pc'[s] = pc[s]
  BY <1>1 DEF Commit, CommitRows, Goes, Shape
<1>4. draft'[t] = {} /\ \A s \in Txs \ {t} : draft'[s] = draft[s]
  BY <1>1 DEF Commit, CommitRows, Shape
<1>5. Prepared(t)' BY <1>3 DEF Prepared, Uploading
<1>6. CASE Kind(t) # "record"
  <2>1. UNCHANGED samples BY <1>6 DEF Commit
  <2>2. "done" \notin AtWork BY DEF AtWork
  <2> QED
    BY <1>1, <1>2, <1>4, <1>5, <2>1, <2>2, NoOutcome
    DEF Commit, CommitRows, SealInv, SealTypes
<1>7. CASE Kind(t) = "record"
  <2>1. samples' = [samples EXCEPT ![run][unit] = op[t].result] BY <1>7 DEF Commit
  <2>2. samples \in [Runs -> [Units -> Results \cup {Registered}]] /\ run \in Runs /\ unit \in Units
    BY <1>7 DEF SealInv, SealTypes, RowInv, RowTypes
  <2>3. samples[run][unit] = Registered BY <1>1, <1>7 DEF Told, Prepared
  <2>4. ~Complete(run) BY <2>2, <2>3 DEF Complete
  <2>5. ASSUME NEW r \in Runs, r # run PROVE samples'[r] = samples[r]
    BY <2>1, <2>2, <2>5
  <2>6. ASSUME NEW m, Tells(m) PROVE Tells(m)'
    <3> SUFFICES ASSUME m.content[1] = "eval.sealed-run"
                 PROVE  /\ m.content[2] \in Runs /\ m.owner = SealOwner(m.content[2])
                        /\ Complete(m.content[2])' /\ m.content[4] = samples'[m.content[2]]
      BY DEF Tells
    <3>1. /\ m.content[2] \in Runs /\ m.owner = SealOwner(m.content[2])
          /\ Complete(m.content[2]) /\ m.content[4] = samples[m.content[2]]
      BY <2>6 DEF Tells
    <3>2. m.content[2] # run BY <2>4, <3>1
    <3> QED BY <2>5, <3>1, <3>2 DEF Complete
  <2>7. \A m \in manifests' : Tells(m)'
    BY <1>1, <2>6 DEF SealInv, Told, Commit, CommitRows
  <2>8. Told(t)'
    BY <1>3, <1>4, <1>5 DEF Told, AtWork
  <2>9. ASSUME NEW s \in Txs, s # t PROVE Told(s)'
    <3>1. Told(s) BY DEF SealInv
    <3>2. pc'[s] = pc[s] /\ draft'[s] = draft[s] /\ target'[s] = target[s] /\ view'[s] = view[s]
      BY <1>2, <1>3, <1>4, <2>9
    <3>3. \A m \in draft'[s] : Tells(m)' BY <2>6, <3>1, <3>2 DEF Told
    <3>4. pc'[s] \in AtWork => Tells(target[s])'
      <4> SUFFICES ASSUME pc[s] \in AtWork PROVE Tells(target[s])' BY <3>2
      <4>1. Tells(target[s]) BY <3>1 DEF Told
      <4>2. target'[s] = target[s] BY <3>2
      <4> QED BY <4>1, <4>2, <2>6 DEF Tells, Complete
    <3>5. Prepared(s)'
      <4> SUFFICES ASSUME Uploading(s)
                   PROVE  /\ Kind(s) = "seal" =>
                               Complete(Run(s))' /\ view'[s].outcomes = samples'[Run(s)]
                          /\ Kind(s) = "record" => samples'[Run(s)][op[s].unit] = Registered
        BY <1>2, <3>2 DEF Prepared, Uploading, Kind, Run
      <4>1. Prepared(s) /\ Run(s) \in Runs BY <3>1 DEF Told, RowInv, RowTypes
      <4>2. ASSUME Kind(s) = "seal"
            PROVE  Complete(Run(s))' /\ view'[s].outcomes = samples'[Run(s)]
        <5>1. Complete(Run(s)) /\ view[s].outcomes = samples[Run(s)]
          BY <4>1, <4>2 DEF Prepared
        <5>2. Run(s) # run BY <2>4, <5>1
        <5>3. samples'[Run(s)] = samples[Run(s)] /\ Run(s)' = Run(s)
          BY <1>2, <2>5, <4>1, <5>2 DEF Run
        <5> QED BY <3>2, <5>1, <5>3 DEF Complete
      <4>3. ASSUME Kind(s) = "record" PROVE samples'[Run(s)][op[s].unit] = Registered
        <5>1. <<RunLock(Run(s)), s>> \in locks BY <4>3 DEF RowInv, RunHeld
        <5>2. <<RunLock(run), t>> \in locks BY <1>7, Committing
        <5>3. Run(s) # run BY <2>9, <5>1, <5>2 DEF StoreInv, OneHolder
        <5> QED BY <2>5, <4>1, <4>3, <5>3 DEF Prepared
      <4> QED BY <4>2, <4>3
    <3> QED BY <3>3, <3>4, <3>5 DEF Told
  <2>10. SealTypes'
    <3>1. op[t].result \in Results BY <1>7 DEF SealInv, SealTypes
    <3>2. samples' \in [Runs -> [Units -> Results \cup {Registered}]]
      BY <2>1, <2>2, <3>1
    <3> QED BY <1>2, <3>2 DEF SealInv, SealTypes, Kind
  <2> QED BY <2>7, <2>8, <2>9, <2>10 DEF SealInv
<1> QED BY <1>6, <1>7

LEMMA SealStep == SealInv /\ RowInv /\ StoreInv /\ [Next]_vars => SealInv'
<1> SUFFICES ASSUME SealInv, RowInv, StoreInv, [Next]_vars PROVE SealInv' OBVIOUS
<1>1. CASE UNCHANGED vars
  <2>1. UNCHANGED <<op, samples, view, manifests, draft, pc, target, uploads>>
    BY <1>1 DEF vars, storeVars, evalVars
  <2>2. SealTypes' BY <2>1 DEF SealInv, SealTypes, Kind
  <2>3. \A m \in manifests' : Tells(m)' BY <2>1 DEF SealInv, Tells, Complete
  <2>4. ASSUME NEW t \in Txs PROVE Told(t)'
    <3>1. Told(t) BY DEF SealInv
    <3>2. \A m \in draft'[t] : Tells(m)' BY <2>1, <3>1 DEF Told, Tells, Complete
    <3>3. pc'[t] \in AtWork => Tells(target[t])' BY <2>1, <3>1 DEF Told, Tells, Complete
    <3>4. Prepared(t)' BY <2>1, <3>1 DEF Told, Prepared, Uploading, Kind, Run, Complete
    <3> QED BY <3>2, <3>3, <3>4 DEF Told
  <2> QED BY <2>2, <2>3, <2>4 DEF SealInv
<1>2. ASSUME NEW t \in Txs,
             Works(t) \/ FailUpload(t) \/ Crash(t) \/ Disconnect(t) \/ Victim(t)
      PROVE  SealInv'
  BY <1>2, UploadSeals, ReconcileSeals, LockRunSeals, LockCampaignSeals, OtherSeals,
     CommitSeals
  DEF Works
<1> QED BY <1>1, <1>2 DEF Next

LEMMA SealInit == Init => SealInv
<1> SUFFICES ASSUME Init PROVE SealInv OBVIOUS
<1>1. PICK cast \in Casts :
        /\ op = cast.op
        /\ manifests = {[content |-> Dataset(r), owner |-> DatasetOwner(r), by |-> NoTx] :
                          r \in cast.born}
  BY DEF Init
<1>2. SealTypes
  <2>1. samples \in [Runs -> [Units -> Results \cup {Registered}]] BY DEF Init
  <2>2. uploads \in [Txs -> Nat] /\ DOMAIN view = Txs BY DEF Init
  <2>3. ASSUME NEW t \in Txs
        PROVE  /\ op[t].runs \in Seq(Runs)
               /\ Kind(t) = "record" => op[t].unit \in Units /\ op[t].result \in Results
    BY <1>1, EvalAssumption DEF Kind
  <2> QED BY <2>1, <2>2, <2>3 DEF SealTypes
<1>3. ASSUME NEW m \in manifests PROVE Tells(m)
  <2>1. m.content[1] = "eval.dataset" BY <1>1 DEF Dataset
  <2> QED BY <2>1 DEF Tells
<1>4. \A t \in Txs : Told(t) BY DEF Init, Told, AtWork, Prepared, Uploading
<1> QED BY <1>2, <1>3, <1>4 DEF SealInv

(* A committed seal tells the outcomes of all units as they are ever after *)
(* (seal_run): they are read before its uploads, under the lock of the row *)
(* that record_outcome also takes, and no outcome is overwritten.          *)
THEOREM SealsAreTrue == Spec => []SealsTellTheOutcomes
BY StoreInit, StoreStep, RowInit, RowStep, SealInit, SealStep, SealsTold, PTL DEF Spec

-----------------------------------------------------------------------------
(* Who locks what                                                          *)

Reconciles(t) == Kind(t) \in {"reconcile", "reconcileTemporary"}
ReconcilePlaces == {"orphans", "lockOrphan", "look", "delete",
                    "temporaries", "lockStale", "unlink"}

(* The uploads whose objects t has locked.                                 *)
Done(t) == IF pc[t] \in {"promote", "manifest"} THEN uploads[t] + 1 ELSE uploads[t]

HoldsRun(t, l) ==
  /\ l = RunLock(Run(t)) /\ Uploading(t)
  /\ Kind(t) \in {"record", "pause", "resume", "seal", "resumeChild"}

HoldsCampaign(t, l) ==
  /\ l = CampaignLock(CampaignOf[Run(t)])
  /\ Uploading(t) \/ pc[t] = "peeked"
  /\ Kind(t) \in {"complete", "resumeChild"}

HoldsTemporary(t, l) == \E n : l = TemporaryLock(<<t, n>>)

HoldsDataset(t, l) ==
  /\ Kind(t) = "create" /\ Uploading(t)
  /\ \E n \in DOMAIN op[t].runs :
       n <= Done(t) /\ l = ObjectLock(Dataset(ChildrenToCreate(t)[n]))

IsSealOf(r, c) == c[1] = "eval.sealed-run" /\ c[2] = r

HoldsSeal(t, l) ==
  /\ Kind(t) = "seal" /\ Uploading(t)
  /\ \/ Done(t) >= 1 /\ l = ObjectLock(TestReport(t))
     \/ Done(t) >= 2 /\ \E c : l = ObjectLock(c) /\ IsSealOf(Run(t), c)

HoldsReport(t, l) ==
  /\ Kind(t) = "report" /\ Uploading(t)
  /\ Done(t) >= 1 /\ l = ObjectLock(Report(t))

Fits(t, l) ==
  \/ Reconciles(t)
  \/ HoldsRun(t, l) \/ HoldsCampaign(t, l) \/ HoldsTemporary(t, l)
  \/ HoldsDataset(t, l) \/ HoldsSeal(t, l) \/ HoldsReport(t, l)

(* What t uploads next.                                                    *)
Wants(t, c) ==
  \/ /\ Kind(t) = "create" /\ uploads[t] + 1 \in DOMAIN op[t].runs
     /\ c = Dataset(ChildrenToCreate(t)[uploads[t] + 1])
  \/ Kind(t) = "seal" /\ uploads[t] = 0 /\ c = TestReport(t)
  \/ Kind(t) = "seal" /\ uploads[t] = 1 /\ IsSealOf(Run(t), c)
  \/ Kind(t) = "report" /\ uploads[t] = 0 /\ c = Report(t)

Orderly(t) ==
  /\ pc[t] \in AtWork => Wants(t, target[t].content)
  /\ pc[t] \in ReconcilePlaces => Reconciles(t)
  /\ \A l : <<l, t>> \in locks => Fits(t, l)

LockInv == \A t \in Txs : Orderly(t)

(* A step of one transaction takes no lock for another.                    *)
LEMMA OthersLocks ==
  ASSUME LockInv, Shape, NEW t \in Txs, NEW place, Goes(t, place), op' = op,
         \A s \in Txs \ {t} :
           /\ target'[s] = target[s] /\ uploads'[s] = uploads[s]
           /\ \A l : <<l, s>> \in locks' => <<l, s>> \in locks,
         Orderly(t)'
  PROVE  LockInv'
<1> SUFFICES ASSUME NEW s \in Txs, s # t PROVE Orderly(s)' BY DEF LockInv
<1>1. pc'[s] = pc[s] /\ target'[s] = target[s] /\ uploads'[s] = uploads[s]
  BY DEF Shape, Goes
<1>2. Orderly(s) BY DEF LockInv
<1> USE DEF Kind, Run, Uploading, TestReport, Report, ChildrenToCreate, Done
<1>3. pc'[s] \in AtWork => Wants(s, target[s].content)'
  BY <1>1, <1>2 DEF Orderly, Wants
<1>4. pc'[s] \in ReconcilePlaces => Reconciles(s)'
  BY <1>1, <1>2 DEF Orderly, Reconciles
<1>5. ASSUME NEW l, <<l, s>> \in locks' PROVE Fits(s, l)'
  <2>1. Fits(s, l) BY <1>2, <1>5 DEF Orderly
  <2>2. /\ Reconciles(s) => Reconciles(s)'
        /\ HoldsRun(s, l) => HoldsRun(s, l)'
        /\ HoldsCampaign(s, l) => HoldsCampaign(s, l)'
        /\ HoldsTemporary(s, l) => HoldsTemporary(s, l)'
    BY <1>1 DEF Reconciles, HoldsRun, HoldsCampaign, HoldsTemporary
  <2>3. HoldsDataset(s, l) => HoldsDataset(s, l)' BY <1>1 DEF HoldsDataset
  <2>4. HoldsSeal(s, l) => HoldsSeal(s, l)' BY <1>1 DEF HoldsSeal
  <2>5. HoldsReport(s, l) => HoldsReport(s, l)' BY <1>1 DEF HoldsReport
  <2> QED BY <2>1, <2>2, <2>3, <2>4, <2>5 DEF Fits
<1> QED BY <1>3, <1>4, <1>5 DEF Orderly

(* A transaction that goes on holds what it held; what it locks beside     *)
(* that must fit.                                                          *)
LEMMA GoesOnLocked ==
  ASSUME LockInv, SealInv, Shape, NEW t \in Txs, NEW place, Goes(t, place), op' = op,
         uploads' \in [Txs -> Nat],
         \A s \in Txs \ {t} :
           /\ target'[s] = target[s] /\ uploads'[s] = uploads[s]
           /\ \A l : <<l, s>> \in locks' => <<l, s>> \in locks,
         \A l : <<l, t>> \in locks' => <<l, t>> \in locks \/ Fits(t, l)',
         Uploading(t) => place \in UploadPlaces /\ Done(t) <= Done(t)',
         pc[t] = "peeked" => place \in UploadPlaces,
         place \in AtWork => Wants(t, target[t].content)',
         place \in ReconcilePlaces => Reconciles(t)
  PROVE  LockInv'
<1>1. pc'[t] = place BY DEF Shape, Goes
<1>2. Orderly(t) BY DEF LockInv
<1>3. Kind(t)' = Kind(t) /\ Run(t)' = Run(t) /\ TestReport(t)' = TestReport(t)
      /\ Report(t)' = Report(t) /\ ChildrenToCreate(t)' = ChildrenToCreate(t)
  BY DEF Kind, Run, TestReport, Report, ChildrenToCreate
<1>4. Uploading(t) \/ pc[t] = "peeked" => Uploading(t)'
  BY <1>1 DEF Uploading, UploadPlaces
<1>5. Done(t) \in Nat /\ Done(t)' \in Nat BY DEF SealInv, SealTypes, Done
<1>6. ASSUME NEW l, Fits(t, l) PROVE Fits(t, l)'
  <2>1. /\ Reconciles(t) => Reconciles(t)'
        /\ HoldsRun(t, l) => HoldsRun(t, l)'
        /\ HoldsCampaign(t, l) => HoldsCampaign(t, l)'
        /\ HoldsTemporary(t, l) => HoldsTemporary(t, l)'
    BY <1>3, <1>4 DEF Reconciles, HoldsRun, HoldsCampaign, HoldsTemporary
  <2>2. HoldsDataset(t, l) => HoldsDataset(t, l)'
    <3> SUFFICES ASSUME HoldsDataset(t, l) PROVE HoldsDataset(t, l)' OBVIOUS
    <3>1. PICK n \in DOMAIN op[t].runs :
            n <= Done(t) /\ l = ObjectLock(Dataset(ChildrenToCreate(t)[n]))
      BY DEF HoldsDataset
    <3>2. op[t].runs \in Seq(Runs) BY DEF SealInv, SealTypes
    <3>3. n \in Nat BY <3>1, <3>2
    <3>4. Done(t) <= Done(t)' /\ Uploading(t)' /\ Kind(t) = "create"
      BY <1>4 DEF HoldsDataset
    <3>5. n <= Done(t)' BY <1>5, <3>1, <3>3, <3>4
    <3> QED BY <1>3, <3>1, <3>4, <3>5 DEF HoldsDataset
  <2>3. HoldsSeal(t, l) => HoldsSeal(t, l)' BY <1>3, <1>4, <1>5 DEF HoldsSeal
  <2>4. HoldsReport(t, l) => HoldsReport(t, l)' BY <1>3, <1>4, <1>5 DEF HoldsReport
  <2> QED BY <1>6, <2>1, <2>2, <2>3, <2>4 DEF Fits
<1>7. \A l : <<l, t>> \in locks' => Fits(t, l)' BY <1>2, <1>6 DEF Orderly
<1>8. Reconciles(t)' <=> Reconciles(t) BY <1>3 DEF Reconciles
<1>9. Orderly(t)' BY <1>1, <1>7, <1>8 DEF Orderly
<1> QED BY <1>9, OthersLocks

LEMMA GivesUpLocks ==
  ASSUME LockInv, Shape, NEW t \in Txs, NEW answer \in Ended, Goes(t, answer), op' = op,
         locks' = Released(t), target' = target, uploads' = uploads
  PROVE  LockInv'
<1>1. pc'[t] = answer BY DEF Shape, Goes
<1>2. Orderly(t)' BY <1>1 DEF Orderly, AtWork, ReconcilePlaces, Ended, Released
<1> QED BY <1>2, OthersLocks DEF Released

(* What an upload is about to write.                                       *)
LEMMA UploadWants ==
  ASSUME SealInv, NEW t \in Txs, uploads[t] < Len(UploadsOf(t))
  PROVE  Wants(t, UploadsOf(t)[uploads[t] + 1].content)
<1> DEFINE k == uploads[t] + 1
           x == UploadsOf(t)[k]
<1>1. uploads[t] \in Nat BY DEF SealInv, SealTypes
<1>2. CASE Kind(t) = "create"
  <2>1. op[t].runs \in Seq(Runs) BY DEF SealInv, SealTypes
  <2>2. DOMAIN op[t].runs = 1 .. Len(op[t].runs) /\ Len(op[t].runs) \in Nat BY <2>1
  <2>3. UploadsOf(t) = [n \in 1 .. Len(op[t].runs) |->
            [content |-> Dataset(ChildrenToCreate(t)[n]),
             owner |-> DatasetOwner(ChildrenToCreate(t)[n])]]
    BY <1>2, <2>2 DEF UploadsOf
  <2>4. Len(UploadsOf(t)) = Len(op[t].runs) BY <2>2, <2>3
  <2>5. k \in 1 .. Len(op[t].runs) BY <1>1, <2>2, <2>4
  <2>6. x.content = Dataset(ChildrenToCreate(t)[k]) BY <2>3, <2>5
  <2> QED BY <1>2, <2>2, <2>5, <2>6 DEF Wants
<1>3. CASE Kind(t) = "seal"
  <2>1. UploadsOf(t) =
          <<[content |-> TestReport(t), owner |-> ReportOwner(Run(t))],
            [content |-> IF uploads[t] = 0 THEN <<>> ELSE SealContent(t),
             owner |-> SealOwner(Run(t))]>>
    BY <1>3 DEF UploadsOf
  <2>2. uploads[t] \in {0, 1} BY <1>1, <2>1
  <2>3. CASE uploads[t] = 0
    <3>1. x.content = TestReport(t) BY <2>1, <2>3
    <3> QED BY <1>3, <2>3, <3>1 DEF Wants
  <2>4. CASE uploads[t] = 1
    <3>1. x.content = SealContent(t) BY <2>1, <2>4
    <3>2. IsSealOf(Run(t), x.content) BY <3>1 DEF IsSealOf, SealContent, SealOf
    <3> QED BY <1>3, <2>4, <3>2 DEF Wants
  <2> QED BY <2>2, <2>3, <2>4
<1>4. CASE Kind(t) = "report"
  <2>1. UploadsOf(t) = <<[content |-> Report(t), owner |-> SealOwner(Run(t))]>>
    BY <1>4 DEF UploadsOf
  <2>2. uploads[t] = 0 BY <1>1, <2>1
  <2> QED BY <1>4, <2>1, <2>2 DEF Wants
<1>5. CASE Kind(t) \notin {"create", "seal", "report"}
  BY <1>1, <1>5 DEF UploadsOf
<1> QED BY <1>2, <1>3, <1>4, <1>5

LEMMA UploadLocks ==
  ASSUME LockInv, SealInv, StoreInv, NEW t \in Txs, DoUpload(t) \/ FailUpload(t)
  PROVE  LockInv'
<1> USE DEF UploadPlaces, AtWork, ReconcilePlaces, Uploading, Done
<1>1. Shape /\ Orderly(t) BY DEF StoreInv, LockInv
<1>2. op' = op BY DEF DoUpload, FailUpload, evalVars
<1>3. uploads \in [Txs -> Nat] BY DEF SealInv, SealTypes
<1>4. ASSUME NEW c, Wants(t, c), uploads' = uploads PROVE Wants(t, c)'
  BY <1>2, <1>4 DEF Wants, Kind, Run, TestReport, Report, ChildrenToCreate
<1>5. ASSUME uploads[t] < Len(UploadsOf(t)), WriteTemporary(t, UploadsOf(t)[uploads[t] + 1])
      PROVE  LockInv'
  <2> USE <1>5 DEF WriteTemporary
  <2>1. Wants(t, UploadsOf(t)[uploads[t] + 1].content) BY UploadWants
  <2>2. target'[t] = UploadsOf(t)[uploads[t] + 1] /\ \A s \in Txs \ {t} : target'[s] = target[s]
    BY <1>1 DEF Shape
  <2>3. Wants(t, target[t].content)'
    BY <1>2, <2>1, <2>2 DEF Wants, Kind, Run, TestReport, Report, ChildrenToCreate
  <2>4. pc'[t] = "lockTemporary" BY <1>1 DEF Shape, Goes
  <2>5. Done(t) <= Done(t)' BY <1>3, <2>4
  <2> QED BY <1>1, <1>2, <1>3, <2>2, <2>3, <2>5, GoesOnLocked
<1>6. ASSUME pc[t] \in AtWork, target' = target, uploads' = uploads
      PROVE  Wants(t, target[t].content)'
  <2>1. Wants(t, target[t].content) BY <1>1, <1>6 DEF Orderly
  <2> QED BY <1>2, <1>6, <2>1 DEF Wants, Kind, Run, TestReport, Report, ChildrenToCreate
<1>7. CASE AwaitLock(t, "lockTemporary", TemporaryLock(File(t)), "lockObject")
  <2> USE <1>7 DEF AwaitLock
  <2>1. pc'[t] = "lockObject" BY <1>1 DEF Shape, Goes
  <2> DEFINE l == TemporaryLock(File(t))
  <2>2. l' = l /\ HoldsTemporary(t, l)' BY DEF HoldsTemporary, File
  <2>3. \A m : <<m, t>> \in locks' => <<m, t>> \in locks \/ Fits(t, m)'
    <3> SUFFICES ASSUME NEW m, <<m, t>> \in locks', <<m, t>> \notin locks PROVE Fits(t, m)'
      OBVIOUS
    <3>1. m = l BY DEF Taken
    <3>2. Fits(t, l)' BY <2>2 DEF Fits
    <3> QED BY <2>2, <3>1, <3>2
  <2>4. Wants(t, target[t].content)' BY <1>6
  <2>5. Done(t) <= Done(t)' BY <1>3, <2>1
  <2> QED BY <1>1, <1>2, <1>3, <2>3, <2>4, <2>5, GoesOnLocked DEF Taken
<1>8. CASE AwaitLock(t, "lockObject", UploadLock(t), "promote")
  <2> USE <1>8 DEF AwaitLock
  <2> DEFINE c == target[t].content
  <2>1. pc'[t] = "promote" BY <1>1 DEF Shape, Goes
  <2>2. Wants(t, c) BY <1>1 DEF Orderly
  <2>3. Done(t)' = uploads[t] + 1 /\ uploads[t] \in Nat BY <1>3, <2>1
  <2>4. Uploading(t)' BY <2>1
  <2>5. Kind(t)' = Kind(t) /\ Run(t)' = Run(t) /\ TestReport(t)' = TestReport(t)
        /\ Report(t)' = Report(t) /\ ChildrenToCreate(t)' = ChildrenToCreate(t)
    BY <1>2 DEF Kind, Run, TestReport, Report, ChildrenToCreate
  <2>6. Fits(t, ObjectLock(c))'
    <3>1. CASE /\ Kind(t) = "create" /\ uploads[t] + 1 \in DOMAIN op[t].runs
               /\ c = Dataset(ChildrenToCreate(t)[uploads[t] + 1])
      <4>1. uploads[t] + 1 <= Done(t)' BY <2>3
      <4>2. HoldsDataset(t, ObjectLock(c))'
        BY <1>2, <2>4, <2>5, <3>1, <4>1 DEF HoldsDataset
      <4> QED BY <4>2 DEF Fits
    <3>2. CASE Kind(t) = "seal" /\ uploads[t] = 0 /\ c = TestReport(t)
      BY <2>3, <2>4, <2>5, <3>2 DEF Fits, HoldsSeal
    <3>3. CASE Kind(t) = "seal" /\ uploads[t] = 1 /\ IsSealOf(Run(t), c)
      BY <2>3, <2>4, <2>5, <3>3 DEF Fits, HoldsSeal
    <3>4. CASE Kind(t) = "report" /\ uploads[t] = 0 /\ c = Report(t)
      BY <2>3, <2>4, <2>5, <3>4 DEF Fits, HoldsReport
    <3> QED BY <2>2, <3>1, <3>2, <3>3, <3>4 DEF Wants
  <2>7. \A l : <<l, t>> \in locks' => <<l, t>> \in locks \/ Fits(t, l)'
    BY <2>6 DEF Taken, UploadLock
  <2>8. Wants(t, target[t].content)' BY <1>6
  <2>9. Done(t) <= Done(t)' BY <1>3, <2>3
  <2> QED BY <1>1, <1>2, <1>3, <2>7, <2>8, <2>9, GoesOnLocked DEF Taken
<1>9. CASE Promote(t)
  <2> USE <1>9 DEF Promote
  <2>1. pc'[t] = "manifest" BY <1>1 DEF Shape, Goes
  <2>2. Wants(t, target[t].content)' BY <1>6
  <2>3. Done(t) <= Done(t)' BY <1>3, <2>1
  <2> QED BY <1>1, <1>2, <1>3, <2>2, <2>3, GoesOnLocked
<1>10. CASE InsertManifest(t)
  <2> USE <1>10 DEF InsertManifest
  <2>1. pc'[t] = "upload" BY <1>1 DEF Shape, Goes
  <2>2. uploads'[t] = uploads[t] + 1 /\ \A s \in Txs \ {t} : uploads'[s] = uploads[s]
    BY <1>3
  <2>3. uploads' \in [Txs -> Nat] BY <1>3
  <2>4. Done(t) <= Done(t)' BY <1>3, <2>1, <2>2
  <2> QED BY <1>1, <1>2, <2>2, <2>3, <2>4, GoesOnLocked
<1>11. CASE LoseTemporary(t) \/ RefuseManifest(t) \/ FailPromotion(t)
  BY <1>1, <1>2, <1>11, GivesUpLocks
  DEF LoseTemporary, RefuseManifest, FailPromotion, RollBack, Ended
<1> QED
  BY <1>5, <1>7, <1>8, <1>9, <1>10, <1>11 DEF DoUpload, Upload, FailUpload

LEMMA ReconcileLocks ==
  ASSUME LockInv, SealInv, StoreInv, NEW t \in Txs, Reconcile(t)
  PROVE  LockInv'
<1> USE DEF UploadPlaces, AtWork, Uploading
<1>1. Shape /\ Orderly(t) BY DEF StoreInv, LockInv
<1>2. op' = op /\ uploads' = uploads
  BY DEF Reconcile, evalVars, ReconcileOrphans, ReconcileTemporary, EndReconcile, CommitRows,
         List, Pick, AwaitLock, Spare, LookUp, DeleteObject, DeleteTemporary
<1>3. uploads \in [Txs -> Nat] BY DEF SealInv, SealTypes
<1>4. CASE EndReconcile(t)
  BY <1>1, <1>2, <1>4, GivesUpLocks DEF EndReconcile, CommitRows, Ended
<1>5. CASE \/ ReconcileOrphans(t) /\ Kind(t) = "reconcile"
           \/ ReconcileTemporary(t) /\ Kind(t) = "reconcileTemporary"
  <2>1. Reconciles(t) /\ Reconciles(t)' BY <1>2, <1>5 DEF Reconciles, Kind
  <2>2. \A l : Fits(t, l)' BY <2>1 DEF Fits
  <2>3. pc[t] \notin UploadPlaces /\ pc[t] # "peeked"
    BY <1>5
    DEF ReconcileOrphans, ReconcileTemporary, List, Pick, AwaitLock, Spare, LookUp,
        DeleteObject, DeleteTemporary
  <2>4. PICK place : Goes(t, place) /\ place \in ReconcilePlaces
    BY <1>5
    DEF ReconcileOrphans, ReconcileTemporary, List, Pick, AwaitLock, Spare, LookUp,
        DeleteObject, DeleteTemporary, ReconcilePlaces
  <2>5. \A s \in Txs \ {t} :
          target'[s] = target[s] /\ \A l : <<l, s>> \in locks' => <<l, s>> \in locks
    BY <1>1, <1>5
    DEF ReconcileOrphans, ReconcileTemporary, List, Pick, AwaitLock, Spare, LookUp,
        DeleteObject, DeleteTemporary, Taken, Shape
  <2>6. place \notin AtWork BY <2>4 DEF ReconcilePlaces
  <2> QED
    BY <1>1, <1>2, <1>3, <2>1, <2>2, <2>3, <2>4, <2>5, <2>6, GoesOnLocked
<1> QED BY <1>4, <1>5 DEF Reconcile

LEMMA RowLocks ==
  ASSUME LockInv, SealInv, RowInv, StoreInv, NEW t \in Txs,
         LockRun(t) \/ LockCampaign(t) \/ Verify(t) \/ BeginCreate(t)
  PROVE  LockInv'
<1> USE DEF Uploading
<1>1. Shape /\ Orderly(t) BY DEF StoreInv, LockInv
<1>2. op' = op BY DEF LockRun, LockCampaign, Verify, BeginCreate, evalVars
<1>3. uploads \in [Txs -> Nat] BY DEF SealInv, SealTypes
<1>4. ASSUME NEW answer \in Ended, RollBack(t, answer) PROVE LockInv'
  BY <1>1, <1>2, <1>4, GivesUpLocks DEF RollBack
<1>5. ASSUME NEW place \in {"upload", "peeked"}, Goes(t, place),
             pc[t] = "start" \/ (pc[t] = "peeked" /\ place = "upload"),
             \A s \in Txs \ {t}, l \in {x[1] : x \in locks'} :
               <<l, s>> \in locks' => <<l, s>> \in locks,
             \A l : <<l, t>> \in locks' => <<l, t>> \in locks \/ Fits(t, l)',
             UNCHANGED <<uploads, target>>
      PROVE  LockInv'
  <2>1. /\ place \notin AtWork /\ place \notin ReconcilePlaces
        /\ ~Uploading(t)
        /\ pc[t] = "peeked" => place \in UploadPlaces
    BY <1>5 DEF AtWork, ReconcilePlaces, UploadPlaces
  <2>2. ASSUME NEW s \in Txs \ {t}, NEW l, <<l, s>> \in locks' PROVE <<l, s>> \in locks
    <3>1. <<l, s>>[1] = l OBVIOUS
    <3>2. l \in {x[1] : x \in locks'} BY <2>2, <3>1
    <3> QED BY <1>5, <2>2, <3>2
  <2> QED BY <1>1, <1>2, <1>3, <1>5, <2>1, <2>2, GoesOnLocked
<1>6. CASE LockRun(t)
  <2>1. CASE RollBack(t, "refused") BY <1>4, <2>1 DEF Ended
  <2>2. CASE /\ locks' = Taken(t, AwaitedRun(t)) /\ Goes(t, "upload")
             /\ UNCHANGED <<uploads, target>>
    <3>1. pc[t] = "peeked" => Kind(t) = "resumeChild"
      BY DEF RowInv, CampaignHeld, OnCampaign
    <3>2. pc'[t] = "upload" BY <1>1, <2>2 DEF Shape, Goes
    <3>3. HoldsRun(t, RunLock(Run(t)))'
      BY <1>2, <1>6, <3>1, <3>2 DEF LockRun, HoldsRun, Kind, Run
    <3>4. Fits(t, AwaitedRun(t))'
      BY <1>2, <3>3 DEF Fits, AwaitedRun, Run
    <3>5. AwaitedRun(t)' = AwaitedRun(t) BY <1>2 DEF AwaitedRun, Run
    <3>6. \A l : <<l, t>> \in locks' => <<l, t>> \in locks \/ Fits(t, l)'
      BY <2>2, <3>4, <3>5 DEF Taken
    <3>7. \A s \in Txs \ {t}, l \in {x[1] : x \in locks'} :
            <<l, s>> \in locks' => <<l, s>> \in locks
      BY <2>2 DEF Taken
    <3>8. pc[t] = "start" \/ pc[t] = "peeked" BY <1>6 DEF LockRun
    <3> QED BY <1>5, <2>2, <3>6, <3>7, <3>8
  <2> QED BY <1>6, <2>1, <2>2 DEF LockRun
<1>7. CASE LockCampaign(t)
  <2>1. CASE RollBack(t, "refused") BY <1>4, <2>1 DEF Ended
  <2>2. CASE /\ locks' = Taken(t, AwaitedCampaign(t))
             /\ Goes(t, "upload") \/ Goes(t, "peeked")
             /\ UNCHANGED <<uploads, target>>
    <3>1. PICK place \in {"upload", "peeked"} : Goes(t, place) BY <2>2
    <3>2. pc'[t] = place BY <1>1, <3>1 DEF Shape, Goes
    <3>3. HoldsCampaign(t, CampaignLock(CampaignOf[Run(t)]))'
      BY <1>2, <1>7, <3>2 DEF LockCampaign, HoldsCampaign, Kind, Run
    <3>4. AwaitedCampaign(t)' = AwaitedCampaign(t)
          /\ AwaitedCampaign(t)' = CampaignLock(CampaignOf[Run(t)])'
      BY <1>2 DEF AwaitedCampaign, Run
    <3>5. \A l : <<l, t>> \in locks' => <<l, t>> \in locks \/ Fits(t, l)'
      BY <2>2, <3>3, <3>4 DEF Taken, Fits
    <3>6. \A s \in Txs \ {t}, l \in {x[1] : x \in locks'} :
            <<l, s>> \in locks' => <<l, s>> \in locks
      BY <2>2 DEF Taken
    <3>7. pc[t] = "start" BY <1>7 DEF LockCampaign
    <3> QED BY <1>5, <2>2, <3>1, <3>5, <3>6, <3>7
  <2> QED BY <1>7, <2>1, <2>2 DEF LockCampaign
<1>8. CASE Verify(t)
  <2>1. CASE RollBack(t, "refused") \/ RollBack(t, "unverified")
    BY <1>4, <2>1 DEF Ended
  <2>2. CASE Goes(t, "upload") /\ UNCHANGED <<locks, uploads, target>>
    BY <1>5, <1>8, <2>2 DEF Verify
  <2> QED BY <1>8, <2>1, <2>2 DEF Verify
<1>9. CASE BeginCreate(t) BY <1>5, <1>9 DEF BeginCreate
<1> QED BY <1>6, <1>7, <1>8, <1>9

LEMMA LockStepAll == LockInv /\ SealInv /\ RowInv /\ StoreInv /\ [Next]_vars => LockInv'
<1> SUFFICES ASSUME LockInv, SealInv, RowInv, StoreInv, [Next]_vars PROVE LockInv' OBVIOUS
<1>1. CASE UNCHANGED vars
  <2>1. UNCHANGED <<op, pc, target, uploads, locks>> BY <1>1 DEF vars, storeVars, evalVars
  <2> SUFFICES ASSUME NEW t \in Txs PROVE Orderly(t)' BY DEF LockInv
  <2>2. Orderly(t) BY DEF LockInv
  <2> USE <2>1 DEF Kind, Run, Uploading, TestReport, Report, ChildrenToCreate, Done
  <2>3. pc'[t] \in AtWork => Wants(t, target[t].content)' BY <2>2 DEF Orderly, Wants
  <2>4. pc'[t] \in ReconcilePlaces => Reconciles(t)' BY <2>2 DEF Orderly, Reconciles
  <2>5. ASSUME NEW l, <<l, t>> \in locks' PROVE Fits(t, l)'
    <3>1. Fits(t, l) BY <2>2, <2>5 DEF Orderly
    <3> QED
      BY <3>1
      DEF Fits, Reconciles, HoldsRun, HoldsCampaign, HoldsTemporary, HoldsDataset,
          HoldsSeal, HoldsReport
  <2> QED BY <2>3, <2>4, <2>5 DEF Orderly
<1>2. ASSUME NEW t \in Txs, Conflict(t) \/ Commit(t) \/ Crash(t) \/ Victim(t) PROVE LockInv'
  <2>1. Shape BY DEF StoreInv
  <2> QED
    BY <1>2, <2>1, GivesUpLocks
    DEF Conflict, Commit, CommitRows, Crash, Victim, RollBack, evalVars, Ended
<1>4. ASSUME NEW t \in Txs, Disconnect(t) PROVE LockInv'
  <2>1. Shape /\ op' = op BY <1>4 DEF StoreInv, Disconnect, evalVars
  <2>2. CASE LoseConnection(t)
    BY <2>1, <2>2, GivesUpLocks DEF LoseConnection, Alone, RollBack, Ended
  <2>3. CASE FinishAlone(t)
    <3>1. PICK place \in {"failed", "strayed"} :
            Goes(t, place) /\ UNCHANGED <<locks, uploads, target>>
      BY <2>3 DEF FinishAlone
    <3>2. ~Uploading(t) /\ pc[t] # "peeked" BY <2>3 DEF FinishAlone, Uploading
    <3>3. place \notin AtWork /\ place \notin ReconcilePlaces
      BY DEF AtWork, ReconcilePlaces
    <3>4. uploads \in [Txs -> Nat] BY DEF SealInv, SealTypes
    <3> QED BY <2>1, <3>1, <3>2, <3>3, <3>4, GoesOnLocked
  <2> QED BY <1>4, <2>2, <2>3 DEF Disconnect
<1>3. ASSUME NEW t \in Txs,
             Works(t) \/ FailUpload(t) \/ Crash(t) \/ Disconnect(t) \/ Victim(t)
      PROVE  LockInv'
  BY <1>2, <1>3, <1>4, UploadLocks, ReconcileLocks, RowLocks DEF Works
<1> QED BY <1>1, <1>3 DEF Next

LEMMA LockInit == Init => LockInv
BY DEF Init, LockInv, Orderly, AtWork, ReconcilePlaces

-----------------------------------------------------------------------------
(* Who waits for whom                                                      *)

WaitsForObject(t, s) ==
  /\ pc[t] = "lockObject" /\ Wants(t, target[t].content)
  /\ LET l == ObjectLock(target[t].content)
     IN  HoldsDataset(s, l) \/ HoldsSeal(s, l) \/ HoldsReport(s, l)

WaitsForRun(t, s) == pc[t] \in {"start", "peeked"} /\ HoldsRun(s, RunLock(Run(t)))

WaitsForCampaign(t, s) ==
  pc[t] = "start" /\ HoldsCampaign(s, CampaignLock(CampaignOf[Run(t)]))

LEMMA Waiting ==
  ASSUME LockInv, NEW t \in Txs, NEW s \in Txs, ~Reconciles(t), ~Reconciles(s),
         WaitsFor(t, s)
  PROVE  WaitsForObject(t, s) \/ WaitsForRun(t, s) \/ WaitsForCampaign(t, s)
<1> DEFINE l == Awaited(t)
<1>1. s # t /\ Orderly(t) /\ Fits(s, l) BY DEF WaitsFor, LockInv, Orderly
<1> USE DEF HoldsRun, HoldsCampaign, HoldsTemporary, HoldsDataset, HoldsSeal, HoldsReport,
            RunLock, CampaignLock, TemporaryLock, ObjectLock
<1>2. CASE pc[t] = "lockTemporary"
  <2>1. l = <<"temporary", <<t, uploads[t] + 1>>>> BY <1>2 DEF Awaited, File
  <2>2. HoldsTemporary(s, l) BY <1>1, <2>1 DEF Fits
  <2>3. s = t BY <2>1, <2>2
  <2> QED BY <1>1, <2>3
<1>3. CASE pc[t] = "lockObject"
  <2>1. l = ObjectLock(target[t].content) BY <1>3 DEF Awaited, UploadLock
  <2>2. HoldsDataset(s, l) \/ HoldsSeal(s, l) \/ HoldsReport(s, l)
    BY <1>1, <2>1 DEF Fits
  <2>3. Wants(t, target[t].content) BY <1>1, <1>3 DEF Orderly, AtWork
  <2> QED BY <1>3, <2>1, <2>2, <2>3 DEF WaitsForObject
<1>4. CASE pc[t] \in {"lockOrphan", "lockStale"}
  BY <1>1, <1>4 DEF Orderly, ReconcilePlaces
<1>5. CASE \/ pc[t] = "peeked"
           \/ pc[t] = "start" /\ Kind(t) \in {"record", "pause", "resume", "seal"}
  <2>1. l = RunLock(Run(t)) BY <1>5 DEF Awaited, AwaitedRun
  <2>2. HoldsRun(s, l) BY <1>1, <2>1 DEF Fits
  <2> QED BY <1>5, <2>1, <2>2 DEF WaitsForRun
<1>6. CASE pc[t] = "start" /\ Kind(t) \in {"complete", "resumeChild"}
  <2>1. l = CampaignLock(CampaignOf[Run(t)]) BY <1>6 DEF Awaited, AwaitedCampaign
  <2>2. HoldsCampaign(s, l) BY <1>1, <2>1 DEF Fits
  <2> QED BY <1>6, <2>1, <2>2 DEF WaitsForCampaign
<1>7. CASE l = <<"nothing", t>>
  BY <1>1, <1>7 DEF Fits
<1> QED BY <1>2, <1>3, <1>4, <1>5, <1>6, <1>7 DEF Awaited

(* A seal waits for nobody's object: its run is locked, and so are the     *)
(* seals of its run.                                                       *)
LEMMA NoneSealsBeside ==
  ASSUME LockInv, RowInv, StoreInv, NEW t \in Txs, NEW s \in Txs, s # t,
         WaitsForObject(t, s), Kind(t) = "seal", uploads[t] = 1
  PROVE  FALSE
<1> DEFINE c == target[t].content
           l == ObjectLock(c)
<1>1. IsSealOf(Run(t), c) BY DEF WaitsForObject, Wants
<1>2. HoldsSeal(s, l)
  BY <1>1
  DEF WaitsForObject, IsSealOf, HoldsDataset, HoldsReport, ObjectLock, Dataset, Report
<1>3. Kind(s) = "seal" /\ Uploading(s) /\ Run(s) = Run(t)
  BY <1>1, <1>2 DEF HoldsSeal, IsSealOf, ObjectLock, TestReport
<1>4. <<RunLock(Run(t)), s>> \in locks BY <1>3 DEF RowInv, RunHeld
<1>5. Uploading(t) BY DEF WaitsForObject, Uploading
<1>6. <<RunLock(Run(t)), t>> \in locks BY <1>5 DEF RowInv, RunHeld
<1> QED BY <1>4, <1>6 DEF StoreInv, OneHolder

LEMMA NoCircle ==
  ASSUME LockInv, SealInv, RowInv, StoreInv, NEW S \in SUBSET Txs, Circle(S)
  PROVE  \E t \in S : Reconciles(t)
<1> SUFFICES ASSUME \A t \in S : ~Reconciles(t) PROVE FALSE OBVIOUS
<1>1. \A t \in S : \E s \in S :
        /\ s # t
        /\ WaitsForObject(t, s) \/ WaitsForRun(t, s) \/ WaitsForCampaign(t, s)
  <2> SUFFICES ASSUME NEW t \in S
               PROVE  \E s \in S : s # t /\
                        (WaitsForObject(t, s) \/ WaitsForRun(t, s) \/ WaitsForCampaign(t, s))
    OBVIOUS
  <2>1. PICK s \in S : WaitsFor(t, s) BY DEF Circle
  <2> QED BY <2>1, Waiting DEF WaitsFor
<1>2. \A t \in Txs : uploads[t] \in Nat BY DEF SealInv, SealTypes
(* Whoever has uploads to do and waits, waits for an object.               *)
<1>3. ASSUME NEW t \in S, Uploading(t)
      PROVE  \E s \in S : s # t /\ WaitsForObject(t, s)
  BY <1>1, <1>3 DEF Uploading, WaitsForRun, WaitsForCampaign
<1>4. ASSUME NEW t \in S, NEW s \in S, WaitsForObject(t, s) PROVE Kind(t) # "report"
  <2> SUFFICES ASSUME Kind(t) = "report" PROVE FALSE OBVIOUS
  <2>1. target[t].content[1] = "eval.report" BY <1>4 DEF WaitsForObject, Wants, Report
  <2>2. HoldsReport(s, ObjectLock(target[t].content))
    BY <1>4, <2>1
    DEF WaitsForObject, HoldsDataset, HoldsSeal, IsSealOf, ObjectLock, Dataset, TestReport
  <2>3. Kind(s) = "report" /\ Uploading(s) /\ Done(s) >= 1 BY <2>2 DEF HoldsReport
  <2>4. PICK u \in S : WaitsForObject(s, u) BY <1>3, <2>3
  <2>5. pc[s] = "lockObject" /\ uploads[s] = 0 BY <2>3, <2>4 DEF WaitsForObject, Wants
  <2> QED BY <2>3, <2>5 DEF Done
<1>5. ASSUME NEW t \in S, NEW s \in S, s # t, WaitsForObject(t, s) PROVE Kind(t) # "seal"
  <2> SUFFICES ASSUME Kind(t) = "seal" PROVE FALSE OBVIOUS
  <2>1. uploads[t] = 0 /\ target[t].content[1] = "gate.test-report"
    BY <1>5, NoneSealsBeside DEF WaitsForObject, Wants, TestReport
  <2>2. HoldsSeal(s, ObjectLock(target[t].content))
    BY <1>5, <2>1 DEF WaitsForObject, HoldsDataset, HoldsReport, ObjectLock, Dataset, Report
  <2>3. Kind(s) = "seal" /\ Uploading(s) /\ Done(s) >= 1
    BY <1>2, <2>2 DEF HoldsSeal, Done
  <2>4. PICK u \in S : u # s /\ WaitsForObject(s, u) BY <1>3, <2>3
  <2>5. pc[s] = "lockObject" /\ uploads[s] \in {0, 1}
    BY <2>3, <2>4 DEF WaitsForObject, Wants
  <2>6. uploads[s] = 1 BY <2>3, <2>5 DEF Done
  <2> QED BY <2>3, <2>4, <2>6, NoneSealsBeside
<1>6. ASSUME NEW t \in S, Uploading(t) PROVE Kind(t) = "create"
  <2>1. PICK s \in S : s # t /\ WaitsForObject(t, s) BY <1>3, <1>6
  <2> QED BY <2>1, <1>4, <1>5 DEF WaitsForObject, Wants
<1>7. ASSUME NEW t \in S, NEW s \in S, WaitsForRun(t, s) PROVE FALSE
  BY <1>6, <1>7 DEF WaitsForRun, HoldsRun
<1>8. ASSUME NEW t \in S, NEW s \in S, WaitsForCampaign(t, s) PROVE FALSE
  <2>1. /\ Uploading(s) \/ pc[s] = "peeked"
        /\ Kind(s) \in {"complete", "resumeChild"}
    BY <1>8 DEF WaitsForCampaign, HoldsCampaign
  <2>2. pc[s] = "peeked" BY <1>6, <2>1
  <2> QED BY <1>1, <1>7, <2>2 DEF WaitsForObject, WaitsForCampaign
(* What is left are creations, each waiting for a dataset further on in the*)
(* registry than those it has locked: one of them waits for the last.      *)
<1> DEFINE next(t) == ChildrenToCreate(t)[uploads[t] + 1]
           left(t) == Datasets - DatasetOf[next(t)]
           D == {left(t) : t \in S}
<1>9. ASSUME NEW t \in S
      PROVE  /\ Kind(t) = "create" /\ pc[t] = "lockObject"
             /\ uploads[t] + 1 \in DOMAIN op[t].runs
             /\ target[t].content = Dataset(next(t))
             /\ \E s \in S : HoldsDataset(s, ObjectLock(Dataset(next(t))))
  <2>1. PICK s \in S : s # t /\ WaitsForObject(t, s) BY <1>1, <1>7, <1>8
  <2>2. Kind(t) = "create" BY <2>1, <1>4, <1>5 DEF WaitsForObject, Wants
  <2>3. /\ pc[t] = "lockObject" /\ uploads[t] + 1 \in DOMAIN op[t].runs
        /\ target[t].content = Dataset(next(t))
    BY <2>1, <2>2 DEF WaitsForObject, Wants
  <2>4. HoldsDataset(s, ObjectLock(Dataset(next(t))))
    BY <2>1, <2>3
    DEF WaitsForObject, HoldsSeal, HoldsReport, IsSealOf, ObjectLock, Dataset, TestReport, Report
  <2> QED BY <2>2, <2>3, <2>4
<1>10. ASSUME NEW t \in S
       PROVE  /\ ChildrenToCreate(t) \in [DOMAIN op[t].runs -> Runs]
              /\ InRegistryOrder(ChildrenToCreate(t))
  <2>1. PICK cast \in Casts : op = cast.op BY DEF RowInv, RowTypes
  <2>2. \E s \in Arrangements(op[t].runs) : InRegistryOrder(s)
    BY <1>9, <2>1, RegistryAssumption DEF Kind
  <2>3. /\ ChildrenToCreate(t) \in Arrangements(op[t].runs)
        /\ InRegistryOrder(ChildrenToCreate(t))
    BY <2>2 DEF ChildrenToCreate
  <2>4. Created(t) \subseteq Runs BY DEF RowInv, RowTypes
  <2> QED BY <2>3, <2>4 DEF Arrangements, Created
<1>11. ASSUME NEW t \in S PROVE left(t) \in Nat
  <2>1. next(t) \in Runs BY <1>9, <1>10
  <2>2. DatasetOf[next(t)] \in 1 .. Datasets /\ Datasets \in Nat BY <2>1, EvalAssumption
  <2> QED BY <2>2
<1>12. ASSUME NEW t \in S PROVE \E s \in S : left(s) < left(t)
  <2>1. PICK s \in S : HoldsDataset(s, ObjectLock(Dataset(next(t)))) BY <1>9
  <2>2. PICK n \in DOMAIN op[s].runs :
          /\ n <= Done(s)
          /\ ObjectLock(Dataset(next(t))) = ObjectLock(Dataset(ChildrenToCreate(s)[n]))
    BY <2>1 DEF HoldsDataset
  <2>3. DatasetOf[next(t)] = DatasetOf[ChildrenToCreate(s)[n]]
    BY <2>2 DEF ObjectLock, Dataset
  <2>4. Done(s) = uploads[s] /\ uploads[s] \in Nat BY <1>2, <1>9 DEF Done
  <2>5. op[s].runs \in Seq(Runs) BY DEF SealInv, SealTypes
  <2>6. n \in Nat BY <2>2, <2>5
  <2>7. n < uploads[s] + 1 BY <2>2, <2>4, <2>6
  <2>8. /\ DOMAIN ChildrenToCreate(s) = DOMAIN op[s].runs
        /\ uploads[s] + 1 \in DOMAIN op[s].runs
    BY <1>9, <1>10
  <2>9. DatasetOf[ChildrenToCreate(s)[n]] < DatasetOf[next(s)]
    BY <1>10, <2>2, <2>7, <2>8 DEF InRegistryOrder
  <2>10. next(s) \in Runs /\ next(t) \in Runs BY <1>9, <1>10
  <2>11. /\ DatasetOf[next(s)] \in 1 .. Datasets /\ DatasetOf[next(t)] \in 1 .. Datasets
         /\ Datasets \in Nat
    BY <2>10, EvalAssumption
  <2>12. left(s) < left(t) BY <2>3, <2>9, <2>11
  <2> QED BY <2>12
<1>13. D \subseteq Nat /\ D # {} BY <1>11 DEF Circle
<1>14. PICK x \in D : \A y \in D : ~ (<<y, x>> \in OpToRel(<, Nat))
  <2> HIDE DEF D
  <2> QED BY <1>13, NatLessThanWellFounded, WFMin, Zenon
<1>15. PICK t \in S : x = left(t) BY <1>14
<1>16. PICK s \in S : left(s) < left(t) BY <1>12
<1>17. left(s) \in D /\ left(s) \in Nat /\ left(t) \in Nat BY <1>11
<1>18. <<left(s), x>> \in OpToRel(<, Nat)
  <2> HIDE DEF left
  <2> QED BY <1>15, <1>16, <1>17, Zenon DEF OpToRel
<1> QED BY <1>14, <1>17, <1>18

(* Every circle of waiting transactions has a reconciliation in it: the    *)
(* services take the rows of campaigns before those of runs, and both      *)
(* before objects, which creations lock in the order of the registry and   *)
(* seals of different runs do not share twice (create, seal_run).          *)
THEOREM OnlyReconcilersClose == Spec => []CirclesNeedAReconciler
<1>1. LockInv /\ SealInv /\ RowInv /\ StoreInv => CirclesNeedAReconciler
  BY NoCircle DEF CirclesNeedAReconciler, Reconciles
<1> QED
  BY StoreInit, StoreStep, RowInit, RowStep, SealInit, SealStep, LockInit, LockStepAll,
     <1>1, PTL
  DEF Spec
=============================================================================
