--------------------------- MODULE ArtifactStore ---------------------------
(***************************************************************************)
(* The artifacts of one workspace: files of the object store               *)
(* (object_store/posix.py) and the manifest rows that own them             *)
(* (object_store/service.py).  A file is there as soon as it is linked; a  *)
(* manifest is there when its transaction commits.  Only the advisory      *)
(* locks of ArtifactService, kept until a transaction ends, hold the two   *)
(* together.                                                               *)
(*                                                                         *)
(* An object is its content, for its key is the digest.  Modification      *)
(* times are abstracted by what a cutoff makes of them: a reconciliation   *)
(* may list any of the files there are, in any order of their keys, and    *)
(* may find any of them modified again since.                              *)
(***************************************************************************)
EXTENDS Naturals, Sequences, FiniteSets

CONSTANTS
  Txs,           \* database transactions, each run once
  NoTx           \* the identity of rows that were there at the start

ASSUME StoreAssumption == NoTx \notin Txs

VARIABLES
  objects,       \* contents under objects/, each at its immutable key
  temps,         \* files under temporary/: <<t, n>> is the n-th upload of t
  manifests,     \* committed rows of artifact_manifests
  draft,         \* rows a transaction has inserted and not committed
  locks,         \* <<resource, t>>: t holds the lock on resource
  pc,            \* what a transaction does next, or how it ended
  uploads,       \* uploads a transaction has finished
  target,        \* the content, and its owner, a transaction is working on
  todo           \* files a reconciliation has listed and not looked at

storeVars == <<objects, temps, manifests, draft, locks, pc, uploads, target, todo>>

Nothing == [content |-> <<>>, owner |-> <<>>]

ObjectLock(c) == <<"immutable", c>>
TemporaryLock(k) == <<"temporary", k>>

(* Places of a transaction that is over; in the last three its process has *)
(* not noticed.                                                            *)
Ended == {"done", "refused", "failed", "unverified", "strayed",
          "promoteAlone", "deleteAlone", "unlinkAlone"}
Live(t) == pc[t] \notin Ended

-----------------------------------------------------------------------------
(* Locks last until the transaction ends.                                  *)

Free(t, l) == \A held \in locks : held[1] = l => held[2] = t
Taken(t, l) == locks \cup {<<l, t>>}

Released(t) == {held \in locks : held[2] # t}
Goes(t, place) == pc' = [pc EXCEPT ![t] = place]

(* A rollback: what t inserted is gone, the files it made are not.         *)
RollBack(t, answer) ==
  /\ Goes(t, answer)
  /\ draft' = [draft EXCEPT ![t] = {}]
  /\ locks' = Released(t)
  /\ UNCHANGED <<manifests, uploads, target, todo>>

(* A commit: what t inserted is there for all.                             *)
CommitRows(t) ==
  /\ Goes(t, "done")
  /\ manifests' = manifests \cup draft[t]
  /\ draft' = [draft EXCEPT ![t] = {}]
  /\ locks' = Released(t)
  /\ UNCHANGED <<objects, temps, uploads, target, todo>>

AwaitLock(t, at, lock, place) ==
  /\ pc[t] = at
  /\ Free(t, lock)
  /\ locks' = Taken(t, lock)
  /\ Goes(t, place)
  /\ UNCHANGED <<objects, temps, manifests, draft, uploads, target, todo>>

Visible(t) == manifests \cup draft[t]
RowsOf(t, c) == {m \in Visible(t) : m.content = c}

-----------------------------------------------------------------------------
(* write_temporary and commit_upload                                       *)

File(t) == <<t, uploads[t] + 1>>

WriteTemporary(t, upload) ==
  /\ pc[t] = "upload"
  /\ temps' = temps \cup {File(t)}
  /\ target' = [target EXCEPT ![t] = upload]
  /\ Goes(t, "lockTemporary")
  /\ UNCHANGED <<objects, manifests, draft, locks, uploads, todo>>

UploadLock(t) == ObjectLock(target[t].content)

(* The temporary file is linked to the immutable key, where the same       *)
(* content may be already, and unlinked.                                   *)
Promote(t) ==
  /\ pc[t] = "promote"
  /\ File(t) \in temps
  /\ objects' = objects \cup {target[t].content}
  /\ temps' = temps \ {File(t)}
  /\ Goes(t, "manifest")
  /\ UNCHANGED <<manifests, draft, locks, uploads, target, todo>>

(* A reconciliation has deleted the temporary file: ObjectNotFound.        *)
LoseTemporary(t) ==
  /\ pc[t] = "promote"
  /\ File(t) \notin temps
  /\ RollBack(t, "failed")
  /\ UNCHANGED <<objects, temps>>

(* The promotion fails before or after its link, and the temporary file is *)
(* discarded.                                                              *)
FailPromotion(t) ==
  /\ pc[t] = "promote" /\ File(t) \in temps
  /\ objects' \in {objects, objects \cup {target[t].content}}
  /\ temps' = temps \ {File(t)}
  /\ RollBack(t, "failed")

Existing(t) == RowsOf(t, target[t].content)

InsertManifest(t) ==
  /\ pc[t] = "manifest"
  /\ \A m \in Existing(t) : m.owner = target[t].owner
  /\ draft' = [draft EXCEPT ![t] =
       IF Existing(t) # {} THEN @
       ELSE @ \cup {[content |-> target[t].content, owner |-> target[t].owner, by |-> t]}]
  /\ uploads' = [uploads EXCEPT ![t] = @ + 1]
  /\ Goes(t, "upload")
  /\ UNCHANGED <<objects, temps, manifests, locks, target, todo>>

(* The object has the manifest of another owner: "existing manifest        *)
(* metadata conflicts with command".                                       *)
RefuseManifest(t) ==
  /\ pc[t] = "manifest"
  /\ \E m \in Existing(t) : m.owner # target[t].owner
  /\ RollBack(t, "refused")
  /\ UNCHANGED <<objects, temps>>

Upload(t) ==
  \/ AwaitLock(t, "lockTemporary", TemporaryLock(File(t)), "lockObject")
  \/ AwaitLock(t, "lockObject", UploadLock(t), "promote")
  \/ Promote(t) \/ LoseTemporary(t)
  \/ InsertManifest(t) \/ RefuseManifest(t)

-----------------------------------------------------------------------------
(* reconcile_orphans and reconcile_temporary                               *)

(* The files modified by the cutoff are listed; they are then looked at in *)
(* the order of their keys, which may be any.                              *)
List(t, files, place) ==
  /\ pc[t] = "start"
  /\ \E listed \in SUBSET files : todo' = [todo EXCEPT ![t] = listed]
  /\ Goes(t, place)
  /\ UNCHANGED <<objects, temps, manifests, draft, locks, uploads, target>>

Pick(t, at, place) ==
  /\ pc[t] = at
  /\ \E file \in todo[t] :
       /\ target' = [target EXCEPT ![t] = [content |-> file, owner |-> <<>>]]
       /\ todo' = [todo EXCEPT ![t] = @ \ {file}]
  /\ Goes(t, place)
  /\ UNCHANGED <<objects, temps, manifests, draft, locks, uploads>>

(* Mutant of OrphanLock: a reconciliation waits for no lock.               *)
OrphanUnlocked(t) == <<"unlocked", t>>

OrphanLock(t) == ObjectLock(target[t].content)
StaleLock(t) == TemporaryLock(target[t].content)

(* The object is gone, was made again after the cutoff, or has a manifest. *)
Spare(t) ==
  /\ pc[t] = "look"
  /\ Goes(t, "orphans")
  /\ UNCHANGED <<objects, temps, manifests, draft, locks, uploads, target, todo>>

LookUp(t) ==
  /\ pc[t] = "look"
  /\ target[t].content \in objects
  /\ RowsOf(t, target[t].content) = {}
  /\ Goes(t, "delete")
  /\ UNCHANGED <<objects, temps, manifests, draft, locks, uploads, target, todo>>

DeleteObject(t) ==
  /\ pc[t] = "delete"
  /\ objects' = objects \ {target[t].content}
  /\ Goes(t, "orphans")
  /\ UNCHANGED <<temps, manifests, draft, locks, uploads, target, todo>>

(* The temporary file is deleted, unless it is gone or was written again.  *)
DeleteTemporary(t) ==
  /\ pc[t] = "unlink"
  /\ temps' \in {temps, temps \ {target[t].content}}
  /\ Goes(t, "temporaries")
  /\ UNCHANGED <<objects, manifests, draft, locks, uploads, target, todo>>

ReconcileOrphans(t) ==
  \/ List(t, objects, "orphans") \/ Pick(t, "orphans", "lockOrphan")
  \/ AwaitLock(t, "lockOrphan", OrphanLock(t), "look")
  \/ Spare(t) \/ LookUp(t) \/ DeleteObject(t)

ReconcileTemporary(t) ==
  \/ List(t, temps, "temporaries") \/ Pick(t, "temporaries", "lockStale")
  \/ AwaitLock(t, "lockStale", StaleLock(t), "unlink")
  \/ DeleteTemporary(t)

EndReconcile(t) ==
  /\ pc[t] \in {"orphans", "temporaries"} /\ todo[t] = {}
  /\ CommitRows(t)

-----------------------------------------------------------------------------
(* A connection that is lost                                               *)

(* The steps on files, which ask nothing of the database: a process that   *)
(* is about to take one does not learn that its connection is gone.        *)
Alone == [promote |-> "promoteAlone", delete |-> "deleteAlone", unlink |-> "unlinkAlone"]

(* PostgreSQL rolls back and releases the locks; the process goes on.      *)
LoseConnection(t) ==
  /\ \E step \in DOMAIN Alone : pc[t] = step /\ RollBack(t, Alone[step])
  /\ UNCHANGED <<objects, temps>>

(* It takes that step without its lock, and fails with its next statement; *)
(* or dies before.                                                         *)
FinishAlone(t) ==
  /\ \/ /\ pc[t] = "promoteAlone" /\ Goes(t, "failed")
        /\ objects' = IF File(t) \in temps THEN objects \cup {target[t].content}
                      ELSE objects
        /\ temps' = temps \ {File(t)}
     \/ /\ pc[t] = "deleteAlone" /\ Goes(t, "strayed")
        /\ objects' = objects \ {target[t].content}
        /\ UNCHANGED temps
     \/ /\ pc[t] = "unlinkAlone" /\ Goes(t, "failed")
        /\ temps' \in {temps, temps \ {target[t].content}}
        /\ UNCHANGED objects
  /\ UNCHANGED <<manifests, draft, locks, uploads, target, todo>>

-----------------------------------------------------------------------------
(* Properties                                                              *)

Strayed(c) == \E t \in Txs : pc[t] = "strayed" /\ target[t].content = c

(* A committed manifest has its object, whatever uploads failed, crashed   *)
(* or are repeated while a reconciliation deletes orphans, and although    *)
(* files are linked before and deleted without the transaction; unless a   *)
(* reconciliation deleted this object after it had lost its connection,    *)
(* and the lock with it, between its SELECT and the unlink.                *)
ManifestsHaveObjects ==
  \A m \in manifests : m.content \in objects \/ Strayed(m.content)

(* A reconciliation never deletes the object of a manifest                 *)
(* (test_reconciler_cannot_race_manifest_commit_and_delete_its_object).    *)
ReconcilerCannotRace == \A m \in manifests : m.content \in objects

(* An object has one manifest, and so one owner: uploads of one content    *)
(* at a time find or refuse each other's.                                  *)
OneManifestPerObject == \A m, n \in manifests : m.content = n.content => m = n
=============================================================================
