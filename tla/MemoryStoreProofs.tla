-------------------------- MODULE MemoryStoreProofs --------------------------
(***************************************************************************)
(* The memory keeps its promises for any records, keys, values, writers    *)
(* and requests, and any TTL.                                              *)
(*                                                                         *)
(* The ledger is the hard part: an entry that is already in the book of a  *)
(* record is skipped, so the last entry might describe a record that has   *)
(* moved on.  It does not, because a record only ever moves forward        *)
(* (Succeeds): its evidence grows and its status rises, so a description   *)
(* that is repeated has never stopped being true.                          *)
(***************************************************************************)
EXTENDS MemoryStore, SequenceTheorems, TLAPS

Plain(r) == [r EXCEPT !.age = 0]
Rank(status) == CASE status = "candidate" -> 0
                  [] status = "confirmed" -> 1
                  [] OTHER -> 2

(* s may come to stand where r stood.                                      *)
Succeeds(r, s) ==
  /\ s.key = r.key
  /\ r.evidence \subseteq s.evidence
  /\ \/ Rank(r.status) < Rank(s.status)
     \/ /\ s.status = r.status /\ s.value = r.value /\ s.version = r.version
        /\ s.next = r.next /\ s.tombstone = r.tombstone

Entries == [action : Actions, from : Status, to : Status, row : Row]

(* The book s of a record tells how it came to be r.                       *)
Accounts(s, r) ==
  /\ s # <<>>
  /\ \A n \in 2 .. Len(s) : s[n].from = s[n - 1].to
  /\ s[Len(s)].row = Plain(r) /\ s[Len(s)].to = r.status
  /\ \A n \in 1 .. Len(s) : Succeeds(s[n].row, r)

Events == [task : Writers, value : Values \cup {Redacted}, evidence : SUBSET Writers,
           status : Status]
Logs == UNION {[S -> Events] : S \in SUBSET Ids}
Views == [op : {"confirm", "revoke", "correct"}, id : Ids, row : Row]

Shape ==
  /\ Used \subseteq Ids /\ rows \in [Used -> Row]
  /\ ledger \in [Ids -> Seq(Entries)]
  /\ runLog \in [Runs -> Logs]
  /\ writer \in [Writers -> {"todo", "completed", "error"}]
  /\ seen \in [Requests -> {Idle} \cup [op : {"none"}] \cup Views]
  /\ lost \in 0 .. MaxLost

BooksFit == \A i \in Ids :
  IF i \in Used THEN Accounts(ledger[i], rows[i]) ELSE ledger[i] = <<>>

IInv == Shape /\ BooksFit /\ OneActivePerKey /\ EventsAreBacked

-----------------------------------------------------------------------------
(* The order of records.                                                   *)

LEMMA Ranks ==
  /\ \A s \in Status : Rank(s) \in 0 .. 2
  /\ Rank("candidate") = 0 /\ Rank("confirmed") = 1
  /\ \A s \in Status \ Active : Rank(s) = 2
  /\ \A s \in Active : Rank(s) < 2
BY DEF Rank, Status, Active

LEMMA PlainIsRow ==
  ASSUME NEW r \in Row
  PROVE  /\ Plain(r) \in Row
         /\ Plain(r).status = r.status
         /\ \A s : (Succeeds(s, Plain(r)) <=> Succeeds(s, r)) /\ (Succeeds(Plain(r), s) <=> Succeeds(r, s))
<1>1. Plain(r) \in Row
  BY MemoryAssumption DEF Plain, Row
<1>2. /\ Plain(r).key = r.key /\ Plain(r).evidence = r.evidence /\ Plain(r).status = r.status
      /\ Plain(r).value = r.value /\ Plain(r).version = r.version /\ Plain(r).next = r.next
      /\ Plain(r).tombstone = r.tombstone
  BY DEF Plain, Row
<1> QED
  BY <1>1, <1>2 DEF Succeeds

LEMMA SucceedsReflexive ==
  ASSUME NEW r \in Row, NEW s \in Row, Plain(s) = Plain(r)
  PROVE  Succeeds(r, s)
<1>1. /\ s.key = r.key /\ s.evidence = r.evidence /\ s.status = r.status /\ s.value = r.value
      /\ s.version = r.version /\ s.next = r.next /\ s.tombstone = r.tombstone
  BY DEF Plain, Row
<1> QED
  BY <1>1 DEF Succeeds

LEMMA SucceedsTransitive ==
  ASSUME NEW r \in Row, NEW s \in Row, NEW t \in Row, Succeeds(r, s), Succeeds(s, t)
  PROVE  Succeeds(r, t)
<1>1. Rank(r.status) \in 0 .. 2 /\ Rank(s.status) \in 0 .. 2 /\ Rank(t.status) \in 0 .. 2
  BY Ranks DEF Row
<1>2. r.evidence \subseteq t.evidence /\ t.key = r.key
  BY DEF Succeeds
<1>3. CASE Rank(r.status) < Rank(s.status) \/ Rank(s.status) < Rank(t.status)
  <2>1. Rank(r.status) < Rank(t.status)
    BY <1>1, <1>3 DEF Succeeds
  <2> QED
    BY <1>2, <2>1 DEF Succeeds
<1>4. CASE ~(Rank(r.status) < Rank(s.status) \/ Rank(s.status) < Rank(t.status))
  BY <1>2, <1>4 DEF Succeeds
<1> QED
  BY <1>3, <1>4

LEMMA SucceedsAntisymmetric ==
  ASSUME NEW r \in Row, NEW s \in Row, Succeeds(r, s), Succeeds(s, r)
  PROVE  Plain(r) = Plain(s)
<1>1. Rank(r.status) \in 0 .. 2 /\ Rank(s.status) \in 0 .. 2
  BY Ranks DEF Row
<1>2. r.evidence = s.evidence /\ r.key = s.key
  BY DEF Succeeds
<1>3. /\ s.status = r.status /\ s.value = r.value /\ s.version = r.version
      /\ s.next = r.next /\ s.tombstone = r.tombstone
  BY <1>1 DEF Succeeds
<1> QED
  BY <1>2, <1>3 DEF Plain, Row

-----------------------------------------------------------------------------
(* Books.                                                                  *)

LEMMA NoteIsOfOne ==
  ASSUME NEW book \in [Ids -> Seq(Entries)], NEW i \in Ids, NEW e \in Entries
  PROVE  /\ Note(book, i, e) \in [Ids -> Seq(Entries)]
         /\ \A j \in Ids \ {i} : Note(book, i, e)[j] = book[j]
         /\ (\E n \in DOMAIN book[i] : book[i][n] = e) => Note(book, i, e)[i] = book[i]
         /\ ~(\E n \in DOMAIN book[i] : book[i][n] = e) => Note(book, i, e)[i] = Append(book[i], e)
<1>1. book[i] \in Seq(Entries) /\ Append(book[i], e) \in Seq(Entries)
  BY AppendProperties
<1>2. CASE \E n \in DOMAIN book[i] : book[i][n] = e
  BY <1>2 DEF Note
<1>3. CASE ~\E n \in DOMAIN book[i] : book[i][n] = e
  <2>1. Note(book, i, e) = [book EXCEPT ![i] = Append(book[i], e)]
    BY <1>3 DEF Note
  <2> QED
    BY <1>1, <1>3, <2>1
<1> QED
  BY <1>2, <1>3

(* A first entry opens the book.                                           *)
LEMMA NoteOpens ==
  ASSUME NEW book \in [Ids -> Seq(Entries)], NEW i \in Ids, NEW e \in Entries,
         NEW s \in Row, book[i] = <<>>, e.row = Plain(s), e.to = s.status
  PROVE  Accounts(Note(book, i, e)[i], s)
<1> DEFINE b == Note(book, i, e)[i]
<1>0. ~\E n \in DOMAIN book[i] : book[i][n] = e
  OBVIOUS
<1>1. b = Append(book[i], e)
  BY <1>0, NoteIsOfOne
<1>2. Len(b) = 1 /\ b[1] = e /\ b # <<>>
  BY <1>1
<1>3. Succeeds(e.row, s)
  BY PlainIsRow, SucceedsReflexive
<1> HIDE DEF b
<1>4. Accounts(b, s)
  BY <1>2, <1>3 DEF Accounts
<1> QED
  BY <1>4 DEF b

(* A further entry keeps it, whether it is written or skipped.             *)
LEMMA NoteContinues ==
  ASSUME NEW book \in [Ids -> Seq(Entries)], NEW i \in Ids, NEW e \in Entries,
         NEW r \in Row, NEW s \in Row, Accounts(book[i], r), Succeeds(r, s),
         e.row = Plain(s), e.from = r.status, e.to = s.status
  PROVE  Accounts(Note(book, i, e)[i], s)
<1> DEFINE b == book[i]
<1>0. b \in Seq(Entries) /\ Len(b) \in Nat /\ DOMAIN b = 1 .. Len(b) /\ Len(b) >= 1
  BY EmptySeq, LenProperties DEF Accounts
<1>1. \A n \in 1 .. Len(b) : b[n] \in Entries /\ b[n].row \in Row /\ Succeeds(b[n].row, s)
  <2> SUFFICES ASSUME NEW n \in 1 .. Len(b)
               PROVE  b[n] \in Entries /\ b[n].row \in Row /\ Succeeds(b[n].row, s)
    OBVIOUS
  <2>1. b[n] \in Entries
    BY <1>0, ElementOfSeq
  <2>2. b[n].row \in Row
    BY <2>1 DEF Entries
  <2>3. Succeeds(b[n].row, r)
    BY DEF Accounts
  <2> QED
    BY <2>1, <2>2, <2>3, SucceedsTransitive
<1>2. CASE \E n \in DOMAIN b : b[n] = e
  <2>1. PICK n \in 1 .. Len(b) : b[n] = e
    BY <1>0, <1>2
  <2>2. Succeeds(s, r)
    BY <2>1, PlainIsRow DEF Accounts
  <2>3. Plain(r) = Plain(s)
    BY <2>2, SucceedsAntisymmetric
  <2>4. r.status = s.status
    BY <2>3, PlainIsRow
  <2>5. Note(book, i, e)[i] = b
    BY <1>2, NoteIsOfOne
  <2>6. Accounts(b, s)
    BY <1>1, <2>3, <2>4 DEF Accounts
  <2> QED
    BY <2>5, <2>6
<1>3. CASE ~\E n \in DOMAIN b : b[n] = e
  <2> DEFINE c == Append(b, e)
  <2>1. /\ c \in Seq(Entries) /\ Len(c) = Len(b) + 1 /\ c[Len(b) + 1] = e
        /\ \A n \in 1 .. Len(b) : c[n] = b[n]
    BY <1>0, AppendProperties
  <2>2. c # <<>>
    BY <1>0, <2>1
  <2>3. Succeeds(e.row, s)
    BY PlainIsRow, SucceedsReflexive
  <2>4. b[Len(b)].to = r.status
    BY DEF Accounts
  <2>5. \A n \in 2 .. Len(b) : b[n].from = b[n - 1].to
    BY DEF Accounts
  <2> HIDE DEF c
  <2>6. \A n \in 2 .. Len(c) : c[n].from = c[n - 1].to
    <3> SUFFICES ASSUME NEW n \in 2 .. Len(c) PROVE c[n].from = c[n - 1].to
      OBVIOUS
    <3>1. CASE n = Len(b) + 1
      <4>1. n - 1 = Len(b) /\ c[n] = e /\ c[n - 1] = b[Len(b)]
        BY <3>1, <1>0, <2>1
      <4> QED
        BY <4>1, <2>4
    <3>2. CASE n # Len(b) + 1
      <4>1. n \in 2 .. Len(b) /\ n - 1 \in 1 .. Len(b) /\ n \in 1 .. Len(b)
        BY <3>2, <1>0, <2>1
      <4> QED
        BY <4>1, <2>1, <2>5
    <3> QED
      BY <3>1, <3>2
  <2>7. \A n \in 1 .. Len(c) : Succeeds(c[n].row, s)
    <3> SUFFICES ASSUME NEW n \in 1 .. Len(c) PROVE Succeeds(c[n].row, s)
      OBVIOUS
    <3>1. n = Len(b) + 1 \/ n \in 1 .. Len(b)
      BY <1>0, <2>1
    <3> QED
      BY <3>1, <2>1, <2>3, <1>1
  <2>8. Accounts(c, s)
    BY <2>1, <2>2, <2>6, <2>7 DEF Accounts
  <2>9. Note(book, i, e)[i] = c
    BY <1>3, NoteIsOfOne DEF c
  <2> QED
    BY <2>8, <2>9
<1> QED
  BY <1>2, <1>3

(* Books do not tell ages.                                                 *)
LEMMA AgesAreNotTold ==
  ASSUME NEW s, NEW r \in Row, NEW t \in Row, Plain(t) = Plain(r), Accounts(s, r)
  PROVE  Accounts(s, t)
<1>1. t.status = r.status /\ (\A u : Succeeds(u, r) <=> Succeeds(u, t))
  <2>1. t.status = r.status
    BY PlainIsRow
  <2>2. ASSUME NEW u PROVE Succeeds(u, r) <=> Succeeds(u, t)
    BY PlainIsRow
  <2> QED
    BY <2>1, <2>2
<1> QED
  BY <1>1 DEF Accounts

-----------------------------------------------------------------------------
(* What the operations make of a record.                                   *)

LEMMA NoAge == 0 \in 0 .. Ttl + 1
BY MemoryAssumption

LEMMA NewRowFits ==
  ASSUME NEW w \in Writers
  PROVE  /\ NewRow(w) \in Row /\ NewRow(w).key = Input[w].key
         /\ NewRow(w).status \in Active
<1>1. /\ Input[w].key \in Keys /\ Input[w].value \in Values
      /\ Input[w].auto \in BOOLEAN /\ Input[w].undated \in BOOLEAN
  BY MemoryAssumption
<1>2. (IF Input[w].auto THEN "confirmed" ELSE "candidate") \in Active
  BY DEF Active
<1>3. (IF Input[w].undated /\ ~Input[w].auto THEN Ttl + 1 ELSE 0) \in 0 .. Ttl + 1
  BY MemoryAssumption
<1> QED
  BY <1>1, <1>2, <1>3 DEF NewRow, Row, Active, Status

LEMMA MergedFits ==
  ASSUME NEW w \in Writers, NEW r \in Row, r.status \in Active
  PROVE  /\ Merged(r, w) \in Row /\ Merged(r, w).key = r.key
         /\ Merged(r, w).status \in Active /\ Succeeds(r, Merged(r, w))
<1> DEFINE to == IF Input[w].auto THEN "confirmed" ELSE r.status
           m == [r EXCEPT !.evidence = @ \cup {w}, !.status = to,
                          !.age = IF to = "candidate" THEN @ ELSE 0]
<1>1. to \in Active /\ (to = r.status \/ (r.status = "candidate" /\ to = "confirmed"))
  BY DEF Active
<1>2. Merged(r, w) = m
  BY DEF Merged
<1> HIDE DEF to
<1>3. /\ m \in Row /\ m.key = r.key /\ m.status = to
      /\ m.evidence = r.evidence \cup {w} /\ m.value = r.value /\ m.version = r.version
      /\ m.next = r.next /\ m.tombstone = r.tombstone
  <2>1. to \in Status
    BY <1>1 DEF Active, Status
  <2> QED
    BY <2>1, NoAge DEF Row
<1> HIDE DEF m
<1>4. Succeeds(r, m)
  BY <1>1, <1>3, Ranks DEF Succeeds
<1> QED
  BY <1>1, <1>2, <1>3, <1>4

LEMMA ConfirmedFits ==
  ASSUME NEW r \in Row, r.status = "candidate"
  PROVE  LET s == [r EXCEPT !.status = "confirmed", !.age = 0]
         IN s \in Row /\ s.key = r.key /\ s.status = "confirmed" /\ Succeeds(r, s)
<1> DEFINE s == [r EXCEPT !.status = "confirmed", !.age = 0]
<1>1. s \in Row /\ s.key = r.key /\ s.status = "confirmed" /\ s.evidence = r.evidence
  BY NoAge DEF Row, Status
<1> HIDE DEF s
<1>2. Succeeds(r, s)
  BY <1>1, Ranks DEF Succeeds
<1> QED
  BY <1>1, <1>2 DEF s

LEMMA ForgetFits ==
  ASSUME NEW r \in Row, r.status \in Active, NEW to \in Forgotten
  PROVE  /\ Forget(r, to) \in Row /\ Forget(r, to).key = r.key
         /\ Forget(r, to).status = to /\ Succeeds(r, Forget(r, to))
<1> DEFINE s == [r EXCEPT !.status = to, !.value = Redacted, !.tombstone = TRUE, !.age = 0]
<1>1. s \in Row /\ s.key = r.key /\ s.status = to /\ s.evidence = r.evidence
  BY NoAge DEF Row, Status, Forgotten
<1>2. s = Forget(r, to)
  BY DEF Forget
<1> HIDE DEF s
<1>3. to \in Status \ Active
  BY DEF Status, Active, Forgotten
<1>4. Succeeds(r, s)
  BY <1>1, <1>3, Ranks DEF Succeeds
<1> QED
  BY <1>1, <1>2, <1>4

LEMMA SupersededFits ==
  ASSUME NEW r \in Row, r.status \in Active, NEW i \in Ids
  PROVE  LET s == [r EXCEPT !.status = "superseded", !.next = i, !.age = 0]
         IN s \in Row /\ s.key = r.key /\ s.status = "superseded" /\ Succeeds(r, s)
<1> DEFINE s == [r EXCEPT !.status = "superseded", !.next = i, !.age = 0]
<1>1. s \in Row /\ s.key = r.key /\ s.status = "superseded" /\ s.evidence = r.evidence
  BY NoAge DEF Row, Status
<1> HIDE DEF s
<1>2. "superseded" \in Status \ Active
  BY DEF Status, Active
<1>3. Succeeds(r, s)
  BY <1>1, <1>2, Ranks DEF Succeeds
<1> QED
  BY <1>1, <1>3 DEF s

LEMMA CorrectionFits ==
  ASSUME NEW q \in Requests, seen[q].row \in Row, NEW k \in Keys, NEW v \in Values
  PROVE  /\ Correction(q, k, v) \in Row /\ Correction(q, k, v).key = k
         /\ Correction(q, k, v).status = "confirmed"
<1> DEFINE r == seen[q].row
<1>1. r \in Row
  OBVIOUS
<1>2. Correction(q, k, v) = [r EXCEPT !.key = k, !.value = v, !.status = "confirmed",
                                      !.version = r.version + 1, !.age = 0]
  BY <1>1 DEF Correction, Row
<1> HIDE DEF r
<1>3. \A n \in Nat : LET s == [r EXCEPT !.key = k, !.value = v, !.status = "confirmed",
                                  !.version = n, !.age = 0]
                    IN s \in Row /\ s.key = k /\ s.status = "confirmed"
  BY <1>1, NoAge DEF Row, Status
<1>4. r.version + 1 \in Nat
  BY <1>1 DEF Row
<1> QED
  BY <1>2, <1>3, <1>4

(* An entry for a record.                                                  *)
LEMMA EntryFits ==
  ASSUME NEW r \in Row, NEW action \in Actions, NEW from \in Status
  PROVE  LET e == Entry(r, action, from)
         IN e \in Entries /\ e.row = Plain(r) /\ e.from = from /\ e.to = r.status
<1>1. Plain(r) \in Row /\ r.status \in Status
  BY PlainIsRow DEF Row
<1> QED
  BY <1>1 DEF Entry, Entries, Plain

-----------------------------------------------------------------------------
(* The steps.  Forward is what every one of them does to the records.      *)
USE DEF Used

Forward ==
  \A i \in Used : /\ i \in DOMAIN rows' /\ Succeeds(rows[i], rows'[i])
                  /\ rows[i].status \notin Active => rows'[i] = rows[i]

LEMMA BackingLasts ==
  ASSUME Shape, EventsAreBacked, Forward, UNCHANGED runLog
  PROVE  EventsAreBacked'
<1> SUFFICES ASSUME NEW r \in Runs, NEW i \in DOMAIN runLog[r]
             PROVE  /\ i \in DOMAIN rows'
                    /\ rows'[i].key = Input[runLog[r][i].task].key
                    /\ runLog[r][i].evidence \subseteq rows'[i].evidence
  BY DEF EventsAreBacked
<1>1. /\ i \in Used /\ rows[i].key = Input[runLog[r][i].task].key
      /\ runLog[r][i].evidence \subseteq rows[i].evidence
  BY DEF EventsAreBacked
<1> QED
  BY <1>1 DEF Forward, Succeeds

LEMMA AnswerFits ==
  ASSUME NEW w \in Writers, NEW answer \in {"completed", "error"}, Answer(w, answer),
         lost \in 0 .. MaxLost, writer \in [Writers -> {"todo", "completed", "error"}]
  PROVE  lost' \in 0 .. MaxLost /\ writer' \in [Writers -> {"todo", "completed", "error"}]
<1>1. CASE writer' = [writer EXCEPT ![w] = answer] /\ lost' = lost
  BY <1>1
<1>2. CASE lost < MaxLost /\ lost' = lost + 1 /\ writer' = writer
  BY <1>2, MemoryAssumption
<1> QED
  BY <1>1, <1>2 DEF Answer

(* The target of an upsert is the active record of its key, or a new one.  *)
LEMMA TargetIs ==
  ASSUME Shape, NEW w \in Writers, ~UpsertFails(w)
  PROVE  /\ Target(w) \in Ids
         /\ Target(w) \in Used =>
              /\ rows[Target(w)].key = Input[w].key /\ rows[Target(w)].status \in Active
              /\ Upserted(w) = Merged(rows[Target(w)], w)
         /\ Target(w) \notin Used =>
              ActiveUnder(rows, Input[w].key) = {} /\ Upserted(w) = NewRow(w)
<1> DEFINE active == ActiveUnder(rows, Input[w].key)
<1>1. active \subseteq Used /\ \A i \in active : rows[i].key = Input[w].key /\ rows[i].status \in Active
  BY DEF ActiveUnder
<1>2. Input[w].id \in Ids
  BY MemoryAssumption
<1>3. CASE active = {}
  <2>1. Target(w) = Input[w].id
    BY <1>3 DEF Target
  <2>2. Target(w) \notin Used
    BY <1>3, <2>1 DEF UpsertFails
  <2>3. Upserted(w) = NewRow(w)
    BY <1>3 DEF Upserted
  <2> QED
    BY <1>2, <1>3, <2>1, <2>2, <2>3
<1>4. CASE active # {}
  <2>1. Target(w) \in active
    BY <1>4 DEF Target
  <2>2. Upserted(w) = Merged(rows[Target(w)], w)
    BY <2>1 DEF Upserted
  <2> QED
    BY <1>1, <2>1, <2>2 DEF Shape
<1> QED
  BY <1>3, <1>4

LEMMA UpsertIs ==
  ASSUME Shape, NEW w \in Writers, ~UpsertFails(w)
  PROVE  /\ Upserted(w) \in Row /\ Upserted(w).key = Input[w].key
         /\ Upserted(w).status \in Active
         /\ Target(w) \in Used => Succeeds(rows[Target(w)], Upserted(w))
         /\ UpsertEntry(w) \in Entries /\ UpsertEntry(w).row = Plain(Upserted(w))
         /\ UpsertEntry(w).to = Upserted(w).status
         /\ Target(w) \in Used => UpsertEntry(w).from = rows[Target(w)].status
<1>1. /\ Upserted(w) \in Row /\ Upserted(w).key = Input[w].key
      /\ Upserted(w).status \in Active
      /\ Target(w) \in Used => Succeeds(rows[Target(w)], Upserted(w))
  <2>1. CASE Target(w) \in Used
    <3>1. rows[Target(w)] \in Row
      BY <2>1 DEF Shape
    <3> QED
      BY <2>1, <3>1, TargetIs, MergedFits
  <2>2. CASE Target(w) \notin Used
    BY <2>2, TargetIs, NewRowFits
  <2> QED
    BY <2>1, <2>2
<1> DEFINE new == Upserted(w)
<1>2. CASE Target(w) \in Used
  <2> DEFINE action == IF new.status = "confirmed" THEN "record.merged" ELSE "candidate.merged"
  <2>0. action \in Actions
    BY DEF Actions
  <2>1. UpsertEntry(w) = Entry(new, action, rows[Target(w)].status)
    BY <1>2 DEF UpsertEntry
  <2>2. rows[Target(w)].status \in Status
    BY <1>2 DEF Shape, Row
  <2> HIDE DEF action
  <2> QED
    BY <1>1, <1>2, <2>0, <2>1, <2>2, EntryFits
<1>3. CASE Target(w) \notin Used
  <2> DEFINE action == IF new.status = "confirmed" THEN "record.recorded" ELSE "candidate.recorded"
  <2>0. action \in Actions
    BY DEF Actions
  <2>1. UpsertEntry(w) = Entry(new, action, new.status)
    BY <1>3 DEF UpsertEntry
  <2>2. new.status \in Status
    BY <1>1 DEF Row
  <2> HIDE DEF action
  <2> QED
    BY <1>1, <1>3, <2>0, <2>1, <2>2, EntryFits
<1> QED
  BY <1>1, <1>2, <1>3

(* The tables after a committed write.                                     *)
LEMMA CommitRows ==
  ASSUME IInv, NEW w \in Writers, CommitWrite(w)
  PROVE  /\ DOMAIN rows' = Used \cup {Target(w)} /\ rows' \in [DOMAIN rows' -> Row]
         /\ rows'[Target(w)] = Upserted(w)
         /\ \A j \in Used \ {Target(w)} : rows'[j] = rows[j]
         /\ Forward /\ OneActivePerKey'
<1>1. Shape /\ OneActivePerKey /\ ~UpsertFails(w) /\ rows' = Put(rows, Target(w), Upserted(w))
  BY DEF IInv, CommitWrite
<1>2. /\ DOMAIN rows' = Used \cup {Target(w)} /\ rows'[Target(w)] = Upserted(w)
      /\ \A j \in Used \ {Target(w)} : rows'[j] = rows[j]
  BY <1>1 DEF Put
<1>3. rows' \in [DOMAIN rows' -> Row]
  <2>1. \A j \in DOMAIN rows' : rows'[j] \in Row
    BY <1>1, <1>2, UpsertIs DEF Shape
  <2>2. rows' = [j \in DOMAIN rows' |-> rows'[j]]
    BY <1>1 DEF Put
  <2> QED
    BY <2>1, <2>2
<1>4. Forward
  <2>1. \A i \in Used \ {Target(w)} : Succeeds(rows[i], rows[i])
    BY <1>1, SucceedsReflexive DEF Shape
  <2> QED
    BY <1>1, <1>2, <2>1, UpsertIs, TargetIs DEF Forward
<1>5. OneActivePerKey'
  <2>1. \A j \in Used \ {Target(w)} : rows[j].key = Input[w].key => rows[j].status \notin Active
    <3>1. CASE Target(w) \in Used
      BY <1>1, <3>1, TargetIs DEF OneActivePerKey
    <3>2. CASE Target(w) \notin Used
      BY <1>1, <3>2, TargetIs DEF ActiveUnder
    <3> QED
      BY <3>1, <3>2
  <2> SUFFICES ASSUME NEW i \in DOMAIN rows', NEW j \in DOMAIN rows',
                      rows'[i].key = rows'[j].key,
                      rows'[i].status \in Active, rows'[j].status \in Active
               PROVE  i = j
    BY DEF OneActivePerKey
  <2>2. CASE i # Target(w) /\ j # Target(w)
    BY <1>1, <1>2, <2>2 DEF OneActivePerKey
  <2>3. CASE i = Target(w) \/ j = Target(w)
    BY <1>1, <1>2, <2>1, <2>3, UpsertIs
  <2> QED
    BY <2>2, <2>3
<1> QED
  BY <1>2, <1>3, <1>4, <1>5

LEMMA CommitKeeps ==
  ASSUME IInv, NEW w \in Writers, CommitWrite(w)
  PROVE  IInv' /\ Forward
<1> DEFINE i == Target(w)
           run == Input[w].run
<1>0. /\ Shape /\ BooksFit /\ EventsAreBacked /\ ~UpsertFails(w)
      /\ ledger' = Note(ledger, i, UpsertEntry(w))
      /\ runLog' = [runLog EXCEPT ![run] = Put(@, i, Payload(w))]
      /\ Answer(w, "completed") /\ UNCHANGED seen
  BY DEF IInv, CommitWrite
<1>1. i \in Ids /\ run \in Runs
  BY <1>0, TargetIs DEF Runs
<1>2. ledger \in [Ids -> Seq(Entries)] /\ UpsertEntry(w) \in Entries
  BY <1>0, UpsertIs DEF Shape
<1>3. ledger' \in [Ids -> Seq(Entries)] /\ \A j \in Ids \ {i} : ledger'[j] = ledger[j]
  BY <1>0, <1>1, <1>2, NoteIsOfOne
<1>4. Payload(w) \in Events /\ Payload(w).task = w /\ Payload(w).evidence = Upserted(w).evidence
  BY <1>0, UpsertIs DEF Payload, Events, Row
<1>5. /\ DOMAIN runLog'[run] = DOMAIN runLog[run] \cup {i}
      /\ runLog'[run][i] = Payload(w)
      /\ \A j \in DOMAIN runLog[run] \ {i} : runLog'[run][j] = runLog[run][j]
      /\ \A r \in Runs \ {run} : runLog'[r] = runLog[r]
  <2>1. /\ runLog'[run] = Put(runLog[run], i, Payload(w))
        /\ \A r \in Runs \ {run} : runLog'[r] = runLog[r]
    BY <1>0, <1>1 DEF Shape
  <2> HIDE DEF i, run
  <2> QED
    BY <2>1 DEF Put
<1>6. runLog' \in [Runs -> Logs]
  <2>1. \A f \in Logs : Put(f, i, Payload(w)) \in Logs
    <3> SUFFICES ASSUME NEW f \in Logs PROVE Put(f, i, Payload(w)) \in Logs
      OBVIOUS
    <3>1. PICK S \in SUBSET Ids : f \in [S -> Events]
      BY DEF Logs
    <3>2. S \cup {i} \in SUBSET Ids
      BY <1>1
    <3>3. Put(f, i, Payload(w)) \in [S \cup {i} -> Events]
      BY <1>4, <3>1 DEF Put
    <3> QED
      BY <3>2, <3>3 DEF Logs
  <2>2. runLog \in [Runs -> Logs]
    BY <1>0 DEF Shape
  <2> QED
    BY <1>0, <1>1, <2>1, <2>2
<1>7. Shape'
  <2>1. lost' \in 0 .. MaxLost /\ writer' \in [Writers -> {"todo", "completed", "error"}]
    BY <1>0, AnswerFits DEF Shape
  <2>2. DOMAIN rows' \subseteq Ids /\ rows' \in [DOMAIN rows' -> Row]
    BY <1>0, <1>1, CommitRows DEF Shape
  <2> QED
    BY <1>0, <1>3, <1>6, <2>1, <2>2 DEF Shape
<1>8. BooksFit'
  <2>1. ASSUME NEW j \in Ids \ {i}
        PROVE  IF j \in DOMAIN rows' THEN Accounts(ledger'[j], rows'[j]) ELSE ledger'[j] = <<>>
    BY <1>0, <1>3, CommitRows DEF BooksFit
  <2>2. Accounts(ledger'[i], Upserted(w))
    <3>1. CASE i \in Used
      <4>1. rows[i] \in Row /\ Accounts(ledger[i], rows[i])
        BY <1>0, <1>1, <3>1 DEF Shape, BooksFit
      <4> QED
        BY <1>0, <1>1, <1>2, <3>1, <4>1, UpsertIs, NoteContinues
    <3>2. CASE i \notin Used
      <4>1. ledger[i] = <<>>
        BY <1>0, <1>1, <3>2 DEF BooksFit
      <4> QED
        BY <1>0, <1>1, <1>2, <4>1, UpsertIs, NoteOpens
    <3> QED
      BY <3>1, <3>2
  <2>3. i \in DOMAIN rows' /\ rows'[i] = Upserted(w)
    BY CommitRows
  <2> QED
    BY <2>1, <2>2, <2>3 DEF BooksFit
<1>9. EventsAreBacked'
  <2> SUFFICES ASSUME NEW r \in Runs, NEW j \in DOMAIN runLog'[r]
               PROVE  /\ j \in DOMAIN rows'
                      /\ rows'[j].key = Input[runLog'[r][j].task].key
                      /\ runLog'[r][j].evidence \subseteq rows'[j].evidence
    BY DEF EventsAreBacked
  <2>1. CASE r = run /\ j = i
    <3>1. runLog'[r][j].task = w /\ runLog'[r][j].evidence = Upserted(w).evidence
      BY <1>4, <1>5, <2>1
    <3>2. j \in DOMAIN rows' /\ rows'[j] = Upserted(w)
      BY <2>1, CommitRows
    <3> QED
      BY <1>0, <3>1, <3>2, UpsertIs
  <2>2. CASE ~(r = run /\ j = i)
    <3>1. j \in DOMAIN runLog[r] /\ runLog'[r][j] = runLog[r][j]
      BY <1>5, <2>2
    <3>2. /\ j \in Used /\ rows[j].key = Input[runLog[r][j].task].key
          /\ runLog[r][j].evidence \subseteq rows[j].evidence
      BY <1>0, <3>1 DEF EventsAreBacked
    <3> QED
      BY <3>1, <3>2, CommitRows DEF Forward, Succeeds
  <2> QED
    BY <2>1, <2>2
<1> QED
  BY <1>7, <1>8, <1>9, CommitRows DEF IInv

(* A step that leaves the tables alone.                                    *)
LEMMA TablesStand ==
  ASSUME IInv, UNCHANGED <<rows, ledger, runLog>>,
         writer' \in [Writers -> {"todo", "completed", "error"}], lost' \in 0 .. MaxLost,
         seen' \in [Requests -> {Idle} \cup [op : {"none"}] \cup Views]
  PROVE  IInv' /\ Forward
<1>1. Shape' /\ BooksFit' /\ OneActivePerKey' /\ EventsAreBacked'
  <2>1. Shape'
    BY DEF IInv, Shape
  <2>2. BooksFit'
    BY DEF IInv, BooksFit
  <2>3. OneActivePerKey'
    BY DEF IInv, OneActivePerKey
  <2>4. EventsAreBacked'
    BY DEF IInv, EventsAreBacked
  <2> QED
    BY <2>1, <2>2, <2>3, <2>4
<1>2. Forward
  BY SucceedsReflexive DEF IInv, Shape, Forward
<1> QED
  BY <1>1, <1>2 DEF IInv

(* A step that turns one active record into its successor.                 *)
LEMMA OneRecordMoves ==
  ASSUME IInv, NEW i \in Used, NEW s \in Row, rows[i].status \in Active,
         s.key = rows[i].key, Succeeds(rows[i], s), rows' = [rows EXCEPT ![i] = s],
         ledger' \in [Ids -> Seq(Entries)], Accounts(ledger'[i], s),
         \A j \in Ids \ {i} : ledger'[j] = ledger[j],
         UNCHANGED <<runLog, writer, lost>>,
         seen' \in [Requests -> {Idle} \cup [op : {"none"}] \cup Views]
  PROVE  IInv' /\ Forward
<1>0. Shape /\ BooksFit /\ OneActivePerKey /\ EventsAreBacked
  BY DEF IInv
<1>1. /\ DOMAIN rows' = Used /\ rows' \in [Used -> Row] /\ rows'[i] = s
      /\ \A j \in Used \ {i} : rows'[j] = rows[j]
  BY <1>0 DEF Shape
<1>2. Forward
  BY <1>0, <1>1, SucceedsReflexive DEF Forward, Shape
<1>3. Shape'
  BY <1>0, <1>1 DEF Shape
<1>4. BooksFit'
  BY <1>0, <1>1 DEF BooksFit
<1>5. OneActivePerKey'
  BY <1>0, <1>1 DEF OneActivePerKey
<1>6. EventsAreBacked'
  BY <1>0, <1>2, BackingLasts
<1> QED
  BY <1>2, <1>3, <1>4, <1>5, <1>6 DEF IInv

(* What a request that has looked has seen.                                *)
LEMMA LookedIsView ==
  ASSUME Shape, NEW q \in Requests, seen[q] # Idle, seen[q].op # "none"
  PROVE  seen[q] \in Views
BY DEF Shape

LEMMA AnsweredFits ==
  ASSUME Shape, NEW q \in Requests, Answered(q)
  PROVE  seen' \in [Requests -> {Idle} \cup [op : {"none"}] \cup Views]
BY DEF Shape, Answered

LEMMA LookKeeps ==
  ASSUME IInv, NEW q \in Requests, NEW op \in {"confirm", "revoke", "correct"}, NEW i \in Ids,
         Look(q, op, i)
  PROVE  IInv' /\ Forward
<1>1. rows[i] \in Row
  BY DEF IInv, Shape, Look
<1>2. seen' \in [Requests -> {Idle} \cup [op : {"none"}] \cup Views]
  BY <1>1 DEF IInv, Shape, Look, Views
<1> QED
  BY <1>2, TablesStand DEF IInv, Shape, Look

LEMMA RefusalsKeep ==
  ASSUME IInv, NEW q \in Requests, Refuse(q) \/ \E k \in Keys : RollBackCorrection(q, k)
  PROVE  IInv' /\ Forward
<1>1. Answered(q) /\ UNCHANGED <<rows, ledger, runLog, writer, lost>>
  BY DEF Refuse, RollBackCorrection
<1>2. writer' \in [Writers -> {"todo", "completed", "error"}] /\ lost' \in 0 .. MaxLost
  BY <1>1 DEF IInv, Shape
<1>3. seen' \in [Requests -> {Idle} \cup [op : {"none"}] \cup Views]
  BY <1>1, AnsweredFits DEF IInv
<1> QED
  BY <1>1, <1>2, <1>3, TablesStand

LEMMA RollBackKeeps ==
  ASSUME IInv, NEW w \in Writers, RollBackWrite(w)
  PROVE  IInv' /\ Forward
<1>1. Answer(w, "error") /\ UNCHANGED <<rows, ledger, runLog, seen>>
  BY DEF RollBackWrite
<1>2. writer' \in [Writers -> {"todo", "completed", "error"}] /\ lost' \in 0 .. MaxLost
  BY <1>1, AnswerFits DEF IInv, Shape
<1> QED
  BY <1>1, <1>2, TablesStand DEF IInv, Shape

LEMMA ConfirmKeeps ==
  ASSUME IInv, NEW q \in Requests, Confirm(q)
  PROVE  IInv' /\ Forward
<1>1. PICK i \in Current(q) :
        LET new == [rows[i] EXCEPT !.status = "confirmed", !.age = 0]
        IN /\ rows[i].status = "candidate"
           /\ rows' = [rows EXCEPT ![i] = new]
           /\ ledger' = Note(ledger, i, Entry(new, "candidate.confirmed", "candidate"))
  BY DEF Confirm
<1> DEFINE s == [rows[i] EXCEPT !.status = "confirmed", !.age = 0]
           e == Entry(s, "candidate.confirmed", "candidate")
<1>2. i \in Used /\ rows[i] \in Row /\ i \in Ids
  BY DEF Current, ActiveUnder, IInv, Shape
<1>3. s \in Row /\ s.key = rows[i].key /\ s.status = "confirmed" /\ Succeeds(rows[i], s)
  BY <1>1, <1>2, ConfirmedFits
<1>4. rows' = [rows EXCEPT ![i] = s] /\ ledger' = Note(ledger, i, e)
  BY <1>1
<1> HIDE DEF s
<1>5. e \in Entries /\ e.row = Plain(s) /\ e.from = "candidate" /\ e.to = s.status
  BY <1>3, EntryFits DEF Actions, Status
<1> HIDE DEF e
<1>6. ledger \in [Ids -> Seq(Entries)] /\ Accounts(ledger[i], rows[i])
  BY <1>2 DEF IInv, Shape, BooksFit
<1>7. Accounts(ledger'[i], s)
  BY <1>1, <1>2, <1>3, <1>4, <1>5, <1>6, NoteContinues
<1>8. ledger' \in [Ids -> Seq(Entries)] /\ \A j \in Ids \ {i} : ledger'[j] = ledger[j]
  BY <1>2, <1>4, <1>5, <1>6, NoteIsOfOne
<1>9. /\ UNCHANGED <<runLog, writer, lost>>
      /\ seen' \in [Requests -> {Idle} \cup [op : {"none"}] \cup Views]
  BY AnsweredFits DEF IInv, Confirm
<1>10. rows[i].status \in Active
  BY <1>1 DEF Active
<1> QED
  BY <1>2, <1>3, <1>4, <1>7, <1>8, <1>9, <1>10, OneRecordMoves

(* The entries of a revocation: the record, then its cascade.              *)
LEMMA RevokeKeeps ==
  ASSUME IInv, NEW q \in Requests, Revoke(q)
  PROVE  IInv' /\ Forward
<1>1. PICK i \in Current(q) :
        LET new == Forget(rows[i], "revoked")
        IN /\ rows' = [rows EXCEPT ![i] = new]
           /\ ledger' = LET revoked == Note(ledger, i, Entry(new, "record.revoked", rows[i].status))
                            index == Note(revoked, i, Entry(new, "record.index_invalidated", "revoked"))
                        IN Note(index, i, Entry(new, "record.cache_invalidated", "revoked"))
  BY DEF Revoke
<1>2. i \in Used /\ rows[i] \in Row /\ i \in Ids /\ rows[i].status \in Active
  BY DEF Current, ActiveUnder, IInv, Shape
<1> DEFINE s == Forget(rows[i], "revoked")
           e1 == Entry(s, "record.revoked", rows[i].status)
           e2 == Entry(s, "record.index_invalidated", "revoked")
           e3 == Entry(s, "record.cache_invalidated", "revoked")
           b1 == Note(ledger, i, e1)
           b2 == Note(b1, i, e2)
<1>3. s \in Row /\ s.key = rows[i].key /\ s.status = "revoked" /\ Succeeds(rows[i], s)
  BY <1>2, ForgetFits DEF Forgotten
<1>4. rows' = [rows EXCEPT ![i] = s] /\ ledger' = Note(b2, i, e3)
  BY <1>1
<1> HIDE DEF s
<1>5. /\ e1 \in Entries /\ e1.row = Plain(s) /\ e1.from = rows[i].status /\ e1.to = s.status
      /\ e2 \in Entries /\ e2.row = Plain(s) /\ e2.from = s.status /\ e2.to = s.status
      /\ e3 \in Entries /\ e3.row = Plain(s) /\ e3.from = s.status /\ e3.to = s.status
  <2>1. rows[i].status \in Status /\ "revoked" \in Status
    BY <1>2 DEF Row, Status
  <2>2. {"record.revoked", "record.index_invalidated", "record.cache_invalidated"} \subseteq Actions
    BY DEF Actions
  <2> QED
    BY <1>3, <2>1, <2>2, EntryFits
<1> HIDE DEF e1, e2, e3
<1>6. ledger \in [Ids -> Seq(Entries)] /\ Accounts(ledger[i], rows[i]) /\ Succeeds(s, s)
  BY <1>2, <1>3, SucceedsReflexive DEF IInv, Shape, BooksFit
<1>7. /\ b1 \in [Ids -> Seq(Entries)] /\ Accounts(b1[i], s)
      /\ \A j \in Ids \ {i} : b1[j] = ledger[j]
  <2>1. Accounts(b1[i], s)
    BY <1>2, <1>3, <1>5, <1>6, NoteContinues
  <2> QED
    BY <1>2, <1>5, <1>6, <2>1, NoteIsOfOne
<1> HIDE DEF b1
<1>8. /\ b2 \in [Ids -> Seq(Entries)] /\ Accounts(b2[i], s)
      /\ \A j \in Ids \ {i} : b2[j] = b1[j]
  <2>1. Accounts(b2[i], s)
    BY <1>2, <1>3, <1>5, <1>6, <1>7, NoteContinues
  <2> QED
    BY <1>2, <1>5, <1>7, <2>1, NoteIsOfOne
<1> HIDE DEF b2
<1>9. /\ ledger' \in [Ids -> Seq(Entries)] /\ Accounts(ledger'[i], s)
      /\ \A j \in Ids \ {i} : ledger'[j] = b2[j]
  <2>1. Accounts(ledger'[i], s)
    BY <1>2, <1>3, <1>4, <1>5, <1>6, <1>8, NoteContinues
  <2> QED
    BY <1>2, <1>4, <1>5, <1>8, <2>1, NoteIsOfOne
<1>10. /\ UNCHANGED <<runLog, writer, lost>>
       /\ seen' \in [Requests -> {Idle} \cup [op : {"none"}] \cup Views]
  BY AnsweredFits DEF IInv, Revoke
<1> QED
  BY <1>2, <1>3, <1>4, <1>7, <1>8, <1>9, <1>10, OneRecordMoves

(* Records that move where they stand, each with its book: sweep and tick. *)
LEMMA RecordsMove ==
  ASSUME IInv, DOMAIN rows' = Used, rows' \in [Used -> Row],
         ledger' \in [Ids -> Seq(Entries)], UNCHANGED <<runLog, writer, seen, lost>>,
         \A i \in Used : /\ Succeeds(rows[i], rows'[i]) /\ Accounts(ledger'[i], rows'[i])
                         /\ rows'[i].status \in Active => rows[i].status \in Active
                         /\ rows[i].status \notin Active => rows'[i] = rows[i],
         \A i \in Ids \ Used : ledger'[i] = ledger[i]
  PROVE  IInv' /\ Forward
<1>0. Shape /\ BooksFit /\ OneActivePerKey /\ EventsAreBacked
  BY DEF IInv
<1>1. Forward
  BY DEF Forward
<1>2. Shape'
  BY <1>0 DEF Shape
<1>3. BooksFit'
  BY <1>0 DEF BooksFit
<1>4. OneActivePerKey'
  BY <1>0 DEF OneActivePerKey, Succeeds
<1>5. EventsAreBacked'
  BY <1>0, <1>1, BackingLasts
<1> QED
  BY <1>1, <1>2, <1>3, <1>4, <1>5 DEF IInv

(* A correction: one record is superseded and a new one takes over.        *)
LEMMA CorrectKeeps ==
  ASSUME IInv, NEW q \in Requests, NEW k \in Keys, NEW v \in Values, Correct(q, k, v)
  PROVE  IInv' /\ Forward
<1> DEFINE row == Correction(q, k, v)
<1>1. PICK i \in Current(q), new \in Fresh :
        LET old == [rows[i] EXCEPT !.status = "superseded", !.next = new, !.age = 0]
        IN /\ ~KeyTaken(i, k)
           /\ rows' = Put([rows EXCEPT ![i] = old], new, row)
           /\ ledger' = LET superseded == Note(ledger, i, Entry(old, "record.superseded", rows[i].status))
                        IN Note(superseded, new, Entry(row, "record.recorded", "confirmed"))
  BY DEF Correct
<1> DEFINE old == [rows[i] EXCEPT !.status = "superseded", !.next = new, !.age = 0]
           e1 == Entry(old, "record.superseded", rows[i].status)
           e2 == Entry(row, "record.recorded", "confirmed")
           b1 == Note(ledger, i, e1)
<1>0. Shape /\ BooksFit /\ OneActivePerKey /\ EventsAreBacked
  BY DEF IInv
<1>2. /\ i \in Used /\ rows[i] \in Row /\ i \in Ids /\ rows[i].status \in Active
      /\ new \in Ids /\ new \notin Used /\ new # i
  BY <1>0 DEF Current, ActiveUnder, Shape, Fresh
<1>3. seen[q] \in Views
  BY <1>0, LookedIsView DEF Correct, Asked
<1>4. row \in Row /\ row.key = k /\ row.status = "confirmed"
  BY <1>3, CorrectionFits DEF Views
<1>5. old \in Row /\ old.key = rows[i].key /\ old.status = "superseded" /\ Succeeds(rows[i], old)
  BY <1>2, SupersededFits
<1>6. /\ ~KeyTaken(i, k) /\ rows' = Put([rows EXCEPT ![i] = old], new, row)
      /\ ledger' = Note(b1, new, e2)
  BY <1>1
<1> HIDE DEF row, old
<1>7. /\ DOMAIN rows' = Used \cup {new} /\ rows' \in [Used \cup {new} -> Row]
      /\ rows'[new] = row /\ rows'[i] = old
      /\ \A j \in Used \ {i} : rows'[j] = rows[j]
  BY <1>0, <1>2, <1>4, <1>5, <1>6 DEF Put, Shape
<1>8. /\ e1 \in Entries /\ e1.row = Plain(old) /\ e1.from = rows[i].status /\ e1.to = old.status
      /\ e2 \in Entries /\ e2.row = Plain(row) /\ e2.to = row.status
  <2>1. rows[i].status \in Status /\ "confirmed" \in Status
    BY <1>2 DEF Row, Status
  <2>2. {"record.superseded", "record.recorded"} \subseteq Actions
    BY DEF Actions
  <2> QED
    BY <1>4, <1>5, <2>1, <2>2, EntryFits
<1> HIDE DEF e1, e2
<1>9. ledger \in [Ids -> Seq(Entries)] /\ Accounts(ledger[i], rows[i]) /\ ledger[new] = <<>>
  BY <1>0, <1>2 DEF Shape, BooksFit
<1>10. Accounts(b1[i], old)
  BY <1>2, <1>5, <1>8, <1>9, NoteContinues
<1>11. /\ b1 \in [Ids -> Seq(Entries)] /\ b1[new] = <<>>
       /\ \A j \in Ids \ {i} : b1[j] = ledger[j]
  BY <1>2, <1>8, <1>9, NoteIsOfOne
<1> HIDE DEF b1
<1>12. Accounts(ledger'[new], row)
  BY <1>2, <1>4, <1>6, <1>8, <1>11, NoteOpens
<1>13. ledger' \in [Ids -> Seq(Entries)] /\ \A j \in Ids \ {new} : ledger'[j] = b1[j]
  BY <1>2, <1>6, <1>8, <1>11, NoteIsOfOne
<1>14. /\ UNCHANGED <<runLog, writer, lost>>
       /\ seen' \in [Requests -> {Idle} \cup [op : {"none"}] \cup Views]
  BY <1>0, AnsweredFits DEF Correct
<1>15. Forward
  BY <1>0, <1>2, <1>5, <1>7, SucceedsReflexive DEF Forward, Shape
<1>16. Shape'
  BY <1>0, <1>2, <1>7, <1>13, <1>14 DEF Shape
<1>17. BooksFit'
  <2> SUFFICES ASSUME NEW j \in Ids
               PROVE  IF j \in DOMAIN rows' THEN Accounts(ledger'[j], rows'[j]) ELSE ledger'[j] = <<>>
    BY DEF BooksFit
  <2>1. CASE j = i
    BY <1>2, <1>7, <1>10, <1>13, <2>1
  <2>2. CASE j = new
    BY <1>7, <1>12, <2>2
  <2>3. CASE j # i /\ j # new
    BY <1>0, <1>7, <1>11, <1>13, <2>3 DEF BooksFit
  <2> QED
    BY <2>1, <2>2, <2>3
<1>18. OneActivePerKey'
  <2>1. \A j \in Used \ {i} : rows[j].key = k => rows[j].status \notin Active
    <3>1. CASE k = rows[i].key
      BY <1>0, <1>2, <3>1 DEF OneActivePerKey
    <3>2. CASE k # rows[i].key
      BY <1>6, <3>2 DEF KeyTaken, ActiveUnder
    <3> QED
      BY <3>1, <3>2
  <2>2. "superseded" \notin Active
    BY DEF Active
  <2>3. \A j \in DOMAIN rows' : rows'[j].status \in Active => j = new \/ (j \in Used /\ j # i)
    BY <1>5, <1>7, <2>2
  <2> QED
    BY <1>0, <1>4, <1>7, <2>1, <2>3 DEF OneActivePerKey
<1>19. EventsAreBacked'
  BY <1>0, <1>14, <1>15, BackingLasts
<1> QED
  BY <1>15, <1>16, <1>17, <1>18, <1>19 DEF IInv

LEMMA SweepKeeps ==
  ASSUME IInv, Sweep
  PROVE  IInv' /\ Forward
<1>0. Shape /\ BooksFit
  BY DEF IInv
<1>1. /\ rows' = [i \in Used |-> IF i \in Expirable THEN Forget(rows[i], "expired") ELSE rows[i]]
      /\ ledger' = [i \in Ids |->
           IF i \in Expirable
           THEN Note(ledger, i, Entry(Forget(rows[i], "expired"), "candidate.expired", "candidate"))[i]
           ELSE ledger[i]]
      /\ UNCHANGED <<runLog, writer, seen, lost>>
  BY DEF Sweep
<1>2. ASSUME NEW i \in Expirable
      PROVE  /\ i \in Ids /\ rows'[i] \in Row /\ ledger'[i] \in Seq(Entries)
             /\ Succeeds(rows[i], rows'[i]) /\ Accounts(ledger'[i], rows'[i])
             /\ rows[i].status \in Active /\ rows'[i].status \notin Active
  <2> DEFINE s == Forget(rows[i], "expired")
             e == Entry(s, "candidate.expired", "candidate")
  <2>1. /\ i \in Used /\ i \in Ids /\ rows[i] \in Row
        /\ rows[i].status = "candidate" /\ rows[i].status \in Active
    BY <1>0 DEF Expirable, Shape, Active
  <2>2. s \in Row /\ s.status = "expired" /\ Succeeds(rows[i], s)
    BY <2>1, ForgetFits DEF Forgotten
  <2>3. rows'[i] = s /\ ledger'[i] = Note(ledger, i, e)[i]
    BY <1>1, <2>1
  <2> HIDE DEF s
  <2>4. e \in Entries /\ e.row = Plain(s) /\ e.from = "candidate" /\ e.to = s.status
    BY <2>2, EntryFits DEF Actions, Status
  <2> HIDE DEF e
  <2>5. ledger \in [Ids -> Seq(Entries)] /\ Accounts(ledger[i], rows[i])
    BY <1>0, <2>1 DEF Shape, BooksFit
  <2>6. Accounts(ledger'[i], s)
    BY <2>1, <2>2, <2>3, <2>4, <2>5, NoteContinues
  <2>7. Note(ledger, i, e) \in [Ids -> Seq(Entries)]
    BY <2>1, <2>4, <2>5, NoteIsOfOne
  <2> QED
    BY <2>1, <2>2, <2>3, <2>6, <2>7 DEF Active
<1>3. ASSUME NEW i \in Used \ Expirable
      PROVE  /\ rows'[i] = rows[i] /\ rows[i] \in Row /\ ledger'[i] = ledger[i]
             /\ Succeeds(rows[i], rows[i]) /\ Accounts(ledger[i], rows[i])
  BY <1>0, <1>1, SucceedsReflexive DEF Shape, BooksFit
<1>4. Expirable \subseteq Used
  BY DEF Expirable
<1>5. DOMAIN rows' = Used /\ rows' \in [Used -> Row]
  <2>1. \A i \in Used : rows'[i] \in Row
    BY <1>2, <1>3
  <2> QED
    BY <1>1, <2>1
<1>6. ledger' \in [Ids -> Seq(Entries)] /\ \A i \in Ids \ Used : ledger'[i] = ledger[i]
  <2>1. \A i \in Ids : ledger'[i] \in Seq(Entries)
    BY <1>0, <1>1, <1>2 DEF Shape
  <2> QED
    BY <1>1, <1>4, <2>1
<1>7. \A i \in Used : /\ Succeeds(rows[i], rows'[i]) /\ Accounts(ledger'[i], rows'[i])
                      /\ rows'[i].status \in Active => rows[i].status \in Active
                      /\ rows[i].status \notin Active => rows'[i] = rows[i]
  BY <1>2, <1>3
<1> QED
  BY <1>1, <1>5, <1>6, <1>7, RecordsMove

LEMMA TickKeeps ==
  ASSUME IInv, Tick
  PROVE  IInv' /\ Forward
<1>0. Shape /\ BooksFit
  BY DEF IInv
<1>1. /\ rows' = [i \in Used |-> IF i \in Young THEN [rows[i] EXCEPT !.age = @ + 1] ELSE rows[i]]
      /\ UNCHANGED <<ledger, runLog, writer, seen, lost>>
  BY DEF Tick
<1>2. ASSUME NEW i \in Used
      PROVE  /\ rows'[i] \in Row /\ Plain(rows'[i]) = Plain(rows[i])
             /\ rows'[i].status = rows[i].status
             /\ rows[i].status \notin Active => rows'[i] = rows[i]
  <2>1. rows[i] \in Row
    BY <1>0 DEF Shape
  <2>2. CASE i \in Young
    <3>1. /\ rows[i].status \in Active /\ rows[i].age \in 0 .. Ttl + 1 /\ rows[i].age <= Ttl
      BY <2>1, <2>2 DEF Young, Active, Row
    <3>2. rows[i].age + 1 \in 0 .. Ttl + 1
      BY <3>1, MemoryAssumption
    <3>3. rows'[i] = [rows[i] EXCEPT !.age = rows[i].age + 1]
      BY <1>1, <2>1, <2>2 DEF Row
    <3> QED
      BY <2>1, <3>1, <3>2, <3>3 DEF Row, Plain
  <2>3. CASE i \notin Young
    BY <1>1, <2>1, <2>3
  <2> QED
    BY <2>2, <2>3
<1>3. DOMAIN rows' = Used /\ rows' \in [Used -> Row]
  BY <1>1, <1>2
<1>4. ASSUME NEW i \in Used
      PROVE  Succeeds(rows[i], rows'[i]) /\ Accounts(ledger[i], rows'[i])
  <2>1. rows[i] \in Row /\ Accounts(ledger[i], rows[i])
    BY <1>0 DEF Shape, BooksFit
  <2> QED
    BY <1>2, <2>1, SucceedsReflexive, AgesAreNotTold
<1>5. ledger' \in [Ids -> Seq(Entries)] /\ ledger' = ledger
  BY <1>0, <1>1 DEF Shape
<1> QED
  BY <1>1, <1>2, <1>3, <1>4, <1>5, RecordsMove

-----------------------------------------------------------------------------
LEMMA Begins == Init => IInv
<1> SUFFICES ASSUME Init PROVE IInv
  OBVIOUS
<1>1. Used = {} /\ rows \in [Used -> Row]
  BY DEF Init
<1>2. ledger \in [Ids -> Seq(Entries)] /\ \A i \in Ids : ledger[i] = <<>>
  BY EmptySeq DEF Init
<1>3. runLog \in [Runs -> Logs] /\ \A r \in Runs : DOMAIN runLog[r] = {}
  <2> DEFINE none == [i \in {} |-> NoId]
  <2>1. none \in [{} -> Events] /\ DOMAIN none = {}
    OBVIOUS
  <2>2. none \in Logs
    BY <2>1 DEF Logs
  <2>3. runLog = [r \in Runs |-> none]
    BY DEF Init
  <2> HIDE DEF none
  <2> QED
    BY <2>1, <2>2, <2>3
<1>4. Shape
  BY <1>1, <1>2, <1>3, MemoryAssumption DEF Init, Shape
<1> QED
  BY <1>1, <1>2, <1>3, <1>4 DEF IInv, BooksFit, OneActivePerKey, EventsAreBacked

LEMMA Steps ==
  ASSUME IInv, [Next]_vars
  PROVE  IInv' /\ Forward
<1>1. ASSUME NEW w \in Writers, CommitWrite(w) \/ RollBackWrite(w) PROVE IInv' /\ Forward
  BY <1>1, CommitKeeps, RollBackKeeps
<1>2. ASSUME NEW q \in Requests, Request(q) PROVE IInv' /\ Forward
  <2>1. CASE \E op \in {"confirm", "revoke", "correct"}, i \in Ids : Look(q, op, i)
    BY <2>1, LookKeeps
  <2>2. CASE Refuse(q)
    BY <2>2, RefusalsKeep
  <2>3. CASE Confirm(q)
    BY <2>3, ConfirmKeeps
  <2>4. CASE Revoke(q)
    BY <2>4, RevokeKeeps
  <2>5. CASE \E k \in Keys : RollBackCorrection(q, k)
    BY <2>5, RefusalsKeep
  <2>6. CASE \E k \in Keys, v \in Values : Correct(q, k, v)
    BY <2>6, CorrectKeeps
  <2> QED
    BY <1>2, <2>1, <2>2, <2>3, <2>4, <2>5, <2>6 DEF Request
<1>3. CASE UNCHANGED vars
  <2>1. /\ UNCHANGED <<rows, ledger, runLog>>
        /\ writer' = writer /\ lost' = lost /\ seen' = seen
    BY <1>3 DEF vars
  <2> QED
    BY <2>1, TablesStand DEF IInv, Shape
<1> QED
  BY <1>1, <1>2, <1>3, SweepKeeps, TickKeeps DEF Next

LEMMA Inductive == Spec => []IInv
<1>1. IInv /\ [Next]_vars => IInv'
  BY Steps
<1> QED
  BY <1>1, Begins, PTL DEF Spec

(* Every reachable state of the memory is well typed, whatever writes,     *)
(* requests and sweeps meet.                                               *)
THEOREM MemoryTypes == Spec => []TypeOK
<1>1. IInv => TypeOK
  <2> SUFFICES ASSUME IInv PROVE TypeOK
    OBVIOUS
  <2>1. Shape
    BY DEF IInv
  <2> QED
    BY <2>1 DEF Shape, TypeOK, Entries
<1> QED
  BY <1>1, Inductive, PTL

(* A key never has two active records, however many writers and stewards   *)
(* meet at it.                                                             *)
THEOREM KeysAreSingle == Spec => []OneActivePerKey
<1>1. IInv => OneActivePerKey
  BY DEF IInv
<1> QED
  BY <1>1, Inductive, PTL

(* What a run's log says was written is in the memory.                     *)
THEOREM EventsHaveRecords == Spec => []EventsAreBacked
<1>1. IInv => EventsAreBacked
  BY DEF IInv
<1> QED
  BY <1>1, Inductive, PTL

(* The ledger of a record ends with the record as it stands, although      *)
(* entries that repeat are skipped.                                        *)
THEOREM LedgerIsComplete == Spec => []LedgerTellsStatus
<1>1. IInv => LedgerTellsStatus
  <2> SUFFICES ASSUME IInv, NEW i \in Ids
               PROVE  /\ i \in Used <=> ledger[i] # <<>>
                      /\ \A n \in 2 .. Len(ledger[i]) : ledger[i][n].from = ledger[i][n - 1].to
                      /\ i \in Used => ledger[i][Len(ledger[i])].row = [rows[i] EXCEPT !.age = 0]
    BY DEF LedgerTellsStatus
  <2>1. CASE i \in Used
    <3>1. Accounts(ledger[i], rows[i])
      BY <2>1 DEF IInv, BooksFit
    <3> QED
      BY <2>1, <3>1 DEF Accounts, Plain
  <2>2. CASE i \notin Used
    <3>1. ledger[i] = <<>> /\ Len(ledger[i]) = 0
      BY <2>2 DEF IInv, BooksFit
    <3> QED
      BY <2>2, <3>1
  <2> QED
    BY <2>1, <2>2
<1> QED
  BY <1>1, Inductive, PTL

(* Nothing revives or rewrites a record that was superseded, revoked or    *)
(* expired.                                                                *)
THEOREM NothingRevives == Spec => TerminalIsFinal
<1>1. IInv /\ [Next]_vars =>
        [\A i \in Used : rows[i].status \notin Active => i \in DOMAIN rows' /\ rows'[i] = rows[i]]_vars
  BY Steps DEF Forward
<1> QED
  BY <1>1, Inductive, PTL DEF Spec, TerminalIsFinal

=============================================================================
