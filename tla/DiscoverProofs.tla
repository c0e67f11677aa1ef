-------------------------- MODULE DiscoverProofs --------------------------
(***************************************************************************)
(* Proofs about DiscoverWorkbench: what a call has read without a lock may *)
(* be stale when it is written, yet nothing is inserted twice, and an      *)
(* approved row has the decision that was made in memory.                  *)
(***************************************************************************)
EXTENDS DiscoverWorkbench, SequenceTheorems, TLAPS

-----------------------------------------------------------------------------
(* The inductive invariant.  A call that has not ended has inserted        *)
(* nothing.                                                                *)
Fresh(c) == call[c].pc # "ended" => cases[c].hypothesis = None /\ actions[c].case = None

Case(k) == k \in CaseIds /\ cases[k].hypothesis # None

(* A call is to a row that is there.                                       *)
Fits(d) == d.pc \in {"decide", "write", "commit"} =>
  /\ d.kind \in {"triage", "createCase", "submit", "approve", "resolve"}
  /\ d.pc = "decide" => d.kind = "approve"
  /\ d.kind = "triage" => d.on \in Hypotheses /\ d.arg \in Statuses /\ d.saw \in Statuses
  /\ d.kind = "createCase" => d.on \in Hypotheses
  /\ d.kind = "submit" => /\ Case(d.on) /\ d.arg \in Inputs /\ d.by \in Principals
                          /\ d.saw \in SUBSET Calls
  /\ d.kind = "approve" => /\ d.on \in Calls /\ actions[d.on].case # None
                           /\ d.by \in Principals
  /\ d.kind = "resolve" => Case(d.on) /\ d.arg \in Outcomes /\ d.saw \in SUBSET Calls

(* An approval that is written is the decision of its process.             *)
Decided(c, d) == d.pc \in {"write", "commit"} /\ d.kind = "approve" =>
  /\ decision[d.on] = d.by
  /\ d.by # actions[d.on].by
  /\ HomeOf[d.on] = HomeOf[c]

(* A call that holds the entry of an index has found it free.              *)
Keyed(d) == d.pc = "commit" =>
  /\ d.kind = "createCase" => \A k \in CaseIds : cases[k].hypothesis # d.on
  /\ d.kind = "submit" => \A a \in Calls : ~(actions[a].case = d.on /\ actions[a].input = d.arg)

OneHolder == \A c, d \in Calls :
  c # d /\ call[c].pc = "commit" /\ call[d].pc = "commit" => Locks(c) \cap Locks(d) = {}

CallsFit == \A c \in Calls : Fresh(c) /\ Fits(call[c]) /\ Decided(c, call[c]) /\ Keyed(call[c])

IInv == TypeOK /\ CallsFit /\ OneHolder /\ NothingTwice /\ ApprovedAsDecided

Shape == {"pc", "kind", "on", "arg", "by", "saw"}

-----------------------------------------------------------------------------
(* Nothing has happened yet.                                               *)
LEMMA InitIInv == Init => IInv
<1> SUFFICES ASSUME Init PROVE IInv
  OBVIOUS
<1> USE CallAssumption, NoneAssumption DEF Init
<1>1. PICK there \in {Absent} \cup [hypothesis : Hypotheses, status : {"open"},
                                    actions : {{}}, resolutions : {{}}] :
        cases = [k \in CaseIds |-> IF k = Earlier THEN there ELSE Absent]
  OBVIOUS
<1>2. there \in CaseRows \cup {Absent} /\ (there.hypothesis # None => there.status = "open")
  BY <1>1 DEF CaseRows, Absent
<1>3. TypeOK
  BY <1>1, <1>2 DEF TypeOK, At, CaseIds
<1>4. \A c \in Calls : call[c].pc = "idle"
  BY DEF At
<1>5. CallsFit /\ OneHolder
  BY <1>1, <1>4 DEF CallsFit, OneHolder, Fresh, Fits, Decided, Keyed, Absent, NoAction, CaseIds
<1>6. NothingTwice /\ ApprovedAsDecided
  BY <1>1 DEF NothingTwice, ApprovedAsDecided, CasesThere, ActionsThere, Absent, NoAction, CaseIds
<1> QED
  BY <1>3, <1>5, <1>6 DEF IInv

-----------------------------------------------------------------------------
(* A step that leaves the rows and the decisions alone, and takes no lock. *)
LEMMA QuietStep ==
  ASSUME IInv, NEW c \in Calls, NEW d,
         call[c].pc # "ended",
         call' = [call EXCEPT ![c] = d],
         DOMAIN d = Shape, d.pc \in {"decide", "write", "ended"},
         Fits(d), Decided(c, d),
         UNCHANGED <<rows, decision>>
  PROVE  IInv'
<1> USE DEF IInv
<1>1. /\ call'[c] = d
      /\ \A b \in Calls \ {c} : call'[b] = call[b]
  BY DEF TypeOK
<1>2. TypeOK'
  BY <1>1 DEF TypeOK, rows, Shape
<1>3. \A b \in Calls : Fresh(b)'
  BY <1>1 DEF CallsFit, Fresh, rows
<1>4. \A b \in Calls : Fits(call[b])'
  BY <1>1 DEF CallsFit, Fits, Case, rows
<1>5. \A b \in Calls : Decided(b, call[b])'
  BY <1>1 DEF CallsFit, Decided, rows
<1>6. \A b \in Calls : Keyed(call[b])'
  BY <1>1 DEF CallsFit, Keyed, rows
<1>7. OneHolder'
  <2> SUFFICES ASSUME NEW a \in Calls, NEW b \in Calls, a # b,
                      call'[a].pc = "commit", call'[b].pc = "commit"
               PROVE  Locks(a)' \cap Locks(b)' = {}
    BY DEF OneHolder
  <2>1. call'[a] = call[a] /\ call'[b] = call[b]
    BY <1>1
  <2>2. Locks(a)' = Locks(a) /\ Locks(b)' = Locks(b)
    BY <2>1 DEF Locks
  <2> QED
    BY <2>1, <2>2 DEF OneHolder
<1>8. NothingTwice' /\ ApprovedAsDecided'
  BY DEF NothingTwice, ApprovedAsDecided, CasesThere, ActionsThere, rows
<1> QED
  BY <1>2, <1>3, <1>4, <1>5, <1>6, <1>7, <1>8 DEF CallsFit

(* A call that ends, its row refused or given up.                          *)
LEMMA EndStep ==
  ASSUME IInv, NEW c \in Calls, call[c].pc # "ended", Goes(c, "ended"),
         UNCHANGED <<rows, decision>>
  PROVE  IInv'
<1>1. call' = [call EXCEPT ![c] = At("ended")]
  BY DEF Goes
<1>2. DOMAIN At("ended") = Shape /\ At("ended").pc = "ended"
  BY DEF At, Shape
<1>3. Fits(At("ended")) /\ Decided(c, At("ended"))
  BY <1>2 DEF Fits, Decided
<1> QED
  BY <1>1, <1>2, <1>3, QuietStep

-----------------------------------------------------------------------------
(* The SELECT.                                                             *)
LEMMA TriageStep ==
  ASSUME IInv, NEW c \in Calls, NEW h \in Hypotheses, NEW to \in Statuses, Triage(c, h, to)
  PROVE  IInv'
<1> DEFINE d == IF <<hypothesis[h], to>> \notin Transitions THEN At("ended")
                ELSE [pc |-> "write", kind |-> "triage", on |-> h, arg |-> to,
                      by |-> None, saw |-> hypothesis[h]]
<1>1. call[c].pc = "idle" /\ call' = [call EXCEPT ![c] = d] /\ UNCHANGED <<rows, decision>>
  BY DEF Triage, Begin
<1>2. DOMAIN d = Shape /\ d.pc \in {"write", "ended"}
  BY DEF At, Shape
<1>3. Fits(d) /\ Decided(c, d)
  BY DEF Fits, Decided, At, IInv, TypeOK
<1> HIDE DEF d
<1> QED
  BY <1>1, <1>2, <1>3, QuietStep

LEMMA CreateCaseStep ==
  ASSUME IInv, NEW c \in Calls, NEW h \in Hypotheses, CreateCase(c, h)
  PROVE  IInv'
<1> DEFINE d == IF \E k \in CasesThere : cases[k].hypothesis = h THEN At("ended")
                ELSE [pc |-> "write", kind |-> "createCase", on |-> h, arg |-> None,
                      by |-> None, saw |-> None]
<1>1. call[c].pc = "idle" /\ call' = [call EXCEPT ![c] = d] /\ UNCHANGED <<rows, decision>>
  BY DEF CreateCase, Begin
<1>2. DOMAIN d = Shape /\ d.pc \in {"write", "ended"}
  BY DEF At, Shape
<1>3. Fits(d) /\ Decided(c, d)
  BY DEF Fits, Decided, At
<1> HIDE DEF d
<1> QED
  BY <1>1, <1>2, <1>3, QuietStep

LEMMA ApproveStep ==
  ASSUME IInv, NEW c \in Calls, NEW a \in Calls, NEW by \in Principals, Approve(c, a, by)
  PROVE  IInv'
<1> DEFINE d == [pc |-> "decide", kind |-> "approve", on |-> a, arg |-> None,
                 by |-> by, saw |-> actions[a].status]
<1>1. call[c].pc = "idle" /\ call' = [call EXCEPT ![c] = d] /\ UNCHANGED <<rows, decision>>
  BY DEF Approve, Begin
<1>2. DOMAIN d = Shape /\ d.pc = "decide"
  BY DEF Shape
<1>3. Fits(d) /\ Decided(c, d)
  BY DEF Fits, Decided, Approve, ActionsThere
<1> HIDE DEF d
<1> QED
  BY <1>1, <1>2, <1>3, QuietStep

LEMMA ResolveStep ==
  ASSUME IInv, NEW c \in Calls, NEW k \in CaseIds, NEW outcome \in Outcomes,
         Resolve(c, k, outcome)
  PROVE  IInv'
<1> DEFINE d == IF cases[k].status # "open" THEN At("ended")
                ELSE [pc |-> "write", kind |-> "resolve", on |-> k, arg |-> outcome,
                      by |-> None, saw |-> cases[k].resolutions]
<1>1. call[c].pc = "idle" /\ call' = [call EXCEPT ![c] = d] /\ UNCHANGED <<rows, decision>>
  BY DEF Resolve, Begin
<1>2. DOMAIN d = Shape /\ d.pc \in {"write", "ended"}
  BY DEF At, Shape
<1>3. cases[k].hypothesis # None /\ cases[k].resolutions \in SUBSET Calls
  BY DEF Resolve, CasesThere, IInv, TypeOK, CaseRows, Absent
<1>4. Fits(d) /\ Decided(c, d)
  BY <1>3 DEF Fits, Decided, At, Case
<1> HIDE DEF d
<1> QED
  BY <1>1, <1>2, <1>4, QuietStep

(* A submission opens a request in memory; nobody approves it yet, for its *)
(* row is not there.                                                       *)
LEMMA SubmitStep ==
  ASSUME IInv, NEW c \in Calls, NEW k \in CaseIds, NEW input \in Inputs, NEW by \in Principals,
         Submit(c, k, input, by)
  PROVE  IInv'
<1> USE DEF IInv
<1> DEFINE d == IF \E a \in ActionsThere : actions[a].case = k /\ actions[a].input = input
                THEN At("ended")
                ELSE [pc |-> "write", kind |-> "submit", on |-> k, arg |-> input,
                      by |-> by, saw |-> cases[k].actions]
<1>1. /\ call[c].pc = "idle" /\ call' = [call EXCEPT ![c] = d] /\ UNCHANGED rows
      /\ decision' = [decision EXCEPT ![c] = "pending"]
  BY DEF Submit, Begin
<1>2. DOMAIN d = Shape /\ d.pc \in {"write", "ended"} /\ (d.pc = "write" => d.kind = "submit")
  BY DEF At, Shape
<1>3. cases[k].hypothesis # None /\ cases[k].actions \in SUBSET Calls
  BY DEF Submit, CasesThere, TypeOK, CaseRows, Absent
<1>4. Fits(d) /\ Decided(c, d)
  BY <1>3 DEF Fits, Decided, At, Case
<1> HIDE DEF d
<1>5. actions[c].case = None
  BY <1>1 DEF CallsFit, Fresh
<1>6. /\ call'[c] = d
      /\ \A b \in Calls \ {c} : call'[b] = call[b]
      /\ decision'[c] = "pending"
      /\ \A b \in Calls \ {c} : decision'[b] = decision[b]
  BY <1>1 DEF TypeOK
<1>7. TypeOK'
  BY <1>1, <1>2, <1>6 DEF TypeOK, rows, Shape
<1>8. \A b \in Calls : Fresh(b)' /\ Fits(call[b])'
  BY <1>1, <1>4, <1>6 DEF CallsFit, Fresh, Fits, Case, rows
<1>9. \A b \in Calls : Decided(b, call[b])'
  BY <1>1, <1>2, <1>5, <1>6 DEF CallsFit, Decided, Fits, rows
<1>10. \A b \in Calls : Keyed(call[b])'
  BY <1>1, <1>2, <1>6 DEF CallsFit, Keyed, rows
<1>11. OneHolder'
  <2> SUFFICES ASSUME NEW a \in Calls, NEW b \in Calls, a # b,
                      call'[a].pc = "commit", call'[b].pc = "commit"
               PROVE  Locks(a)' \cap Locks(b)' = {}
    BY DEF OneHolder
  <2>1. call'[a] = call[a] /\ call'[b] = call[b]
    BY <1>2, <1>6
  <2>2. Locks(a)' = Locks(a) /\ Locks(b)' = Locks(b)
    BY <2>1 DEF Locks
  <2> QED
    BY <2>1, <2>2 DEF OneHolder
<1>12. ApprovedAsDecided'
  BY <1>1, <1>5, <1>6 DEF ApprovedAsDecided, ActionsThere, rows
<1>13. NothingTwice'
  BY <1>1 DEF NothingTwice, CasesThere, ActionsThere, rows
<1> QED
  BY <1>7, <1>8, <1>9, <1>10, <1>11, <1>12, <1>13 DEF CallsFit

-----------------------------------------------------------------------------
(* The decision: only a pending request is decided, which no approval that *)
(* is being written has been, nor an approved row.                         *)
LEMMA DecideStep ==
  ASSUME IInv, NEW c \in Calls, Decide(c), MayDecide(c)
  PROVE  IInv'
<1> USE NoneAssumption DEF IInv
<1> DEFINE a == call[c].on
           d == IF call[c].saw = "pending_approval" THEN [call[c] EXCEPT !.pc = "write"]
                ELSE At("ended")
<1>1. /\ call[c].pc = "decide" /\ call' = [call EXCEPT ![c] = d] /\ UNCHANGED rows
      /\ decision' = [decision EXCEPT ![a] = call[c].by]
  BY DEF Decide, Goes
<1>2. DOMAIN d = Shape /\ d.pc \in {"write", "ended"}
  BY DEF At, Shape, TypeOK
<1>3. decision[a] = "pending" /\ HomeOf[a] = HomeOf[c] /\ call[c].by # actions[a].by
  BY DEF MayDecide, Mine
<1>4. Fits(call[c])
  BY DEF CallsFit
<1>5. d.pc = "write" => d.kind = call[c].kind /\ d.on = a /\ d.by = call[c].by
  BY DEF At, TypeOK
<1>6. Fits(d)
  BY <1>1, <1>4 DEF Fits, At, TypeOK, Case
<1> HIDE DEF d
<1>7. /\ call'[c] = d
      /\ \A b \in Calls \ {c} : call'[b] = call[b]
  BY <1>1 DEF TypeOK
<1>8. a \in Calls /\ actions[a].case # None /\ call[c].by \in Principals
  BY <1>1, <1>4 DEF Fits
<1>9. /\ decision'[a] = call[c].by
      /\ \A b \in Calls \ {a} : decision'[b] = decision[b]
  BY <1>1, <1>8 DEF TypeOK
<1>10. TypeOK'
  BY <1>1, <1>2, <1>7, <1>8 DEF TypeOK, rows, Shape
<1>11. \A b \in Calls : Fresh(b)' /\ Fits(call[b])'
  BY <1>1, <1>6, <1>7 DEF CallsFit, Fresh, Fits, Case, rows
<1>12. \A b \in Calls \ {c} : Decided(b, call[b])'
  BY <1>1, <1>3, <1>7, <1>9 DEF CallsFit, Decided, Fits, rows
<1>13. Decided(c, call[c])'
  BY <1>1, <1>2, <1>3, <1>5, <1>7, <1>9 DEF Decided, rows
<1>14. \A b \in Calls : Keyed(call[b])'
  BY <1>1, <1>2, <1>7 DEF CallsFit, Keyed, rows
<1>15. OneHolder'
  <2> SUFFICES ASSUME NEW e \in Calls, NEW b \in Calls, e # b,
                      call'[e].pc = "commit", call'[b].pc = "commit"
               PROVE  Locks(e)' \cap Locks(b)' = {}
    BY DEF OneHolder
  <2>1. call'[e] = call[e] /\ call'[b] = call[b]
    BY <1>2, <1>7
  <2>2. Locks(e)' = Locks(e) /\ Locks(b)' = Locks(b)
    BY <2>1 DEF Locks
  <2> QED
    BY <2>1, <2>2 DEF OneHolder
<1>16. ApprovedAsDecided'
  BY <1>1, <1>3, <1>9 DEF ApprovedAsDecided, ActionsThere, rows
<1>17. NothingTwice'
  BY <1>1 DEF NothingTwice, CasesThere, ActionsThere, rows
<1> QED
  BY <1>10, <1>11, <1>12, <1>13, <1>14, <1>15, <1>16, <1>17 DEF CallsFit

-----------------------------------------------------------------------------
(* The flush: its lock is free, and its index entries are.                 *)
LEMMA FlushStep ==
  ASSUME IInv, NEW c \in Calls, Flush(c), ~Violates(c)
  PROVE  IInv'
<1> USE DEF IInv
<1> DEFINE d == [call[c] EXCEPT !.pc = "commit"]
<1>1. call[c].pc = "write" /\ call' = [call EXCEPT ![c] = d] /\ UNCHANGED <<rows, decision>>
  BY DEF Flush, Goes
<1>2. /\ DOMAIN d = Shape /\ d.pc = "commit" /\ d.kind = call[c].kind /\ d.on = call[c].on
      /\ d.arg = call[c].arg /\ d.by = call[c].by /\ d.saw = call[c].saw
  BY DEF TypeOK, Shape
<1> HIDE DEF d
<1>3. /\ call'[c] = d
      /\ \A b \in Calls \ {c} : call'[b] = call[b]
  BY <1>1 DEF TypeOK
<1>4. TypeOK'
  BY <1>1, <1>2, <1>3 DEF TypeOK, rows, Shape
<1>5. \A b \in Calls : Fresh(b)'
  BY <1>1, <1>2, <1>3 DEF CallsFit, Fresh, rows
<1>6. Fits(call[c]) /\ Decided(c, call[c])
  BY DEF CallsFit
<1>7. Fits(call[c])'
  BY <1>1, <1>2, <1>3, <1>6 DEF Fits, Case, rows
<1>8. Decided(c, call[c])'
  BY <1>1, <1>2, <1>3, <1>6 DEF Decided, rows
<1>9. \A b \in Calls \ {c} : Fits(call[b])' /\ Decided(b, call[b])' /\ Keyed(call[b])'
  BY <1>1, <1>3 DEF CallsFit, Fits, Decided, Keyed, Case, rows
<1>10. Keyed(call[c])'
  <2>1. call[c].kind = "createCase" => \A k \in CaseIds : cases[k].hypothesis # call[c].on
    BY <1>1, <1>6, NoneAssumption DEF Violates, CasesThere, Fits
  <2>2. call[c].kind = "submit" =>
          \A a \in Calls : ~(actions[a].case = call[c].on /\ actions[a].input = call[c].arg)
    BY <1>1, <1>6, NoneAssumption DEF Violates, ActionsThere, Fits, Case, CaseIds
  <2> QED
    BY <1>1, <1>2, <1>3, <2>1, <2>2 DEF Keyed, rows
<1>11. OneHolder'
  <2>1. \A b \in Calls : Locks(b)' = Locks(b)
    BY <1>2, <1>3 DEF Locks
  <2> QED
    BY <1>3, <2>1 DEF OneHolder, Flush, Free
<1>12. NothingTwice' /\ ApprovedAsDecided'
  BY <1>1 DEF NothingTwice, ApprovedAsDecided, CasesThere, ActionsThere, rows
<1>13. CallsFit'
  BY <1>5, <1>7, <1>8, <1>9, <1>10 DEF CallsFit
<1> QED
  BY <1>4, <1>11, <1>12, <1>13

-----------------------------------------------------------------------------
(* The commit: its call ends and releases what it held.                    *)
LEMMA CommitEnds ==
  ASSUME IInv, NEW c \in Calls, NEW kind, Commits(c, kind)
  PROVE  /\ call[c].pc = "commit" /\ call[c].kind = kind
         /\ Fits(call[c]) /\ Decided(c, call[c]) /\ Keyed(call[c])
         /\ cases[c].hypothesis = None /\ actions[c].case = None
         /\ call'[c] = At("ended")
         /\ \A b \in Calls \ {c} : call'[b] = call[b]
         /\ DOMAIN call' = Calls
         /\ \A b \in Calls :
              /\ DOMAIN call'[b] = Shape
              /\ call'[b].pc \in {"idle", "decide", "write", "commit", "ended"}
         /\ OneHolder'
         /\ UNCHANGED decision
<1> USE DEF IInv
<1>1. call[c].pc = "commit" /\ call[c].kind = kind /\ UNCHANGED decision
  BY DEF Commits
<1>2. /\ call'[c] = At("ended")
      /\ \A b \in Calls \ {c} : call'[b] = call[b]
      /\ DOMAIN call' = Calls
  BY DEF Commits, Goes, TypeOK
<1>3. DOMAIN At("ended") = Shape /\ At("ended").pc = "ended"
  BY DEF At, Shape
<1>4. OneHolder'
  <2> SUFFICES ASSUME NEW a \in Calls, NEW b \in Calls, a # b,
                      call'[a].pc = "commit", call'[b].pc = "commit"
               PROVE  Locks(a)' \cap Locks(b)' = {}
    BY DEF OneHolder
  <2>1. call'[a] = call[a] /\ call'[b] = call[b]
    BY <1>2, <1>3
  <2>2. Locks(a)' = Locks(a) /\ Locks(b)' = Locks(b)
    BY <2>1 DEF Locks
  <2> QED
    BY <2>1, <2>2 DEF OneHolder
<1>5. Fits(call[c]) /\ Decided(c, call[c]) /\ Keyed(call[c])
  BY DEF CallsFit
<1>6. cases[c].hypothesis = None /\ actions[c].case = None
  BY <1>1 DEF CallsFit, Fresh
<1>7. \A b \in Calls :
        /\ DOMAIN call'[b] = Shape
        /\ call'[b].pc \in {"idle", "decide", "write", "commit", "ended"}
  BY <1>2, <1>3 DEF TypeOK, Shape
<1> QED
  BY <1>1, <1>2, <1>4, <1>5, <1>6, <1>7

LEMMA CommitTriageStep ==
  ASSUME IInv, NEW c \in Calls, CommitTriage(c)
  PROVE  IInv'
<1> USE DEF IInv
<1> DEFINE h == call[c].on  entry == [from |-> call[c].saw, to |-> call[c].arg]
<1>1. Commits(c, "triage") /\ UNCHANGED <<cases, actions, resolutions, decision>>
  BY DEF CommitTriage, Commits
<1>2. h \in Hypotheses /\ call[c].arg \in Statuses /\ call[c].saw \in Statuses
  BY <1>1, CommitEnds DEF Fits
<1>3. /\ hypothesis' = [hypothesis EXCEPT ![h] = call[c].arg]
      /\ ledger' = [ledger EXCEPT ![h] = Append(ledger[h], entry)]
  BY DEF CommitTriage
<1>4. entry \in [from : Statuses, to : Statuses] /\ entry.to = call[c].arg
  BY <1>2
<1> HIDE DEF entry
<1>5. /\ ledger[h] \in Seq([from : Statuses, to : Statuses])
      /\ Append(ledger[h], entry) \in Seq([from : Statuses, to : Statuses])
      /\ Append(ledger[h], entry)[Len(Append(ledger[h], entry))] = entry
  <2>1. ledger[h] \in Seq([from : Statuses, to : Statuses])
    BY <1>2 DEF TypeOK
  <2> QED
    BY <2>1, <1>4, AppendProperties
<1>6. /\ hypothesis' \in [Hypotheses -> Statuses]
      /\ ledger' \in [Hypotheses -> Seq([from : Statuses, to : Statuses])]
  BY <1>2, <1>3, <1>5 DEF TypeOK
<1>7. TypeOK'
  BY <1>1, <1>6, CommitEnds DEF TypeOK, Shape
<1>8. CallsFit'
  BY <1>1, CommitEnds DEF CallsFit, Fresh, Fits, Decided, Keyed, Case, At
<1>9. NothingTwice' /\ ApprovedAsDecided'
  BY <1>1 DEF NothingTwice, ApprovedAsDecided, CasesThere, ActionsThere
<1>10. OneHolder'
  BY <1>1, CommitEnds
<1> QED
  BY <1>7, <1>8, <1>9, <1>10

(* Another creation for the hypothesis does not hold its index entry.      *)
LEMMA CommitCaseStep ==
  ASSUME IInv, NEW c \in Calls, CommitCase(c)
  PROVE  IInv'
<1> USE NoneAssumption DEF IInv
<1> DEFINE h == call[c].on
           row == [hypothesis |-> h, status |-> "open", actions |-> {}, resolutions |-> {}]
<1>1. /\ Commits(c, "createCase")
      /\ UNCHANGED <<hypothesis, ledger, actions, resolutions, decision>>
  BY DEF CommitCase, Commits
<1>2. h \in Hypotheses /\ \A k \in CaseIds : cases[k].hypothesis # h
  BY <1>1, CommitEnds DEF Fits, Keyed
<1>3. cases' = [cases EXCEPT ![c] = row]
  BY DEF CommitCase
<1>4. row \in CaseRows /\ row.hypothesis = h /\ row.status = "open"
  BY <1>2 DEF CaseRows
<1> HIDE DEF row
<1>5. c \in CaseIds /\ cases'[c] = row /\ \A k \in CaseIds \ {c} : cases'[k] = cases[k]
  BY <1>3 DEF TypeOK, CaseIds
<1>6. TypeOK'
  <2>1. cases' \in [CaseIds -> CaseRows \cup {Absent}]
    BY <1>3, <1>4, <1>5 DEF TypeOK
  <2> QED
    BY <2>1, <1>1, CommitEnds DEF TypeOK, Shape
<1>7. \A b \in Calls : Fresh(b)'
  BY <1>1, <1>5, CommitEnds DEF CallsFit, Fresh, At, CaseIds
<1>8. \A b \in Calls : Fits(call[b])'
  BY <1>1, <1>2, <1>4, <1>5, CommitEnds DEF CallsFit, Fits, Case, At
<1>9. \A b \in Calls : Decided(b, call[b])'
  BY <1>1, CommitEnds DEF CallsFit, Decided, At
<1>10. \A b \in Calls : Keyed(call[b])'
  <2> SUFFICES ASSUME NEW b \in Calls, b # c PROVE Keyed(call[b])'
    BY <1>1, CommitEnds DEF Keyed, At
  <2>1. call'[b] = call[b] /\ Keyed(call[b])
    BY <1>1, CommitEnds DEF CallsFit
  <2>2. CASE call[b].pc = "commit" /\ call[b].kind = "createCase"
    <3>1. Locks(c) \cap Locks(b) = {}
      BY <1>1, <2>2, CommitEnds DEF OneHolder
    <3>2. Locks(c) = {<<"case of", h>>} /\ Locks(b) = {<<"case of", call[b].on>>}
      BY <1>1, <2>2, CommitEnds DEF Locks
    <3>3. call[b].on # h
      BY <3>1, <3>2
    <3> QED
      BY <2>1, <2>2, <3>3, <1>1, <1>4, <1>5 DEF Keyed
  <2> QED
    BY <2>1, <2>2, <1>1 DEF Keyed
<1>11. NothingTwice'
  BY <1>1, <1>2, <1>4, <1>5 DEF NothingTwice, CasesThere, ActionsThere
<1>12. ApprovedAsDecided'
  BY <1>1 DEF ApprovedAsDecided, ActionsThere
<1>13. OneHolder'
  BY <1>1, CommitEnds
<1>14. CallsFit'
  BY <1>7, <1>8, <1>9, <1>10 DEF CallsFit
<1> QED
  BY <1>6, <1>11, <1>12, <1>13, <1>14

(* A case of which only the lists or the status are written.               *)
LEMMA SameCase ==
  ASSUME IInv, NEW k \in CaseIds, cases[k].hypothesis # None, NEW row,
         row \in CaseRows, row.hypothesis = cases[k].hypothesis,
         cases' = [cases EXCEPT ![k] = row]
  PROVE  /\ cases' \in [CaseIds -> CaseRows \cup {Absent}]
         /\ cases'[k] = row
         /\ \A l \in CaseIds \ {k} : cases'[l] = cases[l]
         /\ \A l \in CaseIds : cases'[l].hypothesis = cases[l].hypothesis
  BY DEF IInv, TypeOK

LEMMA CommitSubmitStep ==
  ASSUME IInv, NEW c \in Calls, CommitSubmit(c)
  PROVE  IInv'
<1> USE NoneAssumption DEF IInv
<1> DEFINE k == call[c].on
           act == [case |-> k, input |-> call[c].arg, by |-> call[c].by,
                   status |-> "pending_approval", approver |-> None]
           row == [cases[k] EXCEPT !.actions = call[c].saw \cup {c}]
<1>1. /\ Commits(c, "submit")
      /\ UNCHANGED <<hypothesis, ledger, resolutions, decision>>
  BY DEF CommitSubmit, Commits
<1>2. /\ k \in CaseIds /\ cases[k].hypothesis # None
      /\ call[c].arg \in Inputs /\ call[c].by \in Principals /\ call[c].saw \in SUBSET Calls
  BY <1>1, CommitEnds DEF Fits, Case
<1>3. \A a \in Calls : ~(actions[a].case = k /\ actions[a].input = call[c].arg)
  BY <1>1, CommitEnds DEF Keyed
<1>4. actions' = [actions EXCEPT ![c] = act] /\ cases' = [cases EXCEPT ![k] = row]
  BY DEF CommitSubmit
<1>5. act \in ActionRows /\ act.case = k /\ act.input = call[c].arg /\ act.case # None
      /\ act.status = "pending_approval"
  BY <1>2 DEF ActionRows, CaseIds
<1>6. cases[k] \in CaseRows
  BY <1>2 DEF TypeOK, Absent
<1>7. /\ row \in CaseRows /\ row.hypothesis = cases[k].hypothesis
      /\ row.status = cases[k].status /\ row.resolutions = cases[k].resolutions
  BY <1>2, <1>6 DEF CaseRows
<1> HIDE DEF act, row
<1>8. actions'[c] = act /\ \A b \in Calls \ {c} : actions'[b] = actions[b]
  BY <1>4 DEF TypeOK
<1>9. /\ cases' \in [CaseIds -> CaseRows \cup {Absent}]
      /\ cases'[k] = row
      /\ \A l \in CaseIds \ {k} : cases'[l] = cases[l]
      /\ \A l \in CaseIds : cases'[l].hypothesis = cases[l].hypothesis
  BY <1>2, <1>4, <1>7, SameCase
<1>10. TypeOK'
  <2>1. actions' \in [Calls -> ActionRows \cup {NoAction}]
    BY <1>4, <1>5 DEF TypeOK
  <2> QED
    BY <2>1, <1>1, <1>9, CommitEnds DEF TypeOK, Shape
<1>11. \A b \in Calls : Fresh(b)'
  BY <1>1, <1>8, <1>9, CommitEnds DEF CallsFit, Fresh, At, CaseIds
<1>12. \A b \in Calls : Fits(call[b])'
  <2> SUFFICES ASSUME NEW b \in Calls, b # c PROVE Fits(call[b])'
    BY <1>1, CommitEnds DEF Fits, At
  <2>1. call'[b] = call[b] /\ Fits(call[b])
    BY <1>1, CommitEnds DEF CallsFit
  <2> QED
    BY <2>1, <1>5, <1>8, <1>9 DEF Fits, Case
<1>13. \A b \in Calls : Decided(b, call[b])'
  <2> SUFFICES ASSUME NEW b \in Calls, b # c PROVE Decided(b, call[b])'
    BY <1>1, CommitEnds DEF Decided, At
  <2>1. call'[b] = call[b] /\ Fits(call[b]) /\ Decided(b, call[b])
    BY <1>1, CommitEnds DEF CallsFit
  <2>2. call[b].kind = "approve" /\ call[b].pc \in {"write", "commit"} =>
          call[b].on \in Calls \ {c}
    BY <2>1, <1>1, CommitEnds DEF Fits
  <2> QED
    BY <2>1, <2>2, <1>1, <1>8 DEF Decided
<1>14. \A b \in Calls : Keyed(call[b])'
  <2> SUFFICES ASSUME NEW b \in Calls, b # c PROVE Keyed(call[b])'
    BY <1>1, CommitEnds DEF Keyed, At
  <2>1. call'[b] = call[b] /\ Keyed(call[b])
    BY <1>1, CommitEnds DEF CallsFit
  <2>2. ASSUME call[b].pc = "commit", call[b].kind = "submit"
        PROVE  call[b].on # k
    <3>1. Locks(c) \cap Locks(b) = {}
      BY <1>1, <2>2, CommitEnds DEF OneHolder
    <3>2. /\ Locks(c) = {<<"case", k>>, <<"input", k, call[c].arg>>}
          /\ Locks(b) = {<<"case", call[b].on>>, <<"input", call[b].on, call[b].arg>>}
      BY <1>1, <2>2, CommitEnds DEF Locks
    <3> QED
      BY <3>1, <3>2
  <2> QED
    BY <2>1, <2>2, <1>5, <1>8, <1>9 DEF Keyed
<1>15. NothingTwice'
  <2>1. \A m, l \in CasesThere' : cases'[m].hypothesis = cases'[l].hypothesis => m = l
    BY <1>9 DEF NothingTwice, CasesThere
  <2>2. \A a, b \in ActionsThere' :
          actions'[a].case = actions'[b].case /\ actions'[a].input = actions'[b].input => a = b
    BY <1>3, <1>5, <1>8 DEF NothingTwice, ActionsThere
  <2> QED
    BY <2>1, <2>2 DEF NothingTwice
<1>16. ApprovedAsDecided'
  BY <1>1, <1>5, <1>8 DEF ApprovedAsDecided, ActionsThere
<1>17. OneHolder'
  BY <1>1, CommitEnds
<1>18. CallsFit'
  BY <1>11, <1>12, <1>13, <1>14 DEF CallsFit
<1> QED
  BY <1>10, <1>15, <1>16, <1>17, <1>18

(* The action has the one decision it got, and no other is being written.  *)
LEMMA CommitApproveStep ==
  ASSUME IInv, NEW c \in Calls, CommitApprove(c)
  PROVE  IInv'
<1> USE NoneAssumption DEF IInv
<1> DEFINE a == call[c].on
           act == [actions[a] EXCEPT !.status = "approved", !.approver = call[c].by]
<1>1. /\ Commits(c, "approve")
      /\ UNCHANGED <<hypothesis, ledger, cases, resolutions, decision>>
  BY DEF CommitApprove, Commits
<1>2. /\ a \in Calls /\ actions[a].case # None /\ call[c].by \in Principals
      /\ decision[a] = call[c].by /\ call[c].by # actions[a].by
  BY <1>1, CommitEnds DEF Fits, Decided
<1>3. actions[a] \in ActionRows
  BY <1>2 DEF TypeOK, NoAction
<1>4. actions' = [actions EXCEPT ![a] = act]
  BY <1>2, <1>3 DEF CommitApprove, TypeOK, ActionRows
<1>5. /\ act \in ActionRows /\ act.case = actions[a].case /\ act.input = actions[a].input
      /\ act.by = actions[a].by /\ act.approver = call[c].by
  BY <1>2, <1>3 DEF ActionRows
<1> HIDE DEF act
<1>6. actions'[a] = act /\ \A b \in Calls \ {a} : actions'[b] = actions[b]
  BY <1>2, <1>4 DEF TypeOK
<1>7. \A b \in Calls : /\ actions'[b].case = actions[b].case
                       /\ actions[b].case # None => /\ actions'[b].input = actions[b].input
                                                   /\ actions'[b].by = actions[b].by
  BY <1>2, <1>5, <1>6
<1>8. TypeOK'
  <2>1. actions' \in [Calls -> ActionRows \cup {NoAction}]
    BY <1>4, <1>5 DEF TypeOK
  <2> QED
    BY <2>1, <1>1, CommitEnds DEF TypeOK, Shape
<1>9. \A b \in Calls : Fresh(b)'
  BY <1>1, <1>7, CommitEnds DEF CallsFit, Fresh, At
<1>10. \A b \in Calls \ {c} : Fits(call[b])' /\ Decided(b, call[b])'
  <2> SUFFICES ASSUME NEW b \in Calls \ {c}
               PROVE  Fits(call[b])' /\ Decided(b, call[b])'
    OBVIOUS
  <2>1. call'[b] = call[b] /\ Fits(call[b]) /\ Decided(b, call[b])
    BY <1>1, CommitEnds DEF CallsFit
  <2>2. Fits(call[b])'
    BY <2>1, <1>1, <1>7 DEF Fits, Case
  <2>3. Decided(b, call[b])'
    BY <2>1, <1>1, <1>7 DEF Fits, Decided
  <2> QED
    BY <2>2, <2>3
<1>11. \A b \in Calls \ {c} : Keyed(call[b])'
  <2> SUFFICES ASSUME NEW b \in Calls \ {c} PROVE Keyed(call[b])'
    OBVIOUS
  <2>1. call'[b] = call[b] /\ Fits(call[b]) /\ Keyed(call[b])
    BY <1>1, CommitEnds DEF CallsFit
  <2>2. call[b].pc = "commit" /\ call[b].kind = "submit" => call[b].on # None
    BY <2>1 DEF Fits, Case, CaseIds
  <2> QED
    BY <2>1, <2>2, <1>1, <1>7 DEF Keyed
<1>12. CallsFit'
  <2>1. Fits(call[c])' /\ Decided(c, call[c])' /\ Keyed(call[c])'
    BY <1>1, CommitEnds DEF Fits, Decided, Keyed, At
  <2> QED
    BY <2>1, <1>9, <1>10, <1>11 DEF CallsFit
<1>13. NothingTwice'
  BY <1>1, <1>7 DEF NothingTwice, CasesThere, ActionsThere
<1>14. ApprovedAsDecided'
  BY <1>1, <1>2, <1>5, <1>6 DEF ApprovedAsDecided, ActionsThere
<1>15. OneHolder'
  BY <1>1, CommitEnds
<1> QED
  BY <1>8, <1>12, <1>13, <1>14, <1>15

LEMMA CommitResolveStep ==
  ASSUME IInv, NEW c \in Calls, CommitResolve(c)
  PROVE  IInv'
<1> USE NoneAssumption DEF IInv
<1> DEFINE k == call[c].on
           entry == [id |-> c, outcome |-> call[c].arg]
           row == [cases[k] EXCEPT !.status = call[c].arg,
                                   !.resolutions = call[c].saw \cup {c}]
<1>1. Commits(c, "resolve") /\ UNCHANGED <<hypothesis, ledger, actions, decision>>
  BY DEF CommitResolve, Commits
<1>2. /\ k \in CaseIds /\ cases[k].hypothesis # None
      /\ call[c].arg \in Outcomes /\ call[c].saw \in SUBSET Calls
  BY <1>1, CommitEnds DEF Fits, Case
<1>3. resolutions' = [resolutions EXCEPT ![k] = Append(resolutions[k], entry)]
  BY DEF CommitResolve
<1>4. cases[k] \in CaseRows
  BY <1>2 DEF TypeOK, Absent
<1>5. /\ cases' = [cases EXCEPT ![k] = row]
      /\ row \in CaseRows /\ row.hypothesis = cases[k].hypothesis
  <2>1. cases' = [cases EXCEPT ![k] = row]
    BY <1>2, <1>4 DEF CommitResolve, TypeOK, CaseRows
  <2>2. row \in CaseRows /\ row.hypothesis = cases[k].hypothesis
    BY <1>2, <1>4 DEF CaseRows
  <2> QED
    BY <2>1, <2>2
<1>6. entry \in [id : Calls, outcome : Outcomes]
  BY <1>2
<1> HIDE DEF entry, row
<1>7. /\ cases' \in [CaseIds -> CaseRows \cup {Absent}]
      /\ cases'[k] = row
      /\ \A l \in CaseIds \ {k} : cases'[l] = cases[l]
      /\ \A l \in CaseIds : cases'[l].hypothesis = cases[l].hypothesis
  BY <1>2, <1>5, SameCase
<1>8. Append(resolutions[k], entry) \in Seq([id : Calls, outcome : Outcomes])
  <2>1. resolutions[k] \in Seq([id : Calls, outcome : Outcomes])
    BY <1>2 DEF TypeOK
  <2> QED
    BY <2>1, <1>6, AppendProperties
<1>9. resolutions' \in [CaseIds -> Seq([id : Calls, outcome : Outcomes])]
  BY <1>2, <1>3, <1>8 DEF TypeOK
<1>10. TypeOK'
  BY <1>1, <1>7, <1>9, CommitEnds DEF TypeOK, Shape
<1>11. \A b \in Calls : Fresh(b)'
  BY <1>1, <1>7, CommitEnds DEF CallsFit, Fresh, At, CaseIds
<1>12. \A b \in Calls : Fits(call[b])'
  BY <1>1, <1>7, CommitEnds DEF CallsFit, Fits, Case, At
<1>13. \A b \in Calls : Decided(b, call[b])'
  BY <1>1, CommitEnds DEF CallsFit, Decided, At
<1>14. \A b \in Calls : Keyed(call[b])'
  BY <1>1, <1>7, CommitEnds DEF CallsFit, Keyed, At
<1>15. NothingTwice'
  BY <1>1, <1>7 DEF NothingTwice, CasesThere, ActionsThere
<1>16. ApprovedAsDecided'
  BY <1>1 DEF ApprovedAsDecided, ActionsThere
<1>17. OneHolder'
  BY <1>1, CommitEnds
<1>18. CallsFit'
  BY <1>11, <1>12, <1>13, <1>14 DEF CallsFit
<1> QED
  BY <1>10, <1>15, <1>16, <1>17, <1>18

-----------------------------------------------------------------------------
(* A restart forgets the decisions of a process, and with them the calls   *)
(* that were writing one.                                                  *)
LEMMA RestartStep ==
  ASSUME IInv, NEW p \in Processes, Restart(p)
  PROVE  IInv'
<1> USE DEF IInv
<1>1. /\ UNCHANGED rows
      /\ decision' = [a \in Calls |-> IF HomeOf[a] = p THEN None ELSE decision[a]]
      /\ DOMAIN call' = Calls
      /\ \A c \in Calls :
           call'[c] = IF Live(c) /\ HomeOf[c] = p THEN At("ended") ELSE call[c]
  BY DEF Restart
<1>2. DOMAIN At("ended") = Shape /\ At("ended").pc = "ended"
  BY DEF At, Shape
<1>3. TypeOK'
  BY <1>1, <1>2 DEF TypeOK, rows, Shape
<1>4. \A c \in Calls : Fresh(c)' /\ Keyed(call[c])'
  BY <1>1, <1>2 DEF CallsFit, Fresh, Keyed, rows
<1>5. \A c \in Calls : Fits(call[c])'
  BY <1>1, <1>2 DEF CallsFit, Fits, Case, rows
<1>6. \A c \in Calls : Decided(c, call[c])'
  BY <1>1, <1>2 DEF CallsFit, Fits, Decided, Live, rows
<1>7. OneHolder'
  <2> SUFFICES ASSUME NEW a \in Calls, NEW b \in Calls, a # b,
                      call'[a].pc = "commit", call'[b].pc = "commit"
               PROVE  Locks(a)' \cap Locks(b)' = {}
    BY DEF OneHolder
  <2>1. call'[a] = call[a] /\ call'[b] = call[b]
    BY <1>1, <1>2
  <2>2. Locks(a)' = Locks(a) /\ Locks(b)' = Locks(b)
    BY <2>1 DEF Locks
  <2> QED
    BY <2>1, <2>2 DEF OneHolder
<1>8. ApprovedAsDecided'
  BY <1>1 DEF ApprovedAsDecided, ActionsThere, rows
<1>9. NothingTwice'
  BY <1>1 DEF NothingTwice, CasesThere, ActionsThere, rows
<1>10. CallsFit'
  BY <1>4, <1>5, <1>6 DEF CallsFit
<1> QED
  BY <1>3, <1>7, <1>8, <1>9, <1>10

-----------------------------------------------------------------------------
LEMMA NextStep == IInv /\ [Next]_vars => IInv'
<1> SUFFICES ASSUME IInv, [Next]_vars PROVE IInv'
  OBVIOUS
<1>1. ASSUME NEW c \in Calls, Ask(c) PROVE IInv'
  BY <1>1, TriageStep, CreateCaseStep, SubmitStep, ApproveStep, ResolveStep DEF Ask
<1>2. ASSUME NEW c \in Calls, Works(c) PROVE IInv'
  <2>1. CASE Decide(c)
    <3>1. ~MayDecide(c) => /\ call[c].pc # "ended" /\ Goes(c, "ended")
                           /\ UNCHANGED <<rows, decision>>
      BY <2>1 DEF Decide, rows
    <3> QED
      BY <2>1, <3>1, DecideStep, EndStep
  <2>2. CASE Flush(c)
    <3>1. Violates(c) => /\ call[c].pc # "ended" /\ Goes(c, "ended")
                         /\ UNCHANGED <<rows, decision>>
      BY <2>2 DEF Flush, rows
    <3> QED
      BY <2>2, <3>1, FlushStep, EndStep
  <2>3. CASE Commit(c)
    BY <2>3, CommitTriageStep, CommitCaseStep, CommitSubmitStep, CommitApproveStep,
       CommitResolveStep DEF Commit
  <2> QED
    BY <1>2, <2>1, <2>2, <2>3 DEF Works
<1>3. ASSUME NEW c \in Calls, Fail(c) PROVE IInv'
  <2>1. call[c].pc # "ended" /\ Goes(c, "ended") /\ UNCHANGED <<rows, decision>>
    BY <1>3 DEF Fail, Live, rows
  <2> QED
    BY <2>1, EndStep
<1>4. CASE UNCHANGED vars
  <2> USE <1>4 DEF IInv, vars, rows
  <2>1. TypeOK'
    BY DEF TypeOK
  <2>2. \A c \in Calls : Fresh(c)' /\ Keyed(call[c])'
    BY DEF CallsFit, Fresh, Keyed
  <2>3. \A c \in Calls : Fits(call[c])' /\ Decided(c, call[c])'
    BY DEF CallsFit, Fits, Decided, Case
  <2>4. OneHolder'
    <3>1. \A c \in Calls : Locks(c)' = Locks(c)
      BY DEF Locks
    <3> QED
      BY <3>1 DEF OneHolder
  <2>5. NothingTwice' /\ ApprovedAsDecided'
    BY DEF NothingTwice, ApprovedAsDecided, CasesThere, ActionsThere
  <2> QED
    BY <2>1, <2>2, <2>3, <2>4, <2>5 DEF CallsFit
<1> QED
  BY <1>1, <1>2, <1>3, <1>4, RestartStep DEF Next

LEMMA Inductive == Spec => []IInv
  BY InitIInv, NextStep, PTL DEF Spec

(* The rows have their types, for any number of calls and restarts.        *)
THEOREM WorkbenchTypes == Spec => []TypeOK
<1>1. IInv => TypeOK
  BY DEF IInv
<1> QED
  BY <1>1, Inductive, PTL

(* A repeated request copies nothing, however many callers look before any *)
(* has inserted.                                                           *)
THEOREM NothingIsCopied == Spec => []NothingTwice
<1>1. IInv => NothingTwice
  BY DEF IInv
<1> QED
  BY <1>1, Inductive, PTL

(* An approved row has the decision of its process, and never its          *)
(* requester's.                                                            *)
THEOREM ApprovalsAreDecisions == Spec => []ApprovedAsDecided
<1>1. IInv => ApprovedAsDecided
  BY DEF IInv
<1> QED
  BY <1>1, Inductive, PTL
=============================================================================
