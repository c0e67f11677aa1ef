-------------------------- MODULE MembershipsProofs -------------------------
(***************************************************************************)
(* What Memberships promises, proved for any calls, principals, requests   *)
(* and rows to start from.                                                 *)
(*                                                                         *)
(* A call is the list of statements it has before it, and almost all that  *)
(* is to be known of it is in that list: Fits says which statement is      *)
(* about which row, and which rows were written before it is reached.  All *)
(* programs fit, and every statement leaves one that fits.  The statements *)
(* are then of three kinds only, whatever they do otherwise: one proceeds  *)
(* within its transaction, stops the call, or commits (StatementKinds);    *)
(* each invariant is shown to survive these, the begin and the cut.        *)
(*                                                                         *)
(* Base is what the transactions keep among themselves.  WrittenTogether   *)
(* is what a commit leaves in the rows, Accounted and LookedUp what a call *)
(* knows of the calls that had ended when it began, Targeted how far a     *)
(* reconciliation is from the members it was given.                        *)
(***************************************************************************)
EXTENDS Memberships, SequenceTheorems, FiniteSetTheorems, TLAPS

-----------------------------------------------------------------------------
(* Programs as sequences                                                   *)

IsProgram(s) == s \in Seq({s[i] : i \in DOMAIN s})

(* What follows the first statement of a program is a program, one shorter *)
(* and shifted by one.                                                     *)
LEMMA TailOfProgram ==
  ASSUME NEW s, IsProgram(s), Len(s) > 0
  PROVE  /\ IsProgram(Tail(s))
         /\ Len(s) \in Nat /\ DOMAIN s = 1 .. Len(s)
         /\ Len(Tail(s)) = Len(s) - 1
         /\ DOMAIN Tail(s) = 1 .. (Len(s) - 1)
         /\ \A i \in 1 .. (Len(s) - 1) : i + 1 \in 1 .. Len(s) /\ Tail(s)[i] = s[i + 1]
<1> DEFINE S == {s[i] : i \in DOMAIN s}
           t == Tail(s)
<1>1. s \in Seq(S)
  BY DEF IsProgram
<1> HIDE DEF S
<1>2. Len(s) \in Nat /\ DOMAIN s = 1 .. Len(s)
  BY <1>1, LenProperties
<1>3. s # <<>>
  BY EmptySeq
<1>4. t \in Seq(S) /\ Len(t) = Len(s) - 1 /\ \A i \in 1 .. Len(t) : t[i] = s[i + 1]
  BY <1>1, <1>3, HeadTailProperties
<1>5. t \in [1 .. Len(t) -> S] /\ DOMAIN t = 1 .. Len(t)
  BY <1>4, LenProperties
<1> HIDE DEF t
<1>6. t \in [1 .. Len(t) -> {t[i] : i \in DOMAIN t}]
  BY <1>5
<1>7. t \in Seq({t[i] : i \in DOMAIN t})
  BY <1>2, <1>4, <1>6
<1> QED
  BY <1>2, <1>4, <1>5, <1>7 DEF IsProgram, t

(* Of two programs one after the other.                                    *)
LEMMA ConcatOfPrograms ==
  ASSUME NEW s, IsProgram(s), NEW t, IsProgram(t)
  PROVE  /\ IsProgram(s \o t)
         /\ Len(s) \in Nat /\ Len(t) \in Nat
         /\ Len(s \o t) = Len(s) + Len(t)
         /\ DOMAIN (s \o t) = 1 .. (Len(s) + Len(t))
         /\ \A i \in 1 .. (Len(s) + Len(t)) :
              (s \o t)[i] = IF i <= Len(s) THEN s[i] ELSE t[i - Len(s)]
<1> DEFINE A == {s[i] : i \in DOMAIN s}
           B == {t[i] : i \in DOMAIN t}
           u == s \o t
<1>1. s \in Seq(A) /\ t \in Seq(B)
  BY DEF IsProgram
<1> HIDE DEF A, B
<1>2. s \in Seq(A \cup B) /\ t \in Seq(A \cup B)
  BY <1>1, SeqMonotonic
<1>3. Len(s) \in Nat /\ Len(t) \in Nat
  BY <1>1, LenProperties
<1>4. /\ u \in Seq(A \cup B) /\ Len(u) = Len(s) + Len(t)
      /\ \A i \in 1 .. (Len(s) + Len(t)) : u[i] = IF i <= Len(s) THEN s[i] ELSE t[i - Len(s)]
  BY <1>2, ConcatProperties
<1>5. u \in [1 .. Len(u) -> A \cup B] /\ DOMAIN u = 1 .. Len(u)
  BY <1>4, LenProperties
<1> HIDE DEF u
<1>6. u \in [1 .. Len(u) -> {u[i] : i \in DOMAIN u}]
  BY <1>5
<1>7. Len(u) \in Nat
  BY <1>3, <1>4
<1>8. u \in Seq({u[i] : i \in DOMAIN u})
  BY <1>6, <1>7
<1> QED
  BY <1>3, <1>4, <1>5, <1>8 DEF IsProgram, u

(* A function on an interval is a program.                                 *)
LEMMA FunctionIsProgram ==
  ASSUME NEW n \in Nat, NEW s, DOMAIN s = 1 .. n, s = [i \in 1 .. n |-> s[i]]
  PROVE  IsProgram(s) /\ Len(s) = n
<1>1. s \in [1 .. n -> {s[i] : i \in DOMAIN s}]
  OBVIOUS
<1>2. s \in Seq({s[i] : i \in DOMAIN s})
  BY <1>1
<1> QED
  BY <1>2, LenProperties DEF IsProgram

(* Nth enumerates a finite set of people, each of them once.               *)
LEMMA NthEnumerates ==
  ASSUME NEW people, people \subseteq Nat, IsFiniteSet(people)
  PROVE  /\ Cardinality(people) \in Nat
         /\ \A n \in 1 .. Cardinality(people) : Nth(people, n) \in people
         /\ \A p \in people : \E n \in 1 .. Cardinality(people) : Nth(people, n) = p
<1> DEFINE Below(p) == {x \in people : x < p}
           N == Cardinality(people)
           rank == [p \in people |-> Cardinality(Below(p))]
<1>1. N \in Nat
  BY FS_CardinalityType
<1>2. \A p \in people : /\ IsFiniteSet(Below(p)) /\ Cardinality(Below(p)) \in Nat
                        /\ Cardinality(Below(p)) < N
  <2> SUFFICES ASSUME NEW p \in people
               PROVE  /\ IsFiniteSet(Below(p)) /\ Cardinality(Below(p)) \in Nat
                      /\ Cardinality(Below(p)) < N
    OBVIOUS
  <2>1. Below(p) \in SUBSET people /\ p \notin Below(p)
    OBVIOUS
  <2>2. IsFiniteSet(Below(p)) /\ Cardinality(Below(p)) <= N /\ (N = Cardinality(Below(p)) => people = Below(p))
    BY <2>1, FS_Subset
  <2>3. Cardinality(Below(p)) \in Nat
    BY <2>2, FS_CardinalityType
  <2> QED
    BY <1>1, <2>1, <2>2, <2>3
<1>3. \A p, q \in people : p < q => Cardinality(Below(p)) < Cardinality(Below(q))
  <2> SUFFICES ASSUME NEW p \in people, NEW q \in people, p < q
               PROVE  Cardinality(Below(p)) < Cardinality(Below(q))
    OBVIOUS
  <2>0. p \in Nat /\ q \in Nat /\ \A x \in people : x \in Nat
    OBVIOUS
  <2>1. Below(p) \in SUBSET Below(q) /\ p \in Below(q) /\ p \notin Below(p)
    <3>1. \A x \in people : x < p => x < q
      BY <2>0
    <3>2. Below(p) \subseteq Below(q)
      BY <3>1
    <3>3. p \in Below(q) /\ p \notin Below(p)
      BY <2>0
    <3> QED
      BY <3>2, <3>3
  <2>2. /\ Cardinality(Below(p)) <= Cardinality(Below(q))
        /\ Cardinality(Below(q)) = Cardinality(Below(p)) => Below(q) = Below(p)
    BY <1>2, <2>1, FS_Subset
  <2> QED
    BY <1>2, <2>1, <2>2
<1> HIDE DEF Below, N
<1>4. rank \in [people -> 0 .. (N - 1)]
  BY <1>1, <1>2
<1>5. \A p, q \in people : rank[p] = rank[q] => p = q
  <2> SUFFICES ASSUME NEW p \in people, NEW q \in people, rank[p] = rank[q]
               PROVE  p = q
    OBVIOUS
  <2>1. p \in Nat /\ q \in Nat /\ rank[p] \in Nat
    BY <1>2
  <2>2. ~(p < q) /\ ~(q < p)
    BY <1>3, <2>1
  <2> QED
    BY <2>1, <2>2
<1>6. rank \in Injection(people, 0 .. (N - 1))
  BY <1>4, <1>5 DEF Injection, IsInjective
<1>7. IsFiniteSet(0 .. (N - 1)) /\ Cardinality(0 .. (N - 1)) = N
  BY <1>1, FS_Interval
<1>8. rank \in Surjection(people, 0 .. (N - 1))
  BY <1>6, <1>7, FS_Injection DEF N
<1>9. \A k \in 0 .. (N - 1) : \E p \in people : rank[p] = k
  BY <1>8 DEF Surjection
<1>10. \A n \in 1 .. N : Nth(people, n) \in people /\ rank[Nth(people, n)] = n - 1
  <2> SUFFICES ASSUME NEW n \in 1 .. N
               PROVE  Nth(people, n) \in people /\ rank[Nth(people, n)] = n - 1
    OBVIOUS
  <2>1. n - 1 \in 0 .. (N - 1)
    BY <1>1
  <2>2. \E p \in people : Cardinality(Below(p)) = n - 1
    BY <1>9, <2>1
  <2> QED
    BY <2>2 DEF Nth, Below
<1>11. \A p \in people : rank[p] + 1 \in 1 .. N /\ Nth(people, rank[p] + 1) = p
  <2> SUFFICES ASSUME NEW p \in people
               PROVE  rank[p] + 1 \in 1 .. N /\ Nth(people, rank[p] + 1) = p
    OBVIOUS
  <2> HIDE DEF rank
  <2>1. rank[p] \in 0 .. (N - 1)
    BY <1>4
  <2>2. rank[p] + 1 \in 1 .. N /\ (rank[p] + 1) - 1 = rank[p]
    BY <1>1, <2>1
  <2>3. rank[Nth(people, rank[p] + 1)] = rank[p] /\ Nth(people, rank[p] + 1) \in people
    BY <1>10, <2>2
  <2> QED
    BY <1>5, <2>2, <2>3
<1> QED
  BY <1>1, <1>10, <1>11 DEF N

-----------------------------------------------------------------------------
(* What is known of the statements a call has before it.  A request is     *)
(* does[c]; its rows by themselves, as KeyRow and the programs name them.  *)

Creating == {"bootstrap", "workspace", "group"}
Final == {"finish", "recorded", "answer", "diff"}

(* The second transaction of a provisioning, after the first.              *)
Closing == {"put", "readback", "finish"}

KeyOf(r) ==
  <<"key", r.kind,
    IF r.kind = "bootstrap" THEN <<r.where, r.who>>
    ELSE IF r.kind \in {"add", "remove", "grant"} THEN <<r.where>> ELSE <<>>,
    r.key>>
RootOf(r) == <<IF r.kind = "bootstrap" THEN "organization" ELSE r.kind, r.where>>
MemberOf(r) == Member(r.where, r.who)
Wanted(r) == {GroupMember(r.where, p) : p \in r.wants}
Unwanted(r) == {GroupMember(r.where, p) : p \in Principals \ r.wants}

(* The rows a statement is about, and the calls that execute it.           *)
Suits(r, s) ==
  /\ s.op \in {"lookup", "key", "answer", "recorded"} => s.row = KeyOf(r)
  /\ s.op \in {"lookup", "key", "answer", "create", "recorded", "claim"} => r.kind \in Keyed
  /\ s.op \in {"commit", "known", "differs", "set", "diff"} => r.kind \notin Keyed
  /\ s.op = "diff" => r.kind = "reconcile"
  /\ r.kind = "reconcile" => 
       s.op \in {"diff", "check", "put", "readback", "delete", "commit", "finish"}
  /\ s.op = "claim" => s.row = BootstrapClaim(r.who)
  /\ s.op = "create" => s.row = IF r.kind \in Creating THEN RootOf(r) ELSE MemberOf(r)
  /\ s.op = "insert" => s.row \in {WorkspaceMember(r.where, r.who), Identity(r.who)}
  /\ s.op = "put" => IF r.kind = "reconcile" THEN s.row \in Wanted(r) ELSE s.row = MemberOf(r)
  /\ s.op = "delete" =>
       IF r.kind = "reconcile" THEN s.row \in Unwanted(r) ELSE s.row = MemberOf(r)
  /\ s.op = "set" => s.row = Disabled(r.who)

(* No statement of ops is reached before op has inserted its row.          *)
Behind(s, ops, op, row, puts) ==
  \A i \in DOMAIN s : s[i].op \in ops => row \in puts \/ \E j \in 1 .. (i - 1) : s[j].op = op

Inner == {"claim", "check", "put", "insert", "key", "finish", "answer"}

(* The rows of a key, a root and a claim are written before the statements *)
(* that come after them in the program; puts is what was inserted already. *)
Fits(r, s, puts) ==
  /\ IsProgram(s) /\ Len(s) > 0 /\ s[Len(s)].op \in Final
  /\ \A i \in DOMAIN s : Suits(r, s[i])
  /\ r.kind \in Keyed => Behind(s, {"finish"}, "key", KeyOf(r), puts)
  /\ r.kind \in Creating => Behind(s, Inner, "create", RootOf(r), puts)
  /\ r.kind = "bootstrap" =>
       Behind(s, {"put", "key", "finish", "answer"}, "claim", BootstrapClaim(r.who), puts)
  /\ \A i \in DOMAIN s : s[i].op = "lookup" => i = 1
  /\ \A i \in DOMAIN s : s[i].op \in {"lookup", "key"} => KeyOf(r) \notin puts
  /\ \A i, j \in DOMAIN s : s[i].op = "key" /\ s[j].op = "key" => i = j
  /\ \A i, j \in DOMAIN s : s[i].op = "commit" /\ i < j =>
       s[j].op = "finish" \/ (s[j].op \in Closing /\ r.kind = "provision")

(* The key of a request, as the programs name it.                          *)
LEMMA KeyOfRequest ==
  ASSUME NEW c
  PROVE  KeyRow(c) = KeyOf(does[c])
BY DEF KeyRow, KeyOf, Scope, Kind, Where, Who

(* The kinds of rows are told apart by their first component.              *)
LEMMA RowTags ==
  /\ \A a, b : /\ Member(a, b)[1] = "member" /\ WorkspaceMember(a, b)[1] = "workspace member"
               /\ GroupMember(a, b)[1] = "group member"
  /\ \A a : /\ BootstrapClaim(a)[1] = "claim" /\ Identity(a)[1] = "identity"
            /\ Disabled(a)[1] = "disabled" /\ Audit(a)[1] = "audit"
  /\ \A r : /\ KeyOf(r)[1] = "key"
            /\ RootOf(r)[1] = IF r.kind = "bootstrap" THEN "organization" ELSE r.kind
BY DEF Member, WorkspaceMember, GroupMember, BootstrapClaim, Identity, Disabled, Audit, KeyOf, RootOf

(* The programs fit.                                                       *)
LEMMA OrganizationFits ==
  ASSUME NEW c, Kind(c) = "bootstrap"
  PROVE  Fits(does[c], CreateOrganization(c), {})
<1>1. PICK s : s = CreateOrganization(c)
  OBVIOUS
<1>2. DOMAIN s = 1 .. 6 /\ s = [i \in 1 .. 6 |-> s[i]]
  BY <1>1 DEF CreateOrganization
<1>3. IsProgram(s) /\ Len(s) = 6
  BY <1>2, FunctionIsProgram
<1>4. /\ s[1] = Do("create", RootOf(does[c]))
      /\ s[2] = Do("claim", BootstrapClaim(does[c].who))
      /\ s[3] = Do("check", Disabled(does[c].who))
      /\ s[4] = Do("put", MemberOf(does[c]))
      /\ s[5] = Do("key", KeyOf(does[c]))
      /\ s[6] = Do("finish", Audit(c))
  BY <1>1, KeyOfRequest DEF CreateOrganization, Active, Finish, Kind, Where, Who, RootOf, MemberOf
<1>5. \A i \in DOMAIN s : Suits(does[c], s[i])
  BY <1>2, <1>4 DEF Suits, Do, Kind, Keyed, Creating
<1>6. \A i, j \in DOMAIN s : s[i].op = "commit" /\ i < j =>
        s[j].op = "finish" \/ (s[j].op \in Closing /\ does[c].kind = "provision")
  <2>1. \A i \in DOMAIN s : s[i].op = "commit" => i >= 6
    BY <1>2, <1>4 DEF Do
  <2>2. \A j \in DOMAIN s : j > 6 => s[j].op = "finish" \/ (s[j].op \in Closing /\ does[c].kind = "provision")
    BY <1>2, <1>4 DEF Do, Kind
  <2> QED
    BY <1>2, <2>1, <2>2
<1>7. Fits(does[c], s, {})
  BY <1>2, <1>3, <1>4, <1>5, <1>6 DEF Fits, Behind, Do, Kind, Keyed, Creating, Final, Inner
<1> QED
  BY <1>1, <1>7

LEMMA WorkspaceFits ==
  ASSUME NEW c, Kind(c) = "workspace"
  PROVE  Fits(does[c], CreateWorkspace(c), {})
<1>1. PICK s : s = CreateWorkspace(c)
  OBVIOUS
<1>2. DOMAIN s = 1 .. 5 /\ s = [i \in 1 .. 5 |-> s[i]]
  BY <1>1 DEF CreateWorkspace
<1>3. IsProgram(s) /\ Len(s) = 5
  BY <1>2, FunctionIsProgram
<1>4. /\ s[1] = Do("create", RootOf(does[c]))
      /\ s[2] = Do("key", KeyOf(does[c]))
      /\ s[3] = Do("check", Disabled(does[c].who))
      /\ s[4] = Do("insert", WorkspaceMember(does[c].where, does[c].who))
      /\ s[5] = Do("finish", Audit(c))
  BY <1>1, KeyOfRequest DEF CreateWorkspace, Active, Finish, Kind, Where, Who, RootOf, MemberOf
<1>5. \A i \in DOMAIN s : Suits(does[c], s[i])
  BY <1>2, <1>4 DEF Suits, Do, Kind, Keyed, Creating
<1>6. \A i, j \in DOMAIN s : s[i].op = "commit" /\ i < j =>
        s[j].op = "finish" \/ (s[j].op \in Closing /\ does[c].kind = "provision")
  <2>1. \A i \in DOMAIN s : s[i].op = "commit" => i >= 5
    BY <1>2, <1>4 DEF Do
  <2>2. \A j \in DOMAIN s : j > 5 => s[j].op = "finish" \/ (s[j].op \in Closing /\ does[c].kind = "provision")
    BY <1>2, <1>4 DEF Do, Kind
  <2> QED
    BY <1>2, <2>1, <2>2
<1>7. Fits(does[c], s, {})
  BY <1>2, <1>3, <1>4, <1>5, <1>6 DEF Fits, Behind, Do, Kind, Keyed, Creating, Final, Inner
<1> QED
  BY <1>1, <1>7

LEMMA GroupFits ==
  ASSUME NEW c, Kind(c) = "group"
  PROVE  Fits(does[c], CreateGroup(c), {})
<1>1. PICK s : s = CreateGroup(c)
  OBVIOUS
<1>2. DOMAIN s = 1 .. 3 /\ s = [i \in 1 .. 3 |-> s[i]]
  BY <1>1 DEF CreateGroup
<1>3. IsProgram(s) /\ Len(s) = 3
  BY <1>2, FunctionIsProgram
<1>4. /\ s[1] = Do("create", RootOf(does[c]))
      /\ s[2] = Do("key", KeyOf(does[c]))
      /\ s[3] = Do("finish", Audit(c))
  BY <1>1, KeyOfRequest DEF CreateGroup, Active, Finish, Kind, Where, Who, RootOf, MemberOf
<1>5. \A i \in DOMAIN s : Suits(does[c], s[i])
  BY <1>2, <1>4 DEF Suits, Do, Kind, Keyed, Creating
<1>6. \A i, j \in DOMAIN s : s[i].op = "commit" /\ i < j =>
        s[j].op = "finish" \/ (s[j].op \in Closing /\ does[c].kind = "provision")
  <2>1. \A i \in DOMAIN s : s[i].op = "commit" => i >= 3
    BY <1>2, <1>4 DEF Do
  <2>2. \A j \in DOMAIN s : j > 3 => s[j].op = "finish" \/ (s[j].op \in Closing /\ does[c].kind = "provision")
    BY <1>2, <1>4 DEF Do, Kind
  <2> QED
    BY <1>2, <2>1, <2>2
<1>7. Fits(does[c], s, {})
  BY <1>2, <1>3, <1>4, <1>5, <1>6 DEF Fits, Behind, Do, Kind, Keyed, Creating, Final, Inner
<1> QED
  BY <1>1, <1>7

LEMMA AddFits ==
  ASSUME NEW c, Kind(c) = "add"
  PROVE  Fits(does[c], AddOrgMembership(c), {})
<1>1. PICK s : s = AddOrgMembership(c)
  OBVIOUS
<1>2. DOMAIN s = 1 .. 5 /\ s = [i \in 1 .. 5 |-> s[i]]
  BY <1>1 DEF AddOrgMembership
<1>3. IsProgram(s) /\ Len(s) = 5
  BY <1>2, FunctionIsProgram
<1>4. /\ s[1] = Do("lookup", KeyOf(does[c]))
      /\ s[2] = Do("check", Disabled(does[c].who))
      /\ s[3] = Do("create", MemberOf(does[c]))
      /\ s[4] = Do("key", KeyOf(does[c]))
      /\ s[5] = Do("finish", Audit(c))
  BY <1>1, KeyOfRequest DEF AddOrgMembership, Active, Finish, Kind, Where, Who, RootOf, MemberOf
<1>5. \A i \in DOMAIN s : Suits(does[c], s[i])
  BY <1>2, <1>4 DEF Suits, Do, Kind, Keyed, Creating
<1>6. \A i, j \in DOMAIN s : s[i].op = "commit" /\ i < j =>
        s[j].op = "finish" \/ (s[j].op \in Closing /\ does[c].kind = "provision")
  <2>1. \A i \in DOMAIN s : s[i].op = "commit" => i >= 5
    BY <1>2, <1>4 DEF Do
  <2>2. \A j \in DOMAIN s : j > 5 => s[j].op = "finish" \/ (s[j].op \in Closing /\ does[c].kind = "provision")
    BY <1>2, <1>4 DEF Do, Kind
  <2> QED
    BY <1>2, <2>1, <2>2
<1>7. Fits(does[c], s, {})
  BY <1>2, <1>3, <1>4, <1>5, <1>6 DEF Fits, Behind, Do, Kind, Keyed, Creating, Final, Inner
<1> QED
  BY <1>1, <1>7

LEMMA RemoveFits ==
  ASSUME NEW c, Kind(c) = "remove"
  PROVE  Fits(does[c], RemoveOrgMembership(c), {})
<1>1. PICK s : s = RemoveOrgMembership(c)
  OBVIOUS
<1>2. DOMAIN s = 1 .. 4 /\ s = [i \in 1 .. 4 |-> s[i]]
  BY <1>1 DEF RemoveOrgMembership
<1>3. IsProgram(s) /\ Len(s) = 4
  BY <1>2, FunctionIsProgram
<1>4. /\ s[1] = Do("lookup", KeyOf(does[c]))
      /\ s[2] = Do("delete", MemberOf(does[c]))
      /\ s[3] = Do("key", KeyOf(does[c]))
      /\ s[4] = Do("finish", Audit(c))
  BY <1>1, KeyOfRequest DEF RemoveOrgMembership, Active, Finish, Kind, Where, Who, RootOf, MemberOf
<1>5. \A i \in DOMAIN s : Suits(does[c], s[i])
  BY <1>2, <1>4 DEF Suits, Do, Kind, Keyed, Creating
<1>6. \A i, j \in DOMAIN s : s[i].op = "commit" /\ i < j =>
        s[j].op = "finish" \/ (s[j].op \in Closing /\ does[c].kind = "provision")
  <2>1. \A i \in DOMAIN s : s[i].op = "commit" => i >= 4
    BY <1>2, <1>4 DEF Do
  <2>2. \A j \in DOMAIN s : j > 4 => s[j].op = "finish" \/ (s[j].op \in Closing /\ does[c].kind = "provision")
    BY <1>2, <1>4 DEF Do, Kind
  <2> QED
    BY <1>2, <2>1, <2>2
<1>7. Fits(does[c], s, {})
  BY <1>2, <1>3, <1>4, <1>5, <1>6 DEF Fits, Behind, Do, Kind, Keyed, Creating, Final, Inner
<1> QED
  BY <1>1, <1>7

LEMMA GrantFits ==
  ASSUME NEW c, Kind(c) = "grant"
  PROVE  Fits(does[c], GrantWorkspaceMembership(c), {})
<1>1. PICK s : s = GrantWorkspaceMembership(c)
  OBVIOUS
<1>2. DOMAIN s = 1 .. 6 /\ s = [i \in 1 .. 6 |-> s[i]]
  BY <1>1 DEF GrantWorkspaceMembership
<1>3. IsProgram(s) /\ Len(s) = 6
  BY <1>2, FunctionIsProgram
<1>4. /\ s[1] = Do("lookup", KeyOf(does[c]))
      /\ s[2] = Do("unless", WorkspaceMember(does[c].where, does[c].who))
      /\ s[3] = Do("check", Disabled(does[c].who))
      /\ s[4] = Do("insert", WorkspaceMember(does[c].where, does[c].who))
      /\ s[5] = Do("key", KeyOf(does[c]))
      /\ s[6] = Do("finish", Audit(c))
  BY <1>1, KeyOfRequest DEF GrantWorkspaceMembership, Active, Finish, Kind, Where, Who, RootOf, MemberOf
<1>5. \A i \in DOMAIN s : Suits(does[c], s[i])
  BY <1>2, <1>4 DEF Suits, Do, Kind, Keyed, Creating
<1>6. \A i, j \in DOMAIN s : s[i].op = "commit" /\ i < j =>
        s[j].op = "finish" \/ (s[j].op \in Closing /\ does[c].kind = "provision")
  <2>1. \A i \in DOMAIN s : s[i].op = "commit" => i >= 6
    BY <1>2, <1>4 DEF Do
  <2>2. \A j \in DOMAIN s : j > 6 => s[j].op = "finish" \/ (s[j].op \in Closing /\ does[c].kind = "provision")
    BY <1>2, <1>4 DEF Do, Kind
  <2> QED
    BY <1>2, <2>1, <2>2
<1>7. Fits(does[c], s, {})
  BY <1>2, <1>3, <1>4, <1>5, <1>6 DEF Fits, Behind, Do, Kind, Keyed, Creating, Final, Inner
<1> QED
  BY <1>1, <1>7

LEMMA ProvisionFits ==
  ASSUME NEW c, Kind(c) = "provision"
  PROVE  Fits(does[c], ProvisionUser(c), {})
<1>1. PICK s : s = ProvisionUser(c)
  OBVIOUS
<1>2. CASE Disables(c)
  <2>1. /\ DOMAIN s = 1 .. 6 /\ s = [i \in 1 .. 6 |-> s[i]]
        /\ s[1] = Do("unless", Identity(does[c].who))
        /\ s[2] = Do("insert", Identity(does[c].who))
        /\ s[3] = Do("set", Disabled(does[c].who))
        /\ s[4] = Do("commit", Audit(c))
        /\ s[5] = Do("put", MemberOf(does[c]))
        /\ s[6] = Do("finish", Audit(c))
    BY <1>1, <1>2 DEF ProvisionUser, Finish, Where, Who, MemberOf
  <2>2. IsProgram(s) /\ Len(s) = 6
    BY <2>1, FunctionIsProgram
  <2>3. \A i \in DOMAIN s : Suits(does[c], s[i])
    BY <2>1 DEF Suits, Do, Kind, Keyed, Creating
  <2>4. \A i, j \in DOMAIN s : s[i].op = "commit" /\ i < j =>
          s[j].op = "finish" \/ (s[j].op \in Closing /\ does[c].kind = "provision")
    <3>1. \A i \in DOMAIN s : s[i].op = "commit" => i >= 4
      BY <2>1 DEF Do
    <3>2. \A j \in DOMAIN s : j > 4 => s[j].op \in Closing /\ does[c].kind = "provision"
      BY <2>1 DEF Do, Kind, Closing
    <3> QED
      BY <2>1, <3>1, <3>2
  <2>5. Fits(does[c], s, {})
    BY <2>1, <2>2, <2>3, <2>4 DEF Fits, Behind, Do, Kind, Keyed, Creating, Final, Inner
  <2> QED
    BY <1>1, <2>5
<1>3. CASE ~Disables(c)
  <2>1. /\ DOMAIN s = 1 .. 5 /\ s = [i \in 1 .. 5 |-> s[i]]
        /\ s[1] = Do("unless", Identity(does[c].who))
        /\ s[2] = Do("insert", Identity(does[c].who))
        /\ s[3] = Do("commit", Audit(c))
        /\ s[4] = Do("put", MemberOf(does[c]))
        /\ s[5] = Do("finish", Audit(c))
    BY <1>1, <1>3 DEF ProvisionUser, Finish, Where, Who, MemberOf
  <2>2. IsProgram(s) /\ Len(s) = 5
    BY <2>1, FunctionIsProgram
  <2>3. \A i \in DOMAIN s : Suits(does[c], s[i])
    BY <2>1 DEF Suits, Do, Kind, Keyed, Creating
  <2>4. \A i, j \in DOMAIN s : s[i].op = "commit" /\ i < j =>
          s[j].op = "finish" \/ (s[j].op \in Closing /\ does[c].kind = "provision")
    <3>1. \A i \in DOMAIN s : s[i].op = "commit" => i >= 3
      BY <2>1 DEF Do
    <3>2. \A j \in DOMAIN s : j > 3 => s[j].op \in Closing /\ does[c].kind = "provision"
      BY <2>1 DEF Do, Kind, Closing
    <3> QED
      BY <2>1, <3>1, <3>2
  <2>5. Fits(does[c], s, {})
    BY <2>1, <2>2, <2>3, <2>4 DEF Fits, Behind, Do, Kind, Keyed, Creating, Final, Inner
  <2> QED
    BY <1>1, <2>5
<1> QED
  BY <1>2, <1>3

LEMMA StatusFits ==
  ASSUME NEW c, Kind(c) = "status"
  PROVE  Fits(does[c], SetUserStatus(c), {})
<1>1. PICK s : s = SetUserStatus(c)
  OBVIOUS
<1>2. DOMAIN s = 1 .. 6 /\ s = [i \in 1 .. 6 |-> s[i]]
  BY <1>1 DEF SetUserStatus
<1>3. IsProgram(s) /\ Len(s) = 6
  BY <1>2, FunctionIsProgram
<1>4. /\ s[1] = Do("known", MemberOf(does[c]))
      /\ s[2] = Do("differs", Disabled(does[c].who))
      /\ s[3] = Do("set", Disabled(does[c].who))
      /\ s[4] = Do("known", Identity(does[c].who))
      /\ s[5] = Do("commit", Audit(c))
      /\ s[6] = Do("finish", Audit(c))
  BY <1>1, KeyOfRequest DEF SetUserStatus, Active, Finish, Kind, Where, Who, RootOf, MemberOf
<1>5. \A i \in DOMAIN s : Suits(does[c], s[i])
  BY <1>2, <1>4 DEF Suits, Do, Kind, Keyed, Creating
<1>6. \A i, j \in DOMAIN s : s[i].op = "commit" /\ i < j =>
        s[j].op = "finish" \/ (s[j].op \in Closing /\ does[c].kind = "provision")
  <2>1. \A i \in DOMAIN s : s[i].op = "commit" => i >= 5
    BY <1>2, <1>4 DEF Do
  <2>2. \A j \in DOMAIN s : j > 5 => s[j].op = "finish" \/ (s[j].op \in Closing /\ does[c].kind = "provision")
    BY <1>2, <1>4 DEF Do, Kind
  <2> QED
    BY <1>2, <2>1, <2>2
<1>7. Fits(does[c], s, {})
  BY <1>2, <1>3, <1>4, <1>5, <1>6 DEF Fits, Behind, Do, Kind, Keyed, Creating, Final, Inner
<1> QED
  BY <1>1, <1>7

LEMMA ReconcileFits ==
  ASSUME NEW c, Kind(c) = "reconcile"
  PROVE  Fits(does[c], ReconcileGroup(c), {})
<1>1. PICK s : s = ReconcileGroup(c)
  OBVIOUS
<1>2. DOMAIN s = 1 .. 1 /\ s = [i \in 1 .. 1 |-> s[i]]
  BY <1>1 DEF ReconcileGroup
<1>3. IsProgram(s) /\ Len(s) = 1
  BY <1>2, FunctionIsProgram
<1>4. /\ s[1] = Do("diff", <<>>)
  BY <1>1, KeyOfRequest DEF ReconcileGroup, Active, Finish, Kind, Where, Who, RootOf, MemberOf
<1>5. \A i \in DOMAIN s : Suits(does[c], s[i])
  BY <1>2, <1>4 DEF Suits, Do, Kind, Keyed, Creating
<1>6. \A i, j \in DOMAIN s : s[i].op = "commit" /\ i < j =>
        s[j].op = "finish" \/ (s[j].op \in Closing /\ does[c].kind = "provision")
  <2>1. \A i \in DOMAIN s : s[i].op = "commit" => i >= 1
    BY <1>2, <1>4 DEF Do
  <2>2. \A j \in DOMAIN s : j > 1 => s[j].op = "finish" \/ (s[j].op \in Closing /\ does[c].kind = "provision")
    BY <1>2, <1>4 DEF Do, Kind
  <2> QED
    BY <1>2, <2>1, <2>2
<1>7. Fits(does[c], s, {})
  BY <1>2, <1>3, <1>4, <1>5, <1>6 DEF Fits, Behind, Do, Kind, Keyed, Creating, Final, Inner
<1> QED
  BY <1>1, <1>7

LEMMA ProgramFits ==
  ASSUME NEW c, Kind(c) \in Kinds \ {"idle"}
  PROVE  Fits(does[c], Program(c), {})
BY OrganizationFits, WorkspaceFits, GroupFits, AddFits, RemoveFits, GrantFits, ProvisionFits,
   StatusFits, ReconcileFits DEF Program, Kinds, Keyed

(* A program begins without an answer, and looks its key up before it      *)
(* writes, if it ever does.                                                *)
LEMMA ProgramsDoNotAnswer ==
  ASSUME NEW c, Kind(c) \in Kinds \ {"idle"}
  PROVE  \A i \in DOMAIN Program(c) : Program(c)[i].op # "answer"
<1>1. PICK s : s = Program(c)
  OBVIOUS
<1>2. s \in {CreateOrganization(c), CreateWorkspace(c), CreateGroup(c), AddOrgMembership(c),
             RemoveOrgMembership(c), GrantWorkspaceMembership(c), ProvisionUser(c),
             SetUserStatus(c), ReconcileGroup(c)}
  BY <1>1 DEF Program, Kinds, Keyed
<1>3. /\ \A row : /\ Do("create", row).op # "answer" /\ Do("claim", row).op # "answer"
                  /\ Do("check", row).op # "answer" /\ Do("put", row).op # "answer"
                  /\ Do("key", row).op # "answer" /\ Do("insert", row).op # "answer"
                  /\ Do("lookup", row).op # "answer" /\ Do("delete", row).op # "answer"
                  /\ Do("unless", row).op # "answer" /\ Do("commit", row).op # "answer"
                  /\ Do("known", row).op # "answer" /\ Do("differs", row).op # "answer"
                  /\ Do("set", row).op # "answer" /\ Do("diff", row).op # "answer"
      /\ Finish(c).op # "answer" /\ Active(c).op # "answer"
  BY DEF Do, Finish, Active
<1>4. \A i \in DOMAIN s : s[i].op # "answer"
  <2>1. CASE s = CreateOrganization(c)
    BY <1>3, <2>1 DEF CreateOrganization
  <2>2. CASE s = CreateWorkspace(c)
    BY <1>3, <2>2 DEF CreateWorkspace
  <2>3. CASE s = CreateGroup(c)
    BY <1>3, <2>3 DEF CreateGroup
  <2>4. CASE s = AddOrgMembership(c)
    BY <1>3, <2>4 DEF AddOrgMembership
  <2>5. CASE s = RemoveOrgMembership(c)
    BY <1>3, <2>5 DEF RemoveOrgMembership
  <2>6. CASE s = GrantWorkspaceMembership(c)
    BY <1>3, <2>6 DEF GrantWorkspaceMembership
  <2>7. CASE s = ProvisionUser(c)
    <3>1. CASE Disables(c)
      BY <1>3, <2>7, <3>1 DEF ProvisionUser
    <3>2. CASE ~Disables(c)
      BY <1>3, <2>7, <3>2 DEF ProvisionUser
    <3> QED
      BY <3>1, <3>2
  <2>8. CASE s = SetUserStatus(c)
    BY <1>3, <2>8 DEF SetUserStatus
  <2>9. CASE s = ReconcileGroup(c)
    BY <1>3, <2>9 DEF ReconcileGroup
  <2> QED
    BY <1>2, <2>1, <2>2, <2>3, <2>4, <2>5, <2>6, <2>7, <2>8, <2>9
<1> QED
  BY <1>1, <1>4

(* The commands on memberships begin with their key.                       *)
LEMMA ProgramsLookFirst ==
  ASSUME NEW c, Kind(c) \in {"add", "remove", "grant"}
  PROVE  1 \in DOMAIN Program(c) /\ Program(c)[1].op = "lookup"
<1>1. PICK s : s = Program(c)
  OBVIOUS
<1>2. s \in {AddOrgMembership(c), RemoveOrgMembership(c), GrantWorkspaceMembership(c)}
  BY <1>1 DEF Program
<1>3. 1 \in DOMAIN s /\ s[1] = Do("lookup", KeyRow(c))
  BY <1>2 DEF AddOrgMembership, RemoveOrgMembership, GrantWorkspaceMembership
<1>4. s[1].op = "lookup"
  BY <1>3 DEF Do
<1> QED
  BY <1>1, <1>3, <1>4

(* A statement that was executed leaves a program that fits, with the row  *)
(* it inserted; so does a commit, which starts a transaction afresh.       *)
LEMMA TailFits ==
  ASSUME NEW r, NEW s, NEW puts, NEW more, Fits(r, s, puts), s[1].op \notin Final,
         puts \subseteq more \/ s[1].op = "commit",
         more \subseteq puts \cup
           (IF s[1].op \in {"create", "claim", "key", "put", "insert", "set"} THEN {s[1].row} ELSE {}),
         s[1].op \in {"create", "claim", "key"} => s[1].row \in more
  PROVE  Fits(r, Tail(s), more)
<1> DEFINE t == Tail(s)
<1>1. IsProgram(s) /\ Len(s) > 0 /\ s[Len(s)].op \in Final
  BY DEF Fits
<1>2. /\ IsProgram(t)
      /\ Len(s) \in Nat /\ DOMAIN s = 1 .. Len(s)
      /\ Len(t) = Len(s) - 1
      /\ DOMAIN t = 1 .. (Len(s) - 1)
      /\ \A i \in 1 .. (Len(s) - 1) : i + 1 \in 1 .. Len(s) /\ t[i] = s[i + 1]
  BY <1>1, TailOfProgram
<1> HIDE DEF t
<1>3. Len(s) # 1 /\ Len(t) > 0 /\ t[Len(t)] = s[Len(s)]
  BY <1>1, <1>2
<1>4. 1 \in DOMAIN s /\ \A i \in DOMAIN t : i \in Nat /\ i + 1 \in DOMAIN s /\ t[i] = s[i + 1] /\ i + 1 # 1
  BY <1>1, <1>2
<1>5. \A i \in DOMAIN t : Suits(r, t[i])
  BY <1>4 DEF Fits
<1>6. Suits(r, s[1])
  BY <1>4 DEF Fits
<1>7. ASSUME NEW ops, NEW op, NEW row, Behind(s, ops, op, row, puts), puts \subseteq more,
             s[1].op = op => row \in more
      PROVE  Behind(t, ops, op, row, more)
  <2> SUFFICES ASSUME NEW i \in DOMAIN t, t[i].op \in ops, row \notin more
               PROVE  \E j \in 1 .. (i - 1) : t[j].op = op
    BY DEF Behind
  <2>1. PICK j \in 1 .. i : s[j].op = op
    BY <1>4, <1>7 DEF Behind
  <2>2. j # 1 /\ i \in 1 .. (Len(s) - 1)
    BY <1>2, <1>7, <2>1
  <2>3. j - 1 \in 1 .. (i - 1) /\ j - 1 \in 1 .. (Len(s) - 1) /\ (j - 1) + 1 = j
    BY <1>2, <2>1, <2>2
  <2> QED
    BY <1>2, <2>1, <2>3
<1>8. ASSUME r.kind \in Keyed
      PROVE  /\ Behind(t, {"finish"}, "key", KeyOf(r), more)
             /\ r.kind \in Creating => Behind(t, Inner, "create", RootOf(r), more)
             /\ r.kind = "bootstrap" =>
                  Behind(t, {"put", "key", "finish", "answer"}, "claim", BootstrapClaim(r.who), more)
  <2>1. s[1].op # "commit" /\ puts \subseteq more
    BY <1>6, <1>8 DEF Suits
  <2>2. Behind(t, {"finish"}, "key", KeyOf(r), more)
    <3>1. Behind(s, {"finish"}, "key", KeyOf(r), puts)
      BY <1>8 DEF Fits
    <3>2. s[1].op = "key" => KeyOf(r) \in more
      BY <1>6 DEF Suits
    <3> QED
      BY <1>7, <2>1, <3>1, <3>2
  <2>3. r.kind \in Creating => Behind(t, Inner, "create", RootOf(r), more)
    <3> SUFFICES ASSUME r.kind \in Creating
                 PROVE  Behind(t, Inner, "create", RootOf(r), more)
      OBVIOUS
    <3>1. Behind(s, Inner, "create", RootOf(r), puts)
      BY DEF Fits
    <3>2. s[1].op = "create" => RootOf(r) \in more
      BY <1>6 DEF Suits
    <3> QED
      BY <1>7, <2>1, <3>1, <3>2
  <2>4. r.kind = "bootstrap" =>
          Behind(t, {"put", "key", "finish", "answer"}, "claim", BootstrapClaim(r.who), more)
    <3> SUFFICES ASSUME r.kind = "bootstrap"
                 PROVE  Behind(t, {"put", "key", "finish", "answer"}, "claim",
                               BootstrapClaim(r.who), more)
      OBVIOUS
    <3>1. Behind(s, {"put", "key", "finish", "answer"}, "claim", BootstrapClaim(r.who), puts)
      BY DEF Fits
    <3>2. s[1].op = "claim" => BootstrapClaim(r.who) \in more
      BY <1>6 DEF Suits
    <3> QED
      BY <1>7, <2>1, <3>1, <3>2
  <2> QED
    BY <2>2, <2>3, <2>4
<1>9. /\ r.kind \in Keyed => Behind(t, {"finish"}, "key", KeyOf(r), more)
      /\ r.kind \in Creating => Behind(t, Inner, "create", RootOf(r), more)
      /\ r.kind = "bootstrap" =>
           Behind(t, {"put", "key", "finish", "answer"}, "claim", BootstrapClaim(r.who), more)
  BY <1>8 DEF Keyed, Creating
<1>10. \A i \in DOMAIN t : t[i].op # "lookup"
  BY <1>4 DEF Fits
<1>11. \A i \in DOMAIN t : t[i].op = "key" => KeyOf(r) \notin more
  <2> SUFFICES ASSUME NEW i \in DOMAIN t, t[i].op = "key", KeyOf(r) \in more
               PROVE  FALSE
    OBVIOUS
  <2>1. KeyOf(r) \notin puts /\ s[1].op # "key"
    BY <1>4 DEF Fits
  <2>2. KeyOf(r) = s[1].row /\ s[1].op \in {"create", "claim", "put", "insert", "set"}
    BY <2>1
  <2>3. KeyOf(r)[1] = "key"
    BY DEF KeyOf
  <2>4. CASE s[1].op = "create"
    <3>1. s[1].row \in {RootOf(r), MemberOf(r)} /\ (r.kind \in Creating \/ s[1].row = MemberOf(r))
      BY <1>6, <2>4 DEF Suits
    <3>2. MemberOf(r)[1] = "member" /\ (r.kind \in Creating => RootOf(r)[1] # "key")
      BY RowTags DEF MemberOf, Creating
    <3> QED
      BY <2>2, <2>3, <3>1, <3>2
  <2>5. CASE s[1].op = "put"
    <3>1. s[1].row = MemberOf(r) \/ \E p : s[1].row = GroupMember(r.where, p)
      BY <1>6, <2>5 DEF Suits, Wanted
    <3>2. MemberOf(r)[1] = "member" /\ \A p : GroupMember(r.where, p)[1] = "group member"
      BY RowTags DEF MemberOf
    <3> QED
      BY <2>2, <2>3, <3>1, <3>2
  <2>6. CASE s[1].op \in {"claim", "insert", "set"}
    <3>1. s[1].row \in {BootstrapClaim(r.who), WorkspaceMember(r.where, r.who),
                        Identity(r.who), Disabled(r.who)}
      BY <1>6, <2>6 DEF Suits
    <3>2. /\ BootstrapClaim(r.who)[1] = "claim" /\ WorkspaceMember(r.where, r.who)[1] # "key"
          /\ Identity(r.who)[1] = "identity" /\ Disabled(r.who)[1] = "disabled"
      BY RowTags
    <3> QED
      BY <2>2, <2>3, <3>1, <3>2
  <2> QED
    BY <2>2, <2>4, <2>5, <2>6
<1>12. /\ \A i, j \in DOMAIN t : t[i].op = "key" /\ t[j].op = "key" => i = j
       /\ \A i, j \in DOMAIN t : t[i].op = "commit" /\ i < j =>
            t[j].op = "finish" \/ (t[j].op \in Closing /\ r.kind = "provision")
  <2> SUFFICES ASSUME NEW i \in DOMAIN t, NEW j \in DOMAIN t
               PROVE  /\ t[i].op = "key" /\ t[j].op = "key" => i = j
                      /\ t[i].op = "commit" /\ i < j =>
                           t[j].op = "finish" \/ (t[j].op \in Closing /\ r.kind = "provision")
    OBVIOUS
  <2>1. /\ s[i + 1].op = "key" /\ s[j + 1].op = "key" => i + 1 = j + 1
        /\ s[i + 1].op = "commit" /\ i + 1 < j + 1 =>
             s[j + 1].op = "finish" \/ (s[j + 1].op \in Closing /\ r.kind = "provision")
    BY <1>4 DEF Fits
  <2> QED
    BY <1>4, <2>1
<1>13. Fits(r, t, more)
  BY <1>1, <1>2, <1>3, <1>5, <1>9, <1>10, <1>11, <1>12 DEF Fits
<1> QED
  BY <1>13 DEF t

(* The statements that read an existing row back and then its key are a    *)
(* program by themselves.                                                  *)
LEMMA RecordedFits ==
  ASSUME NEW r, NEW row, NEW puts, r.kind \in Keyed
  PROVE  Fits(r, <<Do("readback", row), Do("recorded", KeyOf(r))>>, puts)
<1>1. PICK s : s = <<Do("readback", row), Do("recorded", KeyOf(r))>>
  OBVIOUS
<1>2. /\ DOMAIN s = 1 .. 2 /\ s = [i \in 1 .. 2 |-> s[i]]
      /\ s[1] = Do("readback", row) /\ s[2] = Do("recorded", KeyOf(r))
  BY <1>1
<1>3. IsProgram(s) /\ Len(s) = 2
  BY <1>2, FunctionIsProgram
<1>4. Fits(r, s, puts)
  <2>1. /\ s[1].op = "readback" /\ s[2].op = "recorded" /\ s[2].row = KeyOf(r)
        /\ \A i \in DOMAIN s : i = 1 \/ i = 2
    BY <1>2 DEF Do
  <2>2. r.kind # "reconcile"
    BY DEF Keyed
  <2>3. Suits(r, s[1])
    BY <2>1, <2>2 DEF Suits
  <2>4. Suits(r, s[2])
    BY <2>1, <2>2 DEF Suits
  <2> QED
    BY <1>2, <1>3, <2>1, <2>3, <2>4 DEF Fits, Behind, Final, Inner
<1> QED
  BY <1>1, <1>4

(* A put that meets its row becomes a statement that reads it back.        *)
LEMMA ReadBackFits ==
  ASSUME NEW r, NEW s, NEW puts, Fits(r, s, puts), s[1].op = "put",
         NEW t, t = [s EXCEPT ![1] = Do("readback", s[1].row)]
  PROVE  /\ Fits(r, t, puts) /\ DOMAIN t = DOMAIN s
         /\ t[1].op = "readback" /\ \A i \in DOMAIN s : i # 1 => t[i] = s[i]
<1>1. IsProgram(s) /\ Len(s) > 0 /\ Len(s) \in Nat /\ DOMAIN s = 1 .. Len(s) /\ 1 \in DOMAIN s
  BY TailOfProgram DEF Fits
<1>2. /\ DOMAIN t = 1 .. Len(s) /\ t = [i \in 1 .. Len(s) |-> t[i]]
      /\ \A i \in DOMAIN s : i # 1 => t[i] = s[i]
      /\ t[1] = Do("readback", s[1].row)
  <2>1. s \in [1 .. Len(s) -> {s[i] : i \in DOMAIN s}]
    BY <1>1 DEF IsProgram
  <2> QED
    BY <1>1, <2>1
<1>3. IsProgram(t) /\ Len(t) = Len(s)
  BY <1>1, <1>2, FunctionIsProgram
<1>4. t[1].op = "readback"
  BY <1>2 DEF Do
<1>5. t[Len(t)].op \in Final
  <2>1. s[Len(s)].op \in Final /\ Len(s) # 1
    BY DEF Fits, Final
  <2> QED
    BY <1>1, <1>2, <1>3, <2>1
<1>6. \A i \in DOMAIN t : Suits(r, t[i])
  <2>1. Suits(r, t[1])
    BY <1>4 DEF Suits
  <2>2. \A i \in DOMAIN s : Suits(r, s[i])
    BY DEF Fits
  <2> QED
    BY <1>1, <1>2, <2>1, <2>2
<1>7. ASSUME NEW ops, NEW op, NEW row, Behind(s, ops, op, row, puts), "readback" \notin ops, op # "put"
      PROVE  Behind(t, ops, op, row, puts)
  <2> SUFFICES ASSUME NEW i \in DOMAIN t, t[i].op \in ops, row \notin puts
               PROVE  \E j \in 1 .. (i - 1) : t[j].op = op
    BY DEF Behind
  <2>1. i # 1 /\ i \in DOMAIN s /\ s[i].op \in ops
    BY <1>1, <1>2, <1>4, <1>7
  <2>2. PICK j \in 1 .. (i - 1) : s[j].op = op
    BY <1>7, <2>1 DEF Behind
  <2>3. j # 1 /\ j \in DOMAIN s
    BY <1>1, <1>7, <2>1, <2>2
  <2> QED
    BY <1>2, <2>2, <2>3
<1>8. /\ r.kind \in Keyed => Behind(t, {"finish"}, "key", KeyOf(r), puts)
      /\ r.kind \in Creating => Behind(t, Inner, "create", RootOf(r), puts)
      /\ r.kind = "bootstrap" =>
           Behind(t, {"put", "key", "finish", "answer"}, "claim", BootstrapClaim(r.who), puts)
  BY <1>7 DEF Fits, Inner
<1>9. /\ \A i \in DOMAIN t : t[i].op = "lookup" => i = 1
      /\ \A i \in DOMAIN t : t[i].op \in {"lookup", "key"} => KeyOf(r) \notin puts
      /\ \A i, j \in DOMAIN t : t[i].op = "key" /\ t[j].op = "key" => i = j
      /\ \A i, j \in DOMAIN t : t[i].op = "commit" /\ i < j =>
           t[j].op = "finish" \/ (t[j].op \in Closing /\ r.kind = "provision")
  <2>1. \A i \in DOMAIN t : i = 1 \/ (i \in DOMAIN s /\ t[i].op = s[i].op)
    BY <1>1, <1>2
  <2>2. \A i, j \in DOMAIN t : i < j => j # 1
    BY <1>2
  <2> QED
    BY <1>1, <1>2, <1>4, <2>1, <2>2 DEF Fits
<1>10. Fits(r, t, puts)
  BY <1>1, <1>3, <1>5, <1>6, <1>8, <1>9 DEF Fits
<1> QED
  BY <1>1, <1>2, <1>4, <1>10

(* So is the answer of a replayed key.                                     *)
LEMMA AnswerFits ==
  ASSUME NEW r, NEW s, NEW puts, Fits(r, s, puts), s[1].op = "key"
  PROVE  Fits(r, <<Do("answer", KeyOf(r))>>, puts)
<1>1. PICK t : t = <<Do("answer", KeyOf(r))>>
  OBVIOUS
<1>2. DOMAIN t = 1 .. 1 /\ t = [i \in 1 .. 1 |-> t[i]] /\ t[1] = Do("answer", KeyOf(r))
  BY <1>1
<1>3. IsProgram(t) /\ Len(t) = 1
  BY <1>2, FunctionIsProgram
<1>4. 1 \in DOMAIN s
  BY LenProperties DEF Fits, IsProgram
<1>5. r.kind \in Keyed
  BY <1>4 DEF Fits, Suits
<1>6. /\ r.kind \in Creating => RootOf(r) \in puts
      /\ r.kind = "bootstrap" => BootstrapClaim(r.who) \in puts
  BY <1>4 DEF Fits, Behind, Inner
<1>7. Fits(r, t, puts)
  BY <1>2, <1>3, <1>5, <1>6 DEF Fits, Behind, Suits, Do, Final, Inner
<1> QED
  BY <1>1, <1>7

(* Nothing is finished that has not been committed before.                 *)
CommitsFirst(s) == \A i \in DOMAIN s : s[i].op = "finish" => \E j \in 1 .. (i - 1) : s[j].op = "commit"

(* Each of the people is put into the group, or deleted from it.           *)
Names(s, op, g, people) ==
  \A p \in people : \E i \in DOMAIN s : s[i] = Do(op, GroupMember(g, p))

(* What a reconciliation has before it once it knows whom to add and whom  *)
(* to remove: a program that fits, and puts and deletes each of them       *)
(* before it commits.                                                      *)
LEMMA DiffFits ==
  ASSUME NEW c, NEW puts, Kind(c) = "reconcile",
         NEW missing, missing \subseteq does[c].wants, missing \subseteq Nat, IsFiniteSet(missing),
         NEW excess, excess \subseteq Principals \ does[c].wants, excess \subseteq Nat,
         IsFiniteSet(excess),
         NEW s, s = Merged(Joins(Where(c), missing), Leaves(Where(c), excess))
                      \o <<Do("commit", Audit(c)), Finish(c)>>
  PROVE  /\ Fits(does[c], s, puts)
         /\ CommitsFirst(s)
         /\ \A i \in DOMAIN s : s[i].op \notin {"diff", "answer"}
         /\ Names(s, "put", Where(c), missing) /\ Names(s, "delete", Where(c), excess)
<1> DEFINE g == Where(c)
           joins == Joins(g, missing)
           leaves == Leaves(g, excess)
           merged == joins \o leaves
           end == <<Do("commit", Audit(c)), Finish(c)>>
           M == Cardinality(missing)
           E == Cardinality(excess)
           n == 2 * M + E
<1>1. /\ M \in Nat
      /\ \A k \in 1 .. M : Nth(missing, k) \in missing
      /\ \A p \in missing : \E k \in 1 .. M : Nth(missing, k) = p
  BY NthEnumerates
<1>2. /\ E \in Nat
      /\ \A k \in 1 .. E : Nth(excess, k) \in excess
      /\ \A p \in excess : \E k \in 1 .. E : Nth(excess, k) = p
  BY NthEnumerates
<1>3. /\ joins = [k \in 1 .. 2 * M |->
           IF k % 2 = 1 THEN Do("check", Disabled(Nth(missing, (k + 1) \div 2)))
                        ELSE Do("put", GroupMember(g, Nth(missing, (k + 1) \div 2)))]
      /\ leaves = [k \in 1 .. E |-> Do("delete", GroupMember(g, Nth(excess, k)))]
  BY DEF Joins, Leaves
<1> HIDE DEF joins, leaves, M, E
<1>4. /\ 2 * M \in Nat
      /\ IsProgram(joins) /\ Len(joins) = 2 * M
      /\ IsProgram(leaves) /\ Len(leaves) = E
  <2>1. 2 * M \in Nat
    BY <1>1
  <2>2. DOMAIN joins = 1 .. 2 * M /\ joins = [k \in 1 .. 2 * M |-> joins[k]]
    BY <1>3
  <2>3. DOMAIN leaves = 1 .. E /\ leaves = [k \in 1 .. E |-> leaves[k]]
    BY <1>3
  <2> QED
    BY <1>2, <2>1, <2>2, <2>3, FunctionIsProgram
<1>5. IsProgram(end) /\ Len(end) = 2 /\ end[1] = Do("commit", Audit(c)) /\ end[2] = Finish(c)
  <2>1. DOMAIN end = 1 .. 2 /\ end = [k \in 1 .. 2 |-> end[k]]
    OBVIOUS
  <2> QED
    BY <2>1, FunctionIsProgram
<1>6. /\ IsProgram(merged) /\ Len(merged) = n /\ n \in Nat
      /\ \A i \in 1 .. n : merged[i] = IF i <= 2 * M THEN joins[i] ELSE leaves[i - 2 * M]
  <2>1. n \in Nat /\ 2 * M + E = n
    BY <1>2, <1>4
  <2> HIDE DEF n
  <2>2. /\ IsProgram(joins \o leaves) /\ Len(joins \o leaves) = Len(joins) + Len(leaves)
        /\ \A i \in 1 .. (Len(joins) + Len(leaves)) :
              (joins \o leaves)[i] = IF i <= Len(joins) THEN joins[i] ELSE leaves[i - Len(joins)]
    BY <1>4, ConcatOfPrograms
  <2>3. Len(joins) + Len(leaves) = n /\ Len(joins) = 2 * M
    BY <1>4, <2>1
  <2> QED
    BY <2>1, <2>2, <2>3
<1>7. s = merged \o end
  BY DEF Merged, joins, leaves
<1> HIDE DEF end, merged, n
<1>8. /\ IsProgram(s) /\ Len(s) = n + 2 /\ DOMAIN s = 1 .. (n + 2)
      /\ \A i \in 1 .. (n + 2) : s[i] = IF i <= n THEN merged[i] ELSE end[i - n]
  <2>1. /\ IsProgram(merged \o end)
        /\ Len(merged \o end) = Len(merged) + Len(end)
        /\ DOMAIN (merged \o end) = 1 .. (Len(merged) + Len(end))
        /\ \A i \in 1 .. (Len(merged) + Len(end)) :
              (merged \o end)[i] = IF i <= Len(merged) THEN merged[i] ELSE end[i - Len(merged)]
    BY <1>5, <1>6, ConcatOfPrograms
  <2>2. Len(merged) = n /\ Len(end) = 2
    BY <1>5, <1>6
  <2> QED
    BY <1>7, <2>1, <2>2
<1>9. s[n + 1] = Do("commit", Audit(c)) /\ s[n + 2] = Finish(c)
  <2>1. /\ n + 1 \in 1 .. (n + 2) /\ ~(n + 1 <= n) /\ (n + 1) - n = 1
        /\ n + 2 \in 1 .. (n + 2) /\ ~(n + 2 <= n) /\ (n + 2) - n = 2
    BY <1>6
  <2>2. s[n + 1] = end[1] /\ s[n + 2] = end[2]
    BY <1>8, <2>1
  <2> QED
    BY <1>5, <2>2
<1>10. \A k \in 1 .. M : /\ 2 * k - 1 \in 1 .. 2 * M /\ joins[2 * k - 1] = Do("check", Disabled(Nth(missing, k)))
                         /\ 2 * k \in 1 .. 2 * M /\ joins[2 * k] = Do("put", GroupMember(g, Nth(missing, k)))
  <2> SUFFICES ASSUME NEW k \in 1 .. M
               PROVE  /\ 2 * k - 1 \in 1 .. 2 * M
                      /\ joins[2 * k - 1] = Do("check", Disabled(Nth(missing, k)))
                      /\ 2 * k \in 1 .. 2 * M
                      /\ joins[2 * k] = Do("put", GroupMember(g, Nth(missing, k)))
    OBVIOUS
  <2>1. 2 * k - 1 \in 1 .. 2 * M /\ 2 * k \in 1 .. 2 * M
    BY <1>1
  <2>2. (2 * k - 1) % 2 = 1 /\ ((2 * k - 1) + 1) \div 2 = k
    BY <1>1
  <2>3. (2 * k) % 2 # 1 /\ (2 * k + 1) \div 2 = k
    <3>1. k \in Nat
      BY <1>1
    <3>2. (2 * k) % 2 = 0
      BY <3>1
    <3>3. (2 * k + 1) \div 2 = k
      BY <3>1
    <3> QED
      BY <3>2, <3>3
  <2> QED
    BY <1>3, <2>1, <2>2, <2>3
<1>11. \A i \in 1 .. 2 * M : \E k \in 1 .. M : i = 2 * k - 1 \/ i = 2 * k
  <2> SUFFICES ASSUME NEW i \in 1 .. 2 * M
               PROVE  \E k \in 1 .. M : i = 2 * k - 1 \/ i = 2 * k
    OBVIOUS
  <2>1. (i + 1) \div 2 \in 1 .. M /\ (i = 2 * ((i + 1) \div 2) - 1 \/ i = 2 * ((i + 1) \div 2))
    BY <1>1
  <2> QED
    BY <2>1
<1>12. \A i \in 1 .. n :
         \/ \E p \in missing : s[i] = Do("check", Disabled(p))
         \/ \E p \in missing : s[i] = Do("put", GroupMember(g, p))
         \/ \E p \in excess : s[i] = Do("delete", GroupMember(g, p))
  <2> SUFFICES ASSUME NEW i \in 1 .. n
               PROVE  \/ \E p \in missing : s[i] = Do("check", Disabled(p))
                      \/ \E p \in missing : s[i] = Do("put", GroupMember(g, p))
                      \/ \E p \in excess : s[i] = Do("delete", GroupMember(g, p))
    OBVIOUS
  <2>1. i \in 1 .. (n + 2) /\ i <= n
    BY <1>6
  <2>2. s[i] = IF i <= 2 * M THEN joins[i] ELSE leaves[i - 2 * M]
    BY <1>6, <1>8, <2>1
  <2>3. CASE i <= 2 * M
    <3>1. i \in 1 .. 2 * M
      BY <2>3
    <3>2. PICK k \in 1 .. M : i = 2 * k - 1 \/ i = 2 * k
      BY <1>11, <3>1
    <3> QED
      BY <1>1, <1>10, <2>2, <2>3, <3>2
  <2>4. CASE ~(i <= 2 * M)
    <3>1. i - 2 * M \in 1 .. E
      BY <1>1, <1>2, <2>4 DEF n
    <3>2. s[i] = Do("delete", GroupMember(g, Nth(excess, i - 2 * M)))
      BY <1>3, <2>2, <2>4, <3>1
    <3> QED
      BY <1>2, <3>1, <3>2
  <2> QED
    BY <2>3, <2>4
<1>13. \A i \in DOMAIN s : i \in 1 .. n \/ i = n + 1 \/ i = n + 2
  BY <1>6, <1>8
<1>14. \A i \in DOMAIN s : Suits(does[c], s[i])
  <2> SUFFICES ASSUME NEW i \in DOMAIN s PROVE Suits(does[c], s[i])
    OBVIOUS
  <2>1. CASE i \in 1 .. n
    <3>1. CASE \E p \in missing : s[i] = Do("check", Disabled(p))
      BY <3>1 DEF Suits, Do
    <3>2. CASE \E p \in missing : s[i] = Do("put", GroupMember(g, p))
      <4>1. PICK p \in missing : s[i] = Do("put", GroupMember(g, p))
        BY <3>2
      <4>2. s[i].op = "put" /\ s[i].row = GroupMember(g, p)
        BY <4>1 DEF Do
      <4>3. s[i].row \in Wanted(does[c])
        BY <4>2 DEF Where, Wanted
      <4> QED
        BY <4>2, <4>3 DEF Suits, Kind
    <3>3. CASE \E p \in excess : s[i] = Do("delete", GroupMember(g, p))
      <4>1. PICK p \in excess : s[i] = Do("delete", GroupMember(g, p))
        BY <3>3
      <4>2. s[i].op = "delete" /\ s[i].row = GroupMember(g, p)
        BY <4>1 DEF Do
      <4>3. s[i].row \in Unwanted(does[c])
        BY <4>2 DEF Where, Unwanted
      <4> QED
        BY <4>2, <4>3 DEF Suits, Kind
    <3> QED
      BY <1>12, <2>1, <3>1, <3>2, <3>3
  <2>2. CASE i = n + 1
    BY <1>9, <2>2 DEF Suits, Do, Kind, Keyed
  <2>3. CASE i = n + 2
    BY <1>9, <2>3 DEF Suits, Finish, Do
  <2> QED
    BY <1>13, <2>1, <2>2, <2>3
<1>15. \A i \in 1 .. n : s[i].op \in {"check", "put", "delete"}
  <2> SUFFICES ASSUME NEW i \in 1 .. n PROVE s[i].op \in {"check", "put", "delete"}
    OBVIOUS
  <2>1. \E row : s[i] \in {Do("check", row), Do("put", row), Do("delete", row)}
    BY <1>12
  <2>2. \A row : /\ Do("check", row).op = "check" /\ Do("put", row).op = "put"
                 /\ Do("delete", row).op = "delete"
    BY DEF Do
  <2>3. PICK row : s[i] \in {Do("check", row), Do("put", row), Do("delete", row)}
    BY <2>1
  <2> QED
    BY <2>2, <2>3
<1>16. s[n + 1].op = "commit" /\ s[n + 2].op = "finish"
  <2>1. Do("commit", Audit(c)).op = "commit" /\ Finish(c).op = "finish"
    BY DEF Do, Finish
  <2> QED
    BY <1>9, <2>1
<1>17. Fits(does[c], s, puts)
  <2>1. Len(s) > 0 /\ s[Len(s)].op \in Final
    BY <1>6, <1>8, <1>16 DEF Final
  <2>2. does[c].kind \notin Keyed /\ does[c].kind \notin Creating /\ does[c].kind # "bootstrap"
    BY DEF Kind, Keyed, Creating
  <2>3. \A i \in DOMAIN s : s[i].op \notin {"lookup", "key"}
    BY <1>13, <1>15, <1>16
  <2>4. \A i, j \in DOMAIN s : s[i].op = "commit" /\ i < j => s[j].op = "finish"
    <3>1. \A i \in DOMAIN s : s[i].op = "commit" => i = n + 1
      BY <1>13, <1>15, <1>16
    <3>2. \A j \in DOMAIN s : n + 1 < j => j = n + 2
      BY <1>6, <1>8
    <3> QED
      BY <1>16, <3>1, <3>2
  <2> QED
    BY <1>8, <1>14, <2>1, <2>2, <2>3, <2>4 DEF Fits
<1>18. CommitsFirst(s)
  <2> SUFFICES ASSUME NEW i \in DOMAIN s, s[i].op = "finish"
               PROVE  \E j \in 1 .. (i - 1) : s[j].op = "commit"
    BY DEF CommitsFirst
  <2>1. i = n + 2
    BY <1>13, <1>15, <1>16
  <2>2. n + 1 \in 1 .. (i - 1)
    BY <1>6, <2>1
  <2> QED
    BY <1>16, <2>2
<1>19. \A p \in missing : \E i \in DOMAIN s : s[i] = Do("put", GroupMember(g, p))
  <2> SUFFICES ASSUME NEW p \in missing
               PROVE  \E i \in DOMAIN s : s[i] = Do("put", GroupMember(g, p))
    OBVIOUS
  <2>1. PICK k \in 1 .. M : Nth(missing, k) = p
    BY <1>1
  <2>2. 2 * k \in 1 .. n /\ 2 * k \in 1 .. (n + 2) /\ 2 * k <= 2 * M
    BY <1>1, <1>2, <1>10 DEF n
  <2>3. s[2 * k] = joins[2 * k]
    BY <1>6, <1>8, <2>2
  <2> QED
    BY <1>8, <1>10, <2>1, <2>2, <2>3
<1>20. \A p \in excess : \E i \in DOMAIN s : s[i] = Do("delete", GroupMember(g, p))
  <2> SUFFICES ASSUME NEW p \in excess
               PROVE  \E i \in DOMAIN s : s[i] = Do("delete", GroupMember(g, p))
    OBVIOUS
  <2>1. PICK k \in 1 .. E : Nth(excess, k) = p
    BY <1>2
  <2> DEFINE i == 2 * M + k
  <2>2. i \in 1 .. n /\ i \in 1 .. (n + 2) /\ ~(i <= 2 * M) /\ i - 2 * M = k
    BY <1>1, <1>2 DEF n
  <2>3. s[i] = leaves[k]
    BY <1>6, <1>8, <2>2
  <2> QED
    BY <1>3, <1>8, <2>1, <2>2, <2>3
<1> QED
  BY <1>13, <1>15, <1>16, <1>17, <1>18, <1>19, <1>20 DEF Names

-----------------------------------------------------------------------------
(* The transactions and the rows                                           *)

Looking == {"add", "remove", "grant"}

(* Rows that no call deletes, and that one call at most ever inserts.      *)
Lasting(row) == row[1] \in {"key", "claim", "organization", "workspace", "group"}

RequestsFit ==
  \A c \in Calls : does[c].kind \in Kinds /\ does[c].wants \subseteq Principals
QuietWithoutWrites == \A c \in Calls : reply[c] # "open" => tx[c] = NoWrites
ProgramsFit ==
  \A c \in Calls : reply[c] = "open" =>
     /\ does[c].kind # "idle"
     /\ Fits(does[c], todo[c], tx[c].puts)
DeletesSpare ==
  \A c \in Calls : \A row \in tx[c].dels : ~Lasting(row) /\ row[1] # "audit"
InsertsAreNew ==
  \A c \in Calls : \A row \in tx[c].puts : Lasting(row) => row \notin DOMAIN rows
OneWriter == \A c, d \in Calls : c # d => tx[c].puts \cap tx[d].puts = {}

(* A replay that is about to be answered has the record it repeats.        *)
AnswersFit ==
  \A c \in Calls : reply[c] = "open" =>
    \A i \in DOMAIN todo[c] : todo[c][i].op = "answer" =>
      KeyOf(does[c]) \in DOMAIN rows /\ Digest(does[rows[KeyOf(does[c])]]) = Digest(does[c])

(* What a call writes in one transaction is there together.                *)
WrittenTogether ==
  \A c \in Calls :
    /\ does[c].kind = "bootstrap" =>
         /\ Made(c, MemberOf(does[c])) => Made(c, RootOf(does[c]))
         /\ Made(c, RootOf(does[c])) => Made(c, BootstrapClaim(does[c].who))
    /\ does[c].kind \in Creating =>
         (Made(c, KeyOf(does[c])) => RootOf(does[c]) \in DOMAIN rows)

(* The members of a group are only written by its reconciliations.         *)
GroupRows ==
  \A c \in Calls : \A row \in tx[c].puts \cup tx[c].dels : row[1] = "group member" =>
    /\ does[c].kind = "reconcile"
    /\ row \in tx[c].puts => row \in Wanted(does[c])
    /\ row \in tx[c].dels => row \in Unwanted(does[c])

Base ==
  /\ TypeOK /\ RequestsFit /\ QuietWithoutWrites /\ ProgramsFit
  /\ DeletesSpare /\ InsertsAreNew /\ OneWriter /\ GroupRows /\ AnswersFit

(* What every statement does that does not end its transaction.            *)
Only(s, ops) == \A i \in DOMAIN s : s[i].op \in ops
Without(s, ops) == \A i \in DOMAIN s : s[i].op \notin ops
Proceeds(c) ==
  /\ reply[c] = "open"
  /\ UNCHANGED <<does, rows, reply, before, changed, cuts>>
  /\ DOMAIN tx' = Calls /\ DOMAIN todo' = Calls
  /\ \A d \in Calls \ {c} : tx'[d] = tx[d] /\ todo'[d] = todo[d]
  /\ Fits(does[c], todo'[c], tx'[c].puts)
  /\ \A row \in tx'[c].puts \ tx[c].puts :
       Free(c, row) /\ (Lasting(row) => row \notin DOMAIN rows)
  /\ \A row \in tx'[c].dels \ tx[c].dels : ~Lasting(row) /\ row[1] # "audit"
  /\ \A row \in tx'[c].puts \ tx[c].puts : row[1] = "group member" =>
       does[c].kind = "reconcile" /\ row \in Wanted(does[c])
  /\ \A row \in tx'[c].dels \ tx[c].dels : row[1] = "group member" =>
       does[c].kind = "reconcile" /\ row \in Unwanted(does[c])
  /\ \A i \in DOMAIN todo'[c] : todo'[c][i].op = "answer" =>
       KeyOf(does[c]) \in DOMAIN rows /\ Digest(does[rows[KeyOf(does[c])]]) = Digest(does[c])
  /\ does[c].kind \in Looking /\ Without(todo'[c], {"lookup"}) =>
       Without(todo[c], {"lookup"}) \/ KeyOf(does[c]) \notin DOMAIN rows
  /\ Only(todo[c], Closing) => Only(todo'[c], Closing)

(* The statement a call is at.                                             *)
LEMMA AtHead ==
  ASSUME Base, NEW c \in Calls, NEW op, At(c, op)
  PROVE  /\ reply[c] = "open" /\ does[c].kind \in Kinds \ {"idle"}
         /\ Fits(does[c], todo[c], tx[c].puts)
         /\ Len(todo[c]) > 0 /\ IsProgram(todo[c]) /\ 1 \in DOMAIN todo[c]
         /\ todo[c][1].op = op /\ Suits(does[c], todo[c][1])
         /\ DOMAIN tx = Calls /\ DOMAIN todo = Calls
<1>1. reply[c] = "open" /\ does[c].kind # "idle" /\ Fits(does[c], todo[c], tx[c].puts)
  BY DEF Base, ProgramsFit, At
<1>2. Len(todo[c]) > 0 /\ IsProgram(todo[c])
  BY <1>1 DEF Fits
<1>3. 1 \in DOMAIN todo[c]
  BY <1>2, TailOfProgram
<1>4. Suits(does[c], todo[c][1])
  BY <1>1, <1>3 DEF Fits
<1> QED
  BY <1>1, <1>2, <1>3, <1>4 DEF Base, TypeOK, RequestsFit, At

(* The statements after the first: nothing in them is new.                 *)
LEMMA AfterHead ==
  ASSUME NEW s, IsProgram(s), Len(s) > 0, NEW i \in DOMAIN Tail(s)
  PROVE  \E j \in DOMAIN s : j # 1 /\ Tail(s)[i] = s[j]
BY TailOfProgram

(* A statement that only reads and goes on.                                *)
LEMMA ReadsProceed ==
  ASSUME Base, NEW c \in Calls,
         NEW op \in {"lookup", "check", "readback", "unless", "known", "differs"}, At(c, op),
         op = "lookup" => KeyOf(does[c]) \notin DOMAIN rows,
         Advances(c), OnlyReads
  PROVE  Proceeds(c)
<1>1. /\ reply[c] = "open" /\ Fits(does[c], todo[c], tx[c].puts)
      /\ Len(todo[c]) > 0 /\ IsProgram(todo[c])
      /\ todo[c][1].op = op /\ Suits(does[c], todo[c][1])
      /\ DOMAIN tx = Calls /\ DOMAIN todo = Calls
  BY AtHead
<1>2. /\ todo'[c] = Tail(todo[c]) /\ tx' = tx /\ DOMAIN todo' = Calls
      /\ UNCHANGED <<does, rows, reply, before, changed, cuts>>
      /\ \A d \in Calls \ {c} : todo'[d] = todo[d]
  BY <1>1 DEF Advances, Goes, OnlyReads, Stays
<1>3. Fits(does[c], todo'[c], tx'[c].puts)
  <2>1. op \notin Final /\ op \notin {"create", "claim", "key"}
    BY DEF Final
  <2> QED
    BY <1>1, <1>2, <2>1, TailFits
<1>4. \A i \in DOMAIN todo'[c] : \E j \in DOMAIN todo[c] : j # 1 /\ todo'[c][i] = todo[c][j]
  BY <1>1, <1>2, AfterHead
<1>5. \A i \in DOMAIN todo'[c] : todo'[c][i].op = "answer" =>
        KeyOf(does[c]) \in DOMAIN rows /\ Digest(does[rows[KeyOf(does[c])]]) = Digest(does[c])
  BY <1>1, <1>4 DEF Base, AnswersFit
<1>6. does[c].kind \in Looking /\ Without(todo'[c], {"lookup"}) =>
        Without(todo[c], {"lookup"}) \/ KeyOf(does[c]) \notin DOMAIN rows
  <2>1. op # "lookup" => Without(todo[c], {"lookup"})
    BY <1>1 DEF Without, Fits
  <2> QED
    BY <2>1
<1>7. Only(todo[c], Closing) => Only(todo'[c], Closing)
  BY <1>4 DEF Only
<1> QED
  BY <1>1, <1>2, <1>3, <1>5, <1>6, <1>7 DEF Proceeds

(* A statement that inserts its row.                                       *)
LEMMA InsertsProceed ==
  ASSUME Base, NEW c \in Calls,
         NEW op \in {"create", "claim", "key", "put", "insert", "set"}, At(c, op),
         Free(c, Row(c)), Lasting(Row(c)) => Row(c) \notin DOMAIN rows,
         Puts(c, Row(c))
  PROVE  Proceeds(c)
<1>1. /\ reply[c] = "open" /\ Fits(does[c], todo[c], tx[c].puts)
      /\ Len(todo[c]) > 0 /\ IsProgram(todo[c])
      /\ todo[c][1].op = op /\ Suits(does[c], todo[c][1])
      /\ DOMAIN tx = Calls /\ DOMAIN todo = Calls /\ does[c].kind \in Kinds
  BY AtHead
<1>2. /\ todo'[c] = Tail(todo[c]) /\ DOMAIN todo' = Calls /\ DOMAIN tx' = Calls
      /\ tx'[c].puts = tx[c].puts \cup {todo[c][1].row}
      /\ tx'[c].dels = tx[c].dels
      /\ UNCHANGED <<does, rows, reply, before, changed, cuts>>
      /\ \A d \in Calls \ {c} : todo'[d] = todo[d] /\ tx'[d] = tx[d]
  BY <1>1 DEF Puts, Writes, Row, Advances, Goes, Stays
<1>3. Fits(does[c], todo'[c], tx'[c].puts)
  <2>1. op \notin Final
    BY DEF Final
  <2> QED
    BY <1>1, <1>2, <2>1, TailFits
<1>4. \A i \in DOMAIN todo'[c] : \E j \in DOMAIN todo[c] : j # 1 /\ todo'[c][i] = todo[c][j]
  BY <1>1, <1>2, AfterHead
<1>5. \A i \in DOMAIN todo'[c] : todo'[c][i].op = "answer" =>
        KeyOf(does[c]) \in DOMAIN rows /\ Digest(does[rows[KeyOf(does[c])]]) = Digest(does[c])
  BY <1>1, <1>4 DEF Base, AnswersFit
<1>6. Without(todo[c], {"lookup"})
  BY <1>1 DEF Without, Fits
<1>7. Only(todo[c], Closing) => Only(todo'[c], Closing)
  BY <1>4 DEF Only
<1>8. \A row \in tx'[c].puts \ tx[c].puts :
        Free(c, row) /\ (Lasting(row) => row \notin DOMAIN rows)
  BY <1>2 DEF Row
<1>9. todo[c][1].row[1] = "group member" =>
        does[c].kind = "reconcile" /\ todo[c][1].row \in Wanted(does[c])
  <2>1. \/ todo[c][1].row \in {KeyOf(does[c]), RootOf(does[c]), MemberOf(does[c]),
                              BootstrapClaim(does[c].who), Disabled(does[c].who),
                              WorkspaceMember(does[c].where, does[c].who), Identity(does[c].who)}
        \/ does[c].kind = "reconcile" /\ todo[c][1].row \in Wanted(does[c])
    BY <1>1 DEF Suits
  <2>2. RootOf(does[c])[1] = "group member" => does[c].kind = "group member"
    BY RowTags
  <2>3. does[c].kind # "group member"
    BY <1>1 DEF Kinds, Keyed
  <2>4. /\ KeyOf(does[c])[1] = "key" /\ MemberOf(does[c])[1] = "member"
        /\ BootstrapClaim(does[c].who)[1] = "claim" /\ Disabled(does[c].who)[1] = "disabled"
        /\ WorkspaceMember(does[c].where, does[c].who)[1] = "workspace member"
        /\ Identity(does[c].who)[1] = "identity"
    BY RowTags DEF MemberOf
  <2> QED
    BY <2>1, <2>2, <2>3, <2>4
<1> QED
  BY <1>1, <1>2, <1>3, <1>5, <1>6, <1>7, <1>8, <1>9 DEF Proceeds

(* A statement that deletes its row.                                       *)
LEMMA DeletesProceed ==
  ASSUME Base, NEW c \in Calls, NEW op \in {"delete", "set"}, At(c, op),
         NEW dels, dels \subseteq {Row(c)}, Writes(c, {}, dels)
  PROVE  Proceeds(c)
<1>1. /\ reply[c] = "open" /\ Fits(does[c], todo[c], tx[c].puts)
      /\ Len(todo[c]) > 0 /\ IsProgram(todo[c])
      /\ todo[c][1].op = op /\ Suits(does[c], todo[c][1])
      /\ DOMAIN tx = Calls /\ DOMAIN todo = Calls
  BY AtHead
<1>2. /\ todo'[c] = Tail(todo[c]) /\ DOMAIN todo' = Calls /\ DOMAIN tx' = Calls
      /\ tx'[c].puts = tx[c].puts
      /\ tx'[c].dels \subseteq tx[c].dels \cup {todo[c][1].row}
      /\ UNCHANGED <<does, rows, reply, before, changed, cuts>>
      /\ \A d \in Calls \ {c} : todo'[d] = todo[d] /\ tx'[d] = tx[d]
  BY <1>1 DEF Writes, Row, Advances, Goes, Stays
<1>3. Fits(does[c], todo'[c], tx'[c].puts)
  <2>1. op \notin Final
    BY DEF Final
  <2> QED
    BY <1>1, <1>2, <2>1, TailFits
<1>4. \A i \in DOMAIN todo'[c] : \E j \in DOMAIN todo[c] : j # 1 /\ todo'[c][i] = todo[c][j]
  BY <1>1, <1>2, AfterHead
<1>5. \A i \in DOMAIN todo'[c] : todo'[c][i].op = "answer" =>
        KeyOf(does[c]) \in DOMAIN rows /\ Digest(does[rows[KeyOf(does[c])]]) = Digest(does[c])
  BY <1>1, <1>4 DEF Base, AnswersFit
<1>6. Without(todo[c], {"lookup"})
  BY <1>1 DEF Without, Fits
<1>7. Only(todo[c], Closing) => Only(todo'[c], Closing)
  BY <1>4 DEF Only
<1>8. todo[c][1].row[1] \in {"member", "group member", "disabled"}
  <2>1. \/ todo[c][1].row \in {MemberOf(does[c]), Disabled(does[c].who)}
        \/ \E p : todo[c][1].row = GroupMember(does[c].where, p)
    BY <1>1 DEF Suits, Unwanted
  <2>2. /\ MemberOf(does[c])[1] = "member" /\ Disabled(does[c].who)[1] = "disabled"
        /\ \A p : GroupMember(does[c].where, p)[1] = "group member"
    BY RowTags DEF MemberOf
  <2> QED
    BY <2>1, <2>2
<1>9. \A row \in tx'[c].dels \ tx[c].dels : ~Lasting(row) /\ row[1] # "audit"
  BY <1>2, <1>8 DEF Lasting
<1>10. todo[c][1].row[1] = "group member" =>
         does[c].kind = "reconcile" /\ todo[c][1].row \in Unwanted(does[c])
  <2>1. \/ todo[c][1].row \in {MemberOf(does[c]), Disabled(does[c].who)}
        \/ does[c].kind = "reconcile" /\ todo[c][1].row \in Unwanted(does[c])
    BY <1>1 DEF Suits
  <2>2. MemberOf(does[c])[1] = "member" /\ Disabled(does[c].who)[1] = "disabled"
    BY RowTags DEF MemberOf
  <2> QED
    BY <2>1, <2>2
<1> QED
  BY <1>1, <1>2, <1>3, <1>5, <1>6, <1>7, <1>9, <1>10 DEF Proceeds

(* A statement whose result replaces the program.                          *)
LEMMA TurnsProceed ==
  ASSUME Base, NEW c \in Calls, NEW op, At(c, op), op # "lookup",
         NEW s, Only(todo[c], Closing) => Only(s, Closing), Fits(does[c], s, tx[c].puts), Goes(c, s), OnlyReads,
         \A i \in DOMAIN s : s[i].op = "answer" =>
           KeyOf(does[c]) \in DOMAIN rows /\ Digest(does[rows[KeyOf(does[c])]]) = Digest(does[c])
  PROVE  Proceeds(c)
<1>1. /\ reply[c] = "open" /\ Fits(does[c], todo[c], tx[c].puts)
      /\ Len(todo[c]) > 0 /\ IsProgram(todo[c]) /\ 1 \in DOMAIN todo[c]
      /\ todo[c][1].op = op /\ Suits(does[c], todo[c][1])
      /\ DOMAIN tx = Calls /\ DOMAIN todo = Calls
  BY AtHead
<1>2. /\ todo'[c] = s /\ tx' = tx /\ DOMAIN todo' = Calls
      /\ UNCHANGED <<does, rows, reply, before, changed, cuts>>
      /\ \A d \in Calls \ {c} : todo'[d] = todo[d]
  BY <1>1 DEF Goes, OnlyReads, Stays
<1>3. Without(todo[c], {"lookup"})
  BY <1>1 DEF Without, Fits
<1> QED
  BY <1>1, <1>2, <1>3 DEF Proceeds

(* A program with another statement ahead is not in its closing part.      *)
LEMMA NotClosing ==
  ASSUME Base, NEW c \in Calls, NEW op, At(c, op), op \notin Closing
  PROVE  ~Only(todo[c], Closing)
<1>1. 1 \in DOMAIN todo[c] /\ todo[c][1].op = op
  BY AtHead
<1> QED
  BY <1>1 DEF Only

(* What every statement does that ends its call without a commit.          *)
Stops(c) ==
  /\ reply[c] = "open"
  /\ \E how \in {"replayed", "refused", "found", "failed"} :
       /\ Ends(c, how)
       /\ Only(todo[c], Closing) => how = "failed"
       /\ how = "replayed" =>
            /\ does[c].kind \in Keyed
            /\ KeyOf(does[c]) \in DOMAIN rows /\ Digest(does[rows[KeyOf(does[c])]]) = Digest(does[c])

LEMMA Stopping ==
  ASSUME Base, NEW c \in Calls, NEW op, At(c, op),
         NEW how \in {"refused", "found", "failed"}, op \notin Closing \/ how = "failed", Ends(c, how)
  PROVE  Stops(c)
<1>1. reply[c] = "open" /\ (Only(todo[c], Closing) => how = "failed")
  BY AtHead, NotClosing
<1> QED
  BY <1>1 DEF Stops

(* A key that is found is answered, or the call is refused.                *)
LEMMA Replaying ==
  ASSUME Base, NEW c \in Calls, NEW op \in {"lookup", "recorded"}, At(c, op),
         KeyOf(does[c]) \in DOMAIN rows, Replays(c, KeyOf(does[c]))
  PROVE  Stops(c)
<1>1. /\ reply[c] = "open" /\ 1 \in DOMAIN todo[c] /\ todo[c][1].op = op
      /\ Suits(does[c], todo[c][1])
  BY AtHead
<1>2. does[c].kind \in Keyed
  BY <1>1 DEF Suits
<1>3. ~Only(todo[c], Closing)
  BY NotClosing DEF Closing
<1> QED
  BY <1>1, <1>2, <1>3 DEF Stops, Replays, Repeats

(* What a call sees of a lasting row is what is committed, apart from what *)
(* it inserted itself.                                                     *)
LEMMA SeesCommitted ==
  ASSUME Base, NEW c \in Calls, NEW row, Lasting(row)
  PROVE  Sees(c, row) <=> row \in DOMAIN rows \/ row \in tx[c].puts
BY DEF Base, DeletesSpare, Sees

(* A key that is still to be looked up or recorded is in nobody's hands.   *)
LEMMA SeesKeys ==
  ASSUME Base, NEW c \in Calls, NEW op \in {"lookup", "key"}, At(c, op)
  PROVE  /\ Row(c) = KeyOf(does[c]) /\ Lasting(Row(c))
         /\ Sees(c, Row(c)) <=> KeyOf(does[c]) \in DOMAIN rows
<1>1. /\ Fits(does[c], todo[c], tx[c].puts) /\ 1 \in DOMAIN todo[c]
      /\ todo[c][1].op = op /\ Suits(does[c], todo[c][1])
  BY AtHead
<1>2. Row(c) = KeyOf(does[c]) /\ KeyOf(does[c]) \notin tx[c].puts
  BY <1>1 DEF Row, Suits, Fits
<1>3. Lasting(Row(c))
  BY <1>2, RowTags DEF Lasting
<1> QED
  BY <1>2, <1>3, SeesCommitted

(* Every statement goes on, stops or commits.                              *)
LEMMA StatementKinds ==
  ASSUME Base, NEW c \in Calls, Statement(c)
  PROVE  Proceeds(c) \/ Stops(c) \/ Commit(c)
<1>1. CASE Lookup(c)
  <2>1. At(c, "lookup")
    BY <1>1 DEF Lookup
  <2>2. Row(c) = KeyOf(does[c]) /\ (Sees(c, Row(c)) <=> KeyOf(does[c]) \in DOMAIN rows)
    BY <2>1, SeesKeys
  <2>3. CASE Sees(c, Row(c))
    BY <1>1, <2>1, <2>2, <2>3, Replaying DEF Lookup
  <2>4. CASE ~Sees(c, Row(c))
    BY <1>1, <2>1, <2>2, <2>4, ReadsProceed DEF Lookup
  <2> QED
    BY <2>3, <2>4
<1>2. CASE Check(c)
  BY <1>2, Stopping, ReadsProceed DEF Check, Closing
<1>3. CASE Create(c)
  <2>1. At(c, "create") /\ Free(c, Row(c))
    BY <1>3 DEF Create
  <2>2. CASE Sees(c, Row(c))
    <3>1. does[c].kind \in Keyed
      BY <2>1, AtHead DEF Suits
    <3>2. PICK s : s = <<Do("readback", Row(c)), Do("recorded", KeyOf(does[c]))>>
      OBVIOUS
    <3>3. Fits(does[c], s, tx[c].puts)
      BY <3>1, <3>2, RecordedFits
    <3>4. \A i \in DOMAIN s : s[i].op # "answer"
      BY <3>2 DEF Do
    <3>5. Goes(c, s) /\ OnlyReads
      BY <1>3, <2>2, <3>2, KeyOfRequest DEF Create
    <3>6. ~Only(todo[c], Closing)
      BY <2>1, NotClosing DEF Closing
    <3> QED
      BY <2>1, <3>3, <3>4, <3>5, <3>6, TurnsProceed
  <2>3. CASE ~Sees(c, Row(c))
    <3>1. Lasting(Row(c)) => Row(c) \notin DOMAIN rows
      BY <2>3, SeesCommitted
    <3> QED
      BY <1>3, <2>1, <2>3, <3>1, InsertsProceed DEF Create
  <2> QED
    BY <2>2, <2>3
<1>4. CASE Recorded(c)
  <2>1. At(c, "recorded") /\ Row(c) = KeyOf(does[c])
    BY <1>4, AtHead DEF Recorded, Suits, Row
  <2>2. CASE Row(c) \in DOMAIN rows
    BY <1>4, <2>1, <2>2, Replaying DEF Recorded
  <2>3. CASE Row(c) \notin DOMAIN rows
    BY <1>4, <2>1, <2>3, Stopping DEF Recorded, Closing
  <2> QED
    BY <2>2, <2>3
<1>5. CASE Put(c) \/ ReadBack(c)
  <2>1. CASE ReadBack(c)
    BY <2>1, Stopping, ReadsProceed DEF ReadBack
  <2>2. CASE Put(c) /\ Sees(c, Row(c))
    <3>1. /\ At(c, "put") /\ todo[c][1].op = "put" /\ Fits(does[c], todo[c], tx[c].puts)
          /\ 1 \in DOMAIN todo[c]
      BY <2>2, AtHead DEF Put
    <3>2. PICK s : s = [todo[c] EXCEPT ![1] = Do("readback", todo[c][1].row)]
      OBVIOUS
    <3>3. /\ Fits(does[c], s, tx[c].puts) /\ DOMAIN s = DOMAIN todo[c]
          /\ s[1].op = "readback" /\ \A i \in DOMAIN todo[c] : i # 1 => s[i] = todo[c][i]
      BY <3>1, <3>2, ReadBackFits
    <3>4. Goes(c, s) /\ OnlyReads
      BY <2>2, <3>2 DEF Put, Row
    <3>5. Only(todo[c], Closing) => Only(s, Closing)
      BY <3>3 DEF Only, Closing
    <3>6. \A i \in DOMAIN s : s[i].op = "answer" =>
            KeyOf(does[c]) \in DOMAIN rows /\ Digest(does[rows[KeyOf(does[c])]]) = Digest(does[c])
      <4> SUFFICES ASSUME NEW i \in DOMAIN s, s[i].op = "answer"
                   PROVE  KeyOf(does[c]) \in DOMAIN rows
                            /\ Digest(does[rows[KeyOf(does[c])]]) = Digest(does[c])
        OBVIOUS
      <4>1. reply[c] = "open" /\ i \in DOMAIN todo[c] /\ todo[c][i].op = "answer"
        BY <3>1, <3>3 DEF At
      <4> QED
        BY <4>1 DEF Base, AnswersFit
    <3> QED
      BY <3>1, <3>3, <3>4, <3>5, <3>6, TurnsProceed
  <2>3. CASE Put(c) /\ ~Sees(c, Row(c))
    <3>1. At(c, "put") /\ Free(c, Row(c)) /\ Puts(c, Row(c))
      BY <2>3 DEF Put
    <3>2. Lasting(Row(c)) => Row(c) \notin DOMAIN rows
      BY <2>3, SeesCommitted
    <3> QED
      BY <3>1, <3>2, InsertsProceed
  <2> QED
    BY <1>5, <2>1, <2>2, <2>3
<1>6. CASE Insert(c)
  <2>1. At(c, "insert") /\ Free(c, Row(c))
    BY <1>6 DEF Insert
  <2>2. CASE Sees(c, Row(c))
    BY <1>6, <2>1, <2>2, Stopping DEF Insert, Closing
  <2>3. CASE ~Sees(c, Row(c))
    <3>1. Lasting(Row(c)) => Row(c) \notin DOMAIN rows
      BY <2>3, SeesCommitted
    <3> QED
      BY <1>6, <2>1, <2>3, <3>1, InsertsProceed DEF Insert
  <2> QED
    BY <2>2, <2>3
<1>7. CASE Delete(c)
  <2>1. At(c, "delete") /\ Writes(c, {}, {Row(c)} \cap DOMAIN rows)
    BY <1>7 DEF Delete
  <2> QED
    BY <2>1, DeletesProceed
<1>8. CASE ClaimOrganizationBootstrap(c)
  <2>1. At(c, "claim") /\ Free(c, Row(c))
    BY <1>8 DEF ClaimOrganizationBootstrap
  <2>2. CASE Sees(c, Row(c))
    BY <1>8, <2>1, <2>2, Stopping DEF ClaimOrganizationBootstrap, Closing
  <2>3. CASE ~Sees(c, Row(c))
    <3>1. Lasting(Row(c)) => Row(c) \notin DOMAIN rows
      BY <2>3, SeesCommitted
    <3> QED
      BY <1>8, <2>1, <2>3, <3>1, InsertsProceed DEF ClaimOrganizationBootstrap
  <2> QED
    BY <2>2, <2>3
<1>9. CASE ClaimIdempotency(c)
  <2>1. At(c, "key") /\ Free(c, Row(c))
    BY <1>9 DEF ClaimIdempotency
  <2>2. /\ Row(c) = KeyOf(does[c]) /\ (Sees(c, Row(c)) <=> KeyOf(does[c]) \in DOMAIN rows)
        /\ Fits(does[c], todo[c], tx[c].puts) /\ todo[c][1].op = "key"
    BY <2>1, SeesKeys, AtHead
  <2>3. CASE ~Sees(c, Row(c))
    <3>1. Puts(c, Row(c))
      BY <1>9, <2>3 DEF ClaimIdempotency
    <3> QED
      BY <2>1, <2>2, <2>3, <3>1, InsertsProceed
  <2>4. CASE Sees(c, Row(c)) /\ Repeats(c, Row(c))
    <3>1. PICK s : s = <<Do("answer", KeyOf(does[c]))>>
      OBVIOUS
    <3>2. Fits(does[c], s, tx[c].puts)
      BY <2>2, <3>1, AnswerFits
    <3>3. Goes(c, s) /\ OnlyReads
      BY <1>9, <2>2, <2>4, <3>1 DEF ClaimIdempotency
    <3>4. KeyOf(does[c]) \in DOMAIN rows /\ Digest(does[rows[KeyOf(does[c])]]) = Digest(does[c])
      BY <2>2, <2>4 DEF Repeats
    <3>5. ~Only(todo[c], Closing)
      BY <2>1, NotClosing DEF Closing
    <3> QED
      BY <2>1, <3>2, <3>3, <3>4, <3>5, TurnsProceed
  <2>5. CASE Sees(c, Row(c)) /\ ~Repeats(c, Row(c))
    <3>1. Ends(c, "refused")
      BY <1>9, <2>5 DEF ClaimIdempotency
    <3> QED
      BY <2>1, <3>1, Stopping DEF Closing
  <2> QED
    BY <2>3, <2>4, <2>5
<1>10. CASE Unless(c)
  BY <1>10, Stopping, ReadsProceed DEF Unless, Closing
<1>11. CASE Known(c)
  BY <1>11, Stopping, ReadsProceed DEF Known, Closing
<1>12. CASE Differs(c)
  BY <1>12, Stopping, ReadsProceed DEF Differs, Closing
<1>13. CASE SetStatus(c)
  <2>1. At(c, "set") /\ Free(c, Row(c))
    BY <1>13 DEF SetStatus
  <2>2. CASE Disables(c)
    <3>1. Row(c) = Disabled(does[c].who)
      BY <2>1, AtHead DEF Suits, Row
    <3>2. ~Lasting(Row(c))
      BY <3>1, RowTags DEF Lasting
    <3> QED
      BY <1>13, <2>1, <2>2, <3>2, InsertsProceed DEF SetStatus
  <2>3. CASE ~Disables(c)
    BY <1>13, <2>1, <2>3, DeletesProceed DEF SetStatus
  <2> QED
    BY <2>2, <2>3
<1>14. CASE Diff(c)
  <2>1. At(c, "diff")
    BY <1>14 DEF Diff
  <2> DEFINE missing == does[c].wants \ Members(Where(c))
             excess == Members(Where(c)) \ does[c].wants
  <2>2. CASE missing \cup excess = {}
    BY <1>14, <2>1, <2>2, Stopping DEF Diff, Closing
  <2>3. CASE missing \cup excess # {}
    <3>1. PICK s : s = Merged(Joins(Where(c), missing), Leaves(Where(c), excess))
                         \o <<Do("commit", Audit(c)), Finish(c)>>
      OBVIOUS
    <3>2. Goes(c, s) /\ OnlyReads
      BY <1>14, <2>3, <3>1 DEF Diff
    <3>3. Kind(c) = "reconcile" /\ does[c].wants \subseteq Principals
      BY <2>1, AtHead DEF Suits, Kind, Base, RequestsFit
    <3>4. /\ missing \subseteq Nat /\ IsFiniteSet(missing) /\ missing \subseteq does[c].wants
          /\ excess \subseteq Nat /\ IsFiniteSet(excess)
          /\ excess \subseteq Principals \ does[c].wants
      <4>1. /\ missing \subseteq Principals /\ missing \subseteq does[c].wants
            /\ excess \subseteq Principals \ does[c].wants
        BY <3>3 DEF Members
      <4>2. Principals \subseteq Nat /\ IsFiniteSet(Principals)
        BY MembershipAssumption
      <4> HIDE DEF missing, excess
      <4> QED
        BY <4>1, <4>2, FS_Subset
    <3> HIDE DEF missing, excess
    <3>5. Fits(does[c], s, tx[c].puts) /\ \A i \in DOMAIN s : s[i].op # "answer"
      <4>1. /\ Fits(does[c], s, tx[c].puts)
            /\ \A i \in DOMAIN s : s[i].op \notin {"diff", "answer"}
        BY <3>1, <3>3, <3>4, DiffFits
      <4> QED
        BY <4>1
    <3>6. ~Only(todo[c], Closing)
      BY <2>1, NotClosing DEF Closing
    <3> QED
      BY <2>1, <3>2, <3>5, <3>6, TurnsProceed
  <2> QED
    BY <2>2, <2>3
<1>15. CASE Commit(c)
  BY <1>15
<1> QED
  BY <1>1, <1>2, <1>3, <1>4, <1>5, <1>6, <1>7, <1>8, <1>9, <1>10, <1>11, <1>12, <1>13,
     <1>14, <1>15 DEF Statement

-----------------------------------------------------------------------------
(* The steps                                                               *)

Sources == {"commit", "finish", "answer"}
Lands(c, op, row) == row \in tx[c].puts \/ (op = "finish" /\ row = Audit(c))

(* A commit, row by row.                                                   *)
Commits(c, op) ==
  /\ At(c, op)
  /\ \A row : row \in DOMAIN rows' <=>
       Lands(c, op, row) \/ (row \in DOMAIN rows /\ row \notin tx[c].dels)
  /\ \A row \in DOMAIN rows' : rows'[row] = IF Lands(c, op, row) THEN c ELSE rows[row]
  /\ changed' = IF tx[c] = NoWrites THEN changed ELSE changed \cup {c}
  /\ reply' = [reply EXCEPT ![c] = After[op]]
  /\ DOMAIN tx' = Calls /\ DOMAIN todo' = Calls
  /\ tx'[c] = NoWrites /\ todo'[c] = Tail(todo[c])
  /\ \A d \in Calls \ {c} : tx'[d] = tx[d] /\ todo'[d] = todo[d]
  /\ UNCHANGED <<does, before, cuts>>

LEMMA CommitsByRow ==
  ASSUME Base, NEW c \in Calls, Commit(c)
  PROVE  \E op \in Sources : Commits(c, op)
<1>1. DOMAIN After = Sources
  BY DEF After, Sources
<1>2. PICK op \in Sources :
        LET puts == tx[c].puts \cup (IF op = "finish" THEN {Audit(c)} ELSE {})
        IN /\ At(c, op)
           /\ rows' = [row \in (DOMAIN rows \ tx[c].dels) \cup puts |->
                         IF row \in puts THEN c ELSE rows[row]]
           /\ changed' = IF tx[c] = NoWrites THEN changed ELSE changed \cup {c}
           /\ tx' = [tx EXCEPT ![c] = NoWrites]
           /\ reply' = [reply EXCEPT ![c] = After[op]]
           /\ Advances(c)
           /\ Stays
  BY <1>1 DEF Commit
<1>3. DOMAIN tx = Calls /\ DOMAIN todo = Calls
  BY DEF Base, TypeOK
<1>4. /\ DOMAIN tx' = Calls /\ DOMAIN todo' = Calls
      /\ tx'[c] = NoWrites /\ todo'[c] = Tail(todo[c])
      /\ \A d \in Calls \ {c} : tx'[d] = tx[d] /\ todo'[d] = todo[d]
      /\ UNCHANGED <<does, before, cuts>>
  BY <1>2, <1>3 DEF Advances, Goes, Stays
<1>5. /\ \A row : row \in DOMAIN rows' <=>
           Lands(c, op, row) \/ (row \in DOMAIN rows /\ row \notin tx[c].dels)
      /\ \A row \in DOMAIN rows' : rows'[row] = IF Lands(c, op, row) THEN c ELSE rows[row]
  BY <1>2 DEF Lands
<1> QED
  BY <1>2, <1>4, <1>5 DEF Commits

(* A call that ends without a commit: stopped, or cut.                     *)
Halts(c) ==
  /\ reply[c] = "open"
  /\ \E how \in Replies \ {"none", "open", "created"} : reply' = [reply EXCEPT ![c] = how]
  /\ DOMAIN tx' = Calls /\ DOMAIN todo' = Calls
  /\ tx'[c] = NoWrites
  /\ \A d \in Calls \ {c} : tx'[d] = tx[d] /\ todo'[d] = todo[d]
  /\ UNCHANGED <<does, rows, before, changed>>
  /\ cuts' \in 0 .. MaxCuts

LEMMA StopsHalt ==
  ASSUME Base, NEW c \in Calls, Stops(c)
  PROVE  Halts(c)
<1>1. PICK how \in {"replayed", "refused", "found", "failed"} : Ends(c, how)
  BY DEF Stops
<1>2. how \in Replies \ {"none", "open", "created"}
  BY DEF Replies
<1>3. DOMAIN tx = Calls /\ DOMAIN todo = Calls /\ cuts \in 0 .. MaxCuts /\ reply[c] = "open"
  BY DEF Base, TypeOK, Stops
<1> QED
  BY <1>1, <1>2, <1>3 DEF Halts, Ends, Goes, Stays

LEMMA CutsHalt ==
  ASSUME Base, NEW c \in Calls, Cut(c)
  PROVE  Halts(c)
<1>1. "cut" \in Replies \ {"none", "open", "created"}
  BY DEF Replies
<1>2. DOMAIN tx = Calls /\ DOMAIN todo = Calls /\ cuts \in 0 .. MaxCuts /\ MaxCuts \in Nat
  BY MembershipAssumption DEF Base, TypeOK
<1>3. cuts' \in 0 .. MaxCuts
  BY <1>2 DEF Cut
<1> QED
  BY <1>1, <1>2, <1>3 DEF Halts, Cut, Goes

(* A step is of one of five kinds.                                         *)
LEMMA StepKinds ==
  ASSUME Base, Next
  PROVE  \E c \in Calls : \/ Begin(c) \/ Proceeds(c) \/ Stops(c) \/ Cut(c)
                          \/ \E op \in Sources : Commits(c, op)
BY StatementKinds, CommitsByRow DEF Next

(* What is committed once and for all stays, with the call that wrote it.  *)
LEMMA LastingStays ==
  ASSUME Base, NEW c \in Calls, NEW op \in Sources, Commits(c, op), NEW row, row \in DOMAIN rows
  PROVE  /\ Lasting(row) => row \in DOMAIN rows' /\ rows'[row] = rows[row]
         /\ row[1] = "audit" => row \in DOMAIN rows'
<1>1. Audit(c)[1] = "audit" /\ ~Lasting(Audit(c))
  BY RowTags DEF Lasting
<1>2. /\ row \in tx[c].dels => ~Lasting(row) /\ row[1] # "audit"
      /\ row \in tx[c].puts => ~Lasting(row)
  BY DEF Base, DeletesSpare, InsertsAreNew
<1>3. Lasting(row) => ~Lands(c, op, row)
  BY <1>1, <1>2 DEF Lands
<1> QED
  BY <1>2, <1>3 DEF Commits

-----------------------------------------------------------------------------
(* The base invariant                                                      *)

LEMMA BaseInit ==
  ASSUME Init
  PROVE  Base
<1>1. PICK cast \in Casts :
        /\ does = cast.does
        /\ rows = [row \in cast.born |-> Seed]
        /\ tx = [c \in Calls |-> NoWrites]
        /\ todo = [c \in Calls |-> <<>>]
        /\ reply = [c \in Calls |-> "none"]
        /\ before = [c \in Calls |-> {}]
        /\ changed = {} /\ cuts = 0
  BY DEF Init
<1>2. RequestsFit
  BY <1>1, MembershipAssumption DEF RequestsFit
<1>3. TypeOK
  BY <1>1, MembershipAssumption DEF TypeOK, Replies
<1>4. \A c \in Calls : reply[c] = "none" /\ tx[c].puts = {} /\ tx[c].dels = {} /\ tx[c] = NoWrites
  BY <1>1 DEF NoWrites
<1> QED
  BY <1>2, <1>3, <1>4 DEF Base, QuietWithoutWrites, ProgramsFit, DeletesSpare, InsertsAreNew,
                          OneWriter, GroupRows, AnswersFit

(* A call begins with nothing written and its whole program before it.     *)
LEMMA BeginKeepsBase ==
  ASSUME Base, NEW c \in Calls, Begin(c)
  PROVE  Base'
<1>1. /\ DOMAIN tx = Calls /\ DOMAIN todo = Calls /\ reply \in [Calls -> Replies]
      /\ before \in [Calls -> SUBSET Calls] /\ does[c].kind \in Kinds
  BY DEF Base, TypeOK, RequestsFit
<1>2. /\ UNCHANGED <<does, rows, tx, changed, cuts>>
      /\ reply[c] = "none" /\ reply' = [reply EXCEPT ![c] = "open"]
      /\ before' = [before EXCEPT ![c] = {d \in Calls : Ended(d)}]
      /\ todo'[c] = Program(c) /\ DOMAIN todo' = Calls
      /\ \A d \in Calls \ {c} : todo'[d] = todo[d] /\ reply'[d] = reply[d]
      /\ does[c].kind # "idle"
  BY <1>1 DEF Begin, Goes, Kind
<1>3. tx[c] = NoWrites /\ tx[c].puts = {}
  BY <1>2 DEF Base, QuietWithoutWrites, NoWrites
<1>4. Fits(does[c], Program(c), {})
  BY <1>1, <1>2, ProgramFits DEF Kind
<1>5. TypeOK'
  <2>1. reply' \in [Calls -> Replies]
    BY <1>1, <1>2 DEF Replies
  <2>2. before' \in [Calls -> SUBSET Calls]
    BY <1>1, <1>2
  <2> QED
    BY <1>1, <1>2, <2>1, <2>2 DEF Base, TypeOK
<1>6. ProgramsFit'
  BY <1>2, <1>3, <1>4 DEF Base, ProgramsFit
<1>7. AnswersFit'
  <2>1. \A i \in DOMAIN Program(c) : Program(c)[i].op # "answer"
    BY <1>1, <1>2, ProgramsDoNotAnswer DEF Kind
  <2> QED
    BY <1>2, <2>1 DEF Base, AnswersFit
<1>8. RequestsFit' /\ QuietWithoutWrites'
  BY <1>2, <1>3 DEF Base, RequestsFit, QuietWithoutWrites
<1>9. DeletesSpare' /\ InsertsAreNew' /\ OneWriter' /\ GroupRows'
  BY <1>2 DEF Base, DeletesSpare, InsertsAreNew, OneWriter, GroupRows
<1> QED
  BY <1>5, <1>6, <1>7, <1>8, <1>9 DEF Base

LEMMA ProceedsKeepsBase ==
  ASSUME Base, NEW c \in Calls, Proceeds(c)
  PROVE  Base'
<1>1. /\ UNCHANGED <<does, rows, reply, before, changed, cuts>>
      /\ DOMAIN tx' = Calls /\ DOMAIN todo' = Calls
      /\ \A d \in Calls \ {c} : tx'[d] = tx[d] /\ todo'[d] = todo[d]
      /\ reply[c] = "open"
  BY DEF Proceeds
<1>2. TypeOK' /\ RequestsFit'
  BY <1>1 DEF Base, TypeOK, RequestsFit
<1>3. QuietWithoutWrites' /\ ProgramsFit'
  BY <1>1 DEF Base, Proceeds, QuietWithoutWrites, ProgramsFit
<1>4. DeletesSpare'
  BY <1>1 DEF Base, Proceeds, DeletesSpare
<1>5. InsertsAreNew'
  BY <1>1 DEF Base, Proceeds, InsertsAreNew
<1>6. OneWriter'
  <2> SUFFICES ASSUME NEW d \in Calls, NEW e \in Calls, d # e,
                      NEW row, row \in tx'[d].puts, row \in tx'[e].puts
               PROVE  FALSE
    BY DEF OneWriter
  <2>1. \A f \in Calls \ {c} : row \in tx[f].puts => row \in tx[c].puts \/ row \notin tx'[c].puts
    BY DEF Proceeds, Free
  <2> QED
    BY <1>1, <2>1 DEF Base, OneWriter
<1>7. GroupRows'
  <2> SUFFICES ASSUME NEW d \in Calls, NEW row, row[1] = "group member",
                      row \in tx'[d].puts \cup tx'[d].dels
               PROVE  /\ does[d].kind = "reconcile"
                      /\ row \in tx'[d].puts => row \in Wanted(does[d])
                      /\ row \in tx'[d].dels => row \in Unwanted(does[d])
    BY <1>1 DEF GroupRows
  <2>1. /\ row \in tx[d].puts \cup tx[d].dels => does[d].kind = "reconcile"
        /\ row \in tx[d].puts => row \in Wanted(does[d])
        /\ row \in tx[d].dels => row \in Unwanted(does[d])
    BY DEF Base, GroupRows
  <2>2. CASE d # c
    BY <1>1, <2>1, <2>2
  <2>3. CASE d = c
    BY <2>1, <2>3 DEF Proceeds
  <2> QED
    BY <2>2, <2>3
<1>8. AnswersFit'
  <2> SUFFICES ASSUME NEW d \in Calls, reply'[d] = "open", NEW i \in DOMAIN todo'[d],
                      todo'[d][i].op = "answer"
               PROVE  KeyOf(does[d]) \in DOMAIN rows /\ Digest(does[rows[KeyOf(does[d])]]) = Digest(does[d])
    BY <1>1 DEF AnswersFit
  <2>1. CASE d = c
    BY <2>1 DEF Proceeds
  <2>2. CASE d # c
    BY <1>1, <2>2 DEF Base, AnswersFit
  <2> QED
    BY <2>1, <2>2
<1> QED
  BY <1>2, <1>3, <1>4, <1>5, <1>6, <1>7, <1>8 DEF Base

LEMMA HaltsKeepsBase ==
  ASSUME Base, NEW c \in Calls, Halts(c)
  PROVE  Base'
<1>1. reply \in [Calls -> Replies]
  BY DEF Base, TypeOK
<1>2. /\ UNCHANGED <<does, rows, before, changed>>
      /\ DOMAIN tx' = Calls /\ DOMAIN todo' = Calls
      /\ \A d \in Calls \ {c} : tx'[d] = tx[d] /\ todo'[d] = todo[d] /\ reply'[d] = reply[d]
      /\ reply' \in [Calls -> Replies] /\ reply'[c] # "open"
      /\ tx'[c] = NoWrites /\ tx'[c].puts = {} /\ tx'[c].dels = {}
  BY <1>1 DEF Halts, NoWrites
<1>3. TypeOK' /\ RequestsFit'
  BY <1>2 DEF Base, Halts, TypeOK, RequestsFit
<1>4. QuietWithoutWrites' /\ ProgramsFit'
  BY <1>2 DEF Base, QuietWithoutWrites, ProgramsFit
<1>5. DeletesSpare' /\ InsertsAreNew' /\ OneWriter' /\ GroupRows'
  <2>1. \A d \in Calls : /\ tx'[d].puts \subseteq tx[d].puts
                         /\ tx'[d].dels \subseteq tx[d].dels
    BY <1>2
  <2>2. DeletesSpare' /\ InsertsAreNew'
    BY <1>2, <2>1 DEF Base, DeletesSpare, InsertsAreNew
  <2>3. OneWriter'
    BY <2>1 DEF Base, OneWriter
  <2>4. GroupRows'
    BY <1>2, <2>1 DEF Base, GroupRows
  <2> QED
    BY <2>2, <2>3, <2>4
<1>6. AnswersFit'
  BY <1>2 DEF Base, AnswersFit
<1> QED
  BY <1>3, <1>4, <1>5, <1>6 DEF Base

LEMMA CommitKeepsBase ==
  ASSUME Base, NEW c \in Calls, NEW op \in Sources, Commits(c, op)
  PROVE  Base'
<1>1. /\ reply \in [Calls -> Replies]
      /\ reply[c] = "open" /\ Fits(does[c], todo[c], tx[c].puts)
      /\ todo[c][1].op = op /\ Len(todo[c]) > 0 /\ IsProgram(todo[c])
  BY AtHead DEF Base, TypeOK, Commits
<1>2. /\ After["commit"] = "open" /\ After["finish"] = "created" /\ After["answer"] = "replayed"
  BY DEF After
<1>3. /\ UNCHANGED <<does, before, cuts>>
      /\ DOMAIN tx' = Calls /\ DOMAIN todo' = Calls
      /\ \A d \in Calls \ {c} : tx'[d] = tx[d] /\ todo'[d] = todo[d] /\ reply'[d] = reply[d]
      /\ reply' \in [Calls -> Replies]
      /\ reply'[c] = "open" <=> op = "commit"
      /\ todo'[c] = Tail(todo[c])
      /\ tx'[c] = NoWrites /\ tx'[c].puts = {} /\ tx'[c].dels = {}
  BY <1>1, <1>2 DEF Commits, Sources, Replies, NoWrites
<1>4. TypeOK'
  <2>1. \A row \in DOMAIN rows' : rows'[row] \in Calls \cup {Seed}
    BY DEF Base, TypeOK, Commits
  <2>2. changed' \subseteq Calls
    BY DEF Base, TypeOK, Commits
  <2> QED
    BY <1>3, <2>1, <2>2 DEF Base, TypeOK
<1>5. RequestsFit' /\ QuietWithoutWrites'
  BY <1>3 DEF Base, RequestsFit, QuietWithoutWrites
<1>6. ProgramsFit'
  <2>1. op = "commit" => Fits(does[c], Tail(todo[c]), {})
    BY <1>1, TailFits DEF Final
  <2> QED
    BY <1>1, <1>3, <2>1 DEF Base, ProgramsFit
<1>7. DeletesSpare' /\ OneWriter' /\ GroupRows'
  <2>1. \A d \in Calls : /\ tx'[d].puts \subseteq tx[d].puts
                         /\ tx'[d].dels \subseteq tx[d].dels
    BY <1>3
  <2>2. DeletesSpare' /\ OneWriter'
    BY <2>1 DEF Base, DeletesSpare, OneWriter
  <2>3. GroupRows'
    BY <1>3, <2>1 DEF Base, GroupRows
  <2> QED
    BY <2>2, <2>3
<1>8. InsertsAreNew'
  <2> SUFFICES ASSUME NEW d \in Calls, NEW row, row \in tx'[d].puts, Lasting(row), row \in DOMAIN rows'
               PROVE  FALSE
    BY DEF InsertsAreNew
  <2>1. d # c /\ row \in tx[d].puts
    BY <1>3
  <2>2. row \notin DOMAIN rows /\ row \notin tx[c].puts
    BY <2>1 DEF Base, InsertsAreNew, OneWriter
  <2>3. row # Audit(c)
    BY RowTags DEF Lasting
  <2> QED
    BY <2>2, <2>3 DEF Commits, Lands
<1>9. AnswersFit'
  <2> SUFFICES ASSUME NEW d \in Calls, reply'[d] = "open", NEW i \in DOMAIN todo'[d],
                      todo'[d][i].op = "answer"
               PROVE  KeyOf(does[d]) \in DOMAIN rows' /\ Digest(does[rows'[KeyOf(does[d])]]) = Digest(does[d])
    BY <1>3 DEF AnswersFit
  <2>1. KeyOf(does[d]) \in DOMAIN rows /\ Digest(does[rows[KeyOf(does[d])]]) = Digest(does[d])
    <3>1. CASE d = c
      <4>1. \E j \in DOMAIN todo[c] : todo[c][j].op = "answer"
        BY <1>1, <1>3, <3>1, AfterHead
      <4> QED
        BY <1>1, <3>1, <4>1 DEF Base, AnswersFit
    <3>2. CASE d # c
      BY <1>3, <3>2 DEF Base, AnswersFit
    <3> QED
      BY <3>1, <3>2
  <2>2. Lasting(KeyOf(does[d]))
    BY RowTags DEF Lasting
  <2> QED
    BY <2>1, <2>2, LastingStays
<1> QED
  BY <1>4, <1>5, <1>6, <1>7, <1>8, <1>9 DEF Base

LEMMA BaseStep ==
  ASSUME Base, [Next]_vars
  PROVE  Base'
<1>1. CASE Next
  BY <1>1, StepKinds, BeginKeepsBase, ProceedsKeepsBase, StopsHalt, CutsHalt, HaltsKeepsBase,
     CommitKeepsBase
<1>2. CASE UNCHANGED vars
  BY <1>2 DEF vars, Base, TypeOK, RequestsFit, QuietWithoutWrites, ProgramsFit, DeletesSpare,
              InsertsAreNew, OneWriter, GroupRows, AnswersFit
<1> QED
  BY <1>1, <1>2

-----------------------------------------------------------------------------
(* What the calls have done, beyond what they are about to do              *)

(* The calls that had ended when another one began still have.             *)
EndedBefore == \A c \in Calls : \A d \in before[c] : Ended(d)

(* A call that has changed something and whose audit is missing has its    *)
(* second transaction before it, or was cut or failed there, or answered a *)
(* key that no call it could have seen had recorded.                       *)
Accounted ==
  \A c \in Calls : c \in changed =>
    /\ reply[c] # "none"
    /\ reply[c] = "open" => does[c].kind \notin Keyed /\ Only(todo[c], Closing)
    /\ Ended(c) /\ Audit(c) \notin DOMAIN rows =>
         \/ does[c].kind \notin Keyed /\ reply[c] \in {"cut", "failed"}
         \/ /\ does[c].kind \in Keyed /\ reply[c] = "replayed"
            /\ KeyOf(does[c]) \in DOMAIN rows /\ rows[KeyOf(does[c])] \notin before[c]

(* A call on a membership that has looked its key up found it unrecorded   *)
(* by the calls that had ended.                                            *)
LookedUp ==
  \A c \in Calls : reply[c] = "open" /\ does[c].kind \in Looking =>
    (Without(todo[c], {"lookup"}) /\ KeyOf(does[c]) \in DOMAIN rows =>
       rows[KeyOf(does[c])] \notin before[c])

(* A reconciliation without another one of its group beside it either has  *)
(* still to compare, or puts and deletes before it commits whatever its    *)
(* group lacks and has in excess, or has committed already.                *)
Alone(c) == \A d \in Reconciles(Where(c)) \ {c} : reply[d] = "none" \/ d \in before[c]
Reached(c) == Members(Where(c)) = does[c].wants
Toward(c) ==
  /\ \A p \in does[c].wants :
       \/ GroupMember(Where(c), p) \in DOMAIN rows \cup tx[c].puts
       \/ \E i \in DOMAIN todo[c] : todo[c][i] = Do("put", GroupMember(Where(c), p))
  /\ \A p \in Principals \ does[c].wants :
       \/ GroupMember(Where(c), p) \notin DOMAIN rows \/ GroupMember(Where(c), p) \in tx[c].dels
       \/ \E i \in DOMAIN todo[c] : todo[c][i] = Do("delete", GroupMember(Where(c), p))
Reaching(c) ==
  \/ todo[c][1].op = "diff"
  \/ CommitsFirst(todo[c]) /\ Toward(c)
  \/ Only(todo[c], {"finish"}) /\ tx[c] = NoWrites /\ Reached(c)
Targeted ==
  \A c \in Calls : does[c].kind = "reconcile" /\ Alone(c) =>
    /\ reply[c] = "open" => Reaching(c)
    /\ reply[c] \in {"created", "found"} => Reached(c)

(* Only a commit changes the rows.                                         *)
LEMMA RowsKept ==
  ASSUME NEW c \in Calls, Begin(c) \/ Proceeds(c) \/ Stops(c) \/ Cut(c)
  PROVE  UNCHANGED <<does, rows>>
BY DEF Begin, Proceeds, Stops, Cut, Ends, Stays

LEMMA WrittenInit ==
  ASSUME Init
  PROVE  WrittenTogether
<1>1. \A c \in Calls : \A row : ~Made(c, row)
  BY MembershipAssumption DEF Init, Made
<1> QED
  BY <1>1 DEF WrittenTogether

(* The last transaction of a bootstrap or a creation holds all its rows.   *)
LEMMA WrittenByCommit ==
  ASSUME Base, WrittenTogether, NEW c \in Calls, NEW op \in Sources, Commits(c, op)
  PROVE  WrittenTogether'
<1>1. /\ reply[c] = "open" /\ Fits(does[c], todo[c], tx[c].puts)
      /\ todo[c][1].op = op /\ 1 \in DOMAIN todo[c] /\ Suits(does[c], todo[c][1])
  BY AtHead DEF Commits
<1>2. does' = does
  BY DEF Commits
<1>3. does[c].kind \in Creating => op \in {"finish", "answer"}
  BY <1>1 DEF Suits, Creating, Keyed, Sources
<1>4. does[c].kind \in Creating => RootOf(does[c]) \in tx[c].puts
  BY <1>1, <1>3 DEF Fits, Behind, Inner
<1>5. does[c].kind = "bootstrap" => BootstrapClaim(does[c].who) \in tx[c].puts
  BY <1>1, <1>3 DEF Fits, Behind, Creating
<1>6. \A d \in Calls : \A row : d # c => (Made(d, row)' => Made(d, row))
  BY <1>2 DEF Made, Commits
<1>7. \A d \in Calls : \A row : Lasting(row) /\ Made(d, row) => Made(d, row)'
  BY LastingStays DEF Made
<1>8. \A row \in tx[c].puts : Made(c, row)'
  BY DEF Made, Commits, Lands
<1>9. \A r : r.kind \in Creating => Lasting(RootOf(r))
  BY RowTags DEF Lasting, Creating
<1>10. \A p : Lasting(BootstrapClaim(p))
  BY RowTags DEF Lasting
<1>11. ASSUME NEW d \in Calls, does[d].kind = "bootstrap"
       PROVE  /\ Made(d, MemberOf(does[d]))' => Made(d, RootOf(does[d]))'
              /\ Made(d, RootOf(does[d]))' => Made(d, BootstrapClaim(does[d].who))'
  <2>1. does[d].kind \in Creating
    BY <1>11 DEF Creating
  <2>2. CASE d = c
    <3>1. Made(c, RootOf(does[c]))' /\ Made(c, BootstrapClaim(does[c].who))'
      BY <1>2, <1>4, <1>5, <1>8, <1>11, <2>1, <2>2
    <3> QED
      BY <2>2, <3>1
  <2>3. CASE d # c
    <3>1. /\ Made(d, MemberOf(does[d])) => Made(d, RootOf(does[d]))
          /\ Made(d, RootOf(does[d])) => Made(d, BootstrapClaim(does[d].who))
      BY <1>11 DEF WrittenTogether
    <3>2. Made(d, RootOf(does[d])) => Made(d, RootOf(does[d]))'
      BY <1>2, <1>7, <1>9, <2>1
    <3>3. Made(d, BootstrapClaim(does[d].who)) => Made(d, BootstrapClaim(does[d].who))'
      BY <1>2, <1>7, <1>10
    <3>4. /\ Made(d, MemberOf(does[d]))' => Made(d, MemberOf(does[d]))
          /\ Made(d, RootOf(does[d]))' => Made(d, RootOf(does[d]))
      BY <1>2, <1>6, <2>3
    <3> QED
      BY <3>1, <3>2, <3>3, <3>4
  <2> QED
    BY <2>2, <2>3
<1>12. ASSUME NEW d \in Calls, does[d].kind \in Creating, Made(d, KeyOf(does[d]))'
       PROVE  RootOf(does[d]) \in DOMAIN rows'
  <2>1. CASE d = c
    BY <1>4, <1>12, <2>1 DEF Commits, Lands
  <2>2. CASE d # c
    <3>1. Made(d, KeyOf(does[d]))
      BY <1>2, <1>6, <1>12, <2>2
    <3>2. RootOf(does[d]) \in DOMAIN rows
      BY <1>12, <3>1 DEF WrittenTogether
    <3> QED
      BY <1>9, <1>12, <3>2, LastingStays
  <2> QED
    BY <2>1, <2>2
<1> QED
  BY <1>2, <1>11, <1>12 DEF WrittenTogether

LEMMA WrittenStep ==
  ASSUME Base, WrittenTogether, [Next]_vars
  PROVE  WrittenTogether'
<1>1. ASSUME UNCHANGED <<does, rows>> PROVE WrittenTogether'
  BY <1>1 DEF WrittenTogether, Made
<1>2. CASE Next
  <2>1. PICK c \in Calls : \/ Begin(c) \/ Proceeds(c) \/ Stops(c) \/ Cut(c)
                           \/ \E op \in Sources : Commits(c, op)
    BY <1>2, StepKinds
  <2> QED
    BY <1>1, <2>1, RowsKept, WrittenByCommit
<1>3. CASE UNCHANGED vars
  BY <1>1, <1>3 DEF vars
<1> QED
  BY <1>2, <1>3

(* The claim of a principal has one owner, and he made one organization.   *)
LEMMA FoundersByClaim ==
  ASSUME WrittenTogether
  PROVE  FoundersFoundOnce
<1> SUFFICES ASSUME NEW c \in Bootstraps, NEW d \in Bootstraps
             PROVE  /\ Made(c, Member(Where(c), Who(c))) => Made(c, <<"organization", Where(c)>>)
                    /\ /\ Made(c, <<"organization", Where(c)>>)
                       /\ Made(d, <<"organization", Where(d)>>)
                       /\ Who(c) = Who(d)
                       => c = d
  BY DEF FoundersFoundOnce
<1>1. /\ c \in Calls /\ does[c].kind = "bootstrap"
      /\ d \in Calls /\ does[d].kind = "bootstrap"
  BY DEF Bootstraps, Kind
<1>2. /\ RootOf(does[c]) = <<"organization", Where(c)>>
      /\ RootOf(does[d]) = <<"organization", Where(d)>>
      /\ MemberOf(does[c]) = Member(Where(c), Who(c))
      /\ BootstrapClaim(does[c].who) = BootstrapClaim(Who(c))
      /\ BootstrapClaim(does[d].who) = BootstrapClaim(Who(d))
  BY <1>1 DEF RootOf, MemberOf, Where, Who
<1>3. /\ Made(c, Member(Where(c), Who(c))) => Made(c, <<"organization", Where(c)>>)
      /\ Made(c, <<"organization", Where(c)>>) => Made(c, BootstrapClaim(Who(c)))
      /\ Made(d, <<"organization", Where(d)>>) => Made(d, BootstrapClaim(Who(d)))
  BY <1>1, <1>2 DEF WrittenTogether
<1>4. Made(c, BootstrapClaim(Who(c))) /\ Made(d, BootstrapClaim(Who(d))) /\ Who(c) = Who(d) => c = d
  BY DEF Made
<1> QED
  BY <1>3, <1>4

-----------------------------------------------------------------------------
(* Keys                                                                    *)

LEMMA KeysInit ==
  ASSUME Init
  PROVE  KeysAnswerOnce
<1>1. \A c \in Calls : reply[c] = "none"
  BY DEF Init
<1> QED
  BY <1>1 DEF KeysAnswerOnce

LEMMA KeysStep ==
  ASSUME Base, KeysAnswerOnce, [Next]_vars
  PROVE  KeysAnswerOnce'
<1> DEFINE Answered(d) ==
      /\ reply[d] = "created" => KeyOf(does[d]) \in DOMAIN rows /\ rows[KeyOf(does[d])] = d
      /\ reply[d] = "replayed" => KeyOf(does[d]) \in DOMAIN rows /\ Digest(does[rows[KeyOf(does[d])]]) = Digest(does[d])
<1>1. KeysAnswerOnce <=> \A d \in Calls : does[d].kind \in Keyed => Answered(d)
  BY KeyOfRequest DEF KeysAnswerOnce, Repeats, Kind
<1>2. KeysAnswerOnce' <=> \A d \in Calls : does'[d].kind \in Keyed => Answered(d)'
  <2>1. \A d : KeyRow(d)' = KeyOf(does'[d])
    BY DEF KeyRow, KeyOf, Scope, Kind, Where, Who
  <2> QED
    BY <2>1 DEF KeysAnswerOnce, Repeats, Kind
<1>3. reply \in [Calls -> Replies]
  BY DEF Base, TypeOK
<1>4. CASE UNCHANGED vars
  BY <1>1, <1>2, <1>4 DEF vars
<1>5. ASSUME NEW c \in Calls, NEW d \in Calls, does[d].kind \in Keyed,
             \/ Begin(c) \/ Proceeds(c) \/ Stops(c) \/ Cut(c) \/ \E op \in Sources : Commits(c, op)
      PROVE  does' = does /\ Answered(d)'
  <2>1. Answered(d)
    BY <1>1, <1>5
  <2>2. CASE Begin(c) \/ Proceeds(c) \/ Stops(c) \/ Cut(c)
    <3>1. UNCHANGED <<does, rows>>
      BY <2>2, RowsKept
    <3>2. \/ reply'[d] = reply[d] \/ reply'[d] \notin {"created", "replayed"}
          \/ KeyOf(does[d]) \in DOMAIN rows /\ Digest(does[rows[KeyOf(does[d])]]) = Digest(does[d])
             /\ reply'[d] # "created"
      BY <1>3, <2>2 DEF Begin, Proceeds, Stops, Cut, Ends
    <3> QED
      BY <2>1, <3>1, <3>2
  <2>3. ASSUME NEW op \in Sources, Commits(c, op) PROVE does' = does /\ Answered(d)'
    <3>1. does' = does
      BY <2>3 DEF Commits
    <3>2. Lasting(KeyOf(does[d]))
      BY RowTags DEF Lasting
    <3>3. KeyOf(does[d]) \in DOMAIN rows =>
            KeyOf(does[d]) \in DOMAIN rows' /\ rows'[KeyOf(does[d])] = rows[KeyOf(does[d])]
      BY <2>3, <3>2, LastingStays
    <3>4. CASE d # c
      BY <1>3, <2>1, <2>3, <3>1, <3>3, <3>4 DEF Commits
    <3>5. CASE d = c
      <4>1. /\ reply[c] = "open" /\ Fits(does[c], todo[c], tx[c].puts)
            /\ todo[c][1].op = op /\ 1 \in DOMAIN todo[c] /\ Suits(does[c], todo[c][1])
        BY <2>3, AtHead DEF Commits
      <4>2. reply'[c] = After[op]
        BY <1>3, <2>3 DEF Commits
      <4>3. CASE op = "finish"
        <5>1. KeyOf(does[c]) \in tx[c].puts
          BY <1>5, <3>5, <4>1, <4>3 DEF Fits, Behind
        <5>2. KeyOf(does[c]) \in DOMAIN rows' /\ rows'[KeyOf(does[c])] = c
          BY <2>3, <5>1 DEF Commits, Lands
        <5>3. reply'[c] = "created"
          BY <4>2, <4>3 DEF After
        <5> QED
          BY <3>1, <3>5, <5>2, <5>3
      <4>4. CASE op = "answer"
        <5>1. KeyOf(does[c]) \in DOMAIN rows /\ Digest(does[rows[KeyOf(does[c])]]) = Digest(does[c])
          BY <4>1, <4>4 DEF Base, AnswersFit
        <5>2. reply'[c] = "replayed"
          BY <4>2, <4>4 DEF After
        <5> QED
          BY <3>1, <3>3, <3>5, <5>1, <5>2
      <4>5. op # "commit"
        BY <1>5, <3>5, <4>1 DEF Suits
      <4> QED
        BY <4>3, <4>4, <4>5 DEF Sources
    <3> QED
      BY <3>4, <3>5
  <2> QED
    BY <1>5, <2>2, <2>3
<1>6. CASE Next
  <2>1. PICK c \in Calls : \/ Begin(c) \/ Proceeds(c) \/ Stops(c) \/ Cut(c)
                           \/ \E op \in Sources : Commits(c, op)
    BY <1>6, StepKinds
  <2>2. does' = does
    BY <2>1, RowsKept DEF Commits
  <2> QED
    BY <1>2, <1>5, <2>1, <2>2
<1> QED
  BY <1>4, <1>6

-----------------------------------------------------------------------------
(* Changes without an audit                                                *)

(* What the steps of a call leave to the others.                           *)
LEMMA OthersKeep ==
  ASSUME Base, NEW c \in Calls,
         \/ Begin(c) \/ Proceeds(c) \/ Stops(c) \/ Cut(c) \/ \E op \in Sources : Commits(c, op)
  PROVE  /\ does' = does /\ reply[c] \in {"none", "open"}
         /\ \A d \in Calls \ {c} : /\ reply'[d] = reply[d] /\ before'[d] = before[d]
                                   /\ todo'[d] = todo[d] /\ tx'[d] = tx[d]
         /\ Begin(c) \/ before' = before
         /\ (\E op \in Sources : Commits(c, op)) \/ changed' = changed
<1>1. /\ reply \in [Calls -> Replies] /\ before \in [Calls -> SUBSET Calls]
      /\ DOMAIN tx = Calls /\ DOMAIN todo = Calls
  BY DEF Base, TypeOK
<1>2. CASE Begin(c)
  BY <1>1, <1>2 DEF Begin, Goes
<1>3. CASE Proceeds(c)
  BY <1>1, <1>3 DEF Proceeds
<1>4. CASE Stops(c)
  BY <1>1, <1>4 DEF Stops, Ends, Goes, Stays
<1>5. CASE Cut(c)
  BY <1>1, <1>5 DEF Cut, Goes
<1>6. CASE \E op \in Sources : Commits(c, op)
  BY <1>1, <1>6 DEF Commits, At
<1> QED
  BY <1>2, <1>3, <1>4, <1>5, <1>6

LEMMA EndedStep ==
  ASSUME Base, EndedBefore, NEW c \in Calls,
         \/ Begin(c) \/ Proceeds(c) \/ Stops(c) \/ Cut(c) \/ \E op \in Sources : Commits(c, op)
  PROVE  EndedBefore'
<1> SUFFICES ASSUME NEW d \in Calls, NEW e \in before'[d]
             PROVE  Ended(e)'
  BY DEF EndedBefore
<1>1. before \in [Calls -> SUBSET Calls]
  BY DEF Base, TypeOK
<1>2. e \in Calls /\ Ended(e)
  <2>1. CASE before'[d] = before[d]
    BY <1>1, <2>1 DEF EndedBefore
  <2>2. CASE Begin(c) /\ d = c
    BY <1>1, <2>2 DEF Begin
  <2> QED
    BY <2>1, <2>2, OthersKeep
<1>3. e # c
  BY <1>2, OthersKeep DEF Ended
<1> QED
  BY <1>2, <1>3, OthersKeep DEF Ended

LEMMA LookedUpStep ==
  ASSUME Base, EndedBefore, LookedUp, NEW c \in Calls,
         \/ Begin(c) \/ Proceeds(c) \/ Stops(c) \/ Cut(c) \/ \E op \in Sources : Commits(c, op)
  PROVE  LookedUp'
<1> SUFFICES ASSUME NEW d \in Calls, reply'[d] = "open", does'[d].kind \in Looking,
                    Without(todo'[d], {"lookup"}), KeyOf(does'[d]) \in DOMAIN rows'
             PROVE  rows'[KeyOf(does'[d])] \notin before'[d]
  BY DEF LookedUp
<1>1. does' = does /\ does[d].kind \in Looking /\ Lasting(KeyOf(does[d]))
  BY OthersKeep, RowTags DEF Lasting
<1>2. reply \in [Calls -> Replies]
  BY DEF Base, TypeOK
<1>3. CASE d # c
  <2>1. /\ reply[d] = "open" /\ Without(todo[d], {"lookup"}) /\ before'[d] = before[d]
        /\ reply[c] \in {"none", "open"}
    BY <1>3, OthersKeep
  <2>2. CASE Begin(c) \/ Proceeds(c) \/ Stops(c) \/ Cut(c)
    BY <1>1, <2>1, <2>2, RowsKept DEF LookedUp
  <2>3. ASSUME NEW op \in Sources, Commits(c, op) PROVE rows'[KeyOf(does[d])] \notin before[d]
    <3>1. CASE KeyOf(does[d]) \in DOMAIN rows
      BY <1>1, <2>1, <2>3, <3>1, LastingStays DEF LookedUp
    <3>2. CASE KeyOf(does[d]) \notin DOMAIN rows
      <4>1. rows'[KeyOf(does[d])] = c
        BY <1>1, <2>3, <3>2 DEF Commits
      <4> QED
        BY <2>1, <4>1 DEF EndedBefore, Ended
    <3> QED
      BY <3>1, <3>2
  <2> QED
    BY <1>1, <2>1, <2>2, <2>3
<1>4. CASE d = c
  <2>1. CASE Begin(c)
    <3>1. todo'[c] = Program(c)
      BY <2>1 DEF Begin, Goes, Base, TypeOK
    <3>2. 1 \in DOMAIN Program(c) /\ Program(c)[1].op = "lookup"
      BY <1>1, <1>4, ProgramsLookFirst DEF Looking, Kind
    <3> QED
      BY <1>4, <3>1, <3>2 DEF Without
  <2>2. CASE Proceeds(c)
    BY <1>1, <1>4, <2>2 DEF Proceeds, LookedUp
  <2>3. CASE Stops(c) \/ Cut(c)
    BY <1>2, <1>4, <2>3 DEF Stops, Cut, Ends
  <2>4. ASSUME NEW op \in Sources, Commits(c, op) PROVE FALSE
    <3>1. todo[c][1].op = op /\ Suits(does[c], todo[c][1])
      BY <2>4, AtHead DEF Commits
    <3>2. op # "commit"
      BY <1>1, <1>4, <3>1 DEF Suits, Looking, Keyed
    <3>3. reply'[c] = After[op] /\ After["finish"] = "created" /\ After["answer"] = "replayed"
      BY <1>2, <2>4 DEF Commits, After
    <3> QED
      BY <1>4, <3>2, <3>3 DEF Sources
  <2> QED
    BY <2>1, <2>2, <2>3, <2>4
<1> QED
  BY <1>3, <1>4

(* A key that is answered was recorded by a call that had not ended when   *)
(* this one began: on a membership the key was looked up, and a call that  *)
(* creates has just inserted what the recorded call would have created.    *)
LEMMA AnswersAreRaced ==
  ASSUME Base, WrittenTogether, EndedBefore, LookedUp, NEW c \in Calls, At(c, "answer")
  PROVE  /\ does[c].kind \in Keyed
         /\ KeyOf(does[c]) \in DOMAIN rows /\ rows[KeyOf(does[c])] \notin before[c]
<1>1. /\ reply[c] = "open" /\ Fits(does[c], todo[c], tx[c].puts)
      /\ todo[c][1].op = "answer" /\ 1 \in DOMAIN todo[c] /\ Suits(does[c], todo[c][1])
  BY AtHead
<1>2. does[c].kind \in Keyed
  BY <1>1 DEF Suits
<1>3. KeyOf(does[c]) \in DOMAIN rows /\ Digest(does[rows[KeyOf(does[c])]]) = Digest(does[c])
  BY <1>1 DEF Base, AnswersFit
<1>4. CASE does[c].kind \in Looking
  <2>1. Without(todo[c], {"lookup"})
    BY <1>1 DEF Fits, Without
  <2> QED
    BY <1>1, <1>2, <1>3, <1>4, <2>1 DEF LookedUp
<1>5. CASE does[c].kind \in Creating
  <2>1. RootOf(does[c]) \in tx[c].puts
    BY <1>1, <1>5 DEF Fits, Behind, Inner
  <2>2. RootOf(does[c]) \notin DOMAIN rows
    <3>1. Lasting(RootOf(does[c]))
      BY <1>5, RowTags DEF Lasting, Creating
    <3> QED
      BY <2>1, <3>1 DEF Base, InsertsAreNew
  <2>3. rows[KeyOf(does[c])] \notin Calls
    <3> SUFFICES ASSUME rows[KeyOf(does[c])] \in Calls PROVE FALSE
      OBVIOUS
    <3>1. PICK d \in Calls : d = rows[KeyOf(does[c])]
      OBVIOUS
    <3>2. /\ does[d].kind = does[c].kind
          /\ KeyOf(does[d]) = KeyOf(does[c]) /\ RootOf(does[d]) = RootOf(does[c])
      <4>1. Digest(does[d]) = Digest(does[c])
        BY <1>3, <3>1
      <4>2. /\ does[d].kind = does[c].kind /\ does[d].where = does[c].where
            /\ does[d].key = does[c].key
            /\ does[c].kind = "bootstrap" => does[d].who = does[c].who
        BY <4>1 DEF Digest
      <4> QED
        BY <1>5, <4>2 DEF KeyOf, RootOf, Creating
    <3>3. Made(d, KeyOf(does[d]))
      BY <1>3, <3>1, <3>2 DEF Made
    <3>4. RootOf(does[d]) \in DOMAIN rows
      BY <1>5, <3>2, <3>3 DEF WrittenTogether
    <3> QED
      BY <2>2, <3>2, <3>4
  <2> QED
    BY <1>2, <1>3, <2>3 DEF Base, TypeOK
<1> QED
  BY <1>2, <1>4, <1>5 DEF Keyed, Looking, Creating

LEMMA AccountedStep ==
  ASSUME Base, WrittenTogether, EndedBefore, LookedUp, Accounted, NEW c \in Calls,
         \/ Begin(c) \/ Proceeds(c) \/ Stops(c) \/ Cut(c) \/ \E op \in Sources : Commits(c, op)
  PROVE  Accounted'
<1> SUFFICES ASSUME NEW d \in Calls, d \in changed'
             PROVE  /\ reply'[d] # "none"
                    /\ reply'[d] = "open" =>
                         does'[d].kind \notin Keyed /\ Only(todo'[d], Closing)
                    /\ Ended(d)' /\ Audit(d) \notin DOMAIN rows' =>
                         \/ does'[d].kind \notin Keyed /\ reply'[d] \in {"cut", "failed"}
                         \/ /\ does'[d].kind \in Keyed /\ reply'[d] = "replayed"
                            /\ KeyOf(does'[d]) \in DOMAIN rows'
                            /\ rows'[KeyOf(does'[d])] \notin before'[d]
  BY DEF Accounted
<1>1. does' = does /\ Lasting(KeyOf(does[d])) /\ Audit(d)[1] = "audit"
  BY OthersKeep, RowTags DEF Lasting
<1>2. reply \in [Calls -> Replies]
  BY DEF Base, TypeOK
<1>3. /\ KeyOf(does[d]) \in DOMAIN rows =>
           KeyOf(does[d]) \in DOMAIN rows' /\ rows'[KeyOf(does[d])] = rows[KeyOf(does[d])]
      /\ Audit(d) \in DOMAIN rows => Audit(d) \in DOMAIN rows'
  BY <1>1, RowsKept, LastingStays
<1>4. CASE d # c
  <2>1. d \in changed
    BY <1>4, OthersKeep DEF Commits
  <2>2. /\ reply'[d] = reply[d] /\ todo'[d] = todo[d] /\ before'[d] = before[d]
    BY <1>4, OthersKeep
  <2> QED
    BY <1>1, <1>3, <2>1, <2>2 DEF Accounted, Ended
<1>5. CASE d = c
  <2>1. CASE Begin(c)
    BY <1>5, <2>1 DEF Begin, Accounted
  <2>2. CASE Proceeds(c)
    BY <1>1, <1>5, <2>2 DEF Proceeds, Accounted, Ended
  <2>3. CASE Stops(c)
    <3>1. PICK how \in {"replayed", "refused", "found", "failed"} :
            Ends(c, how) /\ (Only(todo[c], Closing) => how = "failed")
      BY <2>3 DEF Stops
    <3>2. reply[c] = "open" /\ reply'[c] = how /\ changed' = changed
      BY <1>2, <2>3, <3>1 DEF Stops, Ends
    <3>3. how = "failed" /\ does[c].kind \notin Keyed
      BY <1>5, <3>1, <3>2 DEF Accounted
    <3> QED
      BY <1>1, <1>5, <3>2, <3>3
  <2>4. CASE Cut(c)
    <3>1. d \in changed /\ reply[c] = "open" /\ reply'[c] = "cut"
      BY <1>2, <1>5, <2>4 DEF Cut
    <3> QED
      BY <1>1, <1>5, <3>1 DEF Accounted
  <2>5. ASSUME NEW op \in Sources, Commits(c, op)
        PROVE  /\ reply'[c] # "none"
               /\ reply'[c] = "open" =>
                    does[c].kind \notin Keyed /\ Only(todo'[c], Closing)
               /\ Ended(c)' /\ Audit(c) \notin DOMAIN rows' =>
                    /\ does[c].kind \in Keyed /\ reply'[c] = "replayed"
                    /\ KeyOf(does[c]) \in DOMAIN rows'
                    /\ rows'[KeyOf(does[c])] \notin before'[c]
    <3>1. /\ reply[c] = "open" /\ Fits(does[c], todo[c], tx[c].puts) /\ todo[c][1].op = op
          /\ Len(todo[c]) > 0 /\ IsProgram(todo[c])
          /\ 1 \in DOMAIN todo[c] /\ Suits(does[c], todo[c][1])
      BY <2>5, AtHead DEF Commits
    <3>2. /\ reply'[c] = After[op] /\ todo'[c] = Tail(todo[c]) /\ before' = before
          /\ After["commit"] = "open" /\ After["finish"] = "created" /\ After["answer"] = "replayed"
      BY <1>2, <2>5 DEF Commits, After
    <3>3. CASE op = "commit"
      <4>1. does[c].kind \notin Keyed
        BY <3>1, <3>3 DEF Suits
      <4>2. \A i \in DOMAIN Tail(todo[c]) : Tail(todo[c])[i].op \in Closing
        <5> SUFFICES ASSUME NEW i \in DOMAIN Tail(todo[c])
                     PROVE  Tail(todo[c])[i].op \in Closing
          OBVIOUS
        <5>1. /\ i \in Nat /\ i + 1 \in DOMAIN todo[c] /\ 1 < i + 1
              /\ Tail(todo[c])[i] = todo[c][i + 1]
          BY <3>1, TailOfProgram
        <5> QED
          BY <3>1, <3>3, <5>1 DEF Fits, Closing
      <4> QED
        BY <3>2, <3>3, <4>1, <4>2 DEF Only, Ended
    <3>4. CASE op = "finish"
      <4>1. Audit(c) \in DOMAIN rows'
        BY <2>5, <3>4 DEF Commits, Lands
      <4> QED
        BY <3>2, <3>4, <4>1
    <3>5. CASE op = "answer"
      <4>1. /\ does[c].kind \in Keyed
            /\ KeyOf(does[c]) \in DOMAIN rows /\ rows[KeyOf(does[c])] \notin before[c]
        BY <2>5, <3>5, AnswersAreRaced DEF Commits
      <4> QED
        BY <1>3, <1>5, <3>2, <3>5, <4>1
    <3> QED
      BY <3>3, <3>4, <3>5 DEF Sources
  <2> QED
    BY <1>1, <1>5, <2>1, <2>2, <2>3, <2>4, <2>5
<1> QED
  BY <1>4, <1>5

-----------------------------------------------------------------------------
(* The reconciliations                                                     *)

LEMMA GroupMembers ==
  \A g, h, p, q : /\ GroupMember(g, p) = GroupMember(h, q) => g = h /\ p = q
                  /\ GroupMember(g, p)[1] = "group member"
BY DEF GroupMember

LEMMA CommitsFirstInTail ==
  ASSUME NEW s, IsProgram(s), Len(s) > 0, CommitsFirst(s), s[1].op # "commit"
  PROVE  CommitsFirst(Tail(s))
<1> SUFFICES ASSUME NEW i \in DOMAIN Tail(s), Tail(s)[i].op = "finish"
             PROVE  \E j \in 1 .. (i - 1) : Tail(s)[j].op = "commit"
  BY DEF CommitsFirst
<1>1. /\ i \in Nat /\ i \in 1 .. (Len(s) - 1) /\ Len(s) \in Nat
      /\ i + 1 \in DOMAIN s /\ Tail(s)[i] = s[i + 1]
  BY TailOfProgram
<1>2. PICK j \in 1 .. ((i + 1) - 1) : s[j].op = "commit"
  BY <1>1 DEF CommitsFirst
<1>3. j # 1 /\ j \in 1 .. i
  BY <1>1, <1>2
<1>4. j - 1 \in 1 .. (i - 1) /\ j - 1 \in 1 .. (Len(s) - 1) /\ (j - 1) + 1 = j
  BY <1>1, <1>3
<1>5. Tail(s)[j - 1] = s[j]
  BY <1>4, TailOfProgram
<1> QED
  BY <1>2, <1>4, <1>5

LEMMA TailHasTheRest ==
  ASSUME NEW s, IsProgram(s), Len(s) > 0, NEW i \in DOMAIN s, i # 1
  PROVE  \E j \in DOMAIN Tail(s) : Tail(s)[j] = s[i]
<1>1. /\ Len(s) \in Nat /\ i \in 1 .. Len(s) /\ DOMAIN Tail(s) = 1 .. (Len(s) - 1)
  BY TailOfProgram
<1>2. i - 1 \in 1 .. (Len(s) - 1) /\ (i - 1) + 1 = i
  BY <1>1
<1>3. Tail(s)[i - 1] = s[i]
  BY <1>2, TailOfProgram
<1> QED
  BY <1>1, <1>2, <1>3

(* A call that is not beside a reconciliation stays away from its rows.    *)
LEMMA CommitsApart ==
  ASSUME Base, EndedBefore, NEW c \in Calls, NEW op \in Sources, Commits(c, op),
         NEW d \in Calls \ {c}, does[d].kind = "reconcile", Alone(d), NEW p
  PROVE  GroupMember(Where(d), p) \in DOMAIN rows' <=> GroupMember(Where(d), p) \in DOMAIN rows
<1> DEFINE row == GroupMember(Where(d), p)
<1>1. row[1] = "group member" /\ row # Audit(c)
  <2>1. row[1] = "group member" /\ Audit(c)[1] = "audit"
    BY GroupMembers, RowTags
  <2> HIDE DEF row
  <2> QED
    BY <2>1
<1>2. ~(does[c].kind = "reconcile" /\ Where(c) = Where(d))
  <2>1. reply[c] = "open"
    BY DEF Commits, At
  <2>2. c \in Reconciles(Where(d)) \ {d} => c \in before[d]
    BY <2>1 DEF Alone
  <2> QED
    BY <2>1, <2>2 DEF Reconciles, Kind, EndedBefore, Ended
<1>3. row \notin tx[c].puts \cup tx[c].dels
  <2> SUFFICES ASSUME row \in tx[c].puts \cup tx[c].dels PROVE FALSE
    OBVIOUS
  <2>1. does[c].kind = "reconcile" /\ row \in Wanted(does[c]) \cup Unwanted(does[c])
    BY <1>1 DEF Base, GroupRows
  <2>2. PICK q : row = GroupMember(does[c].where, q)
    BY <2>1 DEF Wanted, Unwanted
  <2>3. does[c].where = Where(d)
    BY <2>2, GroupMembers
  <2> QED
    BY <1>2, <2>1, <2>3 DEF Where
<1> QED
  BY <1>1, <1>3 DEF Commits, Lands

(* A statement that went on with the put and the delete of others ahead.   *)
LEMMA TowardGoesOn ==
  ASSUME NEW c \in Calls, IsProgram(todo[c]), Len(todo[c]) > 0, CommitsFirst(todo[c]), Toward(c),
         todo[c][1].op \in {"check", "put", "readback", "delete"},
         todo'[c] = Tail(todo[c]), UNCHANGED <<does, rows>>,
         tx[c].puts \subseteq tx'[c].puts, tx[c].dels \subseteq tx'[c].dels,
         todo[c][1].op = "put" => todo[c][1].row \in DOMAIN rows \cup tx'[c].puts,
         todo[c][1].op = "delete" => todo[c][1].row \notin DOMAIN rows \/ todo[c][1].row \in tx'[c].dels
  PROVE  CommitsFirst(todo[c])' /\ Toward(c)'
<1> DEFINE g == does[c].where
<1>1. CommitsFirst(Tail(todo[c]))
  BY CommitsFirstInTail
<1>2. \A x : /\ Do("put", x).op = "put" /\ Do("put", x).row = x
             /\ Do("delete", x).op = "delete" /\ Do("delete", x).row = x
  BY DEF Do
<1>3. ASSUME NEW p \in does[c].wants
      PROVE  \/ GroupMember(g, p) \in DOMAIN rows' \cup tx'[c].puts
             \/ \E i \in DOMAIN todo'[c] : todo'[c][i] = Do("put", GroupMember(g, p))
  <2>1. \/ GroupMember(g, p) \in DOMAIN rows \cup tx[c].puts
        \/ \E i \in DOMAIN todo[c] : todo[c][i] = Do("put", GroupMember(g, p))
    BY <1>3 DEF Toward, Where
  <2>2. ASSUME NEW i \in DOMAIN todo[c], todo[c][i] = Do("put", GroupMember(g, p))
        PROVE  \/ GroupMember(g, p) \in DOMAIN rows \cup tx'[c].puts
               \/ \E j \in DOMAIN todo'[c] : todo'[c][j] = Do("put", GroupMember(g, p))
    <3>1. CASE i = 1
      BY <1>2, <2>2, <3>1
    <3>2. CASE i # 1
      BY <2>2, <3>2, TailHasTheRest
    <3> QED
      BY <3>1, <3>2
  <2> QED
    BY <2>1, <2>2
<1>4. ASSUME NEW p \in Principals \ does[c].wants
      PROVE  \/ GroupMember(g, p) \notin DOMAIN rows' \/ GroupMember(g, p) \in tx'[c].dels
             \/ \E i \in DOMAIN todo'[c] : todo'[c][i] = Do("delete", GroupMember(g, p))
  <2>1. \/ GroupMember(g, p) \notin DOMAIN rows \/ GroupMember(g, p) \in tx[c].dels
        \/ \E i \in DOMAIN todo[c] : todo[c][i] = Do("delete", GroupMember(g, p))
    BY <1>4 DEF Toward, Where
  <2>2. ASSUME NEW i \in DOMAIN todo[c], todo[c][i] = Do("delete", GroupMember(g, p))
        PROVE  \/ GroupMember(g, p) \notin DOMAIN rows \/ GroupMember(g, p) \in tx'[c].dels
               \/ \E j \in DOMAIN todo'[c] : todo'[c][j] = Do("delete", GroupMember(g, p))
    <3>1. CASE i = 1
      BY <1>2, <2>2, <3>1
    <3>2. CASE i # 1
      BY <2>2, <3>2, TailHasTheRest
    <3> QED
      BY <3>1, <3>2
  <2> QED
    BY <2>1, <2>2
<1>5. Toward(c)'
  <2>1. does'[c] = does[c]
    OBVIOUS
  <2> QED
    BY <1>3, <1>4, <2>1 DEF Toward, Where
<1> QED
  BY <1>1, <1>5

(* A put that met its row, and is to read it back.                         *)
LEMMA TowardReadsBack ==
  ASSUME NEW c \in Calls, IsProgram(todo[c]), Len(todo[c]) > 0, CommitsFirst(todo[c]), Toward(c),
         todo[c][1].op = "put", todo[c][1].row \in DOMAIN rows \cup tx[c].puts,
         todo'[c] = [todo[c] EXCEPT ![1] = Do("readback", todo[c][1].row)],
         UNCHANGED <<does, rows, tx>>
  PROVE  CommitsFirst(todo[c])' /\ Toward(c)'
<1>1. /\ DOMAIN todo'[c] = DOMAIN todo[c]
      /\ \A i \in DOMAIN todo[c] : i # 1 => todo'[c][i] = todo[c][i]
      /\ 1 \in DOMAIN todo[c] /\ DOMAIN todo[c] = 1 .. Len(todo[c]) /\ Len(todo[c]) \in Nat
  BY TailOfProgram
<1>2. todo'[c][1].op = "readback"
  BY <1>1 DEF Do
<1>3. \A x : /\ Do("put", x).op = "put" /\ Do("put", x).row = x
             /\ Do("delete", x).op = "delete"
  BY DEF Do
<1>4. ASSUME NEW i \in DOMAIN todo'[c], todo'[c][i].op = "finish"
      PROVE  \E j \in 1 .. (i - 1) : todo'[c][j].op = "commit"
  <2>1. i # 1 /\ todo[c][i].op = "finish" /\ i \in DOMAIN todo[c]
    BY <1>1, <1>2, <1>4
  <2>2. PICK j \in 1 .. (i - 1) : todo[c][j].op = "commit"
    BY <2>1 DEF CommitsFirst
  <2>3. j # 1 /\ j \in DOMAIN todo[c]
    BY <1>1, <2>1, <2>2
  <2> QED
    BY <1>1, <2>2, <2>3
<1>5. ASSUME NEW p \in does[c].wants
      PROVE  \/ GroupMember(does[c].where, p) \in DOMAIN rows \cup tx[c].puts
             \/ \E i \in DOMAIN todo'[c] : todo'[c][i] = Do("put", GroupMember(does[c].where, p))
  <2>1. \/ GroupMember(does[c].where, p) \in DOMAIN rows \cup tx[c].puts
        \/ \E i \in DOMAIN todo[c] : todo[c][i] = Do("put", GroupMember(does[c].where, p))
    BY DEF Toward, Where
  <2> QED
    BY <1>1, <1>3, <2>1
<1>6. ASSUME NEW p \in Principals \ does[c].wants
      PROVE  \/ GroupMember(does[c].where, p) \notin DOMAIN rows
             \/ GroupMember(does[c].where, p) \in tx[c].dels
             \/ \E i \in DOMAIN todo'[c] : todo'[c][i] = Do("delete", GroupMember(does[c].where, p))
  <2>1. \/ GroupMember(does[c].where, p) \notin DOMAIN rows
        \/ GroupMember(does[c].where, p) \in tx[c].dels
        \/ \E i \in DOMAIN todo[c] : todo[c][i] = Do("delete", GroupMember(does[c].where, p))
    BY DEF Toward, Where
  <2> QED
    BY <1>1, <1>3, <2>1
<1>7. CommitsFirst(todo[c])'
  BY <1>4 DEF CommitsFirst
<1>8. Toward(c)'
  <2>1. does' = does /\ rows' = rows /\ tx' = tx
    OBVIOUS
  <2> QED
    BY <1>5, <1>6, <2>1 DEF Toward, Where
<1> QED
  BY <1>7, <1>8

(* What a reconciliation compares is what it has to do.                    *)
LEMMA DiffGoesToward ==
  ASSUME Base, NEW c \in Calls, does[c].kind = "reconcile", Diff(c)
  PROVE  /\ reply'[c] = "open" => CommitsFirst(todo[c])' /\ Toward(c)'
         /\ reply'[c] \in {"created", "found"} => Reached(c)'
<1> DEFINE g == does[c].where
           missing == does[c].wants \ Members(g)
           excess == Members(g) \ does[c].wants
<1>1. /\ does[c].wants \subseteq Principals /\ reply \in [Calls -> Replies] /\ DOMAIN todo = Calls
      /\ reply[c] = "open"
  BY DEF Base, RequestsFit, TypeOK, Diff, At
<1>2. CASE missing \cup excess = {}
  <2>1. UNCHANGED <<does, rows>> /\ reply'[c] = "found"
    BY <1>1, <1>2 DEF Diff, Ends, Stays, Where
  <2>2. Members(g) = does[c].wants
    BY <1>2
  <2>3. Reached(c)'
    BY <2>1, <2>2 DEF Reached, Members, Where
  <2> QED
    BY <2>1, <2>3
<1>3. CASE missing \cup excess # {}
  <2>1. PICK s : s = Merged(Joins(Where(c), missing), Leaves(Where(c), excess))
                       \o <<Do("commit", Audit(c)), Finish(c)>>
    OBVIOUS
  <2>2. todo'[c] = s /\ UNCHANGED <<does, rows, tx, reply>>
    BY <1>1, <1>3, <2>1 DEF Diff, Goes, OnlyReads, Stays, Where
  <2>3. /\ missing \subseteq Nat /\ IsFiniteSet(missing) /\ missing \subseteq does[c].wants
        /\ excess \subseteq Nat /\ IsFiniteSet(excess) /\ excess \subseteq Principals \ does[c].wants
    <3>1. /\ missing \subseteq Principals /\ missing \subseteq does[c].wants
          /\ excess \subseteq Principals \ does[c].wants
      BY <1>1 DEF Members
    <3>2. Principals \subseteq Nat /\ IsFiniteSet(Principals)
      BY MembershipAssumption
    <3> HIDE DEF missing, excess
    <3> QED
      BY <3>1, <3>2, FS_Subset
  <2>4. /\ \A p \in does[c].wants : p \in missing \/ GroupMember(g, p) \in DOMAIN rows
        /\ \A p \in Principals \ does[c].wants : p \in excess \/ GroupMember(g, p) \notin DOMAIN rows
    BY DEF Members
  <2> HIDE DEF missing, excess
  <2>5. /\ CommitsFirst(s)
        /\ \A p \in missing : \E i \in DOMAIN s : s[i] = Do("put", GroupMember(Where(c), p))
        /\ \A p \in excess : \E i \in DOMAIN s : s[i] = Do("delete", GroupMember(Where(c), p))
    <3>1. Kind(c) = "reconcile"
      BY DEF Kind
    <3>2. /\ Fits(does[c], s, {}) /\ CommitsFirst(s)
          /\ Names(s, "put", Where(c), missing) /\ Names(s, "delete", Where(c), excess)
      BY <2>1, <2>3, <3>1, DiffFits
    <3> QED
      BY <3>2 DEF Names
  <2>6. Toward(c)'
    BY <2>2, <2>4, <2>5 DEF Toward, Where
  <2> QED
    BY <1>1, <2>2, <2>5, <2>6
<1> QED
  BY <1>2, <1>3

(* What it commits is what it was asked for.                               *)
LEMMA CommitReaches ==
  ASSUME Base, NEW c \in Calls, does[c].kind = "reconcile", NEW op \in Sources, Commits(c, op),
         Reaching(c)
  PROVE  /\ reply'[c] = "open" => Reaching(c)'
         /\ reply'[c] \in {"created", "found"} => Reached(c)'
<1> DEFINE g == does[c].where
<1>1. /\ reply[c] = "open" /\ Fits(does[c], todo[c], tx[c].puts) /\ todo[c][1].op = op
      /\ Len(todo[c]) > 0 /\ IsProgram(todo[c])
      /\ 1 \in DOMAIN todo[c] /\ Suits(does[c], todo[c][1])
  BY AtHead DEF Commits
<1>2. /\ does[c].wants \subseteq Principals /\ reply \in [Calls -> Replies]
  BY DEF Base, RequestsFit, TypeOK
<1>3. /\ reply'[c] = After[op] /\ todo'[c] = Tail(todo[c]) /\ does' = does /\ tx'[c] = NoWrites
      /\ After["commit"] = "open" /\ After["finish"] = "created"
  BY <1>2 DEF Commits, After
<1>4. /\ \A p : GroupMember(g, p)[1] = "group member" /\ GroupMember(g, p) # Audit(c)
      /\ \A p, q : GroupMember(g, p) = GroupMember(g, q) => p = q
  <2>1. Audit(c)[1] = "audit" /\ \A p : GroupMember(g, p)[1] = "group member"
    BY GroupMembers, RowTags
  <2>2. \A p : GroupMember(g, p) # Audit(c)
    BY <2>1
  <2>3. \A p, q : GroupMember(g, p) = GroupMember(g, q) => p = q
    BY DEF GroupMember
  <2> QED
    BY <2>1, <2>2, <2>3
<1>5. /\ \A p : GroupMember(g, p) \in tx[c].puts => p \in does[c].wants
      /\ \A p : GroupMember(g, p) \in tx[c].dels => p \notin does[c].wants
  <2>1. ASSUME NEW p, GroupMember(g, p) \in tx[c].puts PROVE p \in does[c].wants
    <3>1. GroupMember(g, p) \in Wanted(does[c])
      BY <1>4, <2>1 DEF Base, GroupRows
    <3>2. PICK q \in does[c].wants : GroupMember(g, p) = GroupMember(g, q)
      BY <3>1 DEF Wanted
    <3> QED
      BY <1>4, <3>2
  <2>2. ASSUME NEW p, GroupMember(g, p) \in tx[c].dels PROVE p \notin does[c].wants
    <3>1. GroupMember(g, p) \in Unwanted(does[c])
      BY <1>4, <2>2 DEF Base, GroupRows
    <3>2. PICK q \in Principals \ does[c].wants : GroupMember(g, p) = GroupMember(g, q)
      BY <3>1 DEF Unwanted
    <3> QED
      BY <1>4, <3>2
  <2> QED
    BY <2>1, <2>2
<1>6. CASE op = "commit"
  <2>1. CommitsFirst(todo[c]) /\ Toward(c)
    BY <1>1, <1>6 DEF Reaching, Only
  <2>2. ASSUME NEW i \in DOMAIN todo[c], i # 1 PROVE todo[c][i].op = "finish"
    <3>1. i \in Nat /\ 1 < i
      BY <1>1, <2>2, TailOfProgram
    <3> QED
      BY <1>1, <1>6, <3>1 DEF Fits
  <2>3. \A i \in DOMAIN todo[c] : todo[c][i].op \in {"commit", "finish"}
    BY <1>1, <1>6, <2>2
  <2>4. \A x : Do("put", x).op = "put" /\ Do("delete", x).op = "delete"
    BY DEF Do
  <2>5. /\ \A p \in does[c].wants : GroupMember(g, p) \in DOMAIN rows \cup tx[c].puts
        /\ \A p \in Principals \ does[c].wants :
             GroupMember(g, p) \notin DOMAIN rows \/ GroupMember(g, p) \in tx[c].dels
    BY <2>1, <2>3, <2>4 DEF Toward, Where
  <2>6. \A p \in Principals : GroupMember(g, p) \in DOMAIN rows' <=> p \in does[c].wants
    <3> SUFFICES ASSUME NEW p \in Principals
                 PROVE  GroupMember(g, p) \in DOMAIN rows' <=> p \in does[c].wants
      OBVIOUS
    <3>1. GroupMember(g, p) \in DOMAIN rows' <=>
            \/ GroupMember(g, p) \in tx[c].puts
            \/ GroupMember(g, p) \in DOMAIN rows /\ GroupMember(g, p) \notin tx[c].dels
      BY <1>4 DEF Commits, Lands
    <3>2. CASE p \in does[c].wants
      BY <1>5, <2>5, <3>1, <3>2
    <3>3. CASE p \notin does[c].wants
      BY <1>5, <2>5, <3>1, <3>3
    <3> QED
      BY <3>2, <3>3
  <2>7. Reached(c)'
    BY <1>2, <1>3, <2>6 DEF Reached, Members, Where
  <2>8. Only(todo[c], {"finish"})'
    <3>1. \A i \in DOMAIN Tail(todo[c]) : Tail(todo[c])[i].op = "finish"
      BY <1>1, <2>2, AfterHead
    <3> QED
      BY <1>3, <3>1 DEF Only
  <2> QED
    BY <1>3, <1>6, <2>7, <2>8 DEF Reaching
<1>7. CASE op = "finish"
  <2>1. ~CommitsFirst(todo[c])
    BY <1>1, <1>7 DEF CommitsFirst
  <2>2. tx[c] = NoWrites /\ Reached(c)
    BY <1>1, <1>7, <2>1 DEF Reaching
  <2>3. \A p : GroupMember(g, p) \in DOMAIN rows' <=> GroupMember(g, p) \in DOMAIN rows
    <3>1. tx[c].puts = {} /\ tx[c].dels = {}
      BY <2>2 DEF NoWrites
    <3> QED
      BY <1>4, <3>1 DEF Commits, Lands
  <2>4. Reached(c)'
    BY <1>3, <2>2, <2>3 DEF Reached, Members, Where
  <2> QED
    BY <1>3, <1>7, <2>4
<1>8. op # "answer"
  BY <1>1 DEF Suits
<1> QED
  BY <1>6, <1>7, <1>8 DEF Sources

(* Every statement of a reconciliation by itself.                          *)
LEMMA ReconcileGoesOn ==
  ASSUME Base, NEW c \in Calls, does[c].kind = "reconcile", Statement(c), Reaching(c)
  PROVE  /\ reply'[c] = "open" => Reaching(c)'
         /\ reply'[c] \in {"created", "found"} => Reached(c)'
<1>1. \A op : At(c, op) =>
        /\ op \in {"diff", "check", "put", "readback", "delete", "commit", "finish"}
        /\ reply[c] = "open" /\ todo[c][1].op = op /\ Len(todo[c]) > 0 /\ IsProgram(todo[c])
        /\ 1 \in DOMAIN todo[c]
  BY AtHead DEF Suits
<1>2. reply \in [Calls -> Replies] /\ DOMAIN todo = Calls /\ DOMAIN tx = Calls
  BY DEF Base, TypeOK
<1>3. ASSUME NEW op \in {"check", "put", "readback", "delete"}, At(c, op) PROVE CommitsFirst(todo[c]) /\ Toward(c)
  BY <1>1, <1>3 DEF Reaching, Only
<1>4. CASE Check(c)
  <2>1. At(c, "check")
    BY <1>4 DEF Check
  <2>2. CASE Sees(c, Row(c))
    BY <1>2, <1>4, <2>2 DEF Check, Ends
  <2>3. CASE ~Sees(c, Row(c))
    <3>1. todo'[c] = Tail(todo[c]) /\ UNCHANGED <<does, rows, tx, reply>>
      BY <1>2, <1>4, <2>3 DEF Check, Advances, Goes, OnlyReads, Stays
    <3>2. CommitsFirst(todo[c])' /\ Toward(c)'
      BY <1>1, <1>3, <2>1, <3>1, TowardGoesOn
    <3> QED
      BY <1>1, <2>1, <3>1, <3>2 DEF Reaching
  <2> QED
    BY <2>2, <2>3
<1>5. CASE Put(c)
  <2>1. At(c, "put")
    BY <1>5 DEF Put
  <2>2. CASE Sees(c, Row(c))
    <3>1. /\ todo'[c] = [todo[c] EXCEPT ![1] = Do("readback", todo[c][1].row)]
          /\ UNCHANGED <<does, rows, tx, reply>>
      BY <1>2, <1>5, <2>2 DEF Put, Row, Goes, OnlyReads, Stays
    <3>2. todo[c][1].row \in DOMAIN rows \cup tx[c].puts
      BY <2>2 DEF Sees, Row
    <3>3. CommitsFirst(todo[c])' /\ Toward(c)'
      BY <1>1, <1>3, <2>1, <3>1, <3>2, TowardReadsBack
    <3> QED
      BY <1>1, <2>1, <3>1, <3>3 DEF Reaching
  <2>3. CASE ~Sees(c, Row(c))
    <3>1. /\ todo'[c] = Tail(todo[c]) /\ UNCHANGED <<does, rows, reply>>
          /\ tx'[c].puts = tx[c].puts \cup {todo[c][1].row} /\ tx[c].dels \subseteq tx'[c].dels
      BY <1>2, <1>5, <2>3 DEF Put, Puts, Writes, Row, Advances, Goes, Stays
    <3>2. CommitsFirst(todo[c])' /\ Toward(c)'
      BY <1>1, <1>3, <2>1, <3>1, TowardGoesOn
    <3> QED
      BY <1>1, <2>1, <3>1, <3>2 DEF Reaching
  <2> QED
    BY <2>2, <2>3
<1>11. CASE ReadBack(c)
  <2>1. At(c, "readback")
    BY <1>11 DEF ReadBack
  <2>2. CASE ~Sees(c, Row(c))
    BY <1>2, <1>11, <2>2 DEF ReadBack, Ends
  <2>3. CASE Sees(c, Row(c))
    <3>1. todo'[c] = Tail(todo[c]) /\ UNCHANGED <<does, rows, tx, reply>>
      BY <1>2, <1>11, <2>3 DEF ReadBack, Advances, Goes, OnlyReads, Stays
    <3>2. CommitsFirst(todo[c])' /\ Toward(c)'
      BY <1>1, <1>3, <2>1, <3>1, TowardGoesOn
    <3> QED
      BY <1>1, <2>1, <3>1, <3>2 DEF Reaching
  <2> QED
    BY <2>2, <2>3
<1>6. CASE Delete(c)
  <2>1. At(c, "delete")
    BY <1>6 DEF Delete
  <2>2. /\ todo'[c] = Tail(todo[c]) /\ UNCHANGED <<does, rows, reply>>
        /\ tx[c].puts \subseteq tx'[c].puts
        /\ tx'[c].dels = tx[c].dels \cup ({todo[c][1].row} \cap DOMAIN rows)
    BY <1>2, <1>6 DEF Delete, Writes, Row, Advances, Goes, Stays
  <2>3. CommitsFirst(todo[c])' /\ Toward(c)'
    BY <1>1, <1>3, <2>1, <2>2, TowardGoesOn
  <2> QED
    BY <1>1, <2>1, <2>2, <2>3 DEF Reaching
<1>7. CASE Diff(c)
  BY <1>7, DiffGoesToward DEF Reaching
<1>8. CASE Commit(c)
  BY <1>8, CommitsByRow, CommitReaches
<1>9. ~Lookup(c) /\ ~Create(c) /\ ~Recorded(c) /\ ~Insert(c) /\ ~ClaimOrganizationBootstrap(c)
  BY <1>1 DEF Lookup, Create, Recorded, Insert, ClaimOrganizationBootstrap
<1>10. ~ClaimIdempotency(c) /\ ~Unless(c) /\ ~Known(c) /\ ~Differs(c) /\ ~SetStatus(c)
  BY <1>1 DEF ClaimIdempotency, Unless, Known, Differs, SetStatus
<1> QED
  BY <1>4, <1>5, <1>6, <1>7, <1>8, <1>9, <1>10, <1>11 DEF Statement

LEMMA TargetedStep ==
  ASSUME Base, EndedBefore, Targeted, NEW c \in Calls, Begin(c) \/ Statement(c) \/ Cut(c)
  PROVE  Targeted'
<1>1. \/ Begin(c) \/ Proceeds(c) \/ Stops(c) \/ Cut(c) \/ \E op \in Sources : Commits(c, op)
  BY StatementKinds, CommitsByRow
<1>2. does' = does
  BY <1>1, OthersKeep
<1>3. reply \in [Calls -> Replies] /\ DOMAIN todo = Calls /\ before \in [Calls -> SUBSET Calls]
  BY DEF Base, TypeOK
<1> SUFFICES ASSUME NEW d \in Calls, does[d].kind = "reconcile", Alone(d)'
             PROVE  /\ reply'[d] = "open" => Reaching(d)'
                    /\ reply'[d] \in {"created", "found"} => Reached(d)'
  BY <1>2 DEF Targeted
<1>4. reply'[c] # "none"
  <2>1. CASE Begin(c)
    BY <1>3, <2>1 DEF Begin
  <2>2. CASE Proceeds(c)
    BY <2>2 DEF Proceeds
  <2>3. CASE Stops(c) \/ Cut(c)
    BY <1>3, <2>3 DEF Stops, Cut, Ends
  <2>4. ASSUME NEW op \in Sources, Commits(c, op) PROVE reply'[c] # "none"
    <3>1. After["commit"] = "open" /\ After["finish"] = "created" /\ After["answer"] = "replayed"
      BY DEF After
    <3> QED
      BY <1>3, <2>4, <3>1 DEF Commits, Sources
  <2> QED
    BY <1>1, <2>1, <2>2, <2>3, <2>4
<1>5. reply[d] # "none" => Alone(d)
  <2> SUFFICES ASSUME reply[d] # "none", NEW e \in Reconciles(Where(d)) \ {d}
               PROVE  reply[e] = "none" \/ e \in before[d]
    BY DEF Alone
  <2>1. reply'[e] = "none" \/ e \in before'[d]
    BY <1>2 DEF Alone, Reconciles, Kind, Where
  <2>2. before'[d] = before[d]
    BY <1>1, OthersKeep DEF Begin
  <2>3. reply'[e] = "none" => reply[e] = "none"
    <3>1. e \in Calls
      BY DEF Reconciles
    <3> QED
      BY <1>1, <1>4, <3>1, OthersKeep
  <2> QED
    BY <2>1, <2>2, <2>3
<1>6. CASE d # c
  <2>1. reply'[d] = reply[d] /\ todo'[d] = todo[d] /\ tx'[d] = tx[d]
    BY <1>1, <1>6, OthersKeep
  <2>2. CASE reply[d] = "none"
    BY <2>1, <2>2
  <2>3. CASE reply[d] # "none"
    <3>1. \A p : GroupMember(does[d].where, p) \in DOMAIN rows'
                   <=> GroupMember(does[d].where, p) \in DOMAIN rows
      <4>1. CASE UNCHANGED rows
        BY <4>1
      <4>2. ASSUME NEW op \in Sources, Commits(c, op), NEW p
            PROVE  GroupMember(does[d].where, p) \in DOMAIN rows'
                     <=> GroupMember(does[d].where, p) \in DOMAIN rows
        BY <1>5, <1>6, <2>3, <4>2, CommitsApart DEF Where
      <4> QED
        BY <1>1, <4>1, <4>2, RowsKept
    <3>2. Reached(d) => Reached(d)'
      BY <1>2, <3>1 DEF Reached, Members, Where
    <3>3. Toward(d) => Toward(d)'
      BY <1>2, <2>1, <3>1 DEF Toward, Where
    <3>4. Reaching(d) => Reaching(d)'
      BY <2>1, <3>2, <3>3 DEF Reaching
    <3> QED
      BY <1>5, <2>1, <2>3, <3>2, <3>4 DEF Targeted
  <2> QED
    BY <2>2, <2>3
<1>7. CASE d = c
  <2>1. CASE Begin(c)
    <3>1. todo'[c] = Program(c) /\ reply'[c] = "open"
      BY <1>3, <2>1 DEF Begin, Goes
    <3>2. Program(c) = <<Do("diff", <<>>)>>
      BY <1>7 DEF Program, ReconcileGroup, Kind
    <3>3. Do("diff", <<>>).op = "diff"
      BY DEF Do
    <3> QED
      BY <1>7, <3>1, <3>2, <3>3 DEF Reaching
  <2>2. CASE Statement(c)
    <3>1. reply[c] = "open"
      BY <1>1, <2>2 DEF Begin, Proceeds, Stops, Cut, Commits, At, Statement, Lookup, Check, Create,
         Recorded, Put, ReadBack, Insert, Delete, ClaimOrganizationBootstrap, ClaimIdempotency, Unless, Known,
         Differs, SetStatus, Diff, Commit
    <3>2. Reaching(c)
      BY <1>5, <1>7, <3>1 DEF Targeted
    <3> QED
      BY <1>7, <2>2, <3>2, ReconcileGoesOn
  <2>3. CASE Cut(c)
    BY <1>3, <1>7, <2>3 DEF Cut
  <2> QED
    BY <2>1, <2>2, <2>3
<1> QED
  BY <1>6, <1>7

-----------------------------------------------------------------------------
(* The theorems                                                            *)

MembershipInvariant ==
  /\ Base /\ WrittenTogether /\ KeysAnswerOnce
  /\ EndedBefore /\ LookedUp /\ Accounted /\ Targeted

(* Whatever the calls, their requests and the rows of the start, every     *)
(* reachable state satisfies the inductive invariant of commands.py and    *)
(* scim.py: the programs and the open transactions fit each other.         *)
THEOREM MembershipsAreInvariant == Spec => []MembershipInvariant
<1>1. ASSUME Init PROVE MembershipInvariant
  <2>1. Base /\ WrittenTogether /\ KeysAnswerOnce
    BY <1>1, BaseInit, WrittenInit, KeysInit
  <2>2. /\ \A c \in Calls : reply[c] = "none" /\ before[c] = {}
        /\ changed = {}
    BY <1>1 DEF Init
  <2>3. EndedBefore /\ LookedUp /\ Accounted /\ Targeted
    BY <2>2 DEF EndedBefore, LookedUp, Accounted, Targeted
  <2> QED
    BY <2>1, <2>3 DEF MembershipInvariant
<1>2. ASSUME MembershipInvariant, [Next]_vars PROVE MembershipInvariant'
  <2>1. /\ Base /\ WrittenTogether /\ KeysAnswerOnce
        /\ EndedBefore /\ LookedUp /\ Accounted /\ Targeted
    BY <1>2 DEF MembershipInvariant
  <2>2. Base' /\ WrittenTogether' /\ KeysAnswerOnce'
    BY <1>2, <2>1, BaseStep, WrittenStep, KeysStep
  <2>3. EndedBefore' /\ LookedUp' /\ Accounted' /\ Targeted'
    <3>1. CASE Next
      <4>1. PICK c \in Calls : Begin(c) \/ Statement(c) \/ Cut(c)
        BY <3>1 DEF Next
      <4>2. \/ Begin(c) \/ Proceeds(c) \/ Stops(c) \/ Cut(c) \/ \E op \in Sources : Commits(c, op)
        BY <2>1, <4>1, StatementKinds, CommitsByRow
      <4>3. EndedBefore'
        BY <2>1, <4>2, EndedStep
      <4>4. LookedUp'
        BY <2>1, <4>2, LookedUpStep
      <4>5. Accounted'
        BY <2>1, <4>2, AccountedStep
      <4>6. Targeted'
        BY <2>1, <4>1, TargetedStep
      <4> QED
        BY <4>3, <4>4, <4>5, <4>6
    <3>2. CASE UNCHANGED vars
      <4>1. UNCHANGED <<does, rows, tx, todo, reply, before, changed>>
        BY <3>2 DEF vars
      <4>2. EndedBefore' /\ LookedUp'
        BY <2>1, <4>1 DEF EndedBefore, LookedUp, Ended
      <4>3. Accounted'
        BY <2>1, <4>1 DEF Accounted, Ended
      <4>4. /\ \A c : (Alone(c)' <=> Alone(c)) /\ (Reached(c)' <=> Reached(c))
            /\ \A c : (Toward(c)' <=> Toward(c))
        BY <4>1 DEF Alone, Reconciles, Kind, Where, Reached, Members, Toward
      <4>5. \A c : Reaching(c)' <=> Reaching(c)
        BY <4>1, <4>4 DEF Reaching
      <4>6. Targeted'
        BY <2>1, <4>1, <4>4, <4>5 DEF Targeted
      <4> QED
        BY <4>2, <4>3, <4>6
    <3> QED
      BY <1>2, <3>1, <3>2
  <2> QED
    BY <2>2, <2>3 DEF MembershipInvariant
<1> QED
  BY <1>1, <1>2, PTL DEF Spec

(* claim_idempotency: for any number of calls, an idempotency key is       *)
(* answered "created" to the one call its record stands for, and replayed  *)
(* to callers of the very same request only.                               *)
THEOREM KeysAreAnsweredOnce == Spec => []KeysAnswerOnce
<1>1. MembershipInvariant => KeysAnswerOnce
  BY DEF MembershipInvariant
<1> QED
  BY <1>1, MembershipsAreInvariant, PTL

(* create_organization: for any number of calls, a principal bootstraps    *)
(* one organization at most, and is made an owner only where it did.       *)
THEOREM FoundersAreFoundersOnce == Spec => []FoundersFoundOnce
<1>1. MembershipInvariant => FoundersFoundOnce
  BY FoundersByClaim DEF MembershipInvariant
<1> QED
  BY <1>1, MembershipsAreInvariant, PTL

(* A change without its audit record is the work of a provisioning call    *)
(* before its second transaction, or cut or failed short of it, or of a    *)
(* replay that had begun before the call it repeats had ended.             *)
THEOREM ChangesAreAudited == Spec => []SilentChangesRaced
<1>1. ASSUME MembershipInvariant PROVE SilentChangesRaced
  <2>1. /\ Accounted /\ changed \subseteq Calls /\ reply \in [Calls -> Replies]
    BY <1>1 DEF MembershipInvariant, Base, TypeOK
  <2>2. \A c : KeyRow(c) = KeyOf(does[c])
    BY KeyOfRequest
  <2> QED
    BY <2>1, <2>2 DEF Accounted, SilentChangesRaced, Ended, Kind
<1> QED
  BY <1>1, MembershipsAreInvariant, PTL

(* reconcile_group: a reconciliation that no other one of its group        *)
(* overlaps leaves exactly the members it was given, whatever the other    *)
(* calls do meanwhile.                                                     *)
THEOREM ReconciliationsReachTheirTarget == Spec => []ReconcileLeavesTarget
<1>1. MembershipInvariant => ReconcileLeavesTarget
  BY DEF MembershipInvariant, Targeted, ReconcileLeavesTarget, Alone, Reached, Kind
<1> QED
  BY <1>1, MembershipsAreInvariant, PTL

=============================================================================
