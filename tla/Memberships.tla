---------------------------- MODULE Memberships ----------------------------
(***************************************************************************)
(* The organizations, workspaces, groups and memberships of the tenants,   *)
(* and the calls that change them: the commands of identity/commands.py    *)
(* behind their routes, and the SCIM provisioning of identity/scim.py.  A  *)
(* call is a program of statements of one or two READ COMMITTED            *)
(* transactions; an action is one statement with the branch its result     *)
(* leads to.  A statement that meets a row of an open transaction waits    *)
(* for its end.                                                            *)
(*                                                                         *)
(* Left out: the names of workspaces and groups, the roles inside a row,   *)
(* failed-mutation audits, and the principals themselves, of which only    *)
(* being disabled is kept.                                                 *)
(***************************************************************************)
EXTENDS Naturals, Sequences, FiniteSets

CONSTANTS
  Calls,
  Principals,
  Seed,        \* writer of the rows that are there at the start
  Casts,       \* [does, born]: what each call asks for, the rows of the start
  MaxCuts      \* calls cut short: a lost connection, a dying process

Keyed == {"bootstrap", "workspace", "group", "add", "remove", "grant"}
Kinds == Keyed \cup {"provision", "status", "reconcile", "idle"}

ASSUME MembershipAssumption ==
  /\ Seed \notin Calls
  /\ MaxCuts \in Nat
  /\ Principals \subseteq Nat /\ IsFiniteSet(Principals)
  /\ \A cast \in Casts :
       /\ DOMAIN cast.does = Calls
       /\ \A c \in Calls : /\ cast.does[c].kind \in Kinds
                          /\ cast.does[c].wants \subseteq Principals

VARIABLES
  does,        \* the request of each call: [kind, where, who, key, wants],
               \* of kind "idle" for a call that is not made
  rows,        \* the committed rows, with the call that wrote each
  tx,          \* what the open transaction of a call inserted and deleted
  todo,        \* the statements a call has before it
  reply,       \* "none" before the call begins, "open", or how it ended
  before,      \* the calls that had ended when a call began
  changed,     \* calls that committed a change
  cuts

vars == <<does, rows, tx, todo, reply, before, changed, cuts>>

Kind(c) == does[c].kind
Who(c) == does[c].who
Where(c) == does[c].where

Ended(c) == reply[c] \notin {"none", "open"}

(* The rows, by their keys.  A bootstrap key belongs to its owner too, the *)
(* others to the organization or workspace of the call's tenant context.   *)
Member(o, p) == <<"member", o, p>>
WorkspaceMember(w, p) == <<"workspace member", w, p>>
GroupMember(g, p) == <<"group member", g, p>>
BootstrapClaim(p) == <<"claim", p>>
Identity(p) == <<"identity", p>>
Disabled(p) == <<"disabled", p>>
Audit(c) == <<"audit", c>>
Scope(c) ==
  CASE Kind(c) = "bootstrap" -> <<Where(c), Who(c)>>
    [] Kind(c) \in {"add", "remove", "grant"} -> <<Where(c)>>
    [] OTHER -> <<>>
KeyRow(c) == <<"key", Kind(c), Scope(c), does[c].key>>

(* The canonical digest of a request: path and body, in which the one who  *)
(* creates a workspace or a group does not occur.                          *)
Digest(r) == <<r.kind, r.where, r.key, r.wants,
               IF r.kind \in {"workspace", "group"} THEN {} ELSE {r.who}>>
Disables(c) == does[c].wants = {}

-----------------------------------------------------------------------------
(* The programs                                                            *)

Do(op, row) == [op |-> op, row |-> row]
Finish(c) == Do("finish", Audit(c))
Active(c) == Do("check", Disabled(Who(c)))

CreateOrganization(c) ==
  <<Do("create", <<"organization", Where(c)>>), Do("claim", BootstrapClaim(Who(c))),
    Active(c), Do("put", Member(Where(c), Who(c))), Do("key", KeyRow(c)), Finish(c)>>

(* The creator becomes workspace_admin in the same transaction.            *)
CreateWorkspace(c) ==
  <<Do("create", <<"workspace", Where(c)>>), Do("key", KeyRow(c)),
    Active(c), Do("insert", WorkspaceMember(Where(c), Who(c))), Finish(c)>>

CreateGroup(c) ==
  <<Do("create", <<"group", Where(c)>>), Do("key", KeyRow(c)), Finish(c)>>

AddOrgMembership(c) ==
  <<Do("lookup", KeyRow(c)), Active(c), Do("create", Member(Where(c), Who(c))),
    Do("key", KeyRow(c)), Finish(c)>>

RemoveOrgMembership(c) ==
  <<Do("lookup", KeyRow(c)), Do("delete", Member(Where(c), Who(c))), Do("key", KeyRow(c)),
    Finish(c)>>

GrantWorkspaceMembership(c) ==
  <<Do("lookup", KeyRow(c)), Do("unless", WorkspaceMember(Where(c), Who(c))),
    Active(c), Do("insert", WorkspaceMember(Where(c), Who(c))), Do("key", KeyRow(c)),
    Finish(c)>>

(* A user is provisioned active or disabled, whichever the membership of   *)
(* the second transaction, which does not ask.                             *)
ProvisionUser(c) ==
  <<Do("unless", Identity(Who(c))), Do("insert", Identity(Who(c)))>>
  \o (IF Disables(c) THEN <<Do("set", Disabled(Who(c)))>> ELSE <<>>)
  \o <<Do("commit", Audit(c)), Do("put", Member(Where(c), Who(c))), Finish(c)>>

(* Only who was provisioned has a status to set, which is found out last.  *)
SetUserStatus(c) ==
  <<Do("known", Member(Where(c), Who(c))), Do("differs", Disabled(Who(c))),
    Do("set", Disabled(Who(c))), Do("known", Identity(Who(c))), Do("commit", Audit(c)),
    Finish(c)>>

ReconcileGroup(c) == <<Do("diff", <<>>)>>

Program(c) ==
  CASE Kind(c) = "bootstrap" -> CreateOrganization(c)
    [] Kind(c) = "workspace" -> CreateWorkspace(c)
    [] Kind(c) = "group" -> CreateGroup(c)
    [] Kind(c) = "add" -> AddOrgMembership(c)
    [] Kind(c) = "remove" -> RemoveOrgMembership(c)
    [] Kind(c) = "grant" -> GrantWorkspaceMembership(c)
    [] Kind(c) = "provision" -> ProvisionUser(c)
    [] Kind(c) = "status" -> SetUserStatus(c)
    [] Kind(c) = "reconcile" -> ReconcileGroup(c)

-----------------------------------------------------------------------------
(* Transactions                                                            *)

NoWrites == [puts |-> {}, dels |-> {}]

At(c, op) == reply[c] = "open" /\ todo[c][1].op = op
Row(c) == todo[c][1].row
Sees(c, row) == row \in (DOMAIN rows \ tx[c].dels) \cup tx[c].puts

(* An insert waits for any open writer of its row; a delete sees committed *)
(* rows only, and waits for another deleter.                               *)
Free(c, row) == \A d \in Calls \ {c} : row \notin tx[d].puts \cup tx[d].dels
Deletable(c, row) == \A d \in Calls \ {c} : row \notin tx[d].dels

Goes(c, rest) == todo' = [todo EXCEPT ![c] = rest]
Advances(c) == Goes(c, Tail(todo[c]))
Stays == UNCHANGED <<does, before, cuts>>
OnlyReads == Stays /\ UNCHANGED <<rows, tx, reply, changed>>
Writes(c, puts, dels) ==
  /\ tx' = [tx EXCEPT ![c] = [puts |-> @.puts \cup puts, dels |-> @.dels \cup dels]]
  /\ Advances(c)
  /\ Stays /\ UNCHANGED <<rows, reply, changed>>
Puts(c, row) == Writes(c, {row}, {})

(* The transaction is rolled back, or had nothing to commit.               *)
Ends(c, how) ==
  /\ reply' = [reply EXCEPT ![c] = how]
  /\ tx' = [tx EXCEPT ![c] = NoWrites]
  /\ Goes(c, <<>>)
  /\ Stays /\ UNCHANGED <<rows, changed>>

Begin(c) ==
  /\ reply[c] = "none" /\ Kind(c) # "idle"
  /\ reply' = [reply EXCEPT ![c] = "open"]
  /\ before' = [before EXCEPT ![c] = {d \in Calls : Ended(d)}]
  /\ Goes(c, Program(c))
  /\ UNCHANGED <<does, rows, tx, changed, cuts>>

(* The allowed audit joins the last transaction of a call that did what it *)
(* was asked; a replay commits what it has written without one.            *)
After == [commit |-> "open", finish |-> "created", answer |-> "replayed"]
Commit(c) == \E op \in DOMAIN After :
  LET puts == tx[c].puts \cup (IF op = "finish" THEN {Audit(c)} ELSE {})
  IN /\ At(c, op)
     /\ rows' = [row \in (DOMAIN rows \ tx[c].dels) \cup puts |->
                   IF row \in puts THEN c ELSE rows[row]]
     /\ changed' = IF tx[c] = NoWrites THEN changed ELSE changed \cup {c}
     /\ tx' = [tx EXCEPT ![c] = NoWrites]
     /\ reply' = [reply EXCEPT ![c] = After[op]]
     /\ Advances(c)
     /\ Stays

(* A connection or a process is lost, and the open transaction with it.  A *)
(* call that has written nothing might as well not have begun.             *)
Cut(c) ==
  /\ reply[c] = "open" /\ cuts < MaxCuts
  /\ tx[c] # NoWrites \/ c \in changed
  /\ cuts' = cuts + 1
  /\ reply' = [reply EXCEPT ![c] = "cut"]
  /\ tx' = [tx EXCEPT ![c] = NoWrites]
  /\ Goes(c, <<>>)
  /\ UNCHANGED <<does, rows, before, changed>>

-----------------------------------------------------------------------------
(* The statements                                                          *)

Repeats(c, key) == Digest(does[rows[key]]) = Digest(does[c])
Replays(c, key) ==
  IF Repeats(c, key) THEN Ends(c, "replayed") ELSE Ends(c, "refused")

(* Mutant of Lookup: the key is left to the claim at the end.              *)
LookupNothing(c) == At(c, "lookup") /\ Advances(c) /\ OnlyReads

(* The key is looked up before anything is written.                        *)
Lookup(c) ==
  /\ At(c, "lookup")
  /\ IF Sees(c, Row(c)) THEN Replays(c, Row(c)) ELSE Advances(c) /\ OnlyReads

(* A disabled principal gains nothing.                                     *)
Check(c) ==
  /\ At(c, "check")
  /\ IF Sees(c, Row(c)) THEN Ends(c, "refused") ELSE Advances(c) /\ OnlyReads

(* INSERT .. ON CONFLICT DO NOTHING.  The row of a conflict is read back,  *)
(* and may be gone by then.                                                *)
Put(c) ==
  /\ At(c, "put") /\ Free(c, Row(c))
  /\ IF Sees(c, Row(c))
       THEN Goes(c, [todo[c] EXCEPT ![1] = Do("readback", Row(c))]) /\ OnlyReads
       ELSE Puts(c, Row(c))

ReadBack(c) ==
  /\ At(c, "readback")
  /\ IF Sees(c, Row(c)) THEN Advances(c) /\ OnlyReads ELSE Ends(c, "failed")

(* The same, where the conflict is an answer: once the row is read back,   *)
(* the key tells a replay from a conflict.                                 *)
Create(c) ==
  /\ At(c, "create") /\ Free(c, Row(c))
  /\ IF Sees(c, Row(c))
       THEN Goes(c, <<Do("readback", Row(c)), Do("recorded", KeyRow(c))>>) /\ OnlyReads
       ELSE Puts(c, Row(c))

Recorded(c) ==
  /\ At(c, "recorded")
  /\ IF Row(c) \in DOMAIN rows THEN Replays(c, Row(c)) ELSE Ends(c, "refused")

(* An INSERT whose conflict ends the call.                                 *)
Insert(c) ==
  /\ At(c, "insert") /\ Free(c, Row(c))
  /\ IF Sees(c, Row(c)) THEN Ends(c, "failed") ELSE Puts(c, Row(c))

Delete(c) ==
  /\ At(c, "delete") /\ Deletable(c, Row(c))
  /\ Writes(c, {}, {Row(c)} \cap DOMAIN rows)

(* Mutant of ClaimOrganizationBootstrap: the claim without its lock.       *)
ClaimUnlocked(c) ==
  /\ At(c, "claim")
  /\ IF Sees(c, Row(c)) THEN Ends(c, "refused") ELSE Puts(c, Row(c))

(* Under an advisory lock of the principal, kept to the end: the claim     *)
(* stands for it.                                                          *)
ClaimOrganizationBootstrap(c) ==
  /\ At(c, "claim") /\ Free(c, Row(c))
  /\ IF Sees(c, Row(c)) THEN Ends(c, "refused") ELSE Puts(c, Row(c))

(* Mutant of ClaimIdempotency: the key is recorded without a unique index. *)
ClaimUnseen(c) == At(c, "key") /\ Puts(c, Row(c))

(* claim_idempotency: another request loses its transaction; the same one  *)
(* is answered as a replay, and what it wrote is committed all the same.   *)
ClaimIdempotency(c) ==
  /\ At(c, "key") /\ Free(c, Row(c))
  /\ CASE ~Sees(c, Row(c)) -> Puts(c, Row(c))
       [] Sees(c, Row(c)) /\ Repeats(c, Row(c)) ->
            Goes(c, <<Do("answer", Row(c))>>) /\ OnlyReads
       [] OTHER -> Ends(c, "refused")

(* What is there already is the answer: the membership of a grant.         *)
Unless(c) ==
  /\ At(c, "unless")
  /\ IF Sees(c, Row(c)) THEN Ends(c, "found") ELSE Advances(c) /\ OnlyReads

(* A status is only changed for a provisioned member of the organization,  *)
(* and only if it is another one; the UPDATE itself compares nothing.      *)
Known(c) ==
  /\ At(c, "known")
  /\ IF Sees(c, Row(c)) THEN Advances(c) /\ OnlyReads ELSE Ends(c, "refused")

Differs(c) ==
  /\ At(c, "differs")
  /\ IF Sees(c, Row(c)) = Disables(c) THEN Ends(c, "found") ELSE Advances(c) /\ OnlyReads

SetStatus(c) ==
  /\ At(c, "set") /\ Free(c, Row(c))
  /\ IF Disables(c) THEN Puts(c, Row(c)) ELSE Writes(c, {}, {Row(c)})

(* reconcile_group reads the members, then inserts the missing ones and    *)
(* deletes those in excess, both in the order of their identities.         *)
Members(g) == {p \in Principals : GroupMember(g, p) \in DOMAIN rows}
Nth(people, n) == CHOOSE p \in people : Cardinality({q \in people : q < p}) = n - 1
Joins(g, people) == [n \in 1 .. 2 * Cardinality(people) |->
  LET p == Nth(people, (n + 1) \div 2)
  IN  IF n % 2 = 1 THEN Do("check", Disabled(p)) ELSE Do("put", GroupMember(g, p))]

(* Mutant of Leaves: a replacement only adds.                              *)
LeavesNobody(g, people) == <<>>
Leaves(g, people) == [n \in 1 .. Cardinality(people) |->
  Do("delete", GroupMember(g, Nth(people, n)))]

(* Mutant of Merged: the deletions come first.                             *)
LossesFirst(gains, losses) == losses \o gains
Merged(gains, losses) == gains \o losses
Diff(c) ==
  LET missing == does[c].wants \ Members(Where(c))
      excess == Members(Where(c)) \ does[c].wants
      gains == Joins(Where(c), missing)
      losses == Leaves(Where(c), excess)
  IN /\ At(c, "diff")
     /\ IF missing \cup excess = {}
          THEN Ends(c, "found")
          ELSE /\ Goes(c, Merged(gains, losses) \o <<Do("commit", Audit(c)), Finish(c)>>)
               /\ OnlyReads

-----------------------------------------------------------------------------
Statement(c) ==
  \/ Lookup(c) \/ Check(c) \/ Create(c) \/ Recorded(c) \/ Put(c) \/ ReadBack(c)
  \/ Insert(c) \/ Delete(c)
  \/ ClaimOrganizationBootstrap(c) \/ ClaimIdempotency(c) \/ Unless(c)
  \/ Known(c) \/ Differs(c) \/ SetStatus(c) \/ Diff(c) \/ Commit(c)

Init == \E cast \in Casts :
  /\ does = cast.does
  /\ rows = [row \in cast.born |-> Seed]
  /\ tx = [c \in Calls |-> NoWrites]
  /\ todo = [c \in Calls |-> <<>>]
  /\ reply = [c \in Calls |-> "none"]
  /\ before = [c \in Calls |-> {}]
  /\ changed = {}
  /\ cuts = 0

Next == \E c \in Calls : Begin(c) \/ Statement(c) \/ Cut(c)

Spec == Init /\ [][Next]_vars
FairSpec == Spec /\ \A c \in Calls : WF_vars(Statement(c))

-----------------------------------------------------------------------------
Replies == {"none", "open", "created", "replayed", "refused", "found", "failed", "cut"}

TypeOK ==
  /\ \A row \in DOMAIN rows : rows[row] \in Calls \cup {Seed}
  /\ DOMAIN tx = Calls /\ DOMAIN todo = Calls
  /\ reply \in [Calls -> Replies]
  /\ before \in [Calls -> SUBSET Calls]
  /\ changed \subseteq Calls
  /\ cuts \in 0 .. MaxCuts

(* An idempotency key is answered "created" once, to the call its record   *)
(* stands for, and replayed to callers of the very same request only.      *)
KeysAnswerOnce == \A c \in Calls : Kind(c) \in Keyed =>
  /\ reply[c] = "created" => KeyRow(c) \in DOMAIN rows /\ rows[KeyRow(c)] = c
  /\ reply[c] = "replayed" => KeyRow(c) \in DOMAIN rows /\ Repeats(c, KeyRow(c))

(* A principal bootstraps one organization at most, however its calls meet *)
(* and whoever else names the same organization; and a bootstrap makes an  *)
(* owner only where it has made the organization.                          *)
Made(c, row) == row \in DOMAIN rows /\ rows[row] = c
Bootstraps == {c \in Calls : Kind(c) = "bootstrap"}
FoundersFoundOnce ==
  \A c, d \in Bootstraps :
    /\ Made(c, Member(Where(c), Who(c))) => Made(c, <<"organization", Where(c)>>)
    /\ /\ Made(c, <<"organization", Where(c)>>)
       /\ Made(d, <<"organization", Where(d)>>)
       /\ Who(c) = Who(d)
       => c = d

(* A change without its audit record is the work of a provisioning call    *)
(* that was cut or failed between its two transactions, or is still there, *)
(* or of a replay that began before the call it repeats had ended: the     *)
(* lookup that comes first keeps every later repetition from writing.      *)
SilentChangesRaced == \A c \in changed : Audit(c) \notin DOMAIN rows =>
  \/ Kind(c) \notin Keyed /\ reply[c] \in {"open", "cut", "failed"}
  \/ /\ reply[c] = "replayed"
     /\ rows[KeyRow(c)] \notin before[c]

(* The commands promise more: a replay never writes.                       *)
ReplaysChangeNothing == \A c \in changed : reply[c] # "replayed"

(* A reconciliation that no other one of its group overlaps leaves exactly *)
(* the members it was given.                                               *)
Reconciles(g) == {c \in Calls : Kind(c) = "reconcile" /\ Where(c) = g}
ReconcileLeavesTarget == \A c \in Calls :
  /\ Kind(c) = "reconcile" /\ reply[c] \in {"created", "found"}
  /\ \A d \in Reconciles(Where(c)) \ {c} : reply[d] = "none" \/ d \in before[c]
  => Members(Where(c)) = does[c].wants

(* Every call that begins ends: no two wait for each other.                *)
CallsSettle == \A c \in Calls : reply[c] = "open" ~> Ended(c)
=============================================================================
