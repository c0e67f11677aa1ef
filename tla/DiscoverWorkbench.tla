------------------------- MODULE DiscoverWorkbench -------------------------
(***************************************************************************)
(* The workbench of discovered risk hypotheses (api/discover.py,           *)
(* discover/pg_repository.py): a call reads its row without a lock, checks *)
(* what it read, and flushes in the same READ COMMITTED transaction; the   *)
(* flush waits for the row lock or the entry of the unique index that      *)
(* another call holds until its commit.  An approval is decided in the     *)
(* memory of a process before the row is written.                          *)
(*                                                                         *)
(* A row has the identity of the call that inserts it.  A call to a row    *)
(* that is not there changes nothing and is left out.                      *)
(***************************************************************************)
EXTENDS Naturals, Sequences, FiniteSets

CONSTANTS
  Calls,            \* requests, a retry being another one
  Earlier,          \* the identity of a case that may be there at the start
  Hypotheses, Inputs, Principals, Processes,
  HomeOf,           \* the process that serves each call
  None,
  MaxRestarts       \* bound on the restarts of processes

ASSUME CallAssumption == Earlier \notin Calls /\ HomeOf \in [Calls -> Processes]
ASSUME NoneAssumption ==
  /\ None \notin Hypotheses \cup Calls \cup {Earlier} \cup Principals \cup {"pending"}
  /\ "pending" \notin Principals

VARIABLES
  hypothesis,       \* discover_hypotheses.status
  ledger,           \* discover_hypothesis_events, per hypothesis as committed
  cases,            \* discover_cases
  actions,          \* discover_actions
  resolutions,      \* discover_resolutions, per case as committed
  decision,         \* ActionManager and its approvals: undecided requests are
                    \* "pending", decided ones have their approver
  call,             \* what a call is, has read and does next
  restarts

rows == <<hypothesis, ledger, cases, actions, resolutions>>
vars == <<rows, decision, call, restarts>>

Absent == [hypothesis |-> None]
NoAction == [case |-> None]
CaseIds == Calls \cup {Earlier}
CasesThere == {k \in CaseIds : cases[k].hypothesis # None}
ActionsThere == {a \in Calls : actions[a].case # None}

Statuses == {"ready_for_triage", "in_triage", "accepted", "dismissed"}

(* TRIAGE_TRANSITIONS: no transition leads from an accepted hypothesis.    *)
Transitions == {<<"ready_for_triage", "in_triage">>, <<"in_triage", "accepted">>,
                <<"in_triage", "dismissed">>, <<"dismissed", "in_triage">>}

(* The kinds of a resolution, by what they make of the case.               *)
Outcomes == {"resolved", "dismissed"}

(* What is forgotten of a call that has ended, or not begun.               *)
At(place) == [pc |-> place, kind |-> None, on |-> None, arg |-> None, by |-> None,
              saw |-> None]
Live(c) == call[c].pc \in {"decide", "write", "commit"}
Goes(c, place) == call' = [call EXCEPT ![c] =
                    IF place = "ended" THEN At("ended") ELSE [@ EXCEPT !.pc = place]]

-----------------------------------------------------------------------------
(* The SELECT of a call, and its checks                                    *)

Begin(c, kind, on, arg, by, saw, refused, place) ==
  /\ call[c].pc = "idle"
  /\ call' = [call EXCEPT ![c] =
       IF refused THEN At("ended")
       ELSE [pc |-> place, kind |-> kind, on |-> on, arg |-> arg, by |-> by, saw |-> saw]]
  /\ UNCHANGED <<rows, restarts>>

Triage(c, h, to) ==
  /\ Begin(c, "triage", h, to, None, hypothesis[h],
           <<hypothesis[h], to>> \notin Transitions, "write")
  /\ UNCHANGED decision

CreateCase(c, h) ==
  /\ Begin(c, "createCase", h, None, None, None,
           \E k \in CasesThere : cases[k].hypothesis = h, "write")
  /\ UNCHANGED decision

(* The request is opened in memory before the row is tried: it stays there *)
(* when the row is refused.  No check of the case's status is made.        *)
Submit(c, k, input, by) ==
  /\ k \in CasesThere
  /\ Begin(c, "submit", k, input, by, cases[k].actions,
           \E a \in ActionsThere : actions[a].case = k /\ actions[a].input = input, "write")
  /\ decision' = [decision EXCEPT ![c] = "pending"]

Approve(c, a, by) ==
  /\ a \in ActionsThere
  /\ Begin(c, "approve", a, None, by, actions[a].status, FALSE, "decide")
  /\ UNCHANGED decision

Resolve(c, k, outcome) ==
  /\ k \in CasesThere
  /\ Begin(c, "resolve", k, outcome, None, cases[k].resolutions,
           cases[k].status # "open", "write")
  /\ UNCHANGED decision

Mine(c) == actions[call[c].on]

(* Mutant of MayDecide: a decided request may be decided again.            *)
DecidesAgain(c) ==
  /\ HomeOf[call[c].on] = HomeOf[c]
  /\ decision[call[c].on] # None
  /\ call[c].by # Mine(c).by

(* ActionManager.approve: the request is pending in this process, and who  *)
(* approves neither made it nor changed its input.                         *)
MayDecide(c) ==
  /\ HomeOf[call[c].on] = HomeOf[c]
  /\ decision[call[c].on] = "pending"
  /\ call[c].by # Mine(c).by

(* The decision stands from here on, although the row is checked and       *)
(* written only after it.                                                  *)
Decide(c) ==
  /\ call[c].pc = "decide"
  /\ IF MayDecide(c)
     THEN /\ decision' = [decision EXCEPT ![call[c].on] = call[c].by]
          /\ Goes(c, IF call[c].saw = "pending_approval" THEN "write" ELSE "ended")
     ELSE Goes(c, "ended") /\ UNCHANGED decision
  /\ UNCHANGED <<rows, restarts>>

-----------------------------------------------------------------------------
(* The flush                                                               *)

Locks(c) ==
  LET k == call[c].kind  on == call[c].on IN
  CASE k = "triage" -> {<<"hypothesis", on>>}
    [] k = "createCase" -> {<<"case of", on>>}
    [] k = "submit" -> {<<"case", on>>, <<"input", on, call[c].arg>>}
    [] k = "approve" -> {<<"action", on>>}
    [] k = "resolve" -> {<<"case", on>>}
    [] OTHER -> {}

Free(c) == \A d \in Calls \ {c} : call[d].pc = "commit" => Locks(c) \cap Locks(d) = {}

(* discover_action_sod_requester *)
ApprovesOwn(c) == call[c].kind = "approve" /\ call[c].by = Mine(c).by

(* Mutant of Violates: the unique indexes are not there.                   *)
ViolatesNoIndex(c) == ApprovesOwn(c)

(* uq_discover_cases_hypothesis, uq_discover_actions_input_digest and the  *)
(* CHECK that mirrors the separation of duties.                            *)
Violates(c) ==
  \/ ApprovesOwn(c)
  \/ /\ call[c].kind = "createCase"
     /\ \E k \in CasesThere : cases[k].hypothesis = call[c].on
  \/ /\ call[c].kind = "submit"
     /\ \E a \in ActionsThere : actions[a].case = call[c].on /\ actions[a].input = call[c].arg

Flush(c) ==
  /\ call[c].pc = "write"
  /\ Free(c)
  /\ Goes(c, IF Violates(c) THEN "ended" ELSE "commit")
  /\ UNCHANGED <<rows, decision, restarts>>

-----------------------------------------------------------------------------
(* The commit.  Columns that the call did not assign keep what is there;   *)
(* a list of ids is written as it was read, with one more.                 *)

Commits(c, kind) ==
  /\ call[c].pc = "commit" /\ call[c].kind = kind
  /\ Goes(c, "ended")
  /\ UNCHANGED <<decision, restarts>>

CommitTriage(c) ==
  /\ Commits(c, "triage")
  /\ hypothesis' = [hypothesis EXCEPT ![call[c].on] = call[c].arg]
  /\ ledger' = [ledger EXCEPT ![call[c].on] =
                  Append(@, [from |-> call[c].saw, to |-> call[c].arg])]
  /\ UNCHANGED <<cases, actions, resolutions>>

CommitCase(c) ==
  /\ Commits(c, "createCase")
  /\ cases' = [cases EXCEPT ![c] =
       [hypothesis |-> call[c].on, status |-> "open", actions |-> {}, resolutions |-> {}]]
  /\ UNCHANGED <<hypothesis, ledger, actions, resolutions>>

CommitSubmit(c) ==
  /\ Commits(c, "submit")
  /\ actions' = [actions EXCEPT ![c] =
       [case |-> call[c].on, input |-> call[c].arg, by |-> call[c].by,
        status |-> "pending_approval", approver |-> None]]
  /\ cases' = [cases EXCEPT ![call[c].on].actions = call[c].saw \cup {c}]
  /\ UNCHANGED <<hypothesis, ledger, resolutions>>

CommitApprove(c) ==
  /\ Commits(c, "approve")
  /\ actions' = [actions EXCEPT ![call[c].on].status = "approved",
                                ![call[c].on].approver = call[c].by]
  /\ UNCHANGED <<hypothesis, ledger, cases, resolutions>>

CommitResolve(c) ==
  /\ Commits(c, "resolve")
  /\ resolutions' = [resolutions EXCEPT ![call[c].on] =
                       Append(@, [id |-> c, outcome |-> call[c].arg])]
  /\ cases' = [cases EXCEPT ![call[c].on].status = call[c].arg,
                            ![call[c].on].resolutions = call[c].saw \cup {c}]
  /\ UNCHANGED <<hypothesis, ledger, actions>>

(* The audit entry or the commit fails, or the caller goes: the rows are   *)
(* rolled back, what was decided in memory is not.                         *)
Fail(c) ==
  /\ Live(c)
  /\ Goes(c, "ended")
  /\ UNCHANGED <<rows, decision, restarts>>

Restart(p) ==
  /\ restarts < MaxRestarts
  /\ restarts' = restarts + 1
  /\ decision' = [a \in Calls |-> IF HomeOf[a] = p THEN None ELSE decision[a]]
  /\ call' = [c \in Calls |-> IF Live(c) /\ HomeOf[c] = p THEN At("ended") ELSE call[c]]
  /\ UNCHANGED rows

-----------------------------------------------------------------------------
Ask(c) ==
  \/ \E h \in Hypotheses : CreateCase(c, h) \/ \E to \in Statuses : Triage(c, h, to)
  \/ \E k \in CaseIds : \/ \E i \in Inputs, by \in Principals : Submit(c, k, i, by)
                        \/ \E outcome \in Outcomes : Resolve(c, k, outcome)
  \/ \E a \in Calls, by \in Principals : Approve(c, a, by)

Commit(c) == CommitTriage(c) \/ CommitCase(c) \/ CommitSubmit(c) \/ CommitApprove(c)
               \/ CommitResolve(c)

Works(c) == Decide(c) \/ Flush(c) \/ Commit(c)

Init ==
  /\ hypothesis \in [Hypotheses -> Statuses]
  /\ ledger = [h \in Hypotheses |-> <<>>]
  /\ \E there \in {Absent} \cup [hypothesis : Hypotheses, status : {"open"},
                                 actions : {{}}, resolutions : {{}}] :
       cases = [k \in CaseIds |-> IF k = Earlier THEN there ELSE Absent]
  /\ actions = [a \in Calls |-> NoAction]
  /\ resolutions = [k \in CaseIds |-> <<>>]
  /\ decision = [a \in Calls |-> None]
  /\ call = [c \in Calls |-> At("idle")]
  /\ restarts = 0

Next ==
  \/ \E c \in Calls : Ask(c) \/ Works(c) \/ Fail(c)
  \/ \E p \in Processes : Restart(p)

Spec == Init /\ [][Next]_vars

-----------------------------------------------------------------------------
(* Properties                                                              *)

CaseRows == [hypothesis : Hypotheses, status : {"open"} \cup Outcomes,
             actions : SUBSET Calls, resolutions : SUBSET Calls]
ActionRows == [case : CaseIds, input : Inputs, by : Principals,
               status : {"pending_approval", "approved"}, approver : Principals \cup {None}]

TypeOK ==
  /\ hypothesis \in [Hypotheses -> Statuses]
  /\ ledger \in [Hypotheses -> Seq([from : Statuses, to : Statuses])]
  /\ cases \in [CaseIds -> CaseRows \cup {Absent}]
  /\ actions \in [Calls -> ActionRows \cup {NoAction}]
  /\ resolutions \in [CaseIds -> Seq([id : Calls, outcome : Outcomes])]
  /\ decision \in [Calls -> Principals \cup {"pending", None}]
  /\ DOMAIN call = Calls
  /\ \A c \in Calls :
       /\ DOMAIN call[c] = {"pc", "kind", "on", "arg", "by", "saw"}
       /\ call[c].pc \in {"idle", "decide", "write", "commit", "ended"}

(* A repeated request copies nothing: a hypothesis has one case, and a     *)
(* case one action of an input, although every caller looks before any     *)
(* has inserted.                                                           *)
NothingTwice ==
  /\ \A k, l \in CasesThere : cases[k].hypothesis = cases[l].hypothesis => k = l
  /\ \A a, b \in ActionsThere :
       actions[a].case = actions[b].case /\ actions[a].input = actions[b].input => a = b

(* An action is approved by the one whose decision its process made, and   *)
(* never by its requester: no failed, repeated or concurrent approval, and *)
(* no restart, puts another name there.                                    *)
ApprovedAsDecided == \A a \in ActionsThere : actions[a].status = "approved" =>
  /\ actions[a].approver \in Principals \ {actions[a].by}
  /\ decision[a] \in {actions[a].approver, None}

(* A hypothesis is moved along the table only.                             *)
TriageIsLegal == [][\A h \in Hypotheses : hypothesis'[h] # hypothesis[h] =>
                      <<hypothesis[h], hypothesis'[h]>> \in Transitions]_vars

(* "a terminal case accepts no further resolution".                        *)
ResolvedOnce == \A k \in CaseIds : Len(resolutions[k]) <= 1

(* A case lists its actions.                                               *)
CasesListActions == \A a \in ActionsThere : a \in cases[actions[a].case].actions
=============================================================================
