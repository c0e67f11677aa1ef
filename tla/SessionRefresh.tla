--------------------------- MODULE SessionRefresh ---------------------------
(***************************************************************************)
(* The refresh of one login session (identity/sessions.py): concurrent     *)
(* calls of refresh_session in several replicas, a logout, the envelope of *)
(* the provider tokens, and the identity provider, which accepts a refresh *)
(* token once.  An action is one database statement or transaction, or the *)
(* request to the provider, with the branch its result leads to.           *)
(*                                                                         *)
(* A call owns the lease at most once, so it stands for its owner token,   *)
(* and lapsed are the owners whose lease has run out on the database's     *)
(* clock.  Expiry is counted from the row: idle moves back with a renewal, *)
(* absolute does not.  A call that dies, or whose statement fails while it *)
(* waits, takes no further step.                                           *)
(***************************************************************************)
EXTENDS Naturals, FiniteSets

CONSTANTS
  Calls,         \* calls of refresh_session
  NoCall

ASSUME SessionAssumption == NoCall \notin Calls

NoToken == 0     \* tokens are numbered as the provider issues them

VARIABLES
  row,           \* the auth_sessions row
  envelope,      \* the secret envelope: the version it is bound to, its token
  idp,           \* the live refresh token, the last one, those sent so far
  clock,         \* "fresh", "idle" or "absolute": what of the row has expired
  lapsed,
  pc,
  asked,         \* expected_version, and the version read first
  watch,         \* state and owner a waiter has read
  token,         \* the refresh token a winner holds
  answer,        \* what a call was answered: a result and a version
  won,           \* calls that committed a renewal, for an observer
  logout         \* "none", "read", "revoked", "done", with the version read

vars == <<row, envelope, idp, clock, lapsed, pc, asked, watch, token, answer, won, logout>>

States == {"idle", "leased", "calling"}
Phases == {"new", "expire", "acquire", "enter", "read", "ask", "commit", "reread",
           "revoke", "release", "fallback", "look", "poll", "stalled", "reclassify", "done", "dead"}

Goto(c, p) == pc' = [pc EXCEPT ![c] = p]
Answers(c, result, version) ==
  /\ Goto(c, "done")
  /\ answer' = [answer EXCEPT ![c] = [result |-> result, version |-> version]]

-----------------------------------------------------------------------------
(* The statements of AuthSessionStore                                      *)

(* revoke_session: by id, whatever the version.                            *)
Revoked(r) ==
  [version |-> r.version + 1, revoked |-> TRUE, state |-> "idle", owner |-> NoCall]
RevokeById == row' = IF row.revoked THEN row ELSE Revoked(row)

(* acquire_refresh_lease: a lapsed calling owner is never replaced.        *)
MayAcquire(c) ==
  /\ row.version = asked[c].expected /\ ~row.revoked
  /\ row.state = "idle" \/ (row.state = "leased" /\ row.owner \in lapsed)

(* Mutant of Owns: the owner token is not compared.                        *)
OwnsByVersion(c, state) == row.version = asked[c].expected /\ ~row.revoked

(* The condition of enter_calling_phase, release_refresh_lease ("leased")  *)
(* and complete_refresh ("calling").                                       *)
Owns(c, state) ==
  /\ row.version = asked[c].expected /\ ~row.revoked
  /\ row.state = state /\ row.owner = c

-----------------------------------------------------------------------------
(* refresh_session                                                         *)

(* The row is read and compared with the clock.  The caller may have its   *)
(* expected_version from an older read.                                    *)
Begin(c, v) ==
  /\ pc[c] = "new"
  /\ v \in 1 .. row.version
  /\ asked' = [asked EXCEPT ![c] = [expected |-> v, initial |-> row.version]]
  /\ \/ /\ row.revoked \/ clock = "idle"
        /\ Answers(c, "revoked", row.version)
     \/ /\ ~row.revoked /\ clock = "absolute"
        /\ Goto(c, "expire") /\ UNCHANGED answer
     \/ /\ ~row.revoked /\ clock = "fresh"
        /\ Goto(c, "acquire") /\ UNCHANGED answer
  /\ UNCHANGED <<row, envelope, idp, clock, lapsed, watch, token, won, logout>>

Acquire(c) ==
  /\ pc[c] = "acquire"
  /\ \/ /\ MayAcquire(c)
        /\ row' = [row EXCEPT !.state = "leased", !.owner = c]
        /\ Goto(c, "enter")
     \/ /\ ~MayAcquire(c)
        /\ Goto(c, "look") /\ UNCHANGED row
  /\ UNCHANGED <<envelope, idp, clock, lapsed, asked, watch, token, answer, won, logout>>

(* The durable barrier before the provider is called.                      *)
EnterCalling(c) ==
  /\ pc[c] = "enter"
  /\ \/ /\ Owns(c, "leased")
        /\ row' = [row EXCEPT !.state = "calling"]
        /\ Goto(c, "read") /\ UNCHANGED answer
     \/ /\ ~Owns(c, "leased")
        /\ Answers(c, "conflict", row.version) /\ UNCHANGED row
  /\ UNCHANGED <<envelope, idp, clock, lapsed, asked, watch, token, won, logout>>

(* The envelope opens under the version it was sealed with.                *)
ReadEnvelope(c) ==
  /\ pc[c] = "read"
  /\ token' = [token EXCEPT ![c] = envelope.token]
  /\ Goto(c, IF envelope.version = asked[c].expected /\ envelope.token # NoToken
             THEN "ask" ELSE "revoke")
  /\ UNCHANGED <<row, envelope, idp, clock, lapsed, asked, watch, answer, won, logout>>

(* The provider accepts its live token and answers with the next one, or   *)
(* with none and keeps the old; any failure is final for the call.         *)
Ask(c) ==
  LET sent == idp.sent \cup {<<c, token[c]>>}
      refused == [idp EXCEPT !.sent = sent]
      renewed == [live |-> idp.last + 1, last |-> idp.last + 1, sent |-> sent]
  IN /\ pc[c] = "ask"
     /\ \/ /\ token[c] = idp.live
           /\ idp' = renewed
           /\ token' = [token EXCEPT ![c] = renewed.live]
           /\ Goto(c, "commit")
        \/ /\ token[c] = idp.live
           /\ idp' = refused
           /\ token' = [token EXCEPT ![c] = NoToken]
           /\ Goto(c, "commit")
        \/ /\ token[c] = idp.live      \* the answer is lost
           /\ idp' = renewed
           /\ Goto(c, "revoke") /\ UNCHANGED token
        \/ /\ idp' = refused           \* invalid_grant, or not reached
           /\ Goto(c, "revoke") /\ UNCHANGED token
     /\ UNCHANGED <<row, envelope, clock, lapsed, asked, watch, answer, won, logout>>

(* Envelope and row are rewritten in one transaction.                      *)
Sealed(c) == [version |-> asked[c].expected + 1, token |-> token[c]]
Renew(c) ==
  /\ envelope' = Sealed(c)
  /\ row' = [row EXCEPT !.version = @ + 1, !.state = "idle", !.owner = NoCall]
  /\ clock' = IF clock = "idle" THEN "fresh" ELSE clock
  /\ won' = won \cup {c}

(* Mutant of RollBack: the envelope has a transaction of its own.          *)
RollBackTheRow(c) == envelope' = Sealed(c) /\ UNCHANGED <<row, clock, won>>

RollBack(c) == UNCHANGED <<row, envelope, clock, won>>

Commit(c) ==
  /\ pc[c] = "commit"
  /\ \/ /\ Owns(c, "calling")
        /\ Renew(c)
        /\ Goto(c, "reread") /\ UNCHANGED answer
     \/ /\ ~Owns(c, "calling")
        /\ RollBack(c)
        /\ Answers(c, "revoked", row.version)
  /\ UNCHANGED <<idp, lapsed, asked, watch, token, logout>>

(* The transaction fails, or only its answer does.                         *)
CommitFails(c) ==
  /\ pc[c] = "commit"
  /\ \/ Owns(c, "calling") /\ Renew(c)
     \/ RollBack(c)
  /\ Goto(c, "revoke")
  /\ UNCHANGED <<idp, lapsed, asked, watch, token, answer, logout>>

(* The row is returned as it is by now, revoked or not.                    *)
Reread(c) ==
  /\ pc[c] = "reread"
  /\ Answers(c, "ok", row.version)
  /\ UNCHANGED <<row, envelope, idp, clock, lapsed, asked, watch, token, won, logout>>

(* The local revocation a failure ends with.                               *)
FailClosed(c) ==
  /\ pc[c] \in {"expire", "revoke", "fallback"}
  /\ RevokeById
  /\ Answers(c, "revoked", row.version)
  /\ UNCHANGED <<envelope, idp, clock, lapsed, asked, watch, token, won, logout>>

(* An exception nobody classified: the lease is released, if it is still   *)
(* one's own, and then the session is revoked by id.                       *)
StatementFails(c) ==
  /\ \/ pc[c] = "enter" /\ Owns(c, "leased") /\ row' = [row EXCEPT !.state = "calling"]
     \/ pc[c] \in {"enter", "read", "reread", "revoke"} /\ UNCHANGED row
  /\ Goto(c, "release")
  /\ UNCHANGED <<envelope, idp, clock, lapsed, asked, watch, token, answer, won, logout>>

Release(c) ==
  /\ pc[c] = "release"
  /\ row' = IF Owns(c, "leased") THEN [row EXCEPT !.state = "idle", !.owner = NoCall] ELSE row
  /\ Goto(c, "fallback")
  /\ UNCHANGED <<envelope, idp, clock, lapsed, asked, watch, token, answer, won, logout>>

-----------------------------------------------------------------------------
(* _wait_for_winner                                                        *)

(* Mutant of WonMeanwhile: the next version will do for a stale call too.  *)
WonBefore(c) == row.version = asked[c].expected + 1

(* The next version is the winner's if the call began before it.           *)
WonMeanwhile(c) ==
  /\ row.version = asked[c].expected + 1
  /\ asked[c].initial = asked[c].expected

Watches(c) ==
  /\ watch' = [watch EXCEPT ![c] = [state |-> row.state, owner |-> row.owner]]
  /\ Goto(c, "poll") /\ UNCHANGED answer

Look(c) ==
  /\ pc[c] = "look"
  /\ \/ /\ row.revoked
        /\ Answers(c, "revoked", row.version) /\ UNCHANGED watch
     \/ /\ ~row.revoked /\ row.version # asked[c].expected
        /\ Answers(c, IF WonMeanwhile(c) THEN "ok" ELSE "conflict", row.version)
        /\ UNCHANGED watch
     \/ /\ ~row.revoked /\ row.version = asked[c].expected
        /\ Watches(c)
  /\ UNCHANGED <<row, envelope, idp, clock, lapsed, asked, token, won, logout>>

(* Mutant of WaitIsOver: the wait ends with the winner only.               *)
WaitIsOpen(c) == watch[c].state = "idle"

WaitIsOver(c) == watch[c].state = "idle" \/ watch[c].owner \in lapsed

(* Sleep, and read the row again.                                          *)
Poll(c) ==
  /\ pc[c] = "poll" /\ ~WaitIsOver(c)
  /\ \/ /\ row.revoked
        /\ Answers(c, "revoked", row.version) /\ UNCHANGED watch
     \/ /\ ~row.revoked /\ row.version > asked[c].expected
        /\ Answers(c, "ok", row.version) /\ UNCHANGED watch
     \/ /\ ~row.revoked /\ row.version <= asked[c].expected
        /\ Watches(c)
  /\ UNCHANGED <<row, envelope, idp, clock, lapsed, asked, token, won, logout>>

GiveUp(c) ==
  /\ pc[c] = "poll" /\ WaitIsOver(c)
  /\ IF watch[c].state = "calling" THEN Goto(c, "stalled") /\ UNCHANGED answer
     ELSE Answers(c, "conflict", row.version)
  /\ UNCHANGED <<row, envelope, idp, clock, lapsed, asked, watch, token, won, logout>>

(* Mutant of Stalled: the revocation of a logout.                          *)
StalledById(c) == ~row.revoked

(* The condition of revoke_expired_calling.                                *)
Stalled(c) ==
  /\ row.version = asked[c].expected /\ ~row.revoked
  /\ row.state = "calling" /\ row.owner = watch[c].owner /\ row.owner \in lapsed

RevokeStalled(c) ==
  /\ pc[c] = "stalled"
  /\ \/ /\ Stalled(c)
        /\ row' = Revoked(row)
        /\ Answers(c, "revoked", row.version)
     \/ /\ ~Stalled(c)
        /\ Goto(c, "reclassify") /\ UNCHANGED <<row, answer>>
  /\ UNCHANGED <<envelope, idp, clock, lapsed, asked, watch, token, won, logout>>

Reclassify(c) ==
  /\ pc[c] = "reclassify"
  /\ Answers(c, IF row.revoked THEN "revoked"
                ELSE IF row.version = asked[c].expected + 1 THEN "ok" ELSE "conflict",
             row.version)
  /\ UNCHANGED <<row, envelope, idp, clock, lapsed, asked, watch, token, won, logout>>

-----------------------------------------------------------------------------
(* Time, crashes and the logout                                            *)

LeaseLapses(c) ==
  /\ row.owner = c /\ c \notin lapsed
  /\ lapsed' = lapsed \cup {c}
  /\ UNCHANGED <<row, envelope, idp, clock, pc, asked, watch, token, answer, won, logout>>

Expires ==
  /\ clock' \in CASE clock = "fresh" -> {"idle", "absolute"}
                  [] clock = "idle" -> {"absolute"}
                  [] OTHER -> {}
  /\ UNCHANGED <<row, envelope, idp, lapsed, pc, asked, watch, token, answer, won, logout>>

Dies(c) ==
  /\ pc[c] \notin {"new", "done", "dead"}
  /\ Goto(c, "dead")
  /\ UNCHANGED <<row, envelope, idp, clock, lapsed, asked, watch, token, answer, won, logout>>

(* POST /auth/logout: the session is read with the cookie.                 *)
ReadForLogout ==
  /\ logout.phase = "none" /\ ~row.revoked /\ clock = "fresh"
  /\ logout' = [phase |-> "read", version |-> row.version]
  /\ UNCHANGED <<row, envelope, idp, clock, lapsed, pc, asked, watch, token, answer, won>>

RevokeForLogout ==
  /\ logout.phase = "read"
  /\ logout' = [logout EXCEPT !.phase = IF row.revoked THEN "done" ELSE "revoked"]
  /\ RevokeById
  /\ UNCHANGED <<envelope, idp, clock, lapsed, pc, asked, watch, token, answer, won>>

(* Best effort: the envelope may be another version's by now.              *)
RevokeAtIdp ==
  /\ logout.phase = "revoked"
  /\ logout' = [logout EXCEPT !.phase = "done"]
  /\ \/ /\ envelope.version = logout.version /\ envelope.token = idp.live
        /\ idp' = [idp EXCEPT !.live = NoToken]
     \/ UNCHANGED idp
  /\ UNCHANGED <<row, envelope, clock, lapsed, pc, asked, watch, token, answer, won>>

-----------------------------------------------------------------------------
(* complete_login has stored the envelope and the row.                     *)
Init ==
  /\ row = [version |-> 1, revoked |-> FALSE, state |-> "idle", owner |-> NoCall]
  /\ envelope \in [version : {1}, token : {NoToken, 1}]
  /\ idp = [live |-> 1, last |-> 1, sent |-> {}]
  /\ clock = "fresh" /\ lapsed = {}
  /\ pc = [c \in Calls |-> "new"]
  /\ asked = [c \in Calls |-> [expected |-> 1, initial |-> 1]]
  /\ watch = [c \in Calls |-> [state |-> "idle", owner |-> NoCall]]
  /\ token = [c \in Calls |-> NoToken]
  /\ answer = [c \in Calls |-> [result |-> "none", version |-> 0]]
  /\ won = {}
  /\ logout = [phase |-> "none", version |-> 0]

Proceeds(c) ==
  \/ Acquire(c) \/ EnterCalling(c) \/ ReadEnvelope(c) \/ Ask(c) \/ Commit(c) \/ Reread(c)
  \/ FailClosed(c) \/ Release(c)
  \/ Look(c) \/ Poll(c) \/ GiveUp(c) \/ RevokeStalled(c) \/ Reclassify(c)

Next ==
  \/ \E c \in Calls :
       \/ \E v \in 1 .. row.version : Begin(c, v)
       \/ Proceeds(c)
       \/ CommitFails(c) \/ StatementFails(c) \/ Dies(c) \/ LeaseLapses(c)
  \/ Expires
  \/ ReadForLogout \/ RevokeForLogout \/ RevokeAtIdp

Spec == Init /\ [][Next]_vars

(* A call that lives goes on, and the database's clock does too.           *)
FairSpec == Spec /\ \A c \in Calls : WF_vars(Proceeds(c)) /\ WF_vars(LeaseLapses(c))

-----------------------------------------------------------------------------
(* Properties                                                              *)

Owners == Calls \cup {NoCall}

(* Types, and the invariant of the table: an idle or revoked row has no    *)
(* owner, and every other has one.                                         *)
TypeOK ==
  /\ row \in [version : Nat \ {0}, revoked : BOOLEAN, state : States, owner : Owners]
  /\ row.owner = NoCall <=> row.state = "idle"
  /\ row.revoked => row.state = "idle"
  /\ envelope \in [version : Nat \ {0}, token : Nat]
  /\ idp \in [live : Nat, last : Nat \ {0}, sent : SUBSET (Calls \X Nat)]
  /\ clock \in {"fresh", "idle", "absolute"}
  /\ lapsed \subseteq Calls
  /\ pc \in [Calls -> Phases]
  /\ asked \in [Calls -> [expected : Nat \ {0}, initial : Nat \ {0}]]
  /\ watch \in [Calls -> [state : States, owner : Owners]]
  /\ token \in [Calls -> Nat]
  /\ answer \in [Calls -> [result : {"none", "ok", "conflict", "revoked"}, version : Nat]]
  /\ won \subseteq Calls
  /\ logout \in [phase : {"none", "read", "revoked", "done"}, version : Nat]

(* A refresh token is sent to the provider once, whichever replica holds   *)
(* the lease and whatever became of the call that sent it.                 *)
TokensAreSentOnce == \A s, t \in idp.sent : s[2] = t[2] => s = t

(* The envelope of a session that nobody is renewing opens under the       *)
(* version of its row, and the token in it is the provider's live one.     *)
EnvelopeInStep == ~row.revoked /\ row.state # "calling" =>
  envelope.version = row.version /\ envelope.token \in {NoToken, idp.live}

(* A call is answered with a session only if that was renewed since the    *)
(* call began, from the version the caller had seen.                       *)
OkMeansRenewed == \A c \in Calls : answer[c].result = "ok" =>
  asked[c].initial = asked[c].expected /\ answer[c].version > asked[c].expected

(* Nothing revives a revoked session or touches its envelope: a refresh in *)
(* flight when it is revoked does not undo the logout.                     *)
RevokedIsFinal == [][row.revoked => row' = row /\ envelope' = envelope]_vars

(* A call revokes the session in a step taken from one of the phases.      *)
Revokes(c, phases) ==
  pc[c] \in phases /\ pc'[c] # pc[c] /\ ~row.revoked /\ row'.revoked

(* The version a call may revoke: the one it was called with, or the one   *)
(* it committed itself.                                                    *)
IsItsOwn(c) ==
  row.version = asked[c].expected + (IF c \in won THEN 1 ELSE 0)

(* A call that fails in a way refresh_session foresees, or that finds      *)
(* another one stalled, revokes no version that was committed meanwhile    *)
(* and cuts no lease of another call that still runs.  Excepted is a call  *)
(* whose own renewal was committed and reported as failed:                 *)
(* UncertainSpareTheWinner.                                                *)
FailuresSpareTheWinner ==
  [][\A c \in Calls : Revokes(c, {"revoke", "stalled"}) /\ c \notin won =>
       row.version = asked[c].expected /\ row.owner \in lapsed \cup {c}]_vars

(* A call that was told that its commit failed revokes no version later    *)
(* than its own (identity/sessions.py:16-18, :632-634).  It is violated:   *)
(* its commit took effect, another call renewed the session since, and the *)
(* revocation goes by the session's id.                                    *)
UncertainSpareTheWinner ==
  [][\A c \in Calls : Revokes(c, {"revoke"}) /\ c \in won => IsItsOwn(c)]_vars

(* No loser and no stale owner revokes what a winner has committed         *)
(* (identity/sessions.py:16-18, :633-634).                                 *)
LosersSpareTheWinner ==
  [][\A c \in Calls : Revokes(c, {"fallback"}) => IsItsOwn(c)]_vars

(* Every call that lives is answered, also if the owner it waits for died. *)
RefreshesEnd == \A c \in Calls : pc[c] # "new" ~> pc[c] \in {"done", "dead"}
=============================================================================
