------------------------ MODULE SessionRefreshProofs ------------------------
(* What holds of a session's refresh for every set of calls: its type and  *)
(* table invariant, a token sent once, an envelope that fits its row, ok   *)
(* answers that stand for a renewal, and revocations that are final and    *)
(* spare the winner.                                                       *)
EXTENDS SessionRefresh, TLAPS

Unsent(t) == t = NoToken \/ \A s \in idp.sent : s[2] # t

(* Phases between the barrier and the commit.                              *)
InFlight == {"read", "ask", "commit"}
(* Phases only a call enters that found its expected version in the row.   *)
Matched == {"enter", "read", "ask", "commit", "reread", "poll", "stalled", "reclassify"}

VersionsFit(c) ==
  /\ asked[c].expected <= asked[c].initial /\ asked[c].initial <= row.version
  /\ pc[c] \in Matched => asked[c].initial = asked[c].expected
  /\ pc[c] = "reread" => row.version > asked[c].expected
  /\ answer[c].result = "ok" => pc[c] = "done"

(* What the owner of a row can be about to do.                             *)
OwnerFits(c) == row.owner = c =>
  /\ row.version = asked[c].expected
  /\ row.state = "leased" => pc[c] \in {"enter", "release", "dead"}
  /\ row.state = "calling" => pc[c] \in InFlight \cup {"revoke", "release", "fallback", "dead"}

(* Only a revocation takes the row from a call that passed the barrier.    *)
Held(c) == row.revoked \/ Owns(c, "calling")
BarrierHolds(c) ==
  /\ pc[c] \in InFlight => Held(c)
  /\ pc[c] = "revoke" => c \in won \/ Held(c)

OneInFlight == \A c, d \in Calls : pc[c] \in InFlight /\ pc[d] \in InFlight => c = d

(* What a call holds has not been sent, and will be the provider's.        *)
TokenFits(c) ==
  /\ token[c] <= idp.last
  /\ pc[c] = "read" => Unsent(envelope.token)
  /\ pc[c] = "ask" => token[c] # NoToken /\ Unsent(token[c])
  /\ pc[c] = "commit" => Unsent(token[c]) /\ (row.revoked \/ token[c] \in {NoToken, idp.live})

CallsFit == \A c \in Calls : VersionsFit(c) /\ OwnerFits(c) /\ BarrierHolds(c) /\ TokenFits(c)

ProviderFits ==
  /\ idp.live <= idp.last /\ envelope.token <= idp.last
  /\ \A s \in idp.sent : s[2] <= idp.last
  /\ logout.phase = "revoked" => row.revoked

EnvelopeFits ==
  /\ ~row.revoked => envelope.version = row.version
  /\ ~row.revoked /\ row.state # "calling" =>
       envelope.token \in {NoToken, idp.live} /\ Unsent(envelope.token)

Inv == /\ TypeOK /\ CallsFit /\ OneInFlight /\ ProviderFits /\ EnvelopeFits
       /\ TokensAreSentOnce /\ OkMeansRenewed

-----------------------------------------------------------------------------
(* What the steps use of the types.                                        *)
LEMMA CallTypes ==
  ASSUME Inv
  PROVE  /\ row \in [version : Nat \ {0}, revoked : BOOLEAN, state : States, owner : Owners]
         /\ row.owner = NoCall <=> row.state = "idle"
         /\ row.revoked => row.state = "idle"
         /\ pc \in [Calls -> Phases]
         /\ asked \in [Calls -> [expected : Nat \ {0}, initial : Nat \ {0}]]
  BY DEF Inv, TypeOK

LEMMA TokenTypes ==
  ASSUME Inv
  PROVE  /\ envelope \in [version : Nat \ {0}, token : Nat]
         /\ idp \in [live : Nat, last : Nat \ {0}, sent : SUBSET (Calls \X Nat)]
         /\ token \in [Calls -> Nat]
  BY DEF Inv, TypeOK

LEMMA AnswerTypes ==
  ASSUME Inv
  PROVE  /\ row.version \in Nat /\ \A c \in Calls : asked[c].expected \in Nat
         /\ answer \in [Calls -> [result : {"none", "ok", "conflict", "revoked"}, version : Nat]]
  BY DEF Inv, TypeOK

(* A call that finds its expected version began with it.                   *)
LEMMA FoundAtStart ==
  ASSUME Inv, NEW c \in Calls, row.version = asked[c].expected
  PROVE  asked[c].initial = asked[c].expected
<1>1. row.version \in Nat /\ asked[c].expected \in Nat /\ asked[c].initial \in Nat
  BY CallTypes
<1>2. VersionsFit(c)
  BY DEF Inv, CallsFit
<1> QED BY <1>1, <1>2 DEF VersionsFit

-----------------------------------------------------------------------------
(* What the request to the provider and a renewal change.                  *)
LEMMA AskEffect ==
  ASSUME Inv, NEW c \in Calls, Ask(c)
  PROVE  /\ idp' \in [live : Nat, last : Nat \ {0}, sent : SUBSET (Calls \X Nat)]
         /\ idp'.sent = idp.sent \cup {<<c, token[c]>>}
         /\ \/ idp'.live = idp.live /\ idp'.last = idp.last
            \/ idp'.live = idp.last + 1 /\ idp'.last = idp.last + 1 /\ token[c] = idp.live
         /\ token' \in [Calls -> Nat]
         /\ \A d \in Calls \ {c} : token'[d] = token[d] /\ pc'[d] = pc[d]
         /\ pc'[c] \in {"commit", "revoke"}
         /\ pc'[c] = "revoke" => token'[c] = token[c]
         /\ pc'[c] = "commit" => \/ token'[c] = NoToken
                                 \/ token'[c] = idp'.live /\ idp'.live = idp.last + 1
<1> DEFINE sent == idp.sent \cup {<<c, token[c]>>}
           refused == [idp EXCEPT !.sent = sent]
           renewed == [live |-> idp.last + 1, last |-> idp.last + 1, sent |-> sent]
<1>1. token[c] \in Nat /\ idp.live \in Nat /\ idp.last \in Nat \ {0} /\ idp.sent \subseteq Calls \X Nat
  BY TokenTypes
<1>2. idp = [live |-> idp.live, last |-> idp.last, sent |-> idp.sent]
  BY TokenTypes
<1>3. refused = [live |-> idp.live, last |-> idp.last, sent |-> sent]
  BY <1>2
<1>4. renewed = [live |-> idp.last + 1, last |-> idp.last + 1, sent |-> sent]
  OBVIOUS
<1>5. sent \in SUBSET (Calls \X Nat)
  BY <1>1
<1>6. \/ idp' = renewed /\ token' = [token EXCEPT ![c] = renewed.live] /\ pc' = [pc EXCEPT ![c] = "commit"]
      \/ idp' = refused /\ token' = [token EXCEPT ![c] = NoToken] /\ pc' = [pc EXCEPT ![c] = "commit"]
      \/ idp' \in {refused, renewed} /\ token' = token /\ pc' = [pc EXCEPT ![c] = "revoke"]
  BY DEF Ask, Goto
<1>7. pc \in [Calls -> Phases] /\ token \in [Calls -> Nat]
  BY CallTypes, TokenTypes
<1> HIDE DEF sent, refused, renewed
<1>8. idp' = refused \/ (idp' = renewed /\ token[c] = idp.live)
  BY DEF Ask, refused, renewed, sent
<1>9. /\ idp' \in [live : Nat, last : Nat \ {0}, sent : SUBSET (Calls \X Nat)]
      /\ idp'.sent = sent
      /\ \/ idp'.live = idp.live /\ idp'.last = idp.last
         \/ idp'.live = idp.last + 1 /\ idp'.last = idp.last + 1 /\ token[c] = idp.live
  BY <1>1, <1>3, <1>4, <1>5, <1>8
<1>10. /\ token' \in [Calls -> Nat]
       /\ \A d \in Calls \ {c} : token'[d] = token[d] /\ pc'[d] = pc[d]
       /\ pc'[c] \in {"commit", "revoke"}
       /\ pc'[c] = "revoke" => token'[c] = token[c]
       /\ pc'[c] = "commit" => \/ token'[c] = NoToken
                               \/ token'[c] = idp'.live /\ idp'.live = idp.last + 1
  <2>1. /\ token' \in [Calls -> Nat]
        /\ \A d \in Calls \ {c} : token'[d] = token[d] /\ pc'[d] = pc[d]
        /\ pc'[c] \in {"commit", "revoke"}
        /\ pc'[c] = "revoke" => token'[c] = token[c]
    BY <1>1, <1>4, <1>6, <1>7 DEF NoToken
  <2>2. pc'[c] = "commit" => \/ token'[c] = NoToken
                             \/ token'[c] = idp'.live /\ idp'.live = idp.last + 1
    BY <1>1, <1>4, <1>6, <1>7 DEF NoToken
  <2> QED BY <2>1, <2>2
<1> QED BY <1>9, <1>10 DEF sent

LEMMA RenewEffect ==
  ASSUME Inv, NEW c \in Calls, Owns(c, "calling"), Renew(c)
  PROVE  /\ row' = [version |-> row.version + 1, revoked |-> FALSE, state |-> "idle", owner |-> NoCall]
         /\ envelope' = [version |-> row.version + 1, token |-> token[c]]
         /\ row.version \in Nat /\ token[c] \in Nat
<1>1. row = [version |-> row.version, revoked |-> row.revoked, state |-> row.state, owner |-> row.owner]
  BY CallTypes
<1>2. row.revoked = FALSE
  BY CallTypes DEF Owns
<1>3. row.version = asked[c].expected
  BY DEF Owns
<1>4. row.version \in Nat /\ token[c] \in Nat
  BY CallTypes, TokenTypes
<1>5. row' = [row EXCEPT !.version = @ + 1, !.state = "idle", !.owner = NoCall]
  BY DEF Renew
<1>6. envelope' = [version |-> row.version + 1, token |-> token[c]]
  BY <1>3 DEF Renew, Sealed
<1> QED BY <1>1, <1>2, <1>4, <1>5, <1>6

-----------------------------------------------------------------------------
(* Each step preserves the invariant.                                      *)

LEMMA BeginInv ==
  ASSUME Inv, NEW c \in Calls, NEW v \in Nat, Begin(c, v)
  PROVE  Inv'
<1>1. TypeOK'
  <2>1. (pc \in [Calls -> Phases])'
    BY CallTypes DEF Begin, Answers, Goto, Phases
  <2>2. (asked \in [Calls -> [expected : Nat \ {0}, initial : Nat \ {0}]])'
    BY CallTypes DEF Inv, TypeOK, Begin, Answers, Goto
  <2>3. (answer \in [Calls -> [result : {"none", "ok", "conflict", "revoked"}, version : Nat]])'
    BY AnswerTypes DEF Begin, Answers
  <2> QED BY <2>1, <2>2, <2>3 DEF Inv, TypeOK, Begin
<1>2. CallsFit'
  <2> SUFFICES ASSUME NEW d \in Calls
               PROVE  (VersionsFit(d) /\ OwnerFits(d) /\ BarrierHolds(d) /\ TokenFits(d))'
    BY DEF CallsFit
  <2>1. VersionsFit(d)'
    BY CallTypes, AnswerTypes, FoundAtStart DEF VersionsFit, Begin, Inv, States, Owners,
           Answers, Goto, Matched, CallsFit
  <2>2. OwnerFits(d)'
    BY SessionAssumption, CallTypes DEF OwnerFits, Begin, Inv, States, Owners, Answers,
           Goto, InFlight, CallsFit, Owns
  <2>3. BarrierHolds(d)'
    BY CallTypes DEF BarrierHolds, Begin, Answers, Goto, Inv, CallsFit, InFlight, Held, Owns
  <2>4. TokenFits(d)'
    BY CallTypes DEF TokenFits, Begin, Answers, Goto, Inv, CallsFit, Unsent
  <2> QED BY <2>1, <2>2, <2>3, <2>4
<1>3. OneInFlight'
  BY CallTypes DEF OneInFlight, Begin, Answers, Goto, Inv, InFlight
<1>4. ProviderFits'
  BY DEF ProviderFits, Begin, Inv
<1>5. EnvelopeFits'
  BY CallTypes DEF EnvelopeFits, Begin, Inv, Unsent
<1>6. TokensAreSentOnce'
  BY DEF TokensAreSentOnce, Begin, Inv
<1>7. OkMeansRenewed'
  BY CallTypes, AnswerTypes DEF OkMeansRenewed, Begin, Inv, States, Owners, Answers, Goto,
         CallsFit, VersionsFit, Matched
<1> QED BY <1>1, <1>2, <1>3, <1>4, <1>5, <1>6, <1>7 DEF Inv

LEMMA AcquireInv ==
  ASSUME Inv, NEW c \in Calls, Acquire(c)
  PROVE  Inv'
<1>1. TypeOK'
  <2>1. (/\ row \in [version : Nat \ {0}, revoked : BOOLEAN, state : States, owner : Owners]
         /\ row.owner = NoCall <=> row.state = "idle"
         /\ row.revoked => row.state = "idle")'
    BY SessionAssumption, CallTypes DEF Acquire, MayAcquire, States, Owners, Owns
  <2>2. (pc \in [Calls -> Phases])'
    BY CallTypes DEF Acquire, MayAcquire, Goto, Phases
  <2> QED BY <2>1, <2>2 DEF Inv, TypeOK, Acquire
<1>2. CallsFit'
  <2> SUFFICES ASSUME NEW d \in Calls
               PROVE  (VersionsFit(d) /\ OwnerFits(d) /\ BarrierHolds(d) /\ TokenFits(d))'
    BY DEF CallsFit
  <2>1. VersionsFit(d)'
    BY CallTypes, AnswerTypes, FoundAtStart DEF VersionsFit, Acquire, Inv, States, Owners,
           MayAcquire, Goto, Matched, CallsFit
  <2>2. OwnerFits(d)'
    BY SessionAssumption, CallTypes DEF OwnerFits, Acquire, MayAcquire, Goto, Inv,
           CallsFit, InFlight
  <2>3. BarrierHolds(d)'
    BY CallTypes DEF BarrierHolds, Acquire, MayAcquire, Goto, Inv, CallsFit, InFlight,
           Held, Owns
  <2>4. TokenFits(d)'
    BY CallTypes DEF TokenFits, Acquire, MayAcquire, Goto, Inv, CallsFit, Unsent
  <2> QED BY <2>1, <2>2, <2>3, <2>4
<1>3. OneInFlight'
  BY CallTypes DEF OneInFlight, Acquire, MayAcquire, Goto, Inv, InFlight
<1>4. ProviderFits'
  BY CallTypes, TokenTypes DEF ProviderFits, Acquire, Inv, States, Owners, MayAcquire,
         Goto, NoToken
<1>5. EnvelopeFits'
  BY SessionAssumption, CallTypes, TokenTypes DEF EnvelopeFits, Acquire, Inv, States,
         Owners, MayAcquire, Goto, CallsFit, TokenFits, BarrierHolds, Held, Owns,
         OwnerFits, InFlight, Unsent, NoToken
<1>6. TokensAreSentOnce'
  BY DEF TokensAreSentOnce, Acquire, Inv
<1>7. OkMeansRenewed'
  BY AnswerTypes DEF OkMeansRenewed, Acquire, Inv
<1> QED BY <1>1, <1>2, <1>3, <1>4, <1>5, <1>6, <1>7 DEF Inv

LEMMA EnterCallingInv ==
  ASSUME Inv, NEW c \in Calls, EnterCalling(c)
  PROVE  Inv'
<1>1. TypeOK'
  <2>1. (/\ row \in [version : Nat \ {0}, revoked : BOOLEAN, state : States, owner : Owners]
         /\ row.owner = NoCall <=> row.state = "idle"
         /\ row.revoked => row.state = "idle")'
    BY SessionAssumption, CallTypes DEF EnterCalling, Owns, States, Owners
  <2>2. (pc \in [Calls -> Phases])'
    BY CallTypes DEF EnterCalling, Answers, Goto, Owns, Phases
  <2>3. (answer \in [Calls -> [result : {"none", "ok", "conflict", "revoked"}, version : Nat]])'
    BY AnswerTypes DEF EnterCalling, Answers
  <2> QED BY <2>1, <2>2, <2>3 DEF Inv, TypeOK, EnterCalling
<1>2. CallsFit'
  <2> SUFFICES ASSUME NEW d \in Calls
               PROVE  (VersionsFit(d) /\ OwnerFits(d) /\ BarrierHolds(d) /\ TokenFits(d))'
    BY DEF CallsFit
  <2>1. VersionsFit(d)'
    BY CallTypes, AnswerTypes, FoundAtStart DEF VersionsFit, EnterCalling, Inv, States,
           Owners, Answers, Goto, Owns, Matched, CallsFit
  <2>2. OwnerFits(d)'
    BY SessionAssumption, CallTypes DEF OwnerFits, EnterCalling, Answers, Goto, Owns, Inv,
           CallsFit, InFlight
  <2>3. BarrierHolds(d)'
    BY CallTypes DEF BarrierHolds, EnterCalling, Answers, Goto, Owns, Inv, CallsFit,
           InFlight, Held
  <2>4. TokenFits(d)'
    BY SessionAssumption, CallTypes, TokenTypes DEF TokenFits, EnterCalling, Inv, States,
           Owners, Answers, Goto, Owns, Unsent, NoToken, InFlight, CallsFit, OwnerFits,
           BarrierHolds, Held, OneInFlight, ProviderFits, EnvelopeFits
  <2> QED BY <2>1, <2>2, <2>3, <2>4
<1>3. OneInFlight'
  BY SessionAssumption, CallTypes DEF OneInFlight, EnterCalling, Inv, States, Owners,
         Answers, Goto, Owns, CallsFit, BarrierHolds, Held, OwnerFits, InFlight
<1>4. ProviderFits'
  BY CallTypes, TokenTypes DEF ProviderFits, EnterCalling, Inv, States, Owners, Answers,
         Goto, Owns, NoToken
<1>5. EnvelopeFits'
  BY CallTypes DEF EnvelopeFits, EnterCalling, Inv, Unsent
<1>6. TokensAreSentOnce'
  BY DEF TokensAreSentOnce, EnterCalling, Inv
<1>7. OkMeansRenewed'
  BY AnswerTypes DEF OkMeansRenewed, Inv, EnterCalling, Answers
<1> QED BY <1>1, <1>2, <1>3, <1>4, <1>5, <1>6, <1>7 DEF Inv

LEMMA ReadEnvelopeInv ==
  ASSUME Inv, NEW c \in Calls, ReadEnvelope(c)
  PROVE  Inv'
<1>1. TypeOK'
  <2>1. (pc \in [Calls -> Phases])'
    BY CallTypes DEF ReadEnvelope, Goto, Phases
  <2>2. (token \in [Calls -> Nat])'
    BY TokenTypes DEF ReadEnvelope, Goto
  <2> QED BY <2>1, <2>2 DEF Inv, TypeOK, ReadEnvelope
<1>2. CallsFit'
  <2> SUFFICES ASSUME NEW d \in Calls
               PROVE  (VersionsFit(d) /\ OwnerFits(d) /\ BarrierHolds(d) /\ TokenFits(d))'
    BY DEF CallsFit
  <2>1. VersionsFit(d)'
    BY CallTypes DEF VersionsFit, ReadEnvelope, Goto, Inv, CallsFit, Matched
  <2>2. OwnerFits(d)'
    BY SessionAssumption, CallTypes DEF OwnerFits, ReadEnvelope, Goto, Inv, CallsFit,
           InFlight
  <2>3. BarrierHolds(d)'
    BY CallTypes DEF BarrierHolds, ReadEnvelope, Goto, Inv, CallsFit, InFlight, Held, Owns
  <2>4. TokenFits(d)'
    BY SessionAssumption, CallTypes, TokenTypes DEF TokenFits, ReadEnvelope, Inv, States,
           Owners, Goto, Unsent, NoToken, InFlight, CallsFit, OwnerFits, BarrierHolds,
           Held, Owns, OneInFlight, ProviderFits, EnvelopeFits
  <2> QED BY <2>1, <2>2, <2>3, <2>4
<1>3. OneInFlight'
  BY CallTypes DEF OneInFlight, ReadEnvelope, Goto, Inv, InFlight
<1>4. ProviderFits'
  BY DEF ProviderFits, ReadEnvelope, Inv
<1>5. EnvelopeFits'
  BY CallTypes DEF EnvelopeFits, ReadEnvelope, Inv, Unsent
<1>6. TokensAreSentOnce'
  BY DEF TokensAreSentOnce, ReadEnvelope, Inv
<1>7. OkMeansRenewed'
  BY AnswerTypes DEF OkMeansRenewed, ReadEnvelope, Inv
<1> QED BY <1>1, <1>2, <1>3, <1>4, <1>5, <1>6, <1>7 DEF Inv

LEMMA AskInv ==
  ASSUME Inv, NEW c \in Calls, Ask(c)
  PROVE  Inv'
<1>1. TypeOK'
  <2>1. (idp \in [live : Nat, last : Nat \ {0}, sent : SUBSET (Calls \X Nat)])'
    BY AskEffect
  <2>2. (pc \in [Calls -> Phases])'
    BY CallTypes DEF Ask, Goto, Phases
  <2>3. (token \in [Calls -> Nat])'
    BY AskEffect
  <2> QED BY <2>1, <2>2, <2>3 DEF Inv, TypeOK, Ask
<1>2. CallsFit'
  <2> SUFFICES ASSUME NEW d \in Calls
               PROVE  (VersionsFit(d) /\ OwnerFits(d) /\ BarrierHolds(d) /\ TokenFits(d))'
    BY DEF CallsFit
  <2>1. VersionsFit(d)'
    BY CallTypes DEF VersionsFit, Ask, Goto, Inv, CallsFit, Matched
  <2>2. OwnerFits(d)'
    BY SessionAssumption, CallTypes DEF OwnerFits, Ask, Goto, Inv, CallsFit, InFlight
  <2>3. BarrierHolds(d)'
    BY CallTypes DEF BarrierHolds, Ask, Goto, Inv, CallsFit, InFlight, Held, Owns
  <2>4. TokenFits(d)'
    <3>1. /\ idp.live \in Nat /\ idp.last \in Nat
          /\ \A s \in idp.sent : s[2] \in Nat
          /\ \A e \in Calls : token[e] \in Nat
      BY TokenTypes
    <3>2. /\ idp.live <= idp.last /\ \A s \in idp.sent : s[2] <= idp.last
          /\ token[c] <= idp.last /\ token[d] <= idp.last
      BY DEF Inv, ProviderFits, CallsFit, TokenFits
    <3>3. pc[c] = "ask" /\ envelope' = envelope /\ row' = row
      BY DEF Ask
    <3>4. CASE d = c
      <4>1. pc'[d] \notin {"read", "ask"}
        BY <3>4, AskEffect
      <4>2. token'[d] <= idp'.last
        BY <3>1, <3>2, <3>4, AskEffect DEF NoToken
      <4>3. pc'[d] = "commit" => Unsent(token[d])' /\ token'[d] \in {NoToken, idp'.live}
        BY <3>1, <3>2, <3>4, AskEffect DEF Unsent, NoToken
      <4> QED BY <4>1, <4>2, <4>3 DEF TokenFits
    <3>5. CASE d # c
      <4>1. pc'[d] \notin InFlight
        BY <3>3, <3>5, AskEffect DEF Inv, OneInFlight, InFlight
      <4> QED BY <3>1, <3>2, <3>5, <4>1, AskEffect DEF TokenFits, InFlight
    <3> QED BY <3>4, <3>5
  <2> QED BY <2>1, <2>2, <2>3, <2>4
<1>3. OneInFlight'
  BY CallTypes DEF OneInFlight, Ask, Goto, Inv, InFlight
<1>4. ProviderFits'
  <2>1. /\ idp.live \in Nat /\ idp.last \in Nat /\ envelope.token \in Nat
        /\ \A s \in idp.sent : s[2] \in Nat
        /\ token[c] \in Nat
    BY TokenTypes
  <2>2. ProviderFits /\ token[c] <= idp.last
    BY DEF Inv, CallsFit, TokenFits
  <2>3. envelope' = envelope /\ row' = row /\ logout' = logout
    BY DEF Ask
  <2> QED BY <2>1, <2>2, <2>3, AskEffect DEF ProviderFits
<1>5. EnvelopeFits'
  BY SessionAssumption, CallTypes, TokenTypes DEF EnvelopeFits, Ask, Inv, States, Owners,
         Goto, CallsFit, TokenFits, BarrierHolds, Held, Owns, OwnerFits, InFlight, Unsent,
         NoToken
<1>6. TokensAreSentOnce'
  <2>1. token[c] # NoToken /\ Unsent(token[c])
    BY DEF Inv, CallsFit, TokenFits, Ask
  <2> QED BY <2>1, AskEffect DEF TokensAreSentOnce, Inv, Unsent
<1>7. OkMeansRenewed'
  BY AnswerTypes DEF OkMeansRenewed, Ask, Inv
<1> QED BY <1>1, <1>2, <1>3, <1>4, <1>5, <1>6, <1>7 DEF Inv

LEMMA CommitInv ==
  ASSUME Inv, NEW c \in Calls, Commit(c)
  PROVE  Inv'
<1>1. TypeOK'
  <2>1. (/\ row \in [version : Nat \ {0}, revoked : BOOLEAN, state : States, owner : Owners]
         /\ row.owner = NoCall <=> row.state = "idle"
         /\ row.revoked => row.state = "idle")'
    <3>1. CASE Owns(c, "calling") /\ Renew(c)
      <4>1. row.version + 1 \in Nat \ {0}
        BY <3>1, RenewEffect
      <4>2. row' \in [version : Nat \ {0}, revoked : BOOLEAN, state : States, owner : Owners]
        BY <3>1, <4>1, CallTypes DEF Renew, States, Owners
      <4>3. row'.owner = NoCall /\ row'.state = "idle"
        BY <3>1, RenewEffect
      <4> QED BY <4>2, <4>3
    <3>2. CASE RollBack(c)
      BY <3>2, CallTypes DEF RollBack
    <3> QED BY <3>1, <3>2 DEF Commit
  <2>2. (envelope \in [version : Nat \ {0}, token : Nat])'
    BY TokenTypes, CallTypes DEF Commit, Renew, Sealed, RollBack, Answers, Goto, Owns
  <2>3. (clock \in {"fresh", "idle", "absolute"})'
    BY CallTypes DEF Inv, TypeOK, Commit, Renew, Sealed, RollBack, Answers, Goto, Owns
  <2>4. (pc \in [Calls -> Phases])'
    BY CallTypes DEF Commit, Renew, Sealed, RollBack, Answers, Goto, Owns, Phases
  <2>5. (answer \in [Calls -> [result : {"none", "ok", "conflict", "revoked"}, version : Nat]])'
    BY AnswerTypes DEF Commit, Answers
  <2>6. (won \subseteq Calls)'
    BY CallTypes DEF Inv, TypeOK, Commit, Renew, Sealed, RollBack, Answers, Goto, Owns
  <2> QED BY <2>1, <2>2, <2>3, <2>4, <2>5, <2>6 DEF Inv, TypeOK, Commit
<1>2. CallsFit'
  <2> SUFFICES ASSUME NEW d \in Calls
               PROVE  (VersionsFit(d) /\ OwnerFits(d) /\ BarrierHolds(d) /\ TokenFits(d))'
    BY DEF CallsFit
  <2>1. VersionsFit(d)'
    <3>1. VersionsFit(d)
      BY DEF Inv, CallsFit
    <3>2. row.version \in Nat /\ asked[d].expected \in Nat /\ asked[d].initial \in Nat
      BY CallTypes
    <3>3. row'.version = row.version \/ row'.version = row.version + 1
      BY RenewEffect DEF Commit, RollBack
    <3>4. pc[c] = "commit" /\ asked' = asked
      BY DEF Commit
    <3>5. pc'[d] = "reread" => \/ d = c /\ Owns(c, "calling") /\ Renew(c)
                              \/ pc[d] = "reread"
      BY CallTypes DEF Commit, Answers, Goto
    <3>6. pc'[d] \in Matched => pc[d] \in Matched
      BY <3>4, CallTypes DEF Commit, Answers, Goto, Matched
    <3>7. answer'[d].result = "ok" => answer[d].result = "ok" /\ d # c
      BY <3>1, <3>4, AnswerTypes DEF VersionsFit, Commit, Answers
    <3>8. d # c => pc'[d] = pc[d]
      BY CallTypes DEF Commit, Answers, Goto
    <3>9. pc'[d] = "reread" => row'.version > asked[d].expected
      BY <3>1, <3>2, <3>3, <3>5, RenewEffect DEF VersionsFit, Owns
    <3> QED BY <3>1, <3>2, <3>3, <3>4, <3>6, <3>7, <3>8, <3>9 DEF VersionsFit
  <2>2. OwnerFits(d)'
    BY SessionAssumption, CallTypes DEF OwnerFits, Commit, Renew, Sealed, RollBack,
           Answers, Goto, Owns, Inv, CallsFit, InFlight
  <2>3. BarrierHolds(d)'
    BY CallTypes DEF BarrierHolds, Commit, Renew, Sealed, RollBack, Answers, Goto, Owns,
           Inv, CallsFit, InFlight, Held
  <2>4. TokenFits(d)'
    BY CallTypes DEF TokenFits, Commit, Renew, Sealed, RollBack, Answers, Goto, Owns, Inv,
           CallsFit, Unsent
  <2> QED BY <2>1, <2>2, <2>3, <2>4
<1>3. OneInFlight'
  BY CallTypes DEF OneInFlight, Commit, Renew, Sealed, RollBack, Answers, Goto, Owns, Inv,
         InFlight
<1>4. ProviderFits'
  <2>1. envelope' = envelope \/ envelope'.token = token[c]
    BY RenewEffect DEF Commit, RollBack
  <2>2. token[c] <= idp.last /\ (logout.phase = "revoked" => row.revoked)
    BY DEF Inv, CallsFit, TokenFits, ProviderFits
  <2>3. row.revoked => row' = row
    BY DEF Commit, RollBack, Owns
  <2> QED BY <2>1, <2>2, <2>3 DEF Inv, ProviderFits, Commit
<1>5. EnvelopeFits'
  <2>1. CASE Owns(c, "calling") /\ Renew(c)
    <3>1. token[c] \in {NoToken, idp.live} /\ Unsent(token[c])
      BY <2>1 DEF Commit, Inv, CallsFit, TokenFits, Owns
    <3> QED BY <2>1, <3>1, RenewEffect DEF Commit, EnvelopeFits, Unsent
  <2>2. CASE RollBack(c)
    BY <2>2 DEF Commit, RollBack, EnvelopeFits, Unsent, Inv
  <2> QED BY <2>1, <2>2 DEF Commit
<1>6. TokensAreSentOnce'
  BY DEF TokensAreSentOnce, Commit, Inv
<1>7. OkMeansRenewed'
  BY AnswerTypes DEF OkMeansRenewed, Commit, Renew, Sealed, RollBack, Answers, Inv
<1> QED BY <1>1, <1>2, <1>3, <1>4, <1>5, <1>6, <1>7 DEF Inv

LEMMA CommitFailsInv ==
  ASSUME Inv, NEW c \in Calls, CommitFails(c)
  PROVE  Inv'
<1>1. TypeOK'
  <2>1. (/\ row \in [version : Nat \ {0}, revoked : BOOLEAN, state : States, owner : Owners]
         /\ row.owner = NoCall <=> row.state = "idle"
         /\ row.revoked => row.state = "idle")'
    <3>1. CASE Owns(c, "calling") /\ Renew(c)
      <4>1. row.version + 1 \in Nat \ {0}
        BY <3>1, RenewEffect
      <4>2. row' \in [version : Nat \ {0}, revoked : BOOLEAN, state : States, owner : Owners]
        BY <3>1, <4>1, CallTypes DEF Renew, States, Owners
      <4>3. row'.owner = NoCall /\ row'.state = "idle"
        BY <3>1, RenewEffect
      <4> QED BY <4>2, <4>3
    <3>2. CASE RollBack(c)
      BY <3>2, CallTypes DEF RollBack
    <3> QED BY <3>1, <3>2 DEF CommitFails
  <2>2. (envelope \in [version : Nat \ {0}, token : Nat])'
    BY TokenTypes, CallTypes DEF CommitFails, Renew, Sealed, RollBack, Goto, Owns
  <2>3. (clock \in {"fresh", "idle", "absolute"})'
    BY CallTypes DEF Inv, TypeOK, CommitFails, Renew, Sealed, RollBack, Goto, Owns
  <2>4. (pc \in [Calls -> Phases])'
    BY CallTypes DEF CommitFails, Renew, Sealed, RollBack, Goto, Owns, Phases
  <2>5. (won \subseteq Calls)'
    BY CallTypes DEF Inv, TypeOK, CommitFails, Renew, Sealed, RollBack, Goto, Owns
  <2> QED BY <2>1, <2>2, <2>3, <2>4, <2>5 DEF Inv, TypeOK, CommitFails
<1>2. CallsFit'
  <2> SUFFICES ASSUME NEW d \in Calls
               PROVE  (VersionsFit(d) /\ OwnerFits(d) /\ BarrierHolds(d) /\ TokenFits(d))'
    BY DEF CallsFit
  <2>1. VersionsFit(d)'
    <3>1. VersionsFit(d)
      BY DEF Inv, CallsFit
    <3>2. row.version \in Nat /\ asked[d].expected \in Nat /\ asked[d].initial \in Nat
      BY CallTypes
    <3>3. row'.version = row.version \/ row'.version = row.version + 1
      BY RenewEffect DEF CommitFails, RollBack
    <3>4. pc[c] = "commit" /\ asked' = asked
      BY DEF CommitFails
    <3>5. pc'[d] = "reread" => \/ d = c /\ Owns(c, "calling") /\ Renew(c)
                              \/ pc[d] = "reread"
      BY CallTypes DEF CommitFails, Answers, Goto
    <3>6. pc'[d] \in Matched => pc[d] \in Matched
      BY <3>4, CallTypes DEF CommitFails, Answers, Goto, Matched
    <3>7. answer'[d].result = "ok" => answer[d].result = "ok" /\ d # c
      BY <3>1, <3>4, AnswerTypes DEF VersionsFit, CommitFails, Answers
    <3>8. d # c => pc'[d] = pc[d]
      BY CallTypes DEF CommitFails, Answers, Goto
    <3>9. pc'[d] = "reread" => row'.version > asked[d].expected
      BY <3>1, <3>2, <3>3, <3>5, RenewEffect DEF VersionsFit, Owns
    <3> QED BY <3>1, <3>2, <3>3, <3>4, <3>6, <3>7, <3>8, <3>9 DEF VersionsFit
  <2>2. OwnerFits(d)'
    BY SessionAssumption, CallTypes DEF OwnerFits, CommitFails, Renew, Sealed, RollBack,
           Goto, Owns, Inv, CallsFit, InFlight
  <2>3. BarrierHolds(d)'
    BY CallTypes DEF BarrierHolds, CommitFails, Renew, Sealed, RollBack, Goto, Owns, Inv,
           CallsFit, InFlight, Held
  <2>4. TokenFits(d)'
    BY CallTypes DEF TokenFits, CommitFails, Renew, Sealed, RollBack, Goto, Owns, Inv,
           CallsFit, Unsent
  <2> QED BY <2>1, <2>2, <2>3, <2>4
<1>3. OneInFlight'
  BY CallTypes DEF OneInFlight, CommitFails, Renew, Sealed, RollBack, Goto, Owns, Inv,
         InFlight
<1>4. ProviderFits'
  <2>1. envelope' = envelope \/ envelope'.token = token[c]
    BY RenewEffect DEF CommitFails, RollBack
  <2>2. token[c] <= idp.last /\ (logout.phase = "revoked" => row.revoked)
    BY DEF Inv, CallsFit, TokenFits, ProviderFits
  <2>3. row.revoked => row' = row
    BY DEF CommitFails, RollBack, Owns
  <2> QED BY <2>1, <2>2, <2>3 DEF Inv, ProviderFits, CommitFails
<1>5. EnvelopeFits'
  <2>1. CASE Owns(c, "calling") /\ Renew(c)
    <3>1. token[c] \in {NoToken, idp.live} /\ Unsent(token[c])
      BY <2>1 DEF CommitFails, Inv, CallsFit, TokenFits, Owns
    <3> QED BY <2>1, <3>1, RenewEffect DEF CommitFails, EnvelopeFits, Unsent
  <2>2. CASE RollBack(c)
    BY <2>2 DEF CommitFails, RollBack, EnvelopeFits, Unsent, Inv
  <2> QED BY <2>1, <2>2 DEF CommitFails
<1>6. TokensAreSentOnce'
  BY DEF TokensAreSentOnce, CommitFails, Inv
<1>7. OkMeansRenewed'
  BY AnswerTypes DEF OkMeansRenewed, CommitFails, Renew, Sealed, RollBack, Inv
<1> QED BY <1>1, <1>2, <1>3, <1>4, <1>5, <1>6, <1>7 DEF Inv

LEMMA RereadInv ==
  ASSUME Inv, NEW c \in Calls, Reread(c)
  PROVE  Inv'
<1>1. TypeOK'
  <2>1. (pc \in [Calls -> Phases])'
    BY CallTypes DEF Reread, Answers, Goto, Phases
  <2>2. (answer \in [Calls -> [result : {"none", "ok", "conflict", "revoked"}, version : Nat]])'
    BY AnswerTypes DEF Reread, Answers
  <2> QED BY <2>1, <2>2 DEF Inv, TypeOK, Reread
<1>2. CallsFit'
  <2> SUFFICES ASSUME NEW d \in Calls
               PROVE  (VersionsFit(d) /\ OwnerFits(d) /\ BarrierHolds(d) /\ TokenFits(d))'
    BY DEF CallsFit
  <2>1. VersionsFit(d)'
    BY CallTypes DEF VersionsFit, Reread, Answers, Goto, Inv, CallsFit, Matched
  <2>2. OwnerFits(d)'
    BY SessionAssumption, CallTypes DEF OwnerFits, Reread, Answers, Goto, Inv, CallsFit,
           InFlight
  <2>3. BarrierHolds(d)'
    BY CallTypes DEF BarrierHolds, Reread, Answers, Goto, Inv, CallsFit, InFlight, Held,
           Owns
  <2>4. TokenFits(d)'
    BY CallTypes DEF TokenFits, Reread, Answers, Goto, Inv, CallsFit, Unsent
  <2> QED BY <2>1, <2>2, <2>3, <2>4
<1>3. OneInFlight'
  BY CallTypes DEF OneInFlight, Reread, Answers, Goto, Inv, InFlight
<1>4. ProviderFits'
  BY DEF ProviderFits, Reread, Inv
<1>5. EnvelopeFits'
  BY CallTypes DEF EnvelopeFits, Reread, Inv, Unsent
<1>6. TokensAreSentOnce'
  BY DEF TokensAreSentOnce, Reread, Inv
<1>7. OkMeansRenewed'
  BY CallTypes, AnswerTypes DEF OkMeansRenewed, Reread, Inv, States, Owners, Answers, Goto,
         CallsFit, VersionsFit, Matched
<1> QED BY <1>1, <1>2, <1>3, <1>4, <1>5, <1>6, <1>7 DEF Inv

LEMMA FailClosedInv ==
  ASSUME Inv, NEW c \in Calls, FailClosed(c)
  PROVE  Inv'
<1>1. TypeOK'
  <2>1. (/\ row \in [version : Nat \ {0}, revoked : BOOLEAN, state : States, owner : Owners]
         /\ row.owner = NoCall <=> row.state = "idle"
         /\ row.revoked => row.state = "idle")'
    BY SessionAssumption, CallTypes DEF FailClosed, RevokeById, Revoked, States, Owners,
           Owns
  <2>2. (pc \in [Calls -> Phases])'
    BY CallTypes DEF FailClosed, RevokeById, Revoked, Answers, Goto, Phases
  <2>3. (answer \in [Calls -> [result : {"none", "ok", "conflict", "revoked"}, version : Nat]])'
    BY AnswerTypes DEF FailClosed, Answers
  <2> QED BY <2>1, <2>2, <2>3 DEF Inv, TypeOK, FailClosed
<1>2. CallsFit'
  <2> SUFFICES ASSUME NEW d \in Calls
               PROVE  (VersionsFit(d) /\ OwnerFits(d) /\ BarrierHolds(d) /\ TokenFits(d))'
    BY DEF CallsFit
  <2>1. VersionsFit(d)'
    BY CallTypes DEF VersionsFit, FailClosed, RevokeById, Revoked, Answers, Goto, Inv,
           CallsFit, Matched
  <2>2. OwnerFits(d)'
    BY SessionAssumption, CallTypes DEF OwnerFits, FailClosed, RevokeById, Revoked,
           Answers, Goto, Inv, CallsFit, InFlight
  <2>3. BarrierHolds(d)'
    BY CallTypes DEF BarrierHolds, FailClosed, RevokeById, Revoked, Answers, Goto, Inv,
           CallsFit, InFlight, Held, Owns
  <2>4. TokenFits(d)'
    BY CallTypes DEF TokenFits, FailClosed, RevokeById, Revoked, Answers, Goto, Inv,
           CallsFit, Unsent
  <2> QED BY <2>1, <2>2, <2>3, <2>4
<1>3. OneInFlight'
  BY CallTypes DEF OneInFlight, FailClosed, RevokeById, Revoked, Answers, Goto, Inv,
         InFlight
<1>4. ProviderFits'
  BY DEF ProviderFits, FailClosed, RevokeById, Revoked, Inv
<1>5. EnvelopeFits'
  BY CallTypes DEF EnvelopeFits, FailClosed, RevokeById, Revoked, Inv, Unsent
<1>6. TokensAreSentOnce'
  BY DEF TokensAreSentOnce, FailClosed, Inv
<1>7. OkMeansRenewed'
  BY AnswerTypes DEF OkMeansRenewed, FailClosed, RevokeById, Revoked, Answers, Inv
<1> QED BY <1>1, <1>2, <1>3, <1>4, <1>5, <1>6, <1>7 DEF Inv

LEMMA StatementFailsInv ==
  ASSUME Inv, NEW c \in Calls, StatementFails(c)
  PROVE  Inv'
<1>1. TypeOK'
  <2>1. (/\ row \in [version : Nat \ {0}, revoked : BOOLEAN, state : States, owner : Owners]
         /\ row.owner = NoCall <=> row.state = "idle"
         /\ row.revoked => row.state = "idle")'
    BY SessionAssumption, CallTypes DEF StatementFails, Owns, States, Owners
  <2>2. (pc \in [Calls -> Phases])'
    BY CallTypes DEF StatementFails, Goto, Owns, Phases
  <2> QED BY <2>1, <2>2 DEF Inv, TypeOK, StatementFails
<1>2. CallsFit'
  <2> SUFFICES ASSUME NEW d \in Calls
               PROVE  (VersionsFit(d) /\ OwnerFits(d) /\ BarrierHolds(d) /\ TokenFits(d))'
    BY DEF CallsFit
  <2>1. VersionsFit(d)'
    BY CallTypes DEF VersionsFit, StatementFails, Goto, Owns, Inv, CallsFit, Matched
  <2>2. OwnerFits(d)'
    BY SessionAssumption, CallTypes DEF OwnerFits, StatementFails, Goto, Owns, Inv,
           CallsFit, InFlight
  <2>3. BarrierHolds(d)'
    BY CallTypes DEF BarrierHolds, StatementFails, Goto, Owns, Inv, CallsFit, InFlight, Held
  <2>4. TokenFits(d)'
    BY CallTypes DEF TokenFits, StatementFails, Goto, Owns, Inv, CallsFit, Unsent
  <2> QED BY <2>1, <2>2, <2>3, <2>4
<1>3. OneInFlight'
  BY CallTypes DEF OneInFlight, StatementFails, Goto, Owns, Inv, InFlight
<1>4. ProviderFits'
  BY CallTypes, TokenTypes DEF ProviderFits, StatementFails, Inv, States, Owners, Goto,
         Owns, NoToken
<1>5. EnvelopeFits'
  BY CallTypes DEF EnvelopeFits, StatementFails, Inv, Unsent
<1>6. TokensAreSentOnce'
  BY DEF TokensAreSentOnce, StatementFails, Inv
<1>7. OkMeansRenewed'
  BY AnswerTypes DEF OkMeansRenewed, StatementFails, Inv
<1> QED BY <1>1, <1>2, <1>3, <1>4, <1>5, <1>6, <1>7 DEF Inv

LEMMA ReleaseInv ==
  ASSUME Inv, NEW c \in Calls, Release(c)
  PROVE  Inv'
<1>1. TypeOK'
  <2>1. (/\ row \in [version : Nat \ {0}, revoked : BOOLEAN, state : States, owner : Owners]
         /\ row.owner = NoCall <=> row.state = "idle"
         /\ row.revoked => row.state = "idle")'
    BY SessionAssumption, CallTypes DEF Release, Owns, States, Owners
  <2>2. (pc \in [Calls -> Phases])'
    BY CallTypes DEF Release, Goto, Owns, Phases
  <2> QED BY <2>1, <2>2 DEF Inv, TypeOK, Release
<1>2. CallsFit'
  <2> SUFFICES ASSUME NEW d \in Calls
               PROVE  (VersionsFit(d) /\ OwnerFits(d) /\ BarrierHolds(d) /\ TokenFits(d))'
    BY DEF CallsFit
  <2>1. VersionsFit(d)'
    BY CallTypes DEF VersionsFit, Release, Goto, Owns, Inv, CallsFit, Matched
  <2>2. OwnerFits(d)'
    BY SessionAssumption, CallTypes DEF OwnerFits, Release, Goto, Owns, Inv, CallsFit,
           InFlight
  <2>3. BarrierHolds(d)'
    BY CallTypes DEF BarrierHolds, Release, Goto, Owns, Inv, CallsFit, InFlight, Held
  <2>4. TokenFits(d)'
    BY CallTypes DEF TokenFits, Release, Goto, Owns, Inv, CallsFit, Unsent
  <2> QED BY <2>1, <2>2, <2>3, <2>4
<1>3. OneInFlight'
  BY CallTypes DEF OneInFlight, Release, Goto, Owns, Inv, InFlight
<1>4. ProviderFits'
  BY DEF ProviderFits, Release, Inv
<1>5. EnvelopeFits'
  BY SessionAssumption, CallTypes, TokenTypes DEF EnvelopeFits, Release, Inv, States,
         Owners, Goto, Owns, CallsFit, TokenFits, BarrierHolds, Held, OwnerFits, InFlight,
         Unsent, NoToken
<1>6. TokensAreSentOnce'
  BY DEF TokensAreSentOnce, Release, Inv
<1>7. OkMeansRenewed'
  BY AnswerTypes DEF OkMeansRenewed, Release, Inv
<1> QED BY <1>1, <1>2, <1>3, <1>4, <1>5, <1>6, <1>7 DEF Inv

LEMMA LookInv ==
  ASSUME Inv, NEW c \in Calls, Look(c)
  PROVE  Inv'
<1>1. TypeOK'
  <2>1. (pc \in [Calls -> Phases])'
    BY CallTypes DEF Look, WonMeanwhile, Watches, Answers, Goto, Phases
  <2>2. (watch \in [Calls -> [state : States, owner : Owners]])'
    BY CallTypes DEF Inv, TypeOK, Look, WonMeanwhile, Watches, Answers, Goto, States, Owners
  <2>3. (answer \in [Calls -> [result : {"none", "ok", "conflict", "revoked"}, version : Nat]])'
    BY AnswerTypes DEF Look, Watches, Answers
  <2> QED BY <2>1, <2>2, <2>3 DEF Inv, TypeOK, Look
<1>2. CallsFit'
  <2> SUFFICES ASSUME NEW d \in Calls
               PROVE  (VersionsFit(d) /\ OwnerFits(d) /\ BarrierHolds(d) /\ TokenFits(d))'
    BY DEF CallsFit
  <2>1. VersionsFit(d)'
    BY CallTypes, AnswerTypes, FoundAtStart DEF VersionsFit, Look, Inv, States, Owners,
           WonMeanwhile, Watches, Answers, Goto, Matched, CallsFit
  <2>2. OwnerFits(d)'
    BY SessionAssumption, CallTypes DEF OwnerFits, Look, WonMeanwhile, Watches, Answers,
           Goto, Inv, CallsFit, InFlight
  <2>3. BarrierHolds(d)'
    BY CallTypes DEF BarrierHolds, Look, WonMeanwhile, Watches, Answers, Goto, Inv,
           CallsFit, InFlight, Held, Owns
  <2>4. TokenFits(d)'
    BY CallTypes DEF TokenFits, Look, WonMeanwhile, Watches, Answers, Goto, Inv, CallsFit,
           Unsent
  <2> QED BY <2>1, <2>2, <2>3, <2>4
<1>3. OneInFlight'
  BY CallTypes DEF OneInFlight, Look, WonMeanwhile, Watches, Answers, Goto, Inv, InFlight
<1>4. ProviderFits'
  BY DEF ProviderFits, Look, Inv
<1>5. EnvelopeFits'
  BY CallTypes DEF EnvelopeFits, Look, Inv, Unsent
<1>6. TokensAreSentOnce'
  BY DEF TokensAreSentOnce, Look, Inv
<1>7. OkMeansRenewed'
  BY CallTypes, AnswerTypes DEF OkMeansRenewed, Look, Inv, States, Owners, WonMeanwhile,
         Watches, Answers, Goto, CallsFit, VersionsFit, Matched
<1> QED BY <1>1, <1>2, <1>3, <1>4, <1>5, <1>6, <1>7 DEF Inv

LEMMA PollInv ==
  ASSUME Inv, NEW c \in Calls, Poll(c)
  PROVE  Inv'
<1>1. TypeOK'
  <2>1. (pc \in [Calls -> Phases])'
    BY CallTypes DEF Poll, WaitIsOver, Watches, Answers, Goto, Phases
  <2>2. (watch \in [Calls -> [state : States, owner : Owners]])'
    BY CallTypes DEF Inv, TypeOK, Poll, WaitIsOver, Watches, Answers, Goto, States, Owners
  <2>3. (answer \in [Calls -> [result : {"none", "ok", "conflict", "revoked"}, version : Nat]])'
    BY AnswerTypes DEF Poll, Watches, Answers
  <2> QED BY <2>1, <2>2, <2>3 DEF Inv, TypeOK, Poll
<1>2. CallsFit'
  <2> SUFFICES ASSUME NEW d \in Calls
               PROVE  (VersionsFit(d) /\ OwnerFits(d) /\ BarrierHolds(d) /\ TokenFits(d))'
    BY DEF CallsFit
  <2>1. VersionsFit(d)'
    BY CallTypes, AnswerTypes, FoundAtStart DEF VersionsFit, Poll, Inv, States, Owners,
           WaitIsOver, Watches, Answers, Goto, Matched, CallsFit
  <2>2. OwnerFits(d)'
    BY SessionAssumption, CallTypes DEF OwnerFits, Poll, WaitIsOver, Watches, Answers,
           Goto, Inv, CallsFit, InFlight
  <2>3. BarrierHolds(d)'
    BY CallTypes DEF BarrierHolds, Poll, WaitIsOver, Watches, Answers, Goto, Inv, CallsFit,
           InFlight, Held, Owns
  <2>4. TokenFits(d)'
    BY CallTypes DEF TokenFits, Poll, WaitIsOver, Watches, Answers, Goto, Inv, CallsFit,
           Unsent
  <2> QED BY <2>1, <2>2, <2>3, <2>4
<1>3. OneInFlight'
  BY CallTypes DEF OneInFlight, Poll, WaitIsOver, Watches, Answers, Goto, Inv, InFlight
<1>4. ProviderFits'
  BY DEF ProviderFits, Poll, Inv
<1>5. EnvelopeFits'
  BY CallTypes DEF EnvelopeFits, Poll, Inv, Unsent
<1>6. TokensAreSentOnce'
  BY DEF TokensAreSentOnce, Poll, Inv
<1>7. OkMeansRenewed'
  <2>1. pc[c] = "poll" /\ asked' = asked
    BY DEF Poll
  <2>2. asked[c].initial = asked[c].expected
    BY <2>1 DEF Inv, CallsFit, VersionsFit, Matched
  <2>3. \/ answer' = answer
        \/ answer' = [answer EXCEPT ![c] = [result |-> "revoked", version |-> row.version]]
        \/ /\ row.version > asked[c].expected
           /\ answer' = [answer EXCEPT ![c] = [result |-> "ok", version |-> row.version]]
    BY DEF Poll, Answers, Watches
  <2> QED BY <2>1, <2>2, <2>3, AnswerTypes DEF OkMeansRenewed, Inv
<1> QED BY <1>1, <1>2, <1>3, <1>4, <1>5, <1>6, <1>7 DEF Inv

LEMMA GiveUpInv ==
  ASSUME Inv, NEW c \in Calls, GiveUp(c)
  PROVE  Inv'
<1>1. TypeOK'
  <2>1. (pc \in [Calls -> Phases])'
    BY CallTypes DEF GiveUp, Answers, Goto, Phases
  <2>2. (answer \in [Calls -> [result : {"none", "ok", "conflict", "revoked"}, version : Nat]])'
    BY AnswerTypes DEF GiveUp, Answers
  <2> QED BY <2>1, <2>2 DEF Inv, TypeOK, GiveUp
<1>2. CallsFit'
  <2> SUFFICES ASSUME NEW d \in Calls
               PROVE  (VersionsFit(d) /\ OwnerFits(d) /\ BarrierHolds(d) /\ TokenFits(d))'
    BY DEF CallsFit
  <2>1. VersionsFit(d)'
    BY CallTypes, AnswerTypes, FoundAtStart DEF VersionsFit, GiveUp, Inv, States, Owners,
           Answers, Goto, Matched, CallsFit
  <2>2. OwnerFits(d)'
    BY SessionAssumption, CallTypes DEF OwnerFits, GiveUp, Answers, Goto, Inv, CallsFit,
           InFlight
  <2>3. BarrierHolds(d)'
    BY CallTypes DEF BarrierHolds, GiveUp, Answers, Goto, Inv, CallsFit, InFlight, Held,
           Owns
  <2>4. TokenFits(d)'
    BY CallTypes DEF TokenFits, GiveUp, Answers, Goto, Inv, CallsFit, Unsent
  <2> QED BY <2>1, <2>2, <2>3, <2>4
<1>3. OneInFlight'
  BY CallTypes DEF OneInFlight, GiveUp, Answers, Goto, Inv, InFlight
<1>4. ProviderFits'
  BY DEF ProviderFits, GiveUp, Inv
<1>5. EnvelopeFits'
  BY CallTypes DEF EnvelopeFits, GiveUp, Inv, Unsent
<1>6. TokensAreSentOnce'
  BY DEF TokensAreSentOnce, GiveUp, Inv
<1>7. OkMeansRenewed'
  BY AnswerTypes DEF OkMeansRenewed, Inv, GiveUp, Answers
<1> QED BY <1>1, <1>2, <1>3, <1>4, <1>5, <1>6, <1>7 DEF Inv

LEMMA RevokeStalledInv ==
  ASSUME Inv, NEW c \in Calls, RevokeStalled(c)
  PROVE  Inv'
<1>1. TypeOK'
  <2>1. (/\ row \in [version : Nat \ {0}, revoked : BOOLEAN, state : States, owner : Owners]
         /\ row.owner = NoCall <=> row.state = "idle"
         /\ row.revoked => row.state = "idle")'
    <3>1. row.version \in Nat
      BY CallTypes
    <3>2. CASE row' = Revoked(row)
      BY <3>1, <3>2 DEF Revoked, States, Owners
    <3>3. CASE row' = row
      BY <3>3, CallTypes
    <3> QED BY <3>2, <3>3 DEF RevokeStalled
  <2>2. (pc \in [Calls -> Phases])'
    BY CallTypes DEF RevokeStalled, Stalled, Revoked, Answers, Goto, Phases
  <2>3. (answer \in [Calls -> [result : {"none", "ok", "conflict", "revoked"}, version : Nat]])'
    BY AnswerTypes DEF RevokeStalled, Answers
  <2> QED BY <2>1, <2>2, <2>3 DEF Inv, TypeOK, RevokeStalled
<1>2. CallsFit'
  <2> SUFFICES ASSUME NEW d \in Calls
               PROVE  (VersionsFit(d) /\ OwnerFits(d) /\ BarrierHolds(d) /\ TokenFits(d))'
    BY DEF CallsFit
  <2>1. VersionsFit(d)'
    BY CallTypes, AnswerTypes, FoundAtStart DEF VersionsFit, RevokeStalled, Inv, States,
           Owners, Stalled, Revoked, Answers, Goto, Matched, CallsFit
  <2>2. OwnerFits(d)'
    BY SessionAssumption, CallTypes DEF OwnerFits, RevokeStalled, Stalled, Revoked,
           Answers, Goto, Inv, CallsFit, InFlight
  <2>3. BarrierHolds(d)'
    BY CallTypes DEF BarrierHolds, RevokeStalled, Stalled, Revoked, Answers, Goto, Inv,
           CallsFit, InFlight, Held, Owns
  <2>4. TokenFits(d)'
    BY CallTypes DEF TokenFits, RevokeStalled, Stalled, Revoked, Answers, Goto, Inv,
           CallsFit, Unsent
  <2> QED BY <2>1, <2>2, <2>3, <2>4
<1>3. OneInFlight'
  BY CallTypes DEF OneInFlight, RevokeStalled, Stalled, Revoked, Answers, Goto, Inv,
         InFlight
<1>4. ProviderFits'
  BY DEF ProviderFits, RevokeStalled, Revoked, Inv
<1>5. EnvelopeFits'
  BY CallTypes DEF EnvelopeFits, RevokeStalled, Revoked, Inv, Unsent
<1>6. TokensAreSentOnce'
  BY DEF TokensAreSentOnce, RevokeStalled, Inv
<1>7. OkMeansRenewed'
  BY AnswerTypes DEF OkMeansRenewed, Inv, RevokeStalled, Answers
<1> QED BY <1>1, <1>2, <1>3, <1>4, <1>5, <1>6, <1>7 DEF Inv

LEMMA ReclassifyInv ==
  ASSUME Inv, NEW c \in Calls, Reclassify(c)
  PROVE  Inv'
<1>1. TypeOK'
  <2>1. (pc \in [Calls -> Phases])'
    BY CallTypes DEF Reclassify, Answers, Goto, Phases
  <2>2. (answer \in [Calls -> [result : {"none", "ok", "conflict", "revoked"}, version : Nat]])'
    BY AnswerTypes DEF Reclassify, Answers
  <2> QED BY <2>1, <2>2 DEF Inv, TypeOK, Reclassify
<1>2. CallsFit'
  <2> SUFFICES ASSUME NEW d \in Calls
               PROVE  (VersionsFit(d) /\ OwnerFits(d) /\ BarrierHolds(d) /\ TokenFits(d))'
    BY DEF CallsFit
  <2>1. VersionsFit(d)'
    BY CallTypes DEF VersionsFit, Reclassify, Answers, Goto, Inv, CallsFit, Matched
  <2>2. OwnerFits(d)'
    BY SessionAssumption, CallTypes DEF OwnerFits, Reclassify, Answers, Goto, Inv,
           CallsFit, InFlight
  <2>3. BarrierHolds(d)'
    BY CallTypes DEF BarrierHolds, Reclassify, Answers, Goto, Inv, CallsFit, InFlight,
           Held, Owns
  <2>4. TokenFits(d)'
    BY CallTypes DEF TokenFits, Reclassify, Answers, Goto, Inv, CallsFit, Unsent
  <2> QED BY <2>1, <2>2, <2>3, <2>4
<1>3. OneInFlight'
  BY CallTypes DEF OneInFlight, Reclassify, Answers, Goto, Inv, InFlight
<1>4. ProviderFits'
  BY DEF ProviderFits, Reclassify, Inv
<1>5. EnvelopeFits'
  BY CallTypes DEF EnvelopeFits, Reclassify, Inv, Unsent
<1>6. TokensAreSentOnce'
  BY DEF TokensAreSentOnce, Reclassify, Inv
<1>7. OkMeansRenewed'
  BY CallTypes, AnswerTypes DEF OkMeansRenewed, Reclassify, Inv, States, Owners, Answers,
         Goto, CallsFit, VersionsFit, Matched
<1> QED BY <1>1, <1>2, <1>3, <1>4, <1>5, <1>6, <1>7 DEF Inv

LEMMA LeaseLapsesInv ==
  ASSUME Inv, NEW c \in Calls, LeaseLapses(c)
  PROVE  Inv'
<1>1. TypeOK'
  <2>1. (lapsed \subseteq Calls)'
    BY CallTypes DEF Inv, TypeOK, LeaseLapses
  <2> QED BY <2>1 DEF Inv, TypeOK, LeaseLapses
<1>2. CallsFit'
  <2> SUFFICES ASSUME NEW d \in Calls
               PROVE  (VersionsFit(d) /\ OwnerFits(d) /\ BarrierHolds(d) /\ TokenFits(d))'
    BY DEF CallsFit
  <2>1. VersionsFit(d)'
    BY CallTypes DEF VersionsFit, LeaseLapses, Inv, CallsFit, Matched
  <2>2. OwnerFits(d)'
    BY SessionAssumption, CallTypes DEF OwnerFits, LeaseLapses, Inv, CallsFit, InFlight
  <2>3. BarrierHolds(d)'
    BY CallTypes DEF BarrierHolds, LeaseLapses, Inv, CallsFit, InFlight, Held, Owns
  <2>4. TokenFits(d)'
    BY CallTypes DEF TokenFits, LeaseLapses, Inv, CallsFit, Unsent
  <2> QED BY <2>1, <2>2, <2>3, <2>4
<1>3. OneInFlight'
  BY CallTypes DEF OneInFlight, LeaseLapses, Inv, InFlight
<1>4. ProviderFits'
  BY DEF ProviderFits, LeaseLapses, Inv
<1>5. EnvelopeFits'
  BY CallTypes DEF EnvelopeFits, LeaseLapses, Inv, Unsent
<1>6. TokensAreSentOnce'
  BY DEF TokensAreSentOnce, LeaseLapses, Inv
<1>7. OkMeansRenewed'
  BY AnswerTypes DEF OkMeansRenewed, LeaseLapses, Inv
<1> QED BY <1>1, <1>2, <1>3, <1>4, <1>5, <1>6, <1>7 DEF Inv

LEMMA ExpiresInv ==
  ASSUME Inv, Expires
  PROVE  Inv'
<1>1. TypeOK'
  <2>1. (clock \in {"fresh", "idle", "absolute"})'
    BY CallTypes DEF Inv, TypeOK, Expires
  <2> QED BY <2>1 DEF Inv, TypeOK, Expires
<1>2. CallsFit'
  <2> SUFFICES ASSUME NEW d \in Calls
               PROVE  (VersionsFit(d) /\ OwnerFits(d) /\ BarrierHolds(d) /\ TokenFits(d))'
    BY DEF CallsFit
  <2>1. VersionsFit(d)'
    BY CallTypes DEF VersionsFit, Expires, Inv, CallsFit, Matched
  <2>2. OwnerFits(d)'
    BY SessionAssumption, CallTypes DEF OwnerFits, Expires, Inv, CallsFit, InFlight
  <2>3. BarrierHolds(d)'
    BY CallTypes DEF BarrierHolds, Expires, Inv, CallsFit, InFlight, Held, Owns
  <2>4. TokenFits(d)'
    BY CallTypes DEF TokenFits, Expires, Inv, CallsFit, Unsent
  <2> QED BY <2>1, <2>2, <2>3, <2>4
<1>3. OneInFlight'
  BY CallTypes DEF OneInFlight, Expires, Inv, InFlight
<1>4. ProviderFits'
  BY DEF ProviderFits, Expires, Inv
<1>5. EnvelopeFits'
  BY CallTypes DEF EnvelopeFits, Expires, Inv, Unsent
<1>6. TokensAreSentOnce'
  BY DEF TokensAreSentOnce, Expires, Inv
<1>7. OkMeansRenewed'
  BY AnswerTypes DEF OkMeansRenewed, Expires, Inv
<1> QED BY <1>1, <1>2, <1>3, <1>4, <1>5, <1>6, <1>7 DEF Inv

LEMMA DiesInv ==
  ASSUME Inv, NEW c \in Calls, Dies(c)
  PROVE  Inv'
<1>1. TypeOK'
  <2>1. (pc \in [Calls -> Phases])'
    BY CallTypes DEF Dies, Goto, Phases
  <2> QED BY <2>1 DEF Inv, TypeOK, Dies
<1>2. CallsFit'
  <2> SUFFICES ASSUME NEW d \in Calls
               PROVE  (VersionsFit(d) /\ OwnerFits(d) /\ BarrierHolds(d) /\ TokenFits(d))'
    BY DEF CallsFit
  <2>1. VersionsFit(d)'
    BY CallTypes DEF VersionsFit, Dies, Goto, Inv, CallsFit, Matched
  <2>2. OwnerFits(d)'
    BY SessionAssumption, CallTypes DEF OwnerFits, Dies, Goto, Inv, CallsFit, InFlight
  <2>3. BarrierHolds(d)'
    BY CallTypes DEF BarrierHolds, Dies, Goto, Inv, CallsFit, InFlight, Held, Owns
  <2>4. TokenFits(d)'
    BY CallTypes DEF TokenFits, Dies, Goto, Inv, CallsFit, Unsent
  <2> QED BY <2>1, <2>2, <2>3, <2>4
<1>3. OneInFlight'
  BY CallTypes DEF OneInFlight, Dies, Goto, Inv, InFlight
<1>4. ProviderFits'
  BY DEF ProviderFits, Dies, Inv
<1>5. EnvelopeFits'
  BY CallTypes DEF EnvelopeFits, Dies, Inv, Unsent
<1>6. TokensAreSentOnce'
  BY DEF TokensAreSentOnce, Dies, Inv
<1>7. OkMeansRenewed'
  BY AnswerTypes DEF OkMeansRenewed, Dies, Inv
<1> QED BY <1>1, <1>2, <1>3, <1>4, <1>5, <1>6, <1>7 DEF Inv

LEMMA ReadForLogoutInv ==
  ASSUME Inv, ReadForLogout
  PROVE  Inv'
<1>1. TypeOK'
  <2>1. (logout \in [phase : {"none", "read", "revoked", "done"}, version : Nat])'
    BY CallTypes DEF Inv, TypeOK, ReadForLogout
  <2> QED BY <2>1 DEF Inv, TypeOK, ReadForLogout
<1>2. CallsFit'
  <2> SUFFICES ASSUME NEW d \in Calls
               PROVE  (VersionsFit(d) /\ OwnerFits(d) /\ BarrierHolds(d) /\ TokenFits(d))'
    BY DEF CallsFit
  <2>1. VersionsFit(d)'
    BY CallTypes DEF VersionsFit, ReadForLogout, Inv, CallsFit, Matched
  <2>2. OwnerFits(d)'
    BY SessionAssumption, CallTypes DEF OwnerFits, ReadForLogout, Inv, CallsFit, InFlight
  <2>3. BarrierHolds(d)'
    BY CallTypes DEF BarrierHolds, ReadForLogout, Inv, CallsFit, InFlight, Held, Owns
  <2>4. TokenFits(d)'
    BY CallTypes DEF TokenFits, ReadForLogout, Inv, CallsFit, Unsent
  <2> QED BY <2>1, <2>2, <2>3, <2>4
<1>3. OneInFlight'
  BY CallTypes DEF OneInFlight, ReadForLogout, Inv, InFlight
<1>4. ProviderFits'
  BY DEF ProviderFits, ReadForLogout, Inv
<1>5. EnvelopeFits'
  BY CallTypes DEF EnvelopeFits, ReadForLogout, Inv, Unsent
<1>6. TokensAreSentOnce'
  BY DEF TokensAreSentOnce, ReadForLogout, Inv
<1>7. OkMeansRenewed'
  BY AnswerTypes DEF OkMeansRenewed, ReadForLogout, Inv
<1> QED BY <1>1, <1>2, <1>3, <1>4, <1>5, <1>6, <1>7 DEF Inv

LEMMA RevokeForLogoutInv ==
  ASSUME Inv, RevokeForLogout
  PROVE  Inv'
<1>1. TypeOK'
  <2>1. (/\ row \in [version : Nat \ {0}, revoked : BOOLEAN, state : States, owner : Owners]
         /\ row.owner = NoCall <=> row.state = "idle"
         /\ row.revoked => row.state = "idle")'
    BY SessionAssumption, CallTypes DEF RevokeForLogout, RevokeById, Revoked, States,
           Owners, Owns
  <2>2. (logout \in [phase : {"none", "read", "revoked", "done"}, version : Nat])'
    BY CallTypes DEF Inv, TypeOK, RevokeForLogout, RevokeById, Revoked
  <2> QED BY <2>1, <2>2 DEF Inv, TypeOK, RevokeForLogout
<1>2. CallsFit'
  <2> SUFFICES ASSUME NEW d \in Calls
               PROVE  (VersionsFit(d) /\ OwnerFits(d) /\ BarrierHolds(d) /\ TokenFits(d))'
    BY DEF CallsFit
  <2>1. VersionsFit(d)'
    BY CallTypes DEF VersionsFit, RevokeForLogout, RevokeById, Revoked, Inv, CallsFit,
           Matched
  <2>2. OwnerFits(d)'
    BY SessionAssumption, CallTypes DEF OwnerFits, RevokeForLogout, RevokeById, Revoked,
           Inv, CallsFit, InFlight
  <2>3. BarrierHolds(d)'
    BY CallTypes DEF BarrierHolds, RevokeForLogout, RevokeById, Revoked, Inv, CallsFit,
           InFlight, Held, Owns
  <2>4. TokenFits(d)'
    BY CallTypes DEF TokenFits, RevokeForLogout, RevokeById, Revoked, Inv, CallsFit, Unsent
  <2> QED BY <2>1, <2>2, <2>3, <2>4
<1>3. OneInFlight'
  BY CallTypes DEF OneInFlight, RevokeForLogout, RevokeById, Revoked, Inv, InFlight
<1>4. ProviderFits'
  BY DEF ProviderFits, RevokeForLogout, RevokeById, Revoked, Inv
<1>5. EnvelopeFits'
  BY CallTypes DEF EnvelopeFits, RevokeForLogout, RevokeById, Revoked, Inv, Unsent
<1>6. TokensAreSentOnce'
  BY DEF TokensAreSentOnce, RevokeForLogout, Inv
<1>7. OkMeansRenewed'
  BY AnswerTypes DEF OkMeansRenewed, RevokeForLogout, RevokeById, Revoked, Inv
<1> QED BY <1>1, <1>2, <1>3, <1>4, <1>5, <1>6, <1>7 DEF Inv

LEMMA RevokeAtIdpInv ==
  ASSUME Inv, RevokeAtIdp
  PROVE  Inv'
<1>1. TypeOK'
  <2>1. (idp \in [live : Nat, last : Nat \ {0}, sent : SUBSET (Calls \X Nat)])'
    BY TokenTypes DEF RevokeAtIdp, NoToken
  <2>2. (logout \in [phase : {"none", "read", "revoked", "done"}, version : Nat])'
    BY CallTypes DEF Inv, TypeOK, RevokeAtIdp
  <2> QED BY <2>1, <2>2 DEF Inv, TypeOK, RevokeAtIdp
<1>2. CallsFit'
  <2> SUFFICES ASSUME NEW d \in Calls
               PROVE  (VersionsFit(d) /\ OwnerFits(d) /\ BarrierHolds(d) /\ TokenFits(d))'
    BY DEF CallsFit
  <2>1. VersionsFit(d)'
    BY CallTypes DEF VersionsFit, RevokeAtIdp, Inv, CallsFit, Matched
  <2>2. OwnerFits(d)'
    BY SessionAssumption, CallTypes DEF OwnerFits, RevokeAtIdp, Inv, CallsFit, InFlight
  <2>3. BarrierHolds(d)'
    BY CallTypes DEF BarrierHolds, RevokeAtIdp, Inv, CallsFit, InFlight, Held, Owns
  <2>4. TokenFits(d)'
    BY SessionAssumption, CallTypes, TokenTypes DEF TokenFits, RevokeAtIdp, Inv, States,
           Owners, Unsent, NoToken, InFlight, CallsFit, OwnerFits, BarrierHolds, Held,
           Owns, OneInFlight, ProviderFits, EnvelopeFits
  <2> QED BY <2>1, <2>2, <2>3, <2>4
<1>3. OneInFlight'
  BY CallTypes DEF OneInFlight, RevokeAtIdp, Inv, InFlight
<1>4. ProviderFits'
  BY CallTypes, TokenTypes DEF ProviderFits, RevokeAtIdp, Inv, States, Owners, NoToken
<1>5. EnvelopeFits'
  BY DEF EnvelopeFits, ProviderFits, RevokeAtIdp, Inv
<1>6. TokensAreSentOnce'
  BY CallTypes, TokenTypes DEF TokensAreSentOnce, RevokeAtIdp, Inv, States, Owners,
         CallsFit, TokenFits, Unsent, NoToken
<1>7. OkMeansRenewed'
  BY AnswerTypes DEF OkMeansRenewed, RevokeAtIdp, Inv
<1> QED BY <1>1, <1>2, <1>3, <1>4, <1>5, <1>6, <1>7 DEF Inv

-----------------------------------------------------------------------------
(* The invariant, and what follows from it.                                *)

LEMMA InitInv == Init => Inv
<1> SUFFICES ASSUME Init PROVE Inv
  OBVIOUS
<1>1. TypeOK
  BY SessionAssumption DEF Init, TypeOK, States, Owners, Phases, NoToken
<1>2. CallsFit
  BY SessionAssumption DEF Init, CallsFit, VersionsFit, OwnerFits, BarrierHolds, TokenFits,
     Matched, InFlight, NoToken
<1>3. OneInFlight /\ ProviderFits /\ EnvelopeFits
  BY DEF Init, OneInFlight, InFlight, ProviderFits, EnvelopeFits, Unsent, NoToken
<1>4. TokensAreSentOnce /\ OkMeansRenewed
  BY DEF Init, TokensAreSentOnce, OkMeansRenewed
<1> QED BY <1>1, <1>2, <1>3, <1>4 DEF Inv

LEMMA StutterInv == Inv /\ UNCHANGED vars => Inv'
  BY DEF vars, Inv, TypeOK, CallsFit, VersionsFit, OwnerFits, BarrierHolds, TokenFits, Held, Owns,
     Matched, InFlight, NoToken, OneInFlight, ProviderFits, EnvelopeFits, Unsent, TokensAreSentOnce,
     OkMeansRenewed, States, Owners, Phases

LEMMA NextInv == Inv /\ Next => Inv'
<1> SUFFICES ASSUME Inv, Next PROVE Inv'
  OBVIOUS
<1>1. ASSUME NEW c \in Calls, NEW v \in 1 .. row.version, Begin(c, v) PROVE Inv'
  <2>1. v \in Nat
    BY CallTypes
  <2> QED BY <1>1, <2>1, BeginInv
<1>2. ASSUME NEW c \in Calls, Proceeds(c) PROVE Inv'
  BY <1>2, AcquireInv, EnterCallingInv, ReadEnvelopeInv, AskInv, CommitInv, RereadInv, FailClosedInv,
     ReleaseInv, LookInv, PollInv, GiveUpInv, RevokeStalledInv, ReclassifyInv DEF Proceeds
<1>3. ASSUME NEW c \in Calls, CommitFails(c) \/ StatementFails(c) \/ Dies(c) \/ LeaseLapses(c)
      PROVE  Inv'
  BY <1>3, CommitFailsInv, StatementFailsInv, DiesInv, LeaseLapsesInv
<1>4. CASE Expires \/ ReadForLogout \/ RevokeForLogout \/ RevokeAtIdp
  BY <1>4, ExpiresInv, ReadForLogoutInv, RevokeForLogoutInv, RevokeAtIdpInv
<1> QED BY <1>1, <1>2, <1>3, <1>4 DEF Next

LEMMA AlwaysInv == Spec => []Inv
<1>1. Inv /\ [Next]_vars => Inv'
  BY NextInv, StutterInv
<1> QED BY <1>1, InitInv, PTL DEF Spec

(* A refresh token goes to the provider once: the barrier lets one call    *)
(* through for a version, and an expired call at the barrier is never      *)
(* replaced.                                                               *)
THEOREM SentOnce == Spec => []TokensAreSentOnce
<1>1. Inv => TokensAreSentOnce
  BY DEF Inv
<1> QED BY <1>1, AlwaysInv, PTL

(* The row and the envelope of a session nobody is renewing are in step,   *)
(* and the token in it is the provider's live one.                         *)
THEOREM InStep == Spec => []EnvelopeInStep
<1>1. Inv => EnvelopeInStep
  BY DEF Inv, EnvelopeFits, EnvelopeInStep
<1> QED BY <1>1, AlwaysInv, PTL

(* An ok answer is a renewal from the version the caller had seen.         *)
THEOREM OkIsRenewed == Spec => []OkMeansRenewed
<1>1. Inv => OkMeansRenewed
  BY DEF Inv
<1> QED BY <1>1, AlwaysInv, PTL

(* Types, and the owner of a row: the invariant of the table.              *)
THEOREM SessionTypes == Spec => []TypeOK
<1>1. Inv => TypeOK
  BY DEF Inv
<1> QED BY <1>1, AlwaysInv, PTL

(* No step writes the row or the envelope of a revoked session.            *)
LEMMA RevokedStaysSo == Next /\ row.revoked => row' = row /\ envelope' = envelope
<1> SUFFICES ASSUME Next, row.revoked PROVE row' = row /\ envelope' = envelope
  OBVIOUS
<1>1. ASSUME NEW c \in Calls, NEW v, Begin(c, v) PROVE row' = row /\ envelope' = envelope
  BY <1>1 DEF Begin
<1>2. ASSUME NEW c \in Calls, Proceeds(c) PROVE row' = row /\ envelope' = envelope
  BY <1>2 DEF Proceeds, Acquire, MayAcquire, EnterCalling, ReadEnvelope, Ask, Commit, RollBack, Owns,
     Reread, FailClosed, RevokeById, Release, Look, Poll, GiveUp, RevokeStalled, Stalled, Reclassify
<1>3. ASSUME NEW c \in Calls, CommitFails(c) \/ StatementFails(c) \/ Dies(c) \/ LeaseLapses(c)
      PROVE  row' = row /\ envelope' = envelope
  BY <1>3 DEF CommitFails, RollBack, Owns, StatementFails, Dies, LeaseLapses
<1>4. CASE Expires \/ ReadForLogout \/ RevokeForLogout \/ RevokeAtIdp
  BY <1>4 DEF Expires, ReadForLogout, RevokeForLogout, RevokeById, RevokeAtIdp
<1> QED BY <1>1, <1>2, <1>3, <1>4 DEF Next

(* A refresh in flight does not undo a logout.                             *)
THEOREM RevocationStands == Spec => RevokedIsFinal
<1>1. [Next]_vars => (row.revoked => row' = row /\ envelope' = envelope)
  BY RevokedStaysSo DEF vars
<1> QED BY <1>1, PTL DEF Spec, RevokedIsFinal

(* A call that fails after the barrier still holds the row, unless it has  *)
(* committed itself, and a stalled call is revoked by a conditional update.*)
LEMMA FailuresSpare ==
  ASSUME Inv, [Next]_vars, NEW c \in Calls, Revokes(c, {"revoke", "stalled"}), c \notin won
  PROVE  row.version = asked[c].expected /\ row.owner \in lapsed \cup {c}
<1>0. /\ pc[c] \in {"revoke", "stalled"} /\ pc'[c] # pc[c]
      /\ ~row.revoked /\ row'.revoked
  BY DEF Revokes
<1>1. CASE pc[c] = "revoke"
  BY <1>0, <1>1 DEF Inv, CallsFit, BarrierHolds, Held, Owns
<1>2. CASE pc[c] = "stalled"
  <2>1. pc \in [Calls -> Phases]
    BY CallTypes
  <2>2. row' # row
    BY <1>0
  <2>3. RevokeStalled(c)
    <3>1. ASSUME NEW d \in Calls, d # c, pc' = [pc EXCEPT ![d] = pc'[d]] PROVE FALSE
      BY <1>0, <2>1, <3>1
    <3>2. pc' # pc
      BY <1>0
    <3> QED BY <1>2, <2>1, <2>2, <3>1, <3>2
        DEF Next, vars, Begin, Proceeds, Acquire, EnterCalling, ReadEnvelope, Ask, Commit, CommitFails,
            Reread, FailClosed, StatementFails, Release, Look, Poll, GiveUp, Reclassify, Dies,
            LeaseLapses, Expires, ReadForLogout, RevokeForLogout, RevokeAtIdp, Goto, Answers, Watches,
            RevokeStalled
  <2> QED BY <2>2, <2>3 DEF RevokeStalled, Stalled
<1> QED BY <1>0, <1>1, <1>2

(* No failure refresh_session foresees revokes what a winner committed, as *)
(* long as the call that fails has not committed itself.                   *)
THEOREM WinnersAreSpared == Spec => FailuresSpareTheWinner
<1>1. Inv /\ [Next]_vars =>
        \A c \in Calls : Revokes(c, {"revoke", "stalled"}) /\ c \notin won =>
          row.version = asked[c].expected /\ row.owner \in lapsed \cup {c}
  BY FailuresSpare
<1> QED BY <1>1, AlwaysInv, PTL DEF Spec, FailuresSpareTheWinner
=============================================================================
