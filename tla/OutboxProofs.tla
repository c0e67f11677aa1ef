---------------------------- MODULE OutboxProofs ----------------------------
(***************************************************************************)
(* The fence of the outbox, for every number of messages, dispatchers,     *)
(* attempts and faults: each row and each delivery in somebody's hands     *)
(* agree on who may still report, and so the outbox keeps the promise of   *)
(* CommandDelivery.                                                        *)
(***************************************************************************)
EXTENDS Outbox, FiniteSetTheorems, TLAPS

(* Worker w has the delivery of message m under token k, to handle or to   *)
(* report.                                                                 *)
InHand(m, k, w) ==
  \/ \E d \in held[w] : d.msg = m /\ d.token = k
  \/ doing[w].outcome # "none" /\ doing[w].msg = m /\ doing[w].token = k

(* A row is claimed exactly while it is processing, under a token that was *)
(* drawn for it, and is dead exactly when its attempts are used up.        *)
RowsAgree ==
  \A m \in Messages :
    /\ status[m] = "processing" => claim[m].token > 0
    /\ status[m] # "processing" => claim[m].token = 0
    /\ claim[m].token <= drawn[m]
    /\ status[m] = "dead_letter" <=> attempts[m] = MaxAttempts

(* What is in hand was claimed once.                                       *)
HandsAgree ==
  \A w \in Workers, m \in Messages, k \in Nat :
    InHand(m, k, w) => k > 0 /\ k <= drawn[m] /\ status[m] # "absent"

(* No delivery is in two hands, whether its claim stands or not.           *)
OneHand ==
  \A v, w \in Workers, m \in Messages, k \in Nat :
    InHand(m, k, v) /\ InHand(m, k, w) => v = w

IInv == TypeOK /\ RowsAgree /\ HandsAgree /\ OneHand

-----------------------------------------------------------------------------
(* Nothing is claimed and nobody holds anything when the system starts.    *)
LEMMA InitIInv == Init => IInv
  BY OutboxAssumption
  DEF Init, IInv, TypeOK, RowsAgree, HandsAgree, OneHand, InHand, NoClaim, Claims,
      Statuses, Idle, OutboxAssumption

(* A step that gives nobody anything new and keeps rows where they are     *)
(* keeps the agreement about what is in hand.                              *)
LEMMA HandsOnlyShrink ==
  ASSUME TypeOK, HandsAgree, OneHand,
         \A w \in Workers, m \in Messages, k \in Nat :
           InHand(m, k, w)' => InHand(m, k, w),
         \A m \in Messages :
           drawn'[m] \in Nat /\ drawn'[m] >= drawn[m]
           /\ (status[m] # "absent" => status'[m] # "absent")
  PROVE  HandsAgree' /\ OneHand'
<1>1. \A m \in Messages : drawn[m] \in Nat
  BY DEF TypeOK
<1>2. HandsAgree'
  <2> SUFFICES ASSUME NEW w \in Workers, NEW m \in Messages, NEW k \in Nat,
                      InHand(m, k, w)'
               PROVE  k > 0 /\ k <= drawn'[m] /\ status'[m] # "absent"
    BY DEF HandsAgree
  <2>1. InHand(m, k, w)
    OBVIOUS
  <2>2. k > 0 /\ k <= drawn[m] /\ status[m] # "absent"
    BY <2>1 DEF HandsAgree
  <2> QED
    BY <2>2, <1>1
<1>3. OneHand'
  BY DEF OneHand
<1> QED
  BY <1>2, <1>3

(* What poll_once writes into a row is a claim.                            *)
LEMMA ClaimTypes ==
  /\ NoClaim \in Claims
  /\ \A w \in Workers, k \in Nat : [by |-> WorkerId[w], token |-> k] \in Claims
BY DEF NoClaim, Claims

(* A worker with a verdict to report has a whole report.                   *)
LEMMA DoingType ==
  ASSUME TypeOK, NEW w \in Workers, doing[w].outcome # "none"
  PROVE  /\ doing[w] \in Reports
         /\ doing[w].msg \in Messages /\ doing[w].token \in Nat
         /\ doing[w].outcome \in {"ok", "fail"}
<1>1. doing[w] \in Reports \cup {Idle}
  BY DEF TypeOK
<1>2. doing[w] \in Reports
  BY <1>1 DEF Idle
<1> QED
  BY <1>2 DEF Reports

(* Every step of a submitter, a dispatcher or the clock keeps the types.   *)
LEMMA TypeStep == IInv /\ [Next]_vars => TypeOK'
<1> SUFFICES ASSUME IInv, [Next]_vars PROVE TypeOK'
  OBVIOUS
<1> USE OutboxAssumption DEF OutboxAssumption
<1>1. ASSUME NEW m \in Messages, Submit(m)
      PROVE  TypeOK'
  BY <1>1 DEF IInv, TypeOK, Submit, Statuses
<1>2. ASSUME NEW m \in Messages, BecomeDue(m)
      PROVE  TypeOK'
  BY <1>2 DEF IInv, TypeOK, BecomeDue
<1>3. ASSUME NEW m \in Messages, Lapse(m)
      PROVE  TypeOK'
  <2>1. faults' \in 0..MaxFaults
    BY <1>3 DEF IInv, TypeOK, Lapse
  <2> QED
    BY <1>3, <2>1 DEF IInv, TypeOK, Lapse
<1>4. ASSUME NEW w \in Workers, NEW batch \in SUBSET Messages, ClaimBatch(w, batch)
      PROVE  TypeOK'
  <2>1. \A m \in Messages : drawn[m] \in Nat /\ NextToken(m) \in Nat
    BY DEF IInv, TypeOK, NextToken
  <2>2. claim' \in [Messages -> Claims]
    BY <1>4, <2>1, ClaimTypes DEF IInv, TypeOK, ClaimBatch
  <2>3. held' \in [Workers -> SUBSET Deliveries]
    BY <1>4, <2>1 DEF IInv, TypeOK, ClaimBatch, Deliveries
  <2>4. status' \in [Messages -> Statuses] /\ lapsed' \in [Messages -> BOOLEAN]
    BY <1>4 DEF IInv, TypeOK, ClaimBatch, Statuses
  <2>5. drawn' \in [Messages -> Nat]
    BY <1>4, <2>1 DEF ClaimBatch
  <2> QED
    BY <1>4, <2>2, <2>3, <2>4, <2>5 DEF IInv, TypeOK, ClaimBatch
<1>5. ASSUME NEW w \in Workers, NEW d \in held[w], Handle(w, d)
      PROVE  TypeOK'
  <2>1. d.msg \in Messages /\ d.token \in Nat
    BY DEF IInv, TypeOK, Deliveries
  <2>2. PICK result \in {"ok", "fail"} : Outcome(w, d, result)
    BY <1>5 DEF Handle, HandlePoison, HandleStart, HandleSignal, HandleEvent,
        HandleError
  <2>3. [msg |-> d.msg, token |-> d.token, outcome |-> result] \in Reports
    BY <2>1 DEF Reports
  <2>4. /\ held' \in [Workers -> SUBSET Deliveries]
        /\ doing' \in [Workers -> Reports \cup {Idle}]
    BY <2>2, <2>3 DEF IInv, TypeOK, Outcome
  <2>5. failures' \in [Messages -> Nat] /\ UNCHANGED rowVars
    BY <2>1, <2>2 DEF IInv, TypeOK, Outcome
  <2>6. /\ workflow' \in {"absent", "running", "closed"}
        /\ received' \in [Messages -> BOOLEAN]
    BY <1>5, <2>1 DEF IInv, TypeOK, Handle, HandlePoison, HandleStart, HandleSignal,
        HandleEvent, HandleError
  <2>7. faults' \in 0..MaxFaults
    BY <1>5 DEF IInv, TypeOK, Handle, HandlePoison, HandleStart, HandleSignal,
        HandleEvent, HandleError
  <2> QED
    BY <2>4, <2>5, <2>6, <2>7 DEF IInv, TypeOK, rowVars
<1>6. ASSUME NEW w \in Workers, MarkDelivered(w)
      PROVE  TypeOK'
  <2> PICK m \in Messages : m = doing[w].msg
    BY <1>6, DoingType DEF IInv, MarkDelivered
  <2>1. /\ claim' \in [Messages -> Claims] /\ lapsed' \in [Messages -> BOOLEAN]
        /\ status' \in [Messages -> Statuses]
    <3>1. CASE ClaimStands(w, doing[w])
      <4>1. /\ claim' = [claim EXCEPT ![m] = NoClaim]
            /\ lapsed' = [lapsed EXCEPT ![m] = FALSE]
            /\ status' = [status EXCEPT ![m] = "delivered"]
        BY <1>6, <3>1 DEF MarkDelivered, Release
      <4> QED
        BY <4>1, ClaimTypes DEF IInv, TypeOK, Statuses
    <3>2. CASE ~ClaimStands(w, doing[w])
      BY <1>6, <3>2 DEF IInv, TypeOK, MarkDelivered
    <3> QED
      BY <3>1, <3>2
  <2>2. /\ held' \in [Workers -> SUBSET Deliveries]
        /\ doing' \in [Workers -> Reports \cup {Idle}]
    BY <1>6 DEF IInv, TypeOK, MarkDelivered
  <2> QED
    BY <1>6, <2>1, <2>2 DEF IInv, TypeOK, MarkDelivered
<1>7. ASSUME NEW w \in Workers, MarkFailed(w)
      PROVE  TypeOK'
  <2> PICK m \in Messages : m = doing[w].msg
    BY <1>7, DoingType DEF IInv, MarkFailed
  <2>1. attempts \in [Messages -> 0..MaxAttempts] /\ attempts[m] \in 0..MaxAttempts
    BY DEF IInv, TypeOK
  <2>2. status[m] = "processing" => attempts[m] # MaxAttempts
    BY DEF IInv, RowsAgree
  <2>3. status[m] = "processing" => attempts[m] + 1 \in 0..MaxAttempts
    BY <2>1, <2>2
  <2>4. \/ UNCHANGED attempts
        \/ status[m] = "processing" /\ attempts' = [attempts EXCEPT ![m] = @ + 1]
    BY <1>7 DEF MarkFailed, FailRow, ClaimStands
  <2>5. attempts' \in [Messages -> 0..MaxAttempts]
    BY <2>1, <2>3, <2>4
  <2>6. faults' \in 0..MaxFaults
    BY <1>7 DEF IInv, TypeOK, MarkFailed
  <2>7. claim' \in [Messages -> Claims] /\ lapsed' \in [Messages -> BOOLEAN]
    <3>1. CASE ClaimStands(w, doing[w]) /\ FailRow(m)
      BY <3>1, ClaimTypes DEF IInv, TypeOK, FailRow, Release
    <3>2. CASE UNCHANGED <<claim, lapsed>>
      BY <3>2 DEF IInv, TypeOK
    <3> QED
      BY <1>7, <3>1, <3>2 DEF MarkFailed
  <2>8. status' \in [Messages -> Statuses] /\ due' \in [Messages -> BOOLEAN]
    <3>1. CASE ClaimStands(w, doing[w]) /\ FailRow(m)
      BY <3>1 DEF IInv, TypeOK, FailRow, Statuses
    <3>2. CASE UNCHANGED <<status, due>>
      BY <3>2 DEF IInv, TypeOK
    <3> QED
      BY <1>7, <3>1, <3>2 DEF MarkFailed
  <2>9. doing' \in [Workers -> Reports \cup {Idle}]
    BY <1>7 DEF IInv, TypeOK, MarkFailed
  <2> QED
    BY <1>7, <2>5, <2>6, <2>7, <2>8, <2>9 DEF IInv, TypeOK, MarkFailed
<1>8. ASSUME NEW w \in Workers, Crash(w)
      PROVE  TypeOK'
  <2>1. /\ held' \in [Workers -> SUBSET Deliveries]
        /\ doing' \in [Workers -> Reports \cup {Idle}]
    BY <1>8 DEF IInv, TypeOK, Crash
  <2>2. faults' \in 0..MaxFaults
    BY <1>8 DEF IInv, TypeOK, Crash
  <2> QED
    BY <1>8, <2>1, <2>2 DEF IInv, TypeOK, Crash
<1>9. CASE CloseWorkflow
  BY <1>9 DEF IInv, TypeOK, CloseWorkflow
<1>10. CASE UNCHANGED vars
  BY <1>10 DEF IInv, TypeOK, vars
<1> QED
  BY <1>1, <1>2, <1>3, <1>4, <1>5, <1>6, <1>7, <1>8, <1>9, <1>10 DEF Next

-----------------------------------------------------------------------------
(* A worker that lets go of a delivery, or changes what it does with it,   *)
(* gets nothing new into its hands.                                        *)
LEMMA HandleShrinks ==
  ASSUME IInv, NEW v \in Workers, NEW d \in held[v], Handle(v, d)
  PROVE  \A w \in Workers, m \in Messages, k \in Nat :
           InHand(m, k, w)' => InHand(m, k, w)
<1>1. PICK result \in {"ok", "fail"} : Outcome(v, d, result)
  BY DEF Handle, HandlePoison, HandleStart, HandleSignal, HandleEvent, HandleError
<1>2. /\ held' = [held EXCEPT ![v] = @ \ {d}]
      /\ doing' = [doing EXCEPT ![v] =
           [msg |-> d.msg, token |-> d.token, outcome |-> result]]
  BY <1>1 DEF Outcome
<1> QED
  BY <1>2 DEF IInv, TypeOK, InHand

(* So does a worker that drops its report once it is made.                 *)
LEMMA LetGoShrinks ==
  ASSUME IInv, NEW v \in Workers,
         doing' = [doing EXCEPT ![v] = Idle],
         held' = held \/ held' = [held EXCEPT ![v] = {}]
  PROVE  \A w \in Workers, m \in Messages, k \in Nat :
           InHand(m, k, w)' => InHand(m, k, w)
BY DEF IInv, TypeOK, InHand, Idle

(* Every step keeps status, claim and attempts of each row in agreement.   *)
LEMMA RowsStep == IInv /\ [Next]_vars => RowsAgree'
<1> SUFFICES ASSUME IInv, [Next]_vars PROVE RowsAgree'
  OBVIOUS
<1> USE OutboxAssumption DEF OutboxAssumption
<1>t. \A m \in Messages : /\ claim[m].token \in Nat /\ drawn[m] \in Nat
                           /\ attempts[m] \in 0..MaxAttempts
  BY DEF IInv, TypeOK, Claims
<1>1. ASSUME NEW m \in Messages, Submit(m)
      PROVE  RowsAgree'
  BY <1>1, <1>t DEF IInv, TypeOK, RowsAgree, Submit
<1>2. ASSUME NEW m \in Messages, BecomeDue(m) \/ Lapse(m)
      PROVE  RowsAgree'
  BY <1>2, <1>t DEF IInv, RowsAgree, BecomeDue, Lapse
<1>3. ASSUME NEW w \in Workers, NEW batch \in SUBSET Messages, ClaimBatch(w, batch)
      PROVE  RowsAgree'
  <2> SUFFICES ASSUME NEW m \in Messages
               PROVE  RowsAgree!(m)'
    BY DEF RowsAgree
  <2>1. CASE m \notin batch
    BY <1>3, <2>1 DEF IInv, RowsAgree, TypeOK, ClaimBatch
  <2>2. CASE m \in batch
    <3>1. /\ status'[m] = "processing" /\ drawn'[m] = drawn[m] + 1
          /\ claim'[m].token = drawn[m] + 1 /\ attempts' = attempts
      BY <1>3, <2>2 DEF ClaimBatch, NextToken
    <3>2. status[m] # "dead_letter"
      BY <1>3, <2>2 DEF ClaimBatch, Claimable
    <3> QED
      BY <3>1, <3>2, <1>t DEF IInv, RowsAgree
  <2> QED
    BY <2>1, <2>2
<1>4. ASSUME NEW w \in Workers, NEW d \in held[w], Handle(w, d)
      PROVE  RowsAgree'
  <2>1. UNCHANGED rowVars
    BY <1>4 DEF Handle, HandlePoison, HandleStart, HandleSignal, HandleEvent,
        HandleError, Outcome
  <2> QED
    BY <2>1 DEF IInv, RowsAgree, rowVars
<1>5. ASSUME NEW w \in Workers, MarkDelivered(w)
      PROVE  RowsAgree'
  <2>1. CASE ~ClaimStands(w, doing[w])
    BY <1>5, <2>1 DEF IInv, RowsAgree, MarkDelivered
  <2>2. CASE ClaimStands(w, doing[w])
    <3> PICK m \in Messages : m = doing[w].msg
      BY <1>5, DoingType DEF IInv, MarkDelivered
    <3>1. /\ claim' = [claim EXCEPT ![m] = NoClaim] /\ attempts' = attempts
          /\ status' = [status EXCEPT ![m] = "delivered"] /\ drawn' = drawn
          /\ status[m] = "processing"
      BY <1>5, <2>2 DEF MarkDelivered, Release, ClaimStands
    <3> QED
      BY <3>1, <1>t DEF IInv, TypeOK, RowsAgree, NoClaim
  <2> QED
    BY <2>1, <2>2
<1>6. ASSUME NEW w \in Workers, MarkFailed(w)
      PROVE  RowsAgree'
  <2>1. CASE UNCHANGED <<status, attempts, claim, drawn>>
    BY <2>1 DEF IInv, RowsAgree
  <2>2. CASE ClaimStands(w, doing[w]) /\ FailRow(doing[w].msg)
    <3> PICK m \in Messages : m = doing[w].msg
      BY <1>6, DoingType DEF IInv, MarkFailed
    <3>1. /\ claim' = [claim EXCEPT ![m] = NoClaim] /\ drawn' = drawn
          /\ attempts' = [attempts EXCEPT ![m] = @ + 1]
          /\ status[m] = "processing"
          /\ status' = [status EXCEPT ![m] =
               IF attempts[m] + 1 >= MaxAttempts THEN "dead_letter" ELSE "pending"]
      BY <1>6, <2>2 DEF MarkFailed, FailRow, Release, ClaimStands
    <3>2. attempts[m] # MaxAttempts
      BY <3>1 DEF IInv, RowsAgree
    <3>3. (attempts[m] + 1 >= MaxAttempts) <=> (attempts[m] + 1 = MaxAttempts)
      BY <3>2, <1>t
    <3> QED
      BY <3>1, <3>3, <1>t DEF IInv, TypeOK, RowsAgree, NoClaim
  <2> QED
    BY <1>6, <2>1, <2>2 DEF MarkFailed
<1>7. ASSUME NEW w \in Workers, Crash(w)
      PROVE  RowsAgree'
  BY <1>7 DEF IInv, RowsAgree, Crash
<1>8. CASE CloseWorkflow
  BY <1>8 DEF IInv, RowsAgree, CloseWorkflow
<1>9. CASE UNCHANGED vars
  BY <1>9 DEF IInv, RowsAgree, vars
<1> QED
  BY <1>1, <1>2, <1>3, <1>4, <1>5, <1>6, <1>7, <1>8, <1>9 DEF Next

(* Every step keeps tokens unique: a claim draws a new one, and a delivery *)
(* moves from the batch to the report of one worker.                       *)
LEMMA HandsStep == IInv /\ [Next]_vars => HandsAgree' /\ OneHand'
<1> SUFFICES ASSUME IInv, [Next]_vars PROVE HandsAgree' /\ OneHand'
  OBVIOUS
<1> DEFINE Shrinks == \A w \in Workers, m \in Messages, k \in Nat :
                        InHand(m, k, w)' => InHand(m, k, w)
           Stay == \A m \in Messages :
                     /\ drawn'[m] \in Nat /\ drawn'[m] >= drawn[m]
                     /\ status[m] # "absent" => status'[m] # "absent"
<1>a. \A m \in Messages : drawn[m] \in Nat
  BY DEF IInv, TypeOK
<1>b. UNCHANGED <<held, doing>> => Shrinks
  BY DEF InHand
<1>c. UNCHANGED <<status, drawn>> => Stay
  BY <1>a
<1>d. Shrinks /\ Stay => HandsAgree' /\ OneHand'
  BY HandsOnlyShrink DEF IInv
<1>1. ASSUME NEW m \in Messages, Submit(m)
      PROVE  Shrinks /\ Stay
  BY <1>1, <1>a, <1>b DEF IInv, TypeOK, Submit
<1>2. ASSUME NEW m \in Messages, BecomeDue(m) \/ Lapse(m)
      PROVE  Shrinks /\ Stay
  BY <1>2, <1>b, <1>c DEF BecomeDue, Lapse
<1>3. ASSUME NEW w \in Workers, NEW batch \in SUBSET Messages, ClaimBatch(w, batch)
      PROVE  HandsAgree' /\ OneHand'
  <2>1. /\ held' = [held EXCEPT ![w] =
             {[msg |-> m, token |-> drawn[m] + 1] : m \in batch}]
        /\ doing' = doing /\ doing[w] = Idle
    BY <1>3 DEF ClaimBatch, NextToken
  <2>2. \A v \in Workers, m \in Messages, k \in Nat :
          InHand(m, k, v)' =>
            IF v = w THEN m \in batch /\ k = drawn[m] + 1 ELSE InHand(m, k, v)
    BY <2>1 DEF IInv, TypeOK, InHand, Idle
  <2>3. \A m \in Messages :
          /\ drawn'[m] = IF m \in batch THEN drawn[m] + 1 ELSE drawn[m]
          /\ status'[m] = IF m \in batch THEN "processing" ELSE status[m]
    BY <1>3 DEF ClaimBatch
  <2>4. \A v \in Workers, m \in Messages, k \in Nat :
          InHand(m, k, v) => k > 0 /\ k <= drawn[m] /\ status[m] # "absent"
    BY DEF IInv, HandsAgree
  <2>5. HandsAgree'
    BY <2>2, <2>3, <2>4, <1>a DEF HandsAgree
  <2>6. OneHand'
    <3> SUFFICES ASSUME NEW u \in Workers, NEW v \in Workers, NEW m \in Messages,
                        NEW k \in Nat, InHand(m, k, u)', InHand(m, k, v)'
                 PROVE  u = v
      BY DEF OneHand
    <3>1. CASE u = w /\ v # w
      BY <3>1, <2>2, <2>4, <1>a
    <3>2. CASE u # w /\ v = w
      BY <3>2, <2>2, <2>4, <1>a
    <3>3. CASE u # w /\ v # w
      BY <3>3, <2>2 DEF IInv, OneHand
    <3> QED
      BY <3>1, <3>2, <3>3
  <2> QED
    BY <2>5, <2>6
<1>4. ASSUME NEW w \in Workers, NEW d \in held[w], Handle(w, d)
      PROVE  Shrinks /\ Stay
  <2>1. UNCHANGED <<status, drawn>>
    BY <1>4 DEF Handle, HandlePoison, HandleStart, HandleSignal, HandleEvent,
        HandleError, Outcome, rowVars
  <2> QED
    BY <1>4, <1>c, <2>1, HandleShrinks
<1>5. ASSUME NEW w \in Workers, MarkDelivered(w)
      PROVE  Shrinks /\ Stay
  <2>1. Shrinks
    BY <1>5, LetGoShrinks DEF MarkDelivered
  <2>2. Stay
    BY <1>5, <1>a DEF IInv, TypeOK, MarkDelivered
  <2> QED
    BY <2>1, <2>2
<1>6. ASSUME NEW w \in Workers, MarkFailed(w)
      PROVE  Shrinks /\ Stay
  <2>1. Shrinks
    BY <1>6, LetGoShrinks DEF MarkFailed
  <2>2. Stay
    BY <1>6, <1>a DEF IInv, TypeOK, MarkFailed, FailRow
  <2> QED
    BY <2>1, <2>2
<1>7. ASSUME NEW w \in Workers, Crash(w)
      PROVE  Shrinks /\ Stay
  <2>1. Shrinks
    BY <1>7, LetGoShrinks DEF Crash
  <2> QED
    BY <1>7, <1>c, <2>1 DEF Crash
<1>8. CASE CloseWorkflow
  BY <1>8, <1>b, <1>c, <1>d DEF CloseWorkflow
<1>9. CASE UNCHANGED vars
  BY <1>9, <1>b, <1>c, <1>d DEF vars
<1> HIDE DEF Shrinks, Stay
<1> QED
  BY <1>d, <1>1, <1>2, <1>3, <1>4, <1>5, <1>6, <1>7, <1>8, <1>9 DEF Next

(* The inductive invariant of the outbox.                                  *)
LEMMA Inductive == Spec => []IInv
<1>1. IInv /\ [Next]_vars => IInv'
  BY TypeStep, RowsStep, HandsStep DEF IInv
<1> QED
  BY InitIInv, <1>1, PTL DEF Spec

-----------------------------------------------------------------------------
(* Every variable keeps its type; attempts never exceeds MaxAttempts.      *)
THEOREM TypeCorrect == Spec => []TypeOK
BY Inductive, PTL DEF IInv

(* A row is in the dead letter exactly when mark_failed used its attempts  *)
(* up, whatever crashed and whoever reported late.                         *)
THEOREM DeadLetters == Spec => []DeadExactlyAtLimit
<1>1. IInv => DeadExactlyAtLimit
  BY DEF IInv, RowsAgree, DeadExactlyAtLimit
<1> QED
  BY <1>1, Inductive, PTL

(* The claim a row shows has one holder at most, even when all dispatchers *)
(* run under one worker_id.                                                *)
THEOREM OneHolder == Spec => []OneHolderPerClaim
<1>1. ASSUME IInv PROVE OneHolderPerClaim
  <2> SUFFICES ASSUME NEW m \in Messages
               PROVE  Cardinality({w \in Workers : HeldNow(m, w)}) <= 1
    BY DEF OneHolderPerClaim
  <2> DEFINE S == {w \in Workers : HeldNow(m, w)}
  <2>1. claim[m].token \in Nat
    BY <1>1 DEF IInv, TypeOK, Claims
  <2>2. \A w \in Workers : HeldNow(m, w) => InHand(m, claim[m].token, w)
    BY <1>1 DEF HeldNow, ReportsOn, InHand, IInv, TypeOK, Reports
  <2>3. \A v, w \in S : v = w
    BY <1>1, <2>1, <2>2 DEF IInv, OneHand
  <2>4. CASE S = {}
    BY <2>4, FS_EmptySet
  <2>5. CASE S # {}
    <3>1. PICK w \in S : S = {w}
      BY <2>3, <2>5
    <3> QED
      BY <3>1, FS_Singleton
  <2> QED
    BY <2>4, <2>5
<1> QED
  BY <1>1, Inductive, PTL

(* Only its holder gives up a claim whose lease runs, by its own report.   *)
THEOREM Fenced == Spec => ClaimsAreFenced
<1> DEFINE Fence == \A m \in Messages :
      status[m] = "processing" /\ ~lapsed[m] /\ claim'[m] # claim[m] =>
        \E w \in Workers : ReportsOn(m, w) /\ doing'[w] = Idle
<1>1. ASSUME IInv, [Next]_vars PROVE Fence
  <2> SUFFICES ASSUME NEW m \in Messages, status[m] = "processing", ~lapsed[m],
                      claim'[m] # claim[m]
               PROVE  \E w \in Workers : ReportsOn(m, w) /\ doing'[w] = Idle
    OBVIOUS
  <2>1. ASSUME NEW w \in Workers, ClaimStands(w, doing[w]),
               doing[w].outcome \in {"ok", "fail"},
               claim' = [claim EXCEPT ![doing[w].msg] = NoClaim],
               doing' = [doing EXCEPT ![w] = Idle]
        PROVE  ReportsOn(m, w) /\ doing'[w] = Idle
    <3>1. m = doing[w].msg
      BY <1>1, <2>1 DEF IInv, TypeOK
    <3>2. doing[w] # Idle /\ doing[w].token = claim[m].token
      BY <2>1, <3>1 DEF ClaimStands, Idle
    <3> QED
      BY <1>1, <2>1, <3>1, <3>2 DEF IInv, TypeOK, ReportsOn
  <2>2. ASSUME NEW x \in Messages, Submit(x) \/ BecomeDue(x) \/ Lapse(x)
        PROVE  FALSE
    BY <2>2 DEF Submit, BecomeDue, Lapse
  <2>3. ASSUME NEW w \in Workers, NEW batch \in SUBSET Messages, ClaimBatch(w, batch)
        PROVE  FALSE
    BY <1>1, <2>3 DEF IInv, TypeOK, ClaimBatch, Claimable
  <2>4. ASSUME NEW w \in Workers, NEW d \in held[w], Handle(w, d)
        PROVE  FALSE
    BY <2>4 DEF Handle, HandlePoison, HandleStart, HandleSignal, HandleEvent,
        HandleError, Outcome, rowVars
  <2>5. ASSUME NEW w \in Workers, MarkDelivered(w)
        PROVE  ReportsOn(m, w) /\ doing'[w] = Idle
    BY <2>1, <2>5 DEF MarkDelivered, Release
  <2>6. ASSUME NEW w \in Workers, MarkFailed(w)
        PROVE  ReportsOn(m, w) /\ doing'[w] = Idle
    BY <2>1, <2>6 DEF MarkFailed, FailRow, Release
  <2>7. ASSUME NEW w \in Workers, Crash(w)
        PROVE  FALSE
    BY <2>7 DEF Crash
  <2>8. ~CloseWorkflow /\ ~UNCHANGED vars
    BY DEF CloseWorkflow, vars
  <2> QED
    BY <1>1, <2>2, <2>3, <2>4, <2>5, <2>6, <2>7, <2>8 DEF Next
<1>2. IInv /\ [Next]_vars => [Fence]_vars
  BY <1>1
<1> QED
  BY <1>2, Inductive, PTL DEF Spec, ClaimsAreFenced

-----------------------------------------------------------------------------
(* The outbox implements CommandDelivery: under the refinement mapping of  *)
(* KeepsPromise every step of a dispatcher is a step of the promise or     *)
(* leaves it alone.                                                        *)

(* Success is reported only for what was handed over.                      *)
SuccessIsReal ==
  \A w \in Workers :
    doing[w].outcome = "ok" /\ doing[w].msg \in NeedsHandOver =>
      received[doing[w].msg]

(* The failure a standing claim is about to book has not been booked yet.  *)
FailuresAreReal ==
  /\ \A m \in Messages : attempts[m] <= failures[m]
  /\ \A w \in Workers :
       doing[w].outcome = "fail" /\ ClaimStands(w, doing[w]) =>
         attempts[doing[w].msg] < failures[doing[w].msg]

PInv == IInv /\ SuccessIsReal /\ FailuresAreReal

-----------------------------------------------------------------------------
(* Nothing is reported when the system starts.                             *)
LEMMA InitPInv == Init => PInv
<1>1. Init => SuccessIsReal /\ FailuresAreReal
  BY OutboxAssumption DEF Init, SuccessIsReal, FailuresAreReal, Idle
<1> QED
  BY <1>1, InitIInv DEF PInv

(* A verdict "ok" is reached by the step that hands the message over, and  *)
(* what was handed over stays so.                                          *)
LEMMA SuccessStep == PInv /\ [Next]_vars => SuccessIsReal'
<1> SUFFICES ASSUME PInv, [Next]_vars PROVE SuccessIsReal'
  OBVIOUS
<1> USE OutboxAssumption DEF OutboxAssumption
<1>1. ASSUME UNCHANGED <<doing, received>>
      PROVE  SuccessIsReal'
  BY <1>1 DEF PInv, SuccessIsReal
<1>2. ASSUME NEW v \in Workers, doing' = [doing EXCEPT ![v] = Idle],
             UNCHANGED received
      PROVE  SuccessIsReal'
  BY <1>2 DEF PInv, IInv, TypeOK, SuccessIsReal, Idle
<1>3. ASSUME NEW w \in Workers, NEW d \in held[w], Handle(w, d)
      PROVE  SuccessIsReal'
  <2>1. d.msg \in Messages
    BY DEF PInv, IInv, TypeOK, Deliveries
  <2>2. PICK result \in {"ok", "fail"} :
          /\ Outcome(w, d, result)
          /\ result = "ok" /\ d.msg \in NeedsHandOver => received'[d.msg]
    BY <1>3, <2>1 DEF PInv, IInv, TypeOK, Handle, HandlePoison, HandleStart,
        HandleSignal, HandleEvent, HandleError, NeedsHandOver
  <2>3. \A m \in Messages : received[m] => received'[m]
    BY <1>3, <2>1 DEF PInv, IInv, TypeOK, Handle, HandlePoison, HandleStart,
        HandleSignal, HandleEvent, HandleError
  <2>4. doing' = [doing EXCEPT ![w] =
          [msg |-> d.msg, token |-> d.token, outcome |-> result]]
    BY <2>2 DEF Outcome
  <2> SUFFICES ASSUME NEW v \in Workers, doing'[v].outcome = "ok",
                      doing'[v].msg \in NeedsHandOver
               PROVE  received'[doing'[v].msg]
    BY DEF SuccessIsReal
  <2>5. CASE v = w
    BY <2>2, <2>4, <2>5 DEF PInv, IInv, TypeOK
  <2>6. CASE v # w
    <3>1. doing'[v] = doing[v]
      BY <2>4, <2>6 DEF PInv, IInv, TypeOK
    <3>2. doing[v].msg \in Messages
      BY <3>1, DoingType DEF PInv, IInv
    <3> QED
      BY <2>3, <3>1, <3>2 DEF PInv, SuccessIsReal
  <2> QED
    BY <2>5, <2>6
<1>4. ASSUME NEW m \in Messages, Submit(m) \/ BecomeDue(m) \/ Lapse(m)
      PROVE  SuccessIsReal'
  BY <1>1, <1>4 DEF Submit, BecomeDue, Lapse
<1>5. ASSUME NEW w \in Workers, NEW batch \in SUBSET Messages, ClaimBatch(w, batch)
      PROVE  SuccessIsReal'
  BY <1>1, <1>5 DEF ClaimBatch
<1>6. ASSUME NEW w \in Workers, MarkDelivered(w) \/ MarkFailed(w) \/ Crash(w)
      PROVE  SuccessIsReal'
  BY <1>2, <1>6 DEF MarkDelivered, MarkFailed, Crash
<1>7. CASE CloseWorkflow \/ UNCHANGED vars
  BY <1>1, <1>7 DEF CloseWorkflow, vars
<1> QED
  BY <1>3, <1>4, <1>5, <1>6, <1>7 DEF Next

(* A failure is counted when it happens and booked later, once, by the     *)
(* holder of the claim; a claim that was given up books nothing.           *)
LEMMA FailuresStep == PInv /\ [Next]_vars => FailuresAreReal'
<1> SUFFICES ASSUME PInv, [Next]_vars PROVE FailuresAreReal'
  OBVIOUS
<1> USE OutboxAssumption DEF OutboxAssumption
<1>t. \A m \in Messages : attempts[m] \in Nat /\ failures[m] \in Nat /\ drawn[m] \in Nat
  BY DEF PInv, IInv, TypeOK
<1>1. ASSUME UNCHANGED <<attempts, failures>>,
             \A w \in Workers :
               doing'[w].outcome = "fail" /\ ClaimStands(w, doing[w])' =>
                 doing'[w] = doing[w] /\ ClaimStands(w, doing[w])
      PROVE  FailuresAreReal'
  BY <1>1 DEF PInv, FailuresAreReal
<1>2. ASSUME NEW m \in Messages, Submit(m) \/ BecomeDue(m) \/ Lapse(m)
      PROVE  FailuresAreReal'
  <2>1. /\ UNCHANGED <<doing, claim, attempts, failures>>
        /\ status' = status \/ status' = [status EXCEPT ![m] = "pending"]
    BY <1>2 DEF Submit, BecomeDue, Lapse
  <2>2. ASSUME NEW w \in Workers, doing'[w].outcome = "fail",
               ClaimStands(w, doing[w])'
        PROVE  ClaimStands(w, doing[w])
    <3>1. doing[w].msg \in Messages
      BY <2>1, <2>2, DoingType DEF PInv, IInv
    <3> QED
      BY <2>1, <2>2, <3>1 DEF PInv, IInv, TypeOK, ClaimStands
  <2> QED
    BY <1>1, <2>1, <2>2
<1>3. ASSUME NEW w \in Workers, NEW batch \in SUBSET Messages, ClaimBatch(w, batch)
      PROVE  FailuresAreReal'
  <2> SUFFICES ASSUME NEW v \in Workers, doing'[v].outcome = "fail",
                      ClaimStands(v, doing[v])'
               PROVE  doing'[v] = doing[v] /\ ClaimStands(v, doing[v])
    BY <1>1, <1>3 DEF ClaimBatch
  <2>1. doing' = doing
    BY <1>3 DEF ClaimBatch
  <2> PICK m \in Messages, k \in Nat : m = doing[v].msg /\ k = doing[v].token
    BY <2>1, DoingType DEF PInv, IInv
  <2>2. k <= drawn[m]
    BY <2>1 DEF PInv, IInv, HandsAgree, InHand
  <2>3. m \notin batch
    <3> SUFFICES ASSUME m \in batch PROVE FALSE
      OBVIOUS
    <3>1. claim'[m].token = drawn[m] + 1
      BY <1>3 DEF ClaimBatch, NextToken
    <3>2. claim'[m].token = k
      BY <2>1 DEF ClaimStands
    <3> QED
      BY <2>2, <3>1, <3>2, <1>t
  <2> QED
    BY <1>3, <2>1, <2>3 DEF ClaimBatch, ClaimStands
<1>4. ASSUME NEW w \in Workers, NEW d \in held[w], Handle(w, d)
      PROVE  FailuresAreReal'
  <2>1. d.msg \in Messages
    BY DEF PInv, IInv, TypeOK, Deliveries
  <2>2. PICK result \in {"ok", "fail"} : Outcome(w, d, result)
    BY <1>4 DEF Handle, HandlePoison, HandleStart, HandleSignal, HandleEvent,
        HandleError
  <2>3. /\ doing' = [doing EXCEPT ![w] =
             [msg |-> d.msg, token |-> d.token, outcome |-> result]]
        /\ failures' = IF result = "fail" THEN [failures EXCEPT ![d.msg] = @ + 1]
                       ELSE failures
        /\ UNCHANGED <<attempts, status, claim>>
    BY <2>2 DEF Outcome, rowVars
  <2>4. \A m \in Messages : failures'[m] \in Nat /\ failures'[m] >= failures[m]
    BY <2>1, <2>3, <1>t DEF PInv, IInv, TypeOK
  <2>5. \A m \in Messages : attempts'[m] <= failures'[m]
    BY <2>3, <2>4, <1>t DEF PInv, FailuresAreReal
  <2> SUFFICES ASSUME NEW v \in Workers, doing'[v].outcome = "fail",
                      ClaimStands(v, doing[v])'
               PROVE  attempts'[doing'[v].msg] < failures'[doing'[v].msg]
    BY <2>5 DEF FailuresAreReal
  <2>6. CASE v = w
    <3>1. doing'[v].msg = d.msg /\ result = "fail"
      BY <2>3, <2>6 DEF PInv, IInv, TypeOK
    <3>2. failures'[d.msg] = failures[d.msg] + 1
      BY <2>1, <2>3, <3>1 DEF PInv, IInv, TypeOK
    <3> QED
      BY <2>1, <2>3, <3>1, <3>2, <1>t DEF PInv, FailuresAreReal
  <2>7. CASE v # w
    <3>1. doing'[v] = doing[v]
      BY <2>3, <2>7 DEF PInv, IInv, TypeOK
    <3> PICK m \in Messages : m = doing[v].msg
      BY <3>1, DoingType DEF PInv, IInv
    <3>2. ClaimStands(v, doing[v])
      BY <2>3, <3>1 DEF ClaimStands
    <3>3. attempts[m] < failures[m]
      BY <3>1, <3>2 DEF PInv, FailuresAreReal
    <3> QED
      BY <2>3, <2>4, <3>1, <3>3, <1>t
  <2> QED
    BY <2>6, <2>7
<1>5. ASSUME NEW w \in Workers, MarkDelivered(w)
      PROVE  FailuresAreReal'
  <2>1. ASSUME NEW v \in Workers, doing'[v].outcome = "fail",
               ClaimStands(v, doing[v])'
        PROVE  doing'[v] = doing[v] /\ ClaimStands(v, doing[v])
    <3>1. v # w /\ doing'[v] = doing[v]
      BY <1>5, <2>1 DEF PInv, IInv, TypeOK, MarkDelivered, Idle
    <3>2. CASE ~ClaimStands(w, doing[w])
      BY <1>5, <2>1, <3>1, <3>2 DEF MarkDelivered, ClaimStands
    <3>3. CASE ClaimStands(w, doing[w])
      <4>1. /\ status' = [status EXCEPT ![doing[w].msg] = "delivered"]
            /\ claim' = [claim EXCEPT ![doing[w].msg] = NoClaim]
        BY <1>5, <3>3 DEF MarkDelivered, Release
      <4>2. doing[v].msg \in Messages /\ doing[w].msg \in Messages
        BY <1>5, <2>1, <3>1, DoingType DEF PInv, IInv, MarkDelivered
      <4>3. doing[v].msg # doing[w].msg
        BY <2>1, <3>1, <4>1, <4>2 DEF PInv, IInv, TypeOK, ClaimStands
      <4> QED
        BY <2>1, <3>1, <4>1, <4>2, <4>3 DEF PInv, IInv, TypeOK, ClaimStands
    <3> QED
      BY <3>2, <3>3, <3>1
  <2> QED
    BY <1>1, <1>5, <2>1 DEF MarkDelivered
<1>6. ASSUME NEW w \in Workers, MarkFailed(w)
      PROVE  FailuresAreReal'
  <2>0. doing' = [doing EXCEPT ![w] = Idle] /\ failures' = failures
    BY <1>6 DEF MarkFailed
  <2>1. CASE UNCHANGED <<status, claim, attempts>>
    BY <1>1, <2>0, <2>1 DEF PInv, IInv, TypeOK, ClaimStands, Idle
  <2>2. CASE ClaimStands(w, doing[w]) /\ FailRow(doing[w].msg)
    <3> PICK m \in Messages : m = doing[w].msg
      BY <1>6, DoingType DEF PInv, IInv, MarkFailed
    <3>1. /\ claim' = [claim EXCEPT ![m] = NoClaim]
          /\ attempts' = [attempts EXCEPT ![m] = @ + 1]
          /\ status' = [status EXCEPT ![m] =
               IF attempts[m] + 1 >= MaxAttempts THEN "dead_letter" ELSE "pending"]
      BY <2>2 DEF FailRow, Release
    <3>2. attempts[m] < failures[m]
      BY <1>6, <2>2 DEF MarkFailed, PInv, FailuresAreReal
    <3>3. \A x \in Messages :
            attempts'[x] = IF x = m THEN attempts[m] + 1 ELSE attempts[x]
      BY <3>1 DEF PInv, IInv, TypeOK
    <3>4. \A x \in Messages : attempts'[x] <= failures'[x]
      BY <2>0, <3>2, <3>3, <1>t DEF PInv, FailuresAreReal
    <3> SUFFICES ASSUME NEW v \in Workers, doing'[v].outcome = "fail",
                        ClaimStands(v, doing[v])'
                 PROVE  attempts'[doing'[v].msg] < failures'[doing'[v].msg]
      BY <3>4 DEF FailuresAreReal
    <3>5. v # w /\ doing'[v] = doing[v]
      BY <2>0 DEF PInv, IInv, TypeOK, Idle
    <3> PICK x \in Messages : x = doing[v].msg
      BY <3>5, DoingType DEF PInv, IInv
    <3>6. x # m
      BY <3>1, <3>5 DEF PInv, IInv, TypeOK, ClaimStands
    <3>7. ClaimStands(v, doing[v])
      BY <3>1, <3>5, <3>6 DEF PInv, IInv, TypeOK, ClaimStands
    <3>8. attempts[x] < failures[x]
      BY <3>5, <3>7 DEF PInv, FailuresAreReal
    <3> QED
      BY <2>0, <3>3, <3>5, <3>6, <3>8
  <2> QED
    BY <1>6, <2>1, <2>2 DEF MarkFailed
<1>7. ASSUME NEW w \in Workers, Crash(w)
      PROVE  FailuresAreReal'
  BY <1>1, <1>7 DEF PInv, IInv, TypeOK, Crash, ClaimStands, Idle
<1>8. CASE CloseWorkflow \/ UNCHANGED vars
  BY <1>1, <1>8 DEF CloseWorkflow, vars, ClaimStands
<1> QED
  BY <1>2, <1>3, <1>4, <1>5, <1>6, <1>7, <1>8 DEF Next

(* The invariant the refinement rests on.                                  *)
LEMMA PInvHolds == Spec => []PInv
<1>1. PInv /\ [Next]_vars => PInv'
  BY TypeStep, RowsStep, HandsStep, SuccessStep, FailuresStep DEF PInv, IInv
<1> QED
  BY InitPInv, <1>1, PTL DEF Spec

-----------------------------------------------------------------------------
(* A row that moves between pending and processing keeps its fate.         *)
LEMMA SameFate ==
  ASSUME \A m \in Messages :
           \/ status'[m] = status[m]
           \/ {status[m], status'[m]} \subseteq {"pending", "processing"}
  PROVE  UNCHANGED Fate
BY DEF Fate

(* A step that gives one message a new fate and touches no other row.      *)
LEMMA OneFate ==
  ASSUME NEW m \in Messages, NEW to, Fate'[m] = to,
         \A x \in Messages : x # m => status'[x] = status[x]
  PROVE  Fate' = [Fate EXCEPT ![m] = to]
BY DEF Fate

(* Every step is one of the promise or leaves fate, hand-over and failures *)
(* of every message alone: one case per action of the outbox.              *)
LEMMA StepRefines == PInv /\ PInv' /\ [Next]_vars => [Promise!DNext]_(Promise!dvars)
<1> SUFFICES ASSUME PInv, PInv', [Next]_vars,
                    ~UNCHANGED <<Fate, received, failures>>
             PROVE  \E m \in Messages :
                      \/ Promise!Enqueue(m) \/ Promise!HandOver(m)
                      \/ Promise!ObserveFailure(m)
                      \/ Promise!Deliver(m) \/ Promise!GiveUp(m)
  BY DEF Promise!DNext, Promise!dvars
<1> USE OutboxAssumption DEF OutboxAssumption
<1>t. \A m \in Messages : status[m] \in Statuses /\ status'[m] \in Statuses
  BY DEF PInv, IInv, TypeOK
<1>1. ASSUME NEW m \in Messages, Submit(m)
      PROVE  Promise!Enqueue(m)
  <2>1. status[m] = "absent" /\ status'[m] = "pending"
    BY <1>1 DEF Submit, PInv, IInv, TypeOK
  <2>2. Fate[m] = "absent" /\ Fate'[m] = "queued"
    BY <2>1 DEF Fate
  <2>3. Fate' = [Fate EXCEPT ![m] = "queued"]
    BY <1>1, <2>2, OneFate DEF Submit, PInv, IInv, TypeOK
  <2> QED
    BY <1>1, <2>2, <2>3 DEF Submit, Promise!Enqueue
<1>2. ASSUME NEW m \in Messages, BecomeDue(m) \/ Lapse(m)
      PROVE  FALSE
  BY <1>2 DEF BecomeDue, Lapse, Fate
<1>3. ASSUME NEW w \in Workers, NEW batch \in SUBSET Messages, ClaimBatch(w, batch)
      PROVE  FALSE
  <2>1. \A m \in Messages :
          \/ status'[m] = status[m]
          \/ {status[m], status'[m]} \subseteq {"pending", "processing"}
    BY <1>3 DEF ClaimBatch, Claimable
  <2> QED
    BY <1>3, <2>1, SameFate DEF ClaimBatch
<1>4. ASSUME NEW w \in Workers, NEW d \in held[w], Handle(w, d)
      PROVE  \E m \in Messages : Promise!HandOver(m) \/ Promise!ObserveFailure(m)
  <2> PICK m \in Messages, k \in Nat : m = d.msg /\ k = d.token
    BY DEF PInv, IInv, TypeOK, Deliveries
  <2>1. status[m] # "absent"
    BY DEF PInv, IInv, HandsAgree, InHand
  <2>2. Fate[m] # "absent"
    BY <2>1, <1>t DEF Fate, Statuses
  <2>3. UNCHANGED Fate
    BY <1>4 DEF Handle, HandlePoison, HandleStart, HandleSignal, HandleEvent,
        HandleError, Outcome, rowVars, Fate
  <2>4. PICK result \in {"ok", "fail"} :
          /\ failures' = IF result = "fail" THEN [failures EXCEPT ![m] = @ + 1]
                         ELSE failures
          /\ received' = received \/ received' = [received EXCEPT ![m] = TRUE]
    BY <1>4 DEF Handle, HandlePoison, HandleStart, HandleSignal, HandleEvent,
        HandleError, Outcome
  <2>5. CASE result = "ok"
    BY <2>2, <2>3, <2>4, <2>5 DEF Promise!HandOver
  <2>6. CASE result = "fail"
    BY <2>2, <2>3, <2>4, <2>6 DEF Promise!ObserveFailure
  <2> QED
    BY <2>5, <2>6
<1>5. ASSUME NEW w \in Workers, MarkDelivered(w)
      PROVE  \E m \in Messages : Promise!Deliver(m)
  <2> PICK m \in Messages : m = doing[w].msg
    BY <1>5, DoingType DEF PInv, IInv, MarkDelivered
  <2>1. CASE ~ClaimStands(w, doing[w])
    BY <1>5, <2>1 DEF MarkDelivered, Fate
  <2>2. CASE ClaimStands(w, doing[w])
    <3>1. /\ status[m] = "processing"
          /\ status' = [status EXCEPT ![m] = "delivered"]
          /\ m \in NeedsHandOver => received[m]
      BY <1>5, <2>2 DEF MarkDelivered, ClaimStands, PInv, SuccessIsReal
    <3>2. Fate[m] = "queued" /\ Fate'[m] = "delivered"
      BY <3>1 DEF Fate, PInv, IInv, TypeOK
    <3>3. Fate' = [Fate EXCEPT ![m] = "delivered"]
      BY <3>1, <3>2, OneFate DEF PInv, IInv, TypeOK
    <3> QED
      BY <1>5, <3>1, <3>2, <3>3 DEF MarkDelivered, Promise!Deliver
  <2> QED
    BY <2>1, <2>2
<1>6. ASSUME NEW w \in Workers, MarkFailed(w)
      PROVE  \E m \in Messages : Promise!GiveUp(m)
  <2> PICK m \in Messages : m = doing[w].msg
    BY <1>6, DoingType DEF PInv, IInv, MarkFailed
  <2>1. CASE UNCHANGED status
    BY <1>6, <2>1 DEF MarkFailed, Fate
  <2>2. CASE ClaimStands(w, doing[w]) /\ FailRow(m)
    <3>1. status[m] = "processing" /\ attempts[m] < failures[m]
      BY <1>6, <2>2 DEF MarkFailed, ClaimStands, PInv, FailuresAreReal
    <3>2. CASE attempts[m] + 1 >= MaxAttempts
      <4>1. status' = [status EXCEPT ![m] = "dead_letter"]
        BY <2>2, <3>2 DEF FailRow
      <4>2. Fate[m] = "queued" /\ Fate'[m] = "dead"
        BY <3>1, <4>1 DEF Fate, PInv, IInv, TypeOK
      <4>3. Fate' = [Fate EXCEPT ![m] = "dead"]
        BY <4>1, <4>2, OneFate DEF PInv, IInv, TypeOK
      <4>4. failures[m] >= MaxAttempts
        <5>1. attempts[m] \in Nat /\ failures[m] \in Nat
          BY DEF PInv, IInv, TypeOK
        <5> QED
          BY <3>1, <3>2, <5>1
      <4> QED
        BY <1>6, <4>2, <4>3, <4>4 DEF MarkFailed, Promise!GiveUp
    <3>3. CASE ~(attempts[m] + 1 >= MaxAttempts)
      <4>1. status' = [status EXCEPT ![m] = "pending"]
        BY <2>2, <3>3 DEF FailRow
      <4>2. UNCHANGED Fate
        BY <3>1, <4>1, SameFate DEF PInv, IInv, TypeOK
      <4> QED
        BY <1>6, <4>2 DEF MarkFailed
    <3> QED
      BY <3>2, <3>3
  <2> QED
    BY <1>6, <2>1, <2>2 DEF MarkFailed
<1>7. ASSUME NEW w \in Workers, Crash(w)
      PROVE  FALSE
  BY <1>7 DEF Crash, Fate
<1>8. CASE CloseWorkflow \/ UNCHANGED vars
  BY <1>8 DEF CloseWorkflow, vars, Fate
<1> QED
  BY <1>1, <1>2, <1>3, <1>4, <1>5, <1>6, <1>7, <1>8 DEF Next

(* A message is delivered only after it was handed over, is given up only  *)
(* after MaxAttempts failures that happened, and neither verdict changes.  *)
THEOREM Refinement == Spec => KeepsPromise
<1>1. Init => Promise!DInit
  BY DEF Init, Promise!DInit, Fate
<1>2. PInv /\ PInv' /\ [Next]_vars => [Promise!DNext]_(Promise!dvars)
  BY StepRefines
<1> QED
  BY <1>1, <1>2, PInvHolds, PTL DEF Spec, KeepsPromise, Promise!Delivery

=============================================================================
