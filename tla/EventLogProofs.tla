---------------------------- MODULE EventLogProofs ----------------------------
(***************************************************************************)
(* What holds of the event log and the audit chain for every set of runs   *)
(* and transactions: the chains never branch and the projection is the     *)
(* replay of the log; a command takes effect once, an endpoint is declared *)
(* once; and only a memory write can close a circle of waiting sessions.   *)
(***************************************************************************)
EXTENDS EventLog, SequenceTheorems, TLAPS

-----------------------------------------------------------------------------
(* Sequences                                                               *)

LEMMA ConcatOne ==
  ASSUME NEW S, NEW s \in Seq(S), NEW e \in S
  PROVE  s \o <<e>> = Append(s, e)
BY AppendIsConcat

LEMMA ConcatAppend ==
  ASSUME NEW S, NEW s \in Seq(S), NEW d \in Seq(S), NEW e \in S
  PROVE  s \o Append(d, e) = Append(s \o d, e)
<1>1. <<e>> \in Seq(S) OBVIOUS
<1>2. s \o d \in Seq(S) BY ConcatProperties
<1>3. Append(d, e) = d \o <<e>> BY AppendIsConcat
<1>4. Append(s \o d, e) = (s \o d) \o <<e>> BY <1>2, AppendIsConcat
<1> QED BY <1>1, <1>3, <1>4, ConcatAssociative

(* A row that links to the last one continues a chain.                     *)
LEMMA ChainedAppend ==
  ASSUME NEW rows \in Seq(Row), Chained(rows), NEW e \in Row,
         e.prev = IF rows = <<>> THEN None ELSE rows[Len(rows)].entry
  PROVE  Chained(Append(rows, e))
<1> DEFINE more == Append(rows, e)
<1>1. /\ more \in Seq(Row) /\ Len(more) = Len(rows) + 1
      /\ \A i \in 1 .. Len(rows) : more[i] = rows[i]
      /\ more[Len(rows) + 1] = e
  BY AppendProperties
<1>2. Len(rows) \in Nat /\ DOMAIN rows = 1 .. Len(rows) /\ DOMAIN more = 1 .. Len(rows) + 1
  BY <1>1, LenProperties
<1> HIDE DEF more
<1>3. SUFFICES ASSUME NEW n \in DOMAIN more
               PROVE  more[n].prev = IF n = 1 THEN None ELSE more[n - 1].entry
  BY DEF Chained, more
<1>4. CASE n \in 1 .. Len(rows)
  <2>1. rows[n].prev = IF n = 1 THEN None ELSE rows[n - 1].entry
    BY <1>2, <1>4 DEF Chained
  <2>2. n # 1 => n - 1 \in 1 .. Len(rows) BY <1>2, <1>4
  <2> QED BY <1>1, <1>4, <2>1, <2>2
<1>5. CASE n = Len(rows) + 1
  <2>1. CASE rows = <<>>
    <3>1. Len(rows) = 0 BY <2>1
    <3> QED BY <1>1, <1>5, <2>1, <3>1
  <2>2. CASE rows # <<>>
    <3>1. Len(rows) # 0 BY <2>2, EmptySeq
    <3>2. n # 1 /\ n - 1 = Len(rows) /\ n - 1 \in 1 .. Len(rows) BY <1>2, <1>5, <3>1
    <3> QED BY <1>1, <1>5, <2>2, <3>2
  <2> QED BY <2>1, <2>2
<1> QED BY <1>2, <1>3, <1>4, <1>5

(* An event with the next number and the last key continues a log.         *)
LEMMA NumberedAppend ==
  ASSUME NEW log \in Seq(EventOf), Numbered(log), NEW e \in EventOf,
         e.seq = Len(log) + 1,
         e.prev = IF log = <<>> THEN None ELSE log[Len(log)].key
  PROVE  Numbered(Append(log, e))
<1> DEFINE more == Append(log, e)
<1>1. /\ more \in Seq(EventOf) /\ Len(more) = Len(log) + 1
      /\ \A i \in 1 .. Len(log) : more[i] = log[i]
      /\ more[Len(log) + 1] = e
  BY AppendProperties
<1>2. Len(log) \in Nat /\ DOMAIN log = 1 .. Len(log) /\ DOMAIN more = 1 .. Len(log) + 1
  BY <1>1, LenProperties
<1> HIDE DEF more
<1>3. SUFFICES ASSUME NEW n \in DOMAIN more
               PROVE  /\ more[n].seq = n
                      /\ more[n].prev = IF n = 1 THEN None ELSE more[n - 1].key
  BY DEF Numbered, more
<1>4. CASE n \in 1 .. Len(log)
  <2>1. log[n].seq = n /\ log[n].prev = IF n = 1 THEN None ELSE log[n - 1].key
    BY <1>2, <1>4 DEF Numbered
  <2>2. n # 1 => n - 1 \in 1 .. Len(log) BY <1>2, <1>4
  <2> QED BY <1>1, <1>4, <2>1, <2>2
<1>5. CASE n = Len(log) + 1
  <2>1. CASE log = <<>>
    <3>1. Len(log) = 0 BY <2>1
    <3> QED BY <1>1, <1>5, <2>1, <3>1
  <2>2. CASE log # <<>>
    <3>1. Len(log) # 0 BY <2>2, EmptySeq
    <3>2. n # 1 /\ n - 1 = Len(log) /\ n - 1 \in 1 .. Len(log) BY <1>2, <1>5, <3>1
    <3> QED BY <1>1, <1>5, <2>2, <3>2
  <2> QED BY <2>1, <2>2
<1> QED BY <1>2, <1>3, <1>4, <1>5

LEMMA KeysOfSeq ==
  ASSUME NEW s \in Seq(EventOf)
  PROVE  KeysOf(s) \in Seq(Keys) /\ Len(KeysOf(s)) = Len(s)
<1>1. Len(s) \in Nat /\ DOMAIN s = 1 .. Len(s) BY LenProperties
<1>2. ASSUME NEW n \in 1 .. Len(s) PROVE s[n].key \in Keys
  <2>1. s[n] \in EventOf BY ElementOfSeq
  <2> QED BY <2>1 DEF EventOf
<1>3. KeysOf(s) \in [1 .. Len(s) -> Keys] BY <1>1, <1>2 DEF KeysOf
<1>4. KeysOf(s) \in Seq(Keys) BY <1>1, <1>3, SeqDef
<1>5. DOMAIN KeysOf(s) = 1 .. Len(KeysOf(s)) /\ Len(KeysOf(s)) \in Nat BY <1>4, LenProperties
<1>6. \A x \in Nat : x \in 1 .. Len(KeysOf(s)) <=> x \in 1 .. Len(s) BY <1>3, <1>5
<1>7. ~(Len(s) < Len(KeysOf(s))) BY <1>1, <1>5, <1>6
<1>8. ~(Len(KeysOf(s)) < Len(s)) BY <1>1, <1>5, <1>6
<1>9. \A a, b \in Nat : ~(a < b) /\ ~(b < a) => b = a OBVIOUS
<1>10. Len(KeysOf(s)) = Len(s) BY <1>1, <1>5, <1>7, <1>8, <1>9
<1> QED BY <1>4, <1>10

(* The keys of a log that grows by one event grow by its key.              *)
LEMMA KeysOfAppend ==
  ASSUME NEW s \in Seq(EventOf), NEW e \in EventOf
  PROVE  KeysOf(Append(s, e)) = Append(KeysOf(s), e.key)
<1> DEFINE more == Append(s, e)
           keys == Append(KeysOf(s), e.key)
<1>1. /\ more \in Seq(EventOf) /\ Len(more) = Len(s) + 1
      /\ \A i \in 1 .. Len(s) : more[i] = s[i]
      /\ more[Len(s) + 1] = e
  BY AppendProperties
<1>2. KeysOf(s) \in Seq(Keys) /\ Len(KeysOf(s)) = Len(s) BY KeysOfSeq
<1>3. e.key \in Keys BY DEF EventOf
<1>4. /\ keys \in Seq(Keys) /\ Len(keys) = Len(s) + 1
      /\ \A i \in 1 .. Len(s) : keys[i] = KeysOf(s)[i]
      /\ keys[Len(s) + 1] = e.key
  BY <1>2, <1>3, AppendProperties
<1>5. KeysOf(more) \in Seq(Keys) /\ Len(KeysOf(more)) = Len(s) + 1 BY <1>1, KeysOfSeq
<1>6. Len(s) \in Nat /\ DOMAIN s = 1 .. Len(s) /\ DOMAIN more = 1 .. Len(s) + 1
  BY <1>1, LenProperties
<1> HIDE DEF more, keys
<1>7. ASSUME NEW i \in 1 .. Len(s) + 1 PROVE KeysOf(more)[i] = keys[i]
  <2>1. KeysOf(more)[i] = more[i].key BY <1>6 DEF KeysOf
  <2>2. CASE i \in 1 .. Len(s)
    <3>1. KeysOf(s)[i] = s[i].key BY <1>6, <2>2 DEF KeysOf
    <3> QED BY <1>1, <1>4, <2>1, <2>2, <3>1
  <2>3. CASE i = Len(s) + 1 BY <1>1, <1>4, <2>1, <2>3
  <2> QED BY <1>6, <2>2, <2>3
<1>8. KeysOf(more) = keys BY <1>4, <1>5, <1>7, SeqEqual
<1> QED BY <1>8 DEF more, keys

-----------------------------------------------------------------------------
(* Commands, their steps, and the locks                                    *)

Writes == {"append", "memory", "firstUse"}

LEMMA CommandTypes ==
  ASSUME NEW t \in Txs
  PROVE  /\ Kind(t) \in Kinds /\ Run(t) \in Runs /\ Key(t) \in Keys
         /\ Command[t].body \in Bodies
BY EventLogAssumption DEF Kind, Run, Key, Keys, Bodies

LEMMA StepsOf ==
  ASSUME NEW t \in Txs
  PROVE  /\ Kind(t) = "append" =>
              Steps[t] = <<Step(RunLock(Run(t)), "append"), Step(AuditLock, "link")>>
         /\ Kind(t) = "memory" =>
              Steps[t] = <<Step(MemoryLock, "lock"), Step(AuditLock, "enter"),
                           Step(RunLock(Run(t)), "append"), Step(AuditLock, "link")>>
         /\ Kind(t) = "firstUse" =>
              Steps[t] = <<Step(FirstUseLock, "look"),
                           Step(RunLock(Run(t)), "append"), Step(AuditLock, "link")>>
         /\ Kind(t) = "audit" => Steps[t] = <<Step(AuditLock, "enter")>>
         /\ Kind(t) = "rebuild" => Steps[t] = <<Step(RunLock(Run(t)), "rebuild")>>
BY DEF Steps, AppendSteps

LEMMA StepCount ==
  ASSUME NEW t \in Txs
  PROVE  /\ Len(Steps[t]) \in Nat \ {0}
         /\ Kind(t) = "append" => Len(Steps[t]) = 2
         /\ Kind(t) = "memory" => Len(Steps[t]) = 4
         /\ Kind(t) = "firstUse" => Len(Steps[t]) = 3
         /\ Kind(t) \in {"audit", "rebuild"} => Len(Steps[t]) = 1
<1>1. Kind(t) = "append" => Len(Steps[t]) = 2 BY StepsOf
<1>2. Kind(t) = "memory" => Len(Steps[t]) = 4 BY StepsOf
<1>3. Kind(t) = "firstUse" => Len(Steps[t]) = 3 BY StepsOf
<1>4. Kind(t) \in {"audit", "rebuild"} => Len(Steps[t]) = 1 BY StepsOf
<1>5. Kind(t) \in {"append", "memory", "firstUse", "audit", "rebuild"}
  BY CommandTypes DEF Kinds
<1>6. Len(Steps[t]) \in {1, 2, 3, 4} BY <1>1, <1>2, <1>3, <1>4, <1>5
<1>7. \A x : x = 1 \/ x = 2 \/ x = 3 \/ x = 4 => x \in Nat \ {0} OBVIOUS
<1>8. Len(Steps[t]) \in Nat \ {0} BY <1>6, <1>7
<1> QED BY <1>1, <1>2, <1>3, <1>4, <1>8

(* A step that does something, its lock, and where in its script it is.    *)
StepFits(t, i) ==
  LET s == Steps[t][i]
  IN /\ s.lock \in Locks
     /\ s.does = "append" =>
          /\ s.lock = RunLock(Run(t)) /\ Kind(t) \in Writes
          /\ Kind(t) = "append" => i = 1
          /\ Kind(t) = "memory" => i = 3
          /\ Kind(t) = "firstUse" => i = 2
     /\ s.does = "link" =>
          /\ s.lock = AuditLock /\ Kind(t) \in Writes /\ i = Len(Steps[t])
     /\ s.does = "enter" =>
          /\ s.lock = AuditLock /\ Kind(t) \in {"memory", "audit"}
          /\ Kind(t) = "memory" => i = 2
     /\ s.does = "lock" => Kind(t) = "memory" /\ i = 1
     /\ s.does = "look" => s.lock = FirstUseLock /\ Kind(t) = "firstUse" /\ i = 1
     /\ s.does = "rebuild" => s.lock = RunLock(Run(t)) /\ Kind(t) = "rebuild" /\ i = 1

LEMMA StepsFit ==
  ASSUME NEW t \in Txs, NEW i \in 1 .. Len(Steps[t])
  PROVE  StepFits(t, i)
<1>0. /\ RunLock(Run(t)) \in Locks /\ AuditLock \in Locks
      /\ MemoryLock \in Locks /\ FirstUseLock \in Locks
  BY CommandTypes DEF Locks
<1> HIDE DEF RunLock
<1>1. CASE Kind(t) = "append"
  <2>1. Steps[t] = <<Step(RunLock(Run(t)), "append"), Step(AuditLock, "link")>> BY <1>1, StepsOf
  <2>2. i \in 1 .. 2 BY <1>1, StepCount
  <2> QED BY <1>0, <1>1, <2>1, <2>2 DEF StepFits, Step, Writes
<1>2. CASE Kind(t) = "memory"
  <2>1. Steps[t] = <<Step(MemoryLock, "lock"), Step(AuditLock, "enter"),
                     Step(RunLock(Run(t)), "append"), Step(AuditLock, "link")>>
    BY <1>2, StepsOf
  <2>2. i \in 1 .. 4 BY <1>2, StepCount
  <2>3. i = 1 \/ i = 2 \/ i = 3 \/ i = 4 BY <2>2
  <2>4. /\ Steps[t][1] = Step(MemoryLock, "lock") /\ Steps[t][2] = Step(AuditLock, "enter")
        /\ Steps[t][3] = Step(RunLock(Run(t)), "append") /\ Steps[t][4] = Step(AuditLock, "link")
        /\ Len(Steps[t]) = 4
    BY <2>1
  <2> QED BY <1>0, <1>2, <2>3, <2>4 DEF StepFits, Step, Writes
<1>3. CASE Kind(t) = "firstUse"
  <2>1. Steps[t] = <<Step(FirstUseLock, "look"),
                     Step(RunLock(Run(t)), "append"), Step(AuditLock, "link")>>
    BY <1>3, StepsOf
  <2>2. i \in 1 .. 3 BY <1>3, StepCount
  <2> QED BY <1>0, <1>3, <2>1, <2>2 DEF StepFits, Step, Writes
<1>4. CASE Kind(t) = "audit"
  <2>1. Steps[t] = <<Step(AuditLock, "enter")>> BY <1>4, StepsOf
  <2>2. i \in 1 .. 1 BY <1>4, StepCount
  <2> QED BY <1>0, <1>4, <2>1, <2>2 DEF StepFits, Step, Writes
<1>5. CASE Kind(t) = "rebuild"
  <2>1. Steps[t] = <<Step(RunLock(Run(t)), "rebuild")>> BY <1>5, StepsOf
  <2>2. i \in 1 .. 1 BY <1>5, StepCount
  <2> QED BY <1>0, <1>5, <2>1, <2>2 DEF StepFits, Step, Writes
<1> QED BY <1>1, <1>2, <1>3, <1>4, <1>5, CommandTypes DEF Kinds

(* The step a transaction reaches next.                                    *)
LEMMA ReachedStep ==
  ASSUME TypeOK, NEW t \in Txs, NEW does, Reaches(t, does)
  PROVE  /\ step[t] \in Nat /\ step[t] + 1 \in 1 .. Len(Steps[t])
         /\ StepFits(t, step[t] + 1) /\ Next1(t) = Steps[t][step[t] + 1]
         /\ Next1(t).does = does /\ Next1(t).lock \in Locks
         /\ holder[Next1(t).lock] \in {NoTx, t} /\ status[t] = "open"
<1>1. step[t] \in Nat /\ step[t] <= Len(Steps[t]) BY DEF TypeOK
<1>2. Len(Steps[t]) \in Nat BY StepCount
<1>3. step[t] # Len(Steps[t]) BY DEF Reaches, Ended
<1>4. step[t] + 1 \in 1 .. Len(Steps[t]) BY <1>1, <1>2, <1>3
<1>5. StepFits(t, step[t] + 1) BY <1>4, StepsFit
<1>6. Steps[t][step[t] + 1].lock \in Locks BY <1>5 DEF StepFits
<1>7. Next1(t) = Steps[t][step[t] + 1] BY DEF Next1
<1> QED BY <1>1, <1>4, <1>5, <1>6, <1>7 DEF Reaches

(* Taking a lock that is free or one's own takes none from anybody else.   *)
LEMMA HeldLock ==
  ASSUME TypeOK, NEW t \in Txs, NEW does, Reaches(t, does), holder' = Held(t)
  PROVE  /\ holder' \in [Locks -> Txs \cup {NoTx}]
         /\ holder'[Next1(t).lock] = t
         /\ \A l \in Locks, u \in Txs : holder[l] = u => holder'[l] = u
         /\ \A l \in Locks, u \in Txs : holder'[l] = u =>
              holder[l] = u \/ (l = Next1(t).lock /\ u = t)
<1>1. holder \in [Locks -> Txs \cup {NoTx}] BY DEF TypeOK
<1>2. Next1(t).lock \in Locks /\ holder[Next1(t).lock] \in {NoTx, t} BY ReachedStep
<1>3. holder' = [holder EXCEPT ![Next1(t).lock] = t] BY DEF Held
<1> HIDE DEF Next1
<1> QED BY <1>1, <1>2, <1>3, EventLogAssumption

(* The end of a transaction frees its locks and no other.                  *)
LEMMA ReleasedLock ==
  ASSUME TypeOK, NEW t \in Txs, holder' = Released(t)
  PROVE  /\ holder' \in [Locks -> Txs \cup {NoTx}]
         /\ \A l \in Locks : holder'[l] # t
         /\ \A l \in Locks, u \in Txs \ {t} : holder[l] = u <=> holder'[l] = u
<1>1. holder \in [Locks -> Txs \cup {NoTx}] BY DEF TypeOK
<1>2. holder' = [l \in Locks |-> IF holder[l] = t THEN NoTx ELSE holder[l]] BY DEF Released
<1> QED BY <1>1, <1>2, EventLogAssumption

-----------------------------------------------------------------------------
(* The inductive invariant                                                 *)

(* What a transaction holds is the lock of a step it has done.             *)
HoldersFit == \A l \in Locks, t \in Txs :
  holder[l] = t => \E i \in 1 .. step[t] : Steps[t][i].lock = l

(* A drafted event continues the log of its run, which nobody else can     *)
(* extend while the lock is held, under a key that is free.                *)
EventFits(t) == draft[t].event # <<>> =>
  /\ Kind(t) \in Writes
  /\ holder[RunLock(Run(t))] = t
  /\ draft[t].event = <<NewEvent(t)>>
  /\ draft[t].projection = Append(KeysOf(events[Run(t)]), Key(t))
  /\ ~KeyUsed(Run(t), Key(t))

RebuildFits(t) == Kind(t) = "rebuild" /\ step[t] # 0 =>
  /\ holder[RunLock(Run(t))] = t
  /\ draft[t].projection = KeysOf(events[Run(t)])

(* Drafted audit rows continue the chain.                                  *)
AuditFits(t) == draft[t].audit # <<>> =>
  holder[AuditLock] = t /\ Chained(audit \o draft[t].audit)

(* From its look to its end a sink finds no declaration but its own.       *)
LookFits(t) == Kind(t) = "firstUse" /\ (step[t] \in 1 .. 2 \/ draft[t].event # <<>>) =>
  holder[FirstUseLock] = t /\ ~FirstUseSeen(t)

(* Past its append a command has its event, drafted or in the log.         *)
PastAppend(t) == \/ Kind(t) = "append" /\ step[t] >= 1
                 \/ Kind(t) = "memory" /\ step[t] >= 3
AnswerFits(t) == PastAppend(t) => draft[t].event # <<>> \/ SameCommand(t)

Fits(t) == EventFits(t) /\ RebuildFits(t) /\ AuditFits(t) /\ LookFits(t) /\ AnswerFits(t)

(* The parts of CommandsTakeEffectOnce.                                    *)
DoneFits(t) ==
  /\ status[t] = "done" /\ Kind(t) \in {"append", "memory"} => SameCommand(t)
  /\ status[t] = "failed" /\ Kind(t) = "append" => KeyUsed(Run(t), Key(t)) /\ ~SameCommand(t)
KeysOnce == \A r \in Runs : \A m, n \in DOMAIN events[r] :
  events[r][m].key = events[r][n].key => m = n
DeclaredOnce == \A r, q \in Runs : \A m \in DOMAIN events[r], n \in DOMAIN events[q] :
  (events[r][m].kind = "firstUse" /\ events[q][n].kind = "firstUse"
     /\ events[r][m].key = events[q][n].key) => r = q

IInv ==
  /\ TypeOK
  /\ HoldersFit
  /\ LogsAreChained
  /\ KeysOnce
  /\ DeclaredOnce
  /\ \A t \in Txs : Fits(t) /\ DoneFits(t)

DraftType == [event : Seq(EventOf), projection : Seq(Keys), audit : Seq(Row),
              outbox : SUBSET (Runs \X Keys)]

LEMMA DraftTypes ==
  ASSUME TypeOK
  PROVE  draft \in [Txs -> DraftType]
BY DEF TypeOK, DraftType

LEMMA NoDraftType == NoDraft \in DraftType
BY EmptySeq DEF NoDraft, DraftType

(* A new event, and the log it continues.                                  *)
LEMMA NewEventType ==
  ASSUME TypeOK, NEW t \in Txs
  PROVE  /\ NewEvent(t) \in EventOf /\ NewEvent(t).key = Key(t)
         /\ NewEvent(t).kind = Kind(t) /\ NewEvent(t).body = Command[t].body
         /\ NewEvent(t).seq = Len(events[Run(t)]) + 1
         /\ NewEvent(t).prev = IF events[Run(t)] = <<>> THEN None
                               ELSE events[Run(t)][Len(events[Run(t)])].key
         /\ events[Run(t)] \in Seq(EventOf)
<1> DEFINE log == events[Run(t)]
           prev == IF log = <<>> THEN None ELSE log[Len(log)].key
<1>1. /\ Kind(t) \in Kinds /\ Run(t) \in Runs /\ Key(t) \in Keys
      /\ Command[t].body \in Bodies
  BY CommandTypes
<1>2. log \in Seq(EventOf) BY <1>1 DEF TypeOK
<1>3. Len(log) \in Nat /\ Len(log) + 1 \in Nat BY <1>2, LenProperties
<1>4. prev \in Keys \cup {None}
  <2>1. CASE log = <<>> BY <2>1
  <2>2. CASE log # <<>>
    <3>1. Len(log) \in 1 .. Len(log) BY <1>2, <1>3, <2>2, EmptySeq
    <3>2. log[Len(log)] \in EventOf BY <1>2, <3>1, ElementOfSeq
    <3>3. log[Len(log)].key \in Keys BY <3>2 DEF EventOf
    <3> QED BY <2>2, <3>3
  <2> QED BY <2>1, <2>2
<1>5. NewEvent(t) = [seq |-> Len(log) + 1, prev |-> prev, key |-> Key(t),
                     body |-> Command[t].body, kind |-> Kind(t)]
  BY DEF NewEvent
<1> HIDE DEF log, prev
<1>6. NewEvent(t) \in EventOf BY <1>1, <1>3, <1>4, <1>5 DEF EventOf
<1> QED BY <1>2, <1>5, <1>6 DEF log, prev

(* An audit row that links to the last visible one.                        *)
LEMMA LinkType ==
  ASSUME TypeOK, NEW t \in Txs, NEW entry \in Entries
  PROVE  /\ Visible(t) \in Seq(Row)
         /\ Link(t, entry) \in Row
         /\ Link(t, entry).prev = IF Visible(t) = <<>> THEN None
                                  ELSE Visible(t)[Len(Visible(t))].entry
         /\ audit \in Seq(Row) /\ draft[t].audit \in Seq(Row)
<1> DEFINE rows == Visible(t)
           prev == IF rows = <<>> THEN None ELSE rows[Len(rows)].entry
<1>1. audit \in Seq(Row) /\ draft[t].audit \in Seq(Row) BY DEF TypeOK
<1>2. rows \in Seq(Row) BY <1>1, ConcatProperties DEF Visible
<1>3. Len(rows) \in Nat BY <1>2, LenProperties
<1> HIDE DEF rows
<1>4. prev \in Entries \cup {None}
  <2>1. CASE rows = <<>> BY <2>1
  <2>2. CASE rows # <<>>
    <3>1. Len(rows) \in 1 .. Len(rows) BY <1>2, <1>3, <2>2, EmptySeq
    <3>2. rows[Len(rows)] \in Row BY <1>2, <3>1, ElementOfSeq
    <3>3. rows[Len(rows)].entry \in Entries BY <3>2 DEF Row
    <3> QED BY <2>2, <3>3
  <2> QED BY <2>1, <2>2
<1>5. Link(t, entry) = [entry |-> entry, prev |-> prev] BY DEF Link, rows
<1> HIDE DEF prev
<1>6. Link(t, entry) \in Row BY <1>4, <1>5 DEF Row
<1> QED BY <1>1, <1>2, <1>5, <1>6 DEF rows, prev

LEMMA RowConcat ==
  ASSUME NEW s \in Seq(Row), NEW d \in Seq(Row), NEW e \in Row
  PROVE  s \o Append(d, e) = Append(s \o d, e)
<1> DEFINE R == Row
<1>1. s \in Seq(R) /\ d \in Seq(R) /\ e \in R OBVIOUS
<1> HIDE DEF R
<1> QED BY <1>1, ConcatAppend

(* What a transaction drafts under the audit lock stays one chain.         *)
LEMMA LinkedChain ==
  ASSUME TypeOK, LogsAreChained, NEW t \in Txs, AuditFits(t), NEW entry \in Entries
  PROVE  Chained(audit \o Append(draft[t].audit, Link(t, entry)))
<1>1. /\ Visible(t) \in Seq(Row) /\ Link(t, entry) \in Row
      /\ Link(t, entry).prev = IF Visible(t) = <<>> THEN None
                               ELSE Visible(t)[Len(Visible(t))].entry
      /\ audit \in Seq(Row) /\ draft[t].audit \in Seq(Row)
  BY LinkType
<1>2. Chained(Visible(t))
  <2>1. CASE draft[t].audit = <<>>
    <3>1. audit \o draft[t].audit = audit BY <1>1, <2>1, ConcatEmptySeq
    <3> QED BY <3>1 DEF Visible, LogsAreChained
  <2>2. CASE draft[t].audit # <<>> BY <2>2 DEF AuditFits, Visible
  <2> QED BY <2>1, <2>2
<1>3. Chained(Append(Visible(t), Link(t, entry))) BY <1>1, <1>2, ChainedAppend
<1>4. audit \o Append(draft[t].audit, Link(t, entry))
        = Append(audit \o draft[t].audit, Link(t, entry))
  BY <1>1, RowConcat
<1>5. Visible(t) = audit \o draft[t].audit BY DEF Visible
<1> QED BY <1>3, <1>4, <1>5

-----------------------------------------------------------------------------
(* Steps that draft rows                                                   *)

(* What one transaction does before it ends leaves what the others hold    *)
(* and have drafted as it was.                                             *)
LEMMA OthersFit ==
  ASSUME NEW u \in Txs, Fits(u), events' = events, audit' = audit,
         draft'[u] = draft[u], step'[u] = step[u],
         \A l \in Locks : holder[l] = u => holder'[l] = u
  PROVE  Fits(u)'
<1>0. RunLock(Run(u)) \in Locks /\ AuditLock \in Locks /\ FirstUseLock \in Locks
  BY CommandTypes DEF Locks
<1>1. /\ holder[RunLock(Run(u))] = u => holder'[RunLock(Run(u))] = u
      /\ holder[AuditLock] = u => holder'[AuditLock] = u
      /\ holder[FirstUseLock] = u => holder'[FirstUseLock] = u
  BY <1>0
<1>2. EventFits(u)' BY <1>1 DEF Fits, EventFits, NewEvent, KeyUsed
<1>3. RebuildFits(u)' BY <1>1 DEF Fits, RebuildFits
<1>4. AuditFits(u)' BY <1>1 DEF Fits, AuditFits
<1>5. LookFits(u)' BY <1>1 DEF Fits, LookFits, FirstUseSeen
<1>6. AnswerFits(u)' BY DEF Fits, AnswerFits, PastAppend, SameCommand
<1> QED BY <1>2, <1>3, <1>4, <1>5, <1>6 DEF Fits

LEMMA Working ==
  ASSUME IInv, NEW t \in Txs, NEW does, Reaches(t, does), holder' = Held(t),
         NEW n \in Nat, n > step[t], n <= Len(Steps[t]),
         step' = [step EXCEPT ![t] = n],
         NEW d \in DraftType, draft' = [draft EXCEPT ![t] = d],
         UNCHANGED <<events, projection, audit, outbox, status, faults>>,
         Fits(t)'
  PROVE  IInv'
<1>1. TypeOK /\ draft \in [Txs -> DraftType] /\ step \in [Txs -> Nat] /\ step[t] \in Nat
  BY DraftTypes DEF IInv, TypeOK
<1>2. /\ holder' \in [Locks -> Txs \cup {NoTx}]
      /\ \A l \in Locks, u \in Txs : holder[l] = u => holder'[l] = u
      /\ \A l \in Locks, u \in Txs : holder'[l] = u =>
           holder[l] = u \/ (l = Next1(t).lock /\ u = t)
  BY <1>1, HeldLock
<1>3. TypeOK'
  <2>1. step' \in [Txs -> Nat] BY <1>1
  <2>2. \A u \in Txs : step'[u] <= Len(Steps[u]) BY <1>1 DEF TypeOK
  <2>3. draft' \in [Txs -> DraftType] BY <1>1
  <2> QED BY <1>1, <1>2, <2>1, <2>2, <2>3 DEF TypeOK, DraftType
<1>4. HoldersFit'
  <2> SUFFICES ASSUME NEW l \in Locks, NEW u \in Txs, holder'[l] = u
               PROVE  \E i \in 1 .. step'[u] : Steps[u][i].lock = l
    BY DEF HoldersFit
  <2>1. CASE holder[l] = u
    <3>1. PICK i \in 1 .. step[u] : Steps[u][i].lock = l BY <2>1 DEF IInv, HoldersFit
    <3>2. step[u] \in Nat /\ step'[u] \in Nat /\ step[u] <= step'[u] BY <1>1
    <3>3. i \in 1 .. step'[u] BY <3>2
    <3> QED BY <3>1, <3>3
  <2>2. CASE holder[l] # u
    <3>1. u = t /\ l = Next1(t).lock BY <1>2, <2>2
    <3>2. Next1(t) = Steps[t][step[t] + 1] BY DEF Next1
    <3>3. step'[t] = n /\ step[t] + 1 \in 1 .. n BY <1>1
    <3> QED BY <3>1, <3>2, <3>3
  <2> QED BY <2>1, <2>2
<1>5. \A u \in Txs : Fits(u)'
  <2> SUFFICES ASSUME NEW u \in Txs, u # t PROVE Fits(u)' OBVIOUS
  <2>1. draft'[u] = draft[u] /\ step'[u] = step[u] BY <1>1
  <2>2. Fits(u) BY DEF IInv
  <2> QED BY <1>2, <2>1, <2>2, OthersFit
<1>6. LogsAreChained' /\ KeysOnce' /\ DeclaredOnce' BY DEF IInv, LogsAreChained, KeysOnce, DeclaredOnce
<1>7. \A u \in Txs : DoneFits(u)' BY DEF IInv, DoneFits, KeyUsed, SameCommand
<1> QED BY <1>3, <1>4, <1>5, <1>6, <1>7 DEF IInv

LEMMA TakingALock ==
  ASSUME IInv, NEW t \in Txs, TakeLock(t)
  PROVE  IInv'
<1>1. TypeOK /\ draft \in [Txs -> DraftType] BY DraftTypes DEF IInv
<1>2. /\ Reaches(t, "lock") /\ holder' = Held(t)
      /\ step' = [step EXCEPT ![t] = step[t] + 1]
      /\ UNCHANGED <<events, projection, audit, outbox, status, faults>> /\ draft' = draft
  BY DEF TakeLock, Advance, TableUnchanged
<1>3. /\ step[t] \in Nat /\ step[t] + 1 <= Len(Steps[t])
      /\ Kind(t) = "memory" /\ step[t] + 1 = 1
  BY <1>1, <1>2, ReachedStep, StepCount DEF StepFits
<1>4. draft' = [draft EXCEPT ![t] = draft[t]] /\ draft[t] \in DraftType BY <1>1, <1>2
<1>5. step'[t] = 1 BY <1>1, <1>2, <1>3 DEF TypeOK
<1>6. \A l \in Locks : holder[l] = t => holder'[l] = t BY <1>1, <1>2, HeldLock
<1>7. Fits(t)'
  <2>0. RunLock(Run(t)) \in Locks /\ AuditLock \in Locks BY CommandTypes DEF Locks
  <2>1. Fits(t) BY DEF IInv
  <2>2. EventFits(t)' BY <1>2, <1>6, <2>0, <2>1 DEF Fits, EventFits, NewEvent, KeyUsed
  <2>3. RebuildFits(t)' BY <1>3 DEF RebuildFits
  <2>4. AuditFits(t)' BY <1>2, <1>6, <2>0, <2>1 DEF Fits, AuditFits
  <2>5. LookFits(t)' BY <1>3 DEF LookFits
  <2>6. AnswerFits(t)' BY <1>3, <1>5 DEF AnswerFits, PastAppend
  <2> QED BY <2>2, <2>3, <2>4, <2>5, <2>6 DEF Fits
<1>8. step[t] + 1 \in Nat /\ step[t] + 1 > step[t] BY <1>3
<1> QED BY <1>2, <1>3, <1>4, <1>7, <1>8, Working

LEMMA Appending ==
  ASSUME IInv, NEW t \in Txs, AppendEvent(t)
  PROVE  IInv'
<1> DEFINE d == DraftEvent(t)
<1>1. TypeOK /\ draft \in [Txs -> DraftType] /\ draft[t] \in DraftType BY DraftTypes DEF IInv
<1>2. /\ Reaches(t, "append") /\ ~KeyUsed(Run(t), Key(t)) /\ holder' = Held(t)
      /\ step' = [step EXCEPT ![t] = step[t] + 1] /\ draft' = [draft EXCEPT ![t] = d]
      /\ UNCHANGED <<events, projection, audit, outbox, status, faults>>
  BY DEF AppendEvent, Advance, Drafts, TableUnchanged
<1>3. /\ step[t] \in Nat /\ step[t] + 1 <= Len(Steps[t]) /\ Kind(t) \in Writes
      /\ Next1(t).lock = RunLock(Run(t)) /\ (Kind(t) = "firstUse" => step[t] + 1 = 2)
  BY <1>1, <1>2, ReachedStep, StepCount DEF StepFits
<1>4. d \in DraftType /\ d.event = <<NewEvent(t)>> /\ d.audit = draft[t].audit
      /\ d.projection = Append(KeysOf(events[Run(t)]), Key(t))
  <2>1. events[Run(t)] \in Seq(EventOf) /\ NewEvent(t) \in EventOf BY <1>1, NewEventType
  <2>2. KeysOf(events[Run(t)]) \in Seq(Keys) BY <2>1, KeysOfSeq
  <2>3. Append(KeysOf(events[Run(t)]), Key(t)) \in Seq(Keys)
    BY <2>2, CommandTypes, AppendProperties
  <2>4. <<NewEvent(t)>> \in Seq(EventOf) BY <2>1
  <2>5. d = [draft[t] EXCEPT !.event = <<NewEvent(t)>>,
                             !.projection = Append(KeysOf(events[Run(t)]), Key(t))]
    BY DEF DraftEvent
  <2> QED BY <1>1, <2>3, <2>4, <2>5 DEF DraftType
<1> HIDE DEF d
<1>5. draft'[t] = d /\ step'[t] = step[t] + 1 BY <1>1, <1>2 DEF TypeOK
<1>6. (\A l \in Locks : holder[l] = t => holder'[l] = t) /\ holder'[RunLock(Run(t))] = t
  BY <1>1, <1>2, <1>3, HeldLock
<1>7. Fits(t)'
  <2>0. FirstUseLock \in Locks /\ AuditLock \in Locks BY DEF Locks
  <2>1. Fits(t) BY DEF IInv
  <2>2. EventFits(t)'
    <3>1. NewEvent(t)' = NewEvent(t) /\ ~KeyUsed(Run(t), Key(t))' BY <1>2 DEF NewEvent, KeyUsed
    <3>2. draft'[t].projection = Append(KeysOf(events'[Run(t)]), Key(t)) BY <1>2, <1>4, <1>5
    <3> QED BY <1>3, <1>4, <1>5, <1>6, <3>1, <3>2 DEF EventFits
  <2>3. RebuildFits(t)' BY <1>3 DEF RebuildFits, Writes
  <2>4. AuditFits(t)' BY <1>2, <1>4, <1>5, <1>6, <2>0, <2>1 DEF Fits, AuditFits
  <2>5. LookFits(t)'
    <3>1. Kind(t) = "firstUse" => step[t] \in 1 .. 2 BY <1>3
    <3>2. Kind(t) = "firstUse" => holder[FirstUseLock] = t /\ ~FirstUseSeen(t)
      BY <2>1, <3>1 DEF Fits, LookFits
    <3> QED BY <1>2, <1>6, <2>0, <3>2 DEF LookFits, FirstUseSeen
  <2>6. AnswerFits(t)'
    <3>1. <<NewEvent(t)>> # <<>> OBVIOUS
    <3>2. draft'[t].event # <<>> BY <1>4, <1>5, <3>1
    <3> QED BY <3>2 DEF AnswerFits
  <2> QED BY <2>2, <2>3, <2>4, <2>5, <2>6 DEF Fits
<1>8. step[t] + 1 \in Nat /\ step[t] + 1 > step[t] BY <1>3
<1> QED BY <1>2, <1>3, <1>4, <1>7, <1>8, Working

LEMMA Repeating ==
  ASSUME IInv, NEW t \in Txs, RepeatEvent(t)
  PROVE  IInv'
<1> DEFINE n == Len(Steps[t])
<1>1. TypeOK /\ draft \in [Txs -> DraftType] BY DraftTypes DEF IInv
<1>2. /\ Reaches(t, "append") /\ SameCommand(t) /\ holder' = Held(t)
      /\ step' = [step EXCEPT ![t] = n] /\ draft' = draft
      /\ UNCHANGED <<events, projection, audit, outbox, status, faults>>
  BY DEF RepeatEvent, TableUnchanged
<1>3. n \in Nat BY StepCount
<1> HIDE DEF n
<1>4. /\ step[t] \in Nat /\ step[t] + 1 <= n /\ Kind(t) \in Writes
      /\ (Kind(t) = "firstUse" => step[t] + 1 = 2)
  BY <1>1, <1>2, <1>3, ReachedStep DEF StepFits, n
<1>5. draft' = [draft EXCEPT ![t] = draft[t]] /\ draft[t] \in DraftType BY <1>1, <1>2
<1>6. \A l \in Locks : holder[l] = t => holder'[l] = t BY <1>1, <1>2, HeldLock
<1>7. Fits(t)'
  <2>0. RunLock(Run(t)) \in Locks /\ AuditLock \in Locks /\ FirstUseLock \in Locks
    BY CommandTypes DEF Locks
  <2>1. Fits(t) BY DEF IInv
  <2>2. EventFits(t)' BY <1>2, <1>6, <2>0, <2>1 DEF Fits, EventFits, NewEvent, KeyUsed
  <2>3. RebuildFits(t)' BY <1>4 DEF RebuildFits, Writes
  <2>4. AuditFits(t)' BY <1>2, <1>6, <2>0, <2>1 DEF Fits, AuditFits
  <2>5. LookFits(t)'
    <3>1. Kind(t) = "firstUse" => step[t] \in 1 .. 2 BY <1>4
    <3>2. Kind(t) = "firstUse" => holder[FirstUseLock] = t /\ ~FirstUseSeen(t)
      BY <2>1, <3>1 DEF Fits, LookFits
    <3> QED BY <1>2, <1>6, <2>0, <3>2 DEF LookFits, FirstUseSeen
  <2>6. AnswerFits(t)' BY <1>2 DEF AnswerFits, SameCommand
  <2> QED BY <2>2, <2>3, <2>4, <2>5, <2>6 DEF Fits
<1>8. n > step[t] /\ n <= Len(Steps[t]) BY <1>3, <1>4 DEF n
<1> QED BY <1>2, <1>3, <1>5, <1>7, <1>8, Working

LEMMA LinkingEvent ==
  ASSUME IInv, NEW t \in Txs, LinkEvent(t)
  PROVE  IInv'
<1> DEFINE d == LinkedDraft(t)
           e == Link(t, EventEntry(t))
<1>1. TypeOK /\ draft \in [Txs -> DraftType] /\ draft[t] \in DraftType BY DraftTypes DEF IInv
<1>2. /\ Reaches(t, "link") /\ holder' = Held(t)
      /\ step' = [step EXCEPT ![t] = step[t] + 1] /\ draft' = [draft EXCEPT ![t] = d]
      /\ UNCHANGED <<events, projection, audit, outbox, status, faults>>
  BY DEF LinkEvent, Advance, Drafts, TableUnchanged
<1>3. /\ step[t] \in Nat /\ step[t] + 1 = Len(Steps[t]) /\ Kind(t) \in Writes
      /\ Next1(t).lock = AuditLock
  BY <1>1, <1>2, ReachedStep, StepCount DEF StepFits
<1>4. /\ Kind(t) = "firstUse" => step[t] = 2
      /\ Kind(t) = "append" => step[t] = 1
      /\ Kind(t) = "memory" => step[t] = 3
  <2>1. \A a \in Nat, b \in {2, 3, 4} : a + 1 = b =>
          (b = 3 => a = 2) /\ (b = 2 => a = 1) /\ (b = 4 => a = 3)
    OBVIOUS
  <2>2. /\ Kind(t) = "append" => Len(Steps[t]) = 2
        /\ Kind(t) = "memory" => Len(Steps[t]) = 4
        /\ Kind(t) = "firstUse" => Len(Steps[t]) = 3
    BY StepCount
  <2> QED BY <1>3, <2>1, <2>2 DEF Writes
<1>5. EventEntry(t) \in Entries /\ <<Run(t), Key(t)>> \in Runs \X Keys
  BY CommandTypes DEF EventEntry, Entries
<1>6. e \in Row /\ draft[t].audit \in Seq(Row) BY <1>1, <1>5, LinkType
<1>7. /\ d.event = draft[t].event /\ d.projection = draft[t].projection
      /\ d.audit = Append(draft[t].audit, e) /\ d \in DraftType
  <2>1. d = [draft[t] EXCEPT !.audit = Append(draft[t].audit, e),
                             !.outbox = {<<Run(t), Key(t)>>}]
    BY <1>1 DEF LinkedDraft, DraftType
  <2>2. Append(draft[t].audit, e) \in Seq(Row) BY <1>6, AppendProperties
  <2> HIDE DEF d, e
  <2> QED BY <1>1, <1>5, <2>1, <2>2 DEF DraftType
<1> HIDE DEF d
<1>8. draft'[t] = d /\ step'[t] = step[t] + 1 BY <1>1, <1>2 DEF TypeOK
<1>9. (\A l \in Locks : holder[l] = t => holder'[l] = t) /\ holder'[AuditLock] = t
  BY <1>1, <1>2, <1>3, HeldLock
<1>10. Fits(t)'
  <2>0. FirstUseLock \in Locks /\ RunLock(Run(t)) \in Locks BY CommandTypes DEF Locks
  <2>1. Fits(t) BY DEF IInv
  <2>2. EventFits(t)'
    <3>1. NewEvent(t)' = NewEvent(t) /\ KeyUsed(Run(t), Key(t))' = KeyUsed(Run(t), Key(t))
      BY <1>2 DEF NewEvent, KeyUsed
    <3> QED BY <1>2, <1>7, <1>8, <1>9, <2>0, <2>1, <3>1 DEF Fits, EventFits
  <2>3. RebuildFits(t)' BY <1>3 DEF RebuildFits, Writes
  <2>4. AuditFits(t)'
    <3>1. Chained(audit \o Append(draft[t].audit, e))
      BY <1>1, <1>5, <2>1, LinkedChain DEF IInv, Fits
    <3> QED BY <1>2, <1>7, <1>8, <1>9, <3>1 DEF AuditFits
  <2>5. LookFits(t)'
    <3>1. Kind(t) = "firstUse" => holder[FirstUseLock] = t /\ ~FirstUseSeen(t)
      BY <1>4, <2>1 DEF Fits, LookFits
    <3> QED BY <1>2, <1>9, <2>0, <3>1 DEF LookFits, FirstUseSeen
  <2>6. AnswerFits(t)'
    <3>1. Kind(t) \in {"append", "memory"} => draft[t].event # <<>> \/ SameCommand(t)
      BY <1>4, <2>1 DEF Fits, AnswerFits, PastAppend
    <3> QED BY <1>2, <1>7, <1>8, <3>1 DEF AnswerFits, PastAppend, SameCommand
  <2> QED BY <2>2, <2>3, <2>4, <2>5, <2>6 DEF Fits
<1>11. step[t] + 1 \in Nat /\ step[t] + 1 > step[t] /\ step[t] + 1 <= Len(Steps[t])
  BY <1>3, StepCount
<1> QED BY <1>2, <1>7, <1>10, <1>11, Working

LEMMA EnteringAudit ==
  ASSUME IInv, NEW t \in Txs, EnterAudit(t)
  PROVE  IInv'
<1> DEFINE e == Link(t, <<"entry", t>>)
           d == IF Entered(t) THEN draft[t]
                ELSE [draft[t] EXCEPT !.audit = Append(draft[t].audit, e)]
<1>1. TypeOK /\ draft \in [Txs -> DraftType] /\ draft[t] \in DraftType BY DraftTypes DEF IInv
<1>2. /\ Reaches(t, "enter") /\ holder' = Held(t)
      /\ step' = [step EXCEPT ![t] = step[t] + 1]
      /\ UNCHANGED <<events, projection, audit, outbox, status, faults>>
  BY DEF EnterAudit, Advance, TableUnchanged
<1>3. draft' = [draft EXCEPT ![t] = d]
  <2>1. CASE Entered(t) BY <1>1, <2>1 DEF EnterAudit
  <2>2. CASE ~Entered(t)
    <3>1. draft' = [draft EXCEPT ![t] = [draft[t] EXCEPT !.audit = Append(@, e)]]
      BY <2>2 DEF EnterAudit, Drafts
    <3>2. [draft[t] EXCEPT !.audit = Append(@, e)]
            = [draft[t] EXCEPT !.audit = Append(draft[t].audit, e)]
      BY <1>1 DEF DraftType
    <3> QED BY <2>2, <3>1, <3>2
  <2> QED BY <2>1, <2>2
<1>4. /\ step[t] \in Nat /\ step[t] + 1 <= Len(Steps[t]) /\ Kind(t) \in {"memory", "audit"}
      /\ Next1(t).lock = AuditLock /\ (Kind(t) = "memory" => step[t] + 1 = 2)
  BY <1>1, <1>2, ReachedStep, StepCount DEF StepFits
<1>5. <<"entry", t>> \in Entries BY DEF Entries
<1>6. e \in Row /\ draft[t].audit \in Seq(Row) BY <1>1, <1>5, LinkType
<1>7. /\ d.event = draft[t].event /\ d.projection = draft[t].projection /\ d \in DraftType
      /\ d.audit = draft[t].audit \/ d.audit = Append(draft[t].audit, e)
  <2>1. CASE Entered(t) BY <1>1, <2>1
  <2>2. CASE ~Entered(t)
    <3>1. Append(draft[t].audit, e) \in Seq(Row) BY <1>6, AppendProperties
    <3>2. d = [draft[t] EXCEPT !.audit = Append(draft[t].audit, e)] BY <2>2
    <3> HIDE DEF d, e
    <3> QED BY <1>1, <3>1, <3>2 DEF DraftType
  <2> QED BY <2>1, <2>2
<1> HIDE DEF d
<1>8. draft'[t] = d /\ step'[t] = step[t] + 1 BY <1>1, <1>2, <1>3 DEF TypeOK
<1>9. (\A l \in Locks : holder[l] = t => holder'[l] = t) /\ holder'[AuditLock] = t
  BY <1>1, <1>2, <1>4, HeldLock
<1>10. Fits(t)'
  <2>0. RunLock(Run(t)) \in Locks BY CommandTypes DEF Locks
  <2>1. Fits(t) BY DEF IInv
  <2>2. EventFits(t)'
    <3>1. NewEvent(t)' = NewEvent(t) /\ KeyUsed(Run(t), Key(t))' = KeyUsed(Run(t), Key(t))
      BY <1>2 DEF NewEvent, KeyUsed
    <3> QED BY <1>2, <1>7, <1>8, <1>9, <2>0, <2>1, <3>1 DEF Fits, EventFits
  <2>3. RebuildFits(t)' BY <1>4 DEF RebuildFits
  <2>4. AuditFits(t)'
    <3>1. Chained(audit \o Append(draft[t].audit, e))
      BY <1>1, <1>5, <2>1, LinkedChain DEF IInv, Fits
    <3> QED BY <1>2, <1>7, <1>8, <1>9, <2>1, <3>1 DEF Fits, AuditFits
  <2>5. LookFits(t)' BY <1>4 DEF LookFits
  <2>6. AnswerFits(t)'
    <3>1. ~PastAppend(t)'
      <4>1. Kind(t) # "append" BY <1>4
      <4>2. Kind(t) = "memory" => step'[t] = 2 BY <1>4, <1>8
      <4> QED BY <4>1, <4>2 DEF PastAppend
    <3> QED BY <3>1 DEF AnswerFits
  <2> QED BY <2>2, <2>3, <2>4, <2>5, <2>6 DEF Fits
<1>11. step[t] + 1 \in Nat /\ step[t] + 1 > step[t] BY <1>4
<1> QED BY <1>2, <1>3, <1>4, <1>7, <1>10, <1>11, Working

LEMMA Looking ==
  ASSUME IInv, NEW t \in Txs, LookForFirstUse(t)
  PROVE  IInv'
<1> DEFINE n == IF FirstUseSeen(t) THEN Len(Steps[t]) ELSE step[t] + 1
<1>1. TypeOK /\ draft \in [Txs -> DraftType] BY DraftTypes DEF IInv
<1>2. /\ Reaches(t, "look") /\ holder' = Held(t)
      /\ step' = [step EXCEPT ![t] = n] /\ draft' = draft
      /\ UNCHANGED <<events, projection, audit, outbox, status, faults>>
  BY DEF LookForFirstUse, TableUnchanged
<1>3. /\ step[t] = 0 /\ Len(Steps[t]) = 3 /\ Kind(t) = "firstUse"
      /\ Next1(t).lock = FirstUseLock
  BY <1>1, <1>2, ReachedStep, StepCount DEF StepFits
<1>4. n \in Nat /\ n > step[t] /\ n <= Len(Steps[t]) /\ (n # 3 => ~FirstUseSeen(t)) BY <1>3
<1> HIDE DEF n
<1>5. draft' = [draft EXCEPT ![t] = draft[t]] /\ draft[t] \in DraftType BY <1>1, <1>2
<1>6. step'[t] = n BY <1>1, <1>2 DEF TypeOK
<1>7. (\A l \in Locks : holder[l] = t => holder'[l] = t) /\ holder'[FirstUseLock] = t
  BY <1>1, <1>2, <1>3, HeldLock
<1>8. Fits(t)'
  <2>0. RunLock(Run(t)) \in Locks /\ AuditLock \in Locks BY CommandTypes DEF Locks
  <2>1. Fits(t) BY DEF IInv
  <2>2. EventFits(t)' BY <1>2, <1>7, <2>0, <2>1 DEF Fits, EventFits, NewEvent, KeyUsed
  <2>3. RebuildFits(t)' BY <1>3 DEF RebuildFits
  <2>4. AuditFits(t)' BY <1>2, <1>7, <2>0, <2>1 DEF Fits, AuditFits
  <2>5. LookFits(t)'
    <3>1. ASSUME step'[t] \in 1 .. 2 \/ draft[t].event # <<>> PROVE ~FirstUseSeen(t)
      <4>1. CASE draft[t].event # <<>> BY <1>3, <2>1, <4>1 DEF Fits, LookFits
      <4>2. CASE step'[t] \in 1 .. 2 BY <1>4, <1>6, <4>2
      <4> QED BY <3>1, <4>1, <4>2
    <3>2. FirstUseSeen(t)' = FirstUseSeen(t) BY <1>2 DEF FirstUseSeen
    <3> QED BY <1>2, <1>7, <3>1, <3>2 DEF LookFits
  <2>6. AnswerFits(t)' BY <1>3 DEF AnswerFits, PastAppend
  <2> QED BY <2>2, <2>3, <2>4, <2>5, <2>6 DEF Fits
<1> QED BY <1>2, <1>4, <1>5, <1>8, Working

LEMMA Rebuilding ==
  ASSUME IInv, NEW t \in Txs, Rebuild(t)
  PROVE  IInv'
<1> DEFINE d == [draft[t] EXCEPT !.projection = KeysOf(events[Run(t)])]
<1>1. TypeOK /\ draft \in [Txs -> DraftType] /\ draft[t] \in DraftType BY DraftTypes DEF IInv
<1>2. /\ Reaches(t, "rebuild") /\ holder' = Held(t)
      /\ step' = [step EXCEPT ![t] = step[t] + 1] /\ draft' = [draft EXCEPT ![t] = d]
      /\ UNCHANGED <<events, projection, audit, outbox, status, faults>>
  BY DEF Rebuild, Advance, Drafts, TableUnchanged
<1>3. /\ step[t] \in Nat /\ step[t] + 1 <= Len(Steps[t]) /\ Kind(t) = "rebuild"
      /\ Next1(t).lock = RunLock(Run(t))
  BY <1>1, <1>2, ReachedStep, StepCount DEF StepFits
<1>4. /\ d \in DraftType /\ d.event = draft[t].event /\ d.audit = draft[t].audit
      /\ d.projection = KeysOf(events[Run(t)])
  <2>1. KeysOf(events[Run(t)]) \in Seq(Keys) BY <1>1, NewEventType, KeysOfSeq
  <2> QED BY <1>1, <2>1 DEF DraftType
<1> HIDE DEF d
<1>5. draft'[t] = d BY <1>1, <1>2
<1>6. (\A l \in Locks : holder[l] = t => holder'[l] = t) /\ holder'[RunLock(Run(t))] = t
  BY <1>1, <1>2, <1>3, HeldLock
<1>7. Fits(t)'
  <2>0. AuditLock \in Locks BY DEF Locks
  <2>1. Fits(t) BY DEF IInv
  <2>2. EventFits(t)'
    <3>1. draft[t].event = <<>> BY <1>3, <2>1 DEF Fits, EventFits, Writes
    <3> QED BY <1>4, <1>5, <3>1 DEF EventFits
  <2>3. RebuildFits(t)' BY <1>2, <1>4, <1>5, <1>6 DEF RebuildFits
  <2>4. AuditFits(t)' BY <1>2, <1>4, <1>5, <1>6, <2>0, <2>1 DEF Fits, AuditFits
  <2>5. LookFits(t)' BY <1>3 DEF LookFits
  <2>6. AnswerFits(t)' BY <1>3 DEF AnswerFits, PastAppend
  <2> QED BY <2>2, <2>3, <2>4, <2>5, <2>6 DEF Fits
<1>8. step[t] + 1 \in Nat /\ step[t] + 1 > step[t] BY <1>3
<1> QED BY <1>2, <1>3, <1>4, <1>7, <1>8, Working

-----------------------------------------------------------------------------
(* Ends of a transaction                                                   *)

(* A transaction that has just begun again.                                *)
LEMMA BegunFits ==
  ASSUME NEW t \in Txs, draft'[t] = NoDraft, step'[t] = 0
  PROVE  Fits(t)'
BY DEF NoDraft, Fits, EventFits, RebuildFits, AuditFits, LookFits, AnswerFits, PastAppend

LEMMA RollingBack ==
  ASSUME IInv, NEW t \in Txs, NEW again \in {"open", "failed"}, RollBack(t, again),
         again = "failed" /\ Kind(t) = "append" => KeyUsed(Run(t), Key(t)) /\ ~SameCommand(t),
         faults' \in 0 .. MaxFaults
  PROVE  IInv'
<1>1. /\ TypeOK /\ draft \in [Txs -> DraftType] /\ step \in [Txs -> Nat]
      /\ status \in [Txs -> {"open", "done", "failed"}]
  BY DraftTypes DEF IInv, TypeOK
<1>2. /\ status' = [status EXCEPT ![t] = again] /\ step' = [step EXCEPT ![t] = 0]
      /\ draft' = [draft EXCEPT ![t] = NoDraft] /\ holder' = Released(t)
      /\ UNCHANGED <<events, projection, audit, outbox>>
  BY DEF RollBack, Drafts, TableUnchanged
<1>3. /\ holder' \in [Locks -> Txs \cup {NoTx}]
      /\ \A l \in Locks : holder'[l] # t
      /\ \A l \in Locks, u \in Txs \ {t} : holder[l] = u <=> holder'[l] = u
  BY <1>1, <1>2, ReleasedLock
<1>4. TypeOK'
  <2>1. step' \in [Txs -> Nat] /\ status' \in [Txs -> {"open", "done", "failed"}]
    BY <1>1, <1>2
  <2>2. ASSUME NEW u \in Txs PROVE step'[u] <= Len(Steps[u])
    <3>1. CASE u = t
      <4>1. step'[u] = 0 BY <1>1, <1>2, <3>1
      <4>2. Len(Steps[u]) \in Nat BY StepCount
      <4>3. \A k \in Nat : 0 <= k OBVIOUS
      <4> QED BY <4>1, <4>2, <4>3
    <3>2. CASE u # t
      <4>1. step'[u] = step[u] BY <1>1, <1>2, <3>2
      <4>2. step[u] <= Len(Steps[u]) BY <1>1 DEF TypeOK
      <4> QED BY <4>1, <4>2
    <3> QED BY <3>1, <3>2
  <2>3. draft' \in [Txs -> DraftType] BY <1>1, <1>2, NoDraftType
  <2> QED BY <1>1, <1>2, <1>3, <2>1, <2>2, <2>3 DEF TypeOK, DraftType
<1>5. HoldersFit'
  <2> SUFFICES ASSUME NEW l \in Locks, NEW u \in Txs, holder'[l] = u
               PROVE  \E i \in 1 .. step'[u] : Steps[u][i].lock = l
    BY DEF HoldersFit
  <2>1. u # t /\ holder[l] = u BY <1>3
  <2>2. step'[u] = step[u] BY <1>1, <1>2, <2>1
  <2> QED BY <2>1, <2>2 DEF IInv, HoldersFit
<1>6. ASSUME NEW u \in Txs PROVE Fits(u)'
  <2>1. CASE u = t
    <3>1. draft'[t] = NoDraft /\ step'[t] = 0 BY <1>1, <1>2
    <3> QED BY <2>1, <3>1, BegunFits
  <2>2. CASE u # t
    <3>1. draft'[u] = draft[u] /\ step'[u] = step[u] BY <1>1, <1>2, <2>2
    <3>2. Fits(u) BY DEF IInv
    <3>3. \A l \in Locks : holder[l] = u => holder'[l] = u BY <1>3, <2>2
    <3> QED BY <1>2, <3>1, <3>2, <3>3, OthersFit
  <2> QED BY <2>1, <2>2
<1>7. LogsAreChained' /\ KeysOnce' /\ DeclaredOnce'
  BY <1>2 DEF IInv, LogsAreChained, KeysOnce, DeclaredOnce
<1>8. ASSUME NEW u \in Txs PROVE DoneFits(u)'
  <2>1. KeyUsed(Run(u), Key(u))' = KeyUsed(Run(u), Key(u)) /\ SameCommand(u)' = SameCommand(u)
    BY <1>2 DEF KeyUsed, SameCommand
  <2>2. CASE u = t
    <3>1. status'[t] = again BY <1>1, <1>2
    <3> QED BY <2>1, <2>2, <3>1 DEF DoneFits
  <2>3. CASE u # t
    <3>1. status'[u] = status[u] BY <1>1, <1>2, <2>3
    <3> QED BY <2>1, <3>1 DEF IInv, DoneFits
  <2> QED BY <2>2, <2>3
<1> QED BY <1>4, <1>5, <1>6, <1>7, <1>8 DEF IInv

(* The log after a commit: the old one, with the drafted event if any.     *)
Grows(t) == events' = [events EXCEPT ![Run(t)] = Append(@, NewEvent(t))]

LEMMA StoredEvents ==
  ASSUME IInv, NEW t \in Txs, Store(t)
  PROVE  \/ draft[t].event = <<>> /\ events' = events
         \/ draft[t].event # <<>> /\ Grows(t)
<1>1. TypeOK /\ Run(t) \in Runs /\ events \in [Runs -> Seq(EventOf)] /\ EventFits(t)
  BY CommandTypes DEF IInv, TypeOK, Fits
<1>2. events' = [events EXCEPT ![Run(t)] = events[Run(t)] \o draft[t].event]
  BY <1>1 DEF Store
<1>3. events[Run(t)] \in Seq(EventOf) /\ NewEvent(t) \in EventOf BY <1>1, NewEventType
<1>4. CASE draft[t].event = <<>>
  <2>1. events[Run(t)] \o draft[t].event = events[Run(t)] BY <1>3, <1>4, ConcatEmptySeq
  <2> QED BY <1>1, <1>2, <1>4, <2>1
<1>5. CASE draft[t].event # <<>>
  <2>1. draft[t].event = <<NewEvent(t)>> BY <1>1, <1>5 DEF EventFits
  <2>2. events[Run(t)] \o draft[t].event = Append(events[Run(t)], NewEvent(t))
    BY <1>3, <2>1, ConcatOne
  <2> QED BY <1>1, <1>2, <1>5, <2>2 DEF Grows
<1> QED BY <1>4, <1>5

(* What is in a log that grew.                                             *)
LEMMA GrownLog ==
  ASSUME TypeOK, NEW t \in Txs, Grows(t), NEW r \in Runs
  PROVE  /\ DOMAIN events[r] = 1 .. Len(events[r]) /\ Len(events[r]) \in Nat
         /\ r # Run(t) => events'[r] = events[r]
         /\ r = Run(t) =>
              /\ events'[r] = Append(events[r], NewEvent(t))
              /\ DOMAIN events'[r] = 1 .. Len(events[r]) + 1
              /\ events'[r][Len(events[r]) + 1] = NewEvent(t)
         /\ \A n \in DOMAIN events[r] :
              n \in DOMAIN events'[r] /\ events'[r][n] = events[r][n]
         /\ \A n \in DOMAIN events'[r] :
              n \in DOMAIN events[r] \/ (r = Run(t) /\ n = Len(events[r]) + 1)
<1>1. events \in [Runs -> Seq(EventOf)] /\ Run(t) \in Runs /\ NewEvent(t) \in EventOf
  BY CommandTypes, NewEventType DEF TypeOK
<1>2. events[r] \in Seq(EventOf) BY <1>1
<1>3. DOMAIN events[r] = 1 .. Len(events[r]) /\ Len(events[r]) \in Nat BY <1>2, LenProperties
<1>4. r # Run(t) => events'[r] = events[r] BY <1>1 DEF Grows
<1>5. r = Run(t) => events'[r] = Append(events[r], NewEvent(t)) BY <1>1 DEF Grows
<1>6. /\ Append(events[r], NewEvent(t)) \in Seq(EventOf)
      /\ Len(Append(events[r], NewEvent(t))) = Len(events[r]) + 1
      /\ \A i \in 1 .. Len(events[r]) : Append(events[r], NewEvent(t))[i] = events[r][i]
      /\ Append(events[r], NewEvent(t))[Len(events[r]) + 1] = NewEvent(t)
  BY <1>1, <1>2, AppendProperties
<1>7. DOMAIN Append(events[r], NewEvent(t)) = 1 .. Len(events[r]) + 1
  BY <1>6, LenProperties
<1>8. CASE r # Run(t) BY <1>3, <1>4, <1>8
<1>9. CASE r = Run(t)
  <2> DEFINE more == Append(events[r], NewEvent(t))
             k == Len(events[r])
  <2>1. /\ events'[r] = more /\ DOMAIN more = 1 .. k + 1 /\ more[k + 1] = NewEvent(t)
        /\ \A i \in 1 .. k : more[i] = events[r][i]
        /\ DOMAIN events[r] = 1 .. k /\ k \in Nat
    BY <1>3, <1>5, <1>6, <1>7, <1>9
  <2> HIDE DEF more, k
  <2>2. /\ \A n \in DOMAIN events[r] : n \in DOMAIN events'[r] /\ events'[r][n] = events[r][n]
        /\ \A n \in DOMAIN events'[r] : n \in DOMAIN events[r] \/ n = k + 1
    BY <2>1
  <2> QED BY <1>9, <2>1, <2>2 DEF more, k
<1> QED BY <1>8, <1>9

LEMMA StoredAudit ==
  ASSUME IInv, NEW t \in Txs, Store(t)
  PROVE  /\ audit' \in Seq(Row) /\ Chained(audit')
         /\ draft[t].audit = <<>> => audit' = audit
<1>1. audit \in Seq(Row) /\ draft[t].audit \in Seq(Row) BY DEF IInv, TypeOK
<1>2. audit' = audit \o draft[t].audit BY DEF Store
<1>3. draft[t].audit = <<>> => audit' = audit BY <1>1, <1>2, ConcatEmptySeq
<1>4. Chained(audit') BY <1>2, <1>3 DEF IInv, Fits, AuditFits, LogsAreChained
<1> QED BY <1>1, <1>2, <1>3, <1>4, ConcatProperties

(* The projection after a commit is the replay of the log after it.        *)
LEMMA StoredLogs ==
  ASSUME IInv, NEW t \in Txs, Ended(t), Store(t)
  PROVE  /\ events' \in [Runs -> Seq(EventOf)] /\ projection' \in [Runs -> Seq(Keys)]
         /\ \A r \in Runs : Numbered(events'[r]) /\ projection'[r] = KeysOf(events'[r])
<1> DEFINE q == Run(t)
           e == NewEvent(t)
<1>1. /\ TypeOK /\ q \in Runs /\ events \in [Runs -> Seq(EventOf)]
      /\ projection \in [Runs -> Seq(Keys)]
      /\ EventFits(t) /\ RebuildFits(t)
      /\ \A r \in Runs : Numbered(events[r]) /\ projection[r] = KeysOf(events[r])
  BY CommandTypes DEF IInv, TypeOK, Fits, LogsAreChained
<1>2. projection' = IF WritesProjection(t)
                    THEN [projection EXCEPT ![q] = draft[t].projection] ELSE projection
  BY DEF Store
<1>3. step[t] # 0 BY StepCount DEF Ended
<1>4. CASE draft[t].event = <<>>
  <2>1. events' = events BY <1>4, StoredEvents, EmptySeq
  <2>2. Kind(t) = "rebuild" => draft[t].projection = projection[q]
    BY <1>1, <1>3 DEF RebuildFits
  <2>3. Kind(t) # "rebuild" => ~WritesProjection(t) BY <1>4 DEF WritesProjection
  <2>4. projection' = projection BY <1>1, <1>2, <2>2, <2>3
  <2> QED BY <1>1, <2>1, <2>4
<1>5. CASE draft[t].event # <<>>
  <2>1. Grows(t) /\ WritesProjection(t) BY <1>5, StoredEvents DEF WritesProjection
  <2>2. e \in EventOf /\ e.key = Key(t) BY <1>1, NewEventType
  <2>3. draft[t].projection = Append(KeysOf(events[q]), Key(t)) BY <1>1, <1>5 DEF EventFits
  <2>4. /\ e.seq = Len(events[q]) + 1
        /\ e.prev = IF events[q] = <<>> THEN None ELSE events[q][Len(events[q])].key
        /\ events[q] \in Seq(EventOf)
    BY <1>1, NewEventType
  <2>5. Numbered(Append(events[q], e)) BY <1>1, <2>2, <2>4, NumberedAppend
  <2>6. KeysOf(Append(events[q], e)) = draft[t].projection BY <2>2, <2>3, <2>4, KeysOfAppend
  <2>7. Append(events[q], e) \in Seq(EventOf) BY <2>2, <2>4, AppendProperties
  <2>8. draft[t].projection \in Seq(Keys) BY <2>6, <2>7, KeysOfSeq
  <2>9. events' = [events EXCEPT ![q] = Append(events[q], e)] BY <1>1, <2>1 DEF Grows
  <2>10. projection' = [projection EXCEPT ![q] = draft[t].projection] BY <1>2, <2>1
  <2> HIDE DEF q, e
  <2>11. /\ events' \in [Runs -> Seq(EventOf)] /\ projection' \in [Runs -> Seq(Keys)]
    BY <1>1, <2>7, <2>8, <2>9, <2>10
  <2>12. ASSUME NEW r \in Runs
         PROVE  Numbered(events'[r]) /\ projection'[r] = KeysOf(events'[r])
    <3>1. CASE r = q
      <4>1. events'[r] = Append(events[q], e) /\ projection'[r] = draft[t].projection
        BY <1>1, <2>9, <2>10, <3>1
      <4> QED BY <2>5, <2>6, <4>1
    <3>2. CASE r # q
      <4>1. events'[r] = events[r] /\ projection'[r] = projection[r]
        BY <1>1, <2>9, <2>10, <3>2
      <4> QED BY <1>1, <4>1
    <3> QED BY <3>1, <3>2
  <2> QED BY <2>11, <2>12
<1> QED BY <1>4, <1>5

(* The key of a drafted event is free when it is stored.                   *)
LEMMA StoredKeys ==
  ASSUME IInv, NEW t \in Txs, Store(t)
  PROVE  KeysOnce'
<1>1. CASE events' = events BY <1>1 DEF IInv, KeysOnce
<1>2. CASE draft[t].event # <<>> /\ Grows(t)
  <2> SUFFICES ASSUME NEW r \in Runs, NEW m \in DOMAIN events'[r], NEW n \in DOMAIN events'[r],
                      events'[r][m].key = events'[r][n].key
               PROVE  m = n
    BY DEF KeysOnce
  <2>1. TypeOK /\ KeysOnce /\ ~KeyUsed(Run(t), Key(t)) BY <1>2 DEF IInv, Fits, EventFits
  <2>2. NewEvent(t).key = Key(t) BY <2>1, NewEventType
  <2>3. /\ r = Run(t) => events'[r][Len(events[r]) + 1] = NewEvent(t)
        /\ \A i \in DOMAIN events[r] : events'[r][i] = events[r][i]
        /\ \A i \in DOMAIN events'[r] :
             i \in DOMAIN events[r] \/ (r = Run(t) /\ i = Len(events[r]) + 1)
    BY <1>2, <2>1, GrownLog
  <2>4. \A i \in DOMAIN events[r] : r = Run(t) => events[r][i].key # Key(t)
    BY <2>1 DEF KeyUsed
  <2>5. CASE m \in DOMAIN events[r] /\ n \in DOMAIN events[r] BY <2>1, <2>3, <2>5 DEF KeysOnce
  <2>6. CASE m \in DOMAIN events[r] /\ n \notin DOMAIN events[r] BY <2>2, <2>3, <2>4, <2>6
  <2>7. CASE m \notin DOMAIN events[r] /\ n \in DOMAIN events[r] BY <2>2, <2>3, <2>4, <2>7
  <2>8. CASE m \notin DOMAIN events[r] /\ n \notin DOMAIN events[r] BY <2>3, <2>8
  <2> QED BY <2>5, <2>6, <2>7, <2>8
<1> QED BY <1>1, <1>2, StoredEvents

(* A declaration is stored under the lock under which none was found.      *)
LEMMA StoredDeclarations ==
  ASSUME IInv, NEW t \in Txs, Store(t)
  PROVE  DeclaredOnce'
<1>1. CASE events' = events BY <1>1 DEF IInv, DeclaredOnce
<1>2. CASE draft[t].event # <<>> /\ Grows(t)
  <2> DEFINE Same(x, y) == x.kind = "firstUse" /\ y.kind = "firstUse" /\ x.key = y.key
  <2> SUFFICES ASSUME NEW r \in Runs, NEW q \in Runs,
                      NEW m \in DOMAIN events'[r], NEW n \in DOMAIN events'[q],
                      Same(events'[r][m], events'[q][n])
               PROVE  r = q
    BY DEF DeclaredOnce
  <2>1. TypeOK /\ DeclaredOnce /\ LookFits(t) BY DEF IInv, Fits
  <2>2. NewEvent(t).key = Key(t) /\ NewEvent(t).kind = Kind(t) BY <2>1, NewEventType
  <2>3. Kind(t) = "firstUse" => ~FirstUseSeen(t) BY <1>2, <2>1 DEF LookFits
  <2>4. \A p \in Runs : \A i \in DOMAIN events[p] :
          Kind(t) = "firstUse" => ~(events[p][i].kind = "firstUse" /\ events[p][i].key = Key(t))
    BY <2>3 DEF FirstUseSeen
  <2>5. \A p \in Runs :
          /\ p = Run(t) => events'[p][Len(events[p]) + 1] = NewEvent(t)
          /\ \A i \in DOMAIN events[p] : events'[p][i] = events[p][i]
          /\ \A i \in DOMAIN events'[p] :
               i \in DOMAIN events[p] \/ (p = Run(t) /\ i = Len(events[p]) + 1)
    BY <1>2, <2>1, GrownLog
  <2>6. CASE m \in DOMAIN events[r] /\ n \in DOMAIN events[q]
    <3>1. Same(events[r][m], events[q][n]) BY <2>5, <2>6
    <3> QED BY <2>1, <2>6, <3>1 DEF DeclaredOnce
  <2>7. CASE m \in DOMAIN events[r] /\ n \notin DOMAIN events[q]
    <3>1. events'[r][m] = events[r][m] /\ events'[q][n] = NewEvent(t) BY <2>5, <2>7
    <3> QED BY <2>2, <2>4, <2>7, <3>1
  <2>8. CASE m \notin DOMAIN events[r] /\ n \in DOMAIN events[q]
    <3>1. events'[q][n] = events[q][n] /\ events'[r][m] = NewEvent(t) BY <2>5, <2>8
    <3> QED BY <2>2, <2>4, <2>8, <3>1
  <2>9. CASE m \notin DOMAIN events[r] /\ n \notin DOMAIN events[q] BY <2>5, <2>9
  <2> QED BY <2>6, <2>7, <2>8, <2>9
<1> QED BY <1>1, <1>2, StoredEvents

(* What a command finds in the log after another one stored its event.     *)
LEMMA StoredCommands ==
  ASSUME IInv, NEW t \in Txs, Store(t), NEW u \in Txs
  PROVE  /\ SameCommand(u) => SameCommand(u)'
         /\ KeyUsed(Run(u), Key(u)) => KeyUsed(Run(u), Key(u))'
         /\ SameCommand(u)' => SameCommand(u) \/ ~KeyUsed(Run(u), Key(u))
         /\ draft[t].event # <<>> => SameCommand(t)'
         /\ draft[t].event # <<>> /\ Run(u) # Run(t) => events'[Run(u)] = events[Run(u)]
<1>1. CASE draft[t].event = <<>> /\ events' = events
  BY <1>1 DEF SameCommand, KeyUsed
<1>2. CASE draft[t].event # <<>> /\ Grows(t)
  <2>1. TypeOK /\ ~KeyUsed(Run(t), Key(t)) /\ Run(u) \in Runs /\ Run(t) \in Runs
    BY <1>2, CommandTypes DEF IInv, Fits, EventFits
  <2>2. NewEvent(t).key = Key(t) /\ NewEvent(t).body = Command[t].body BY <2>1, NewEventType
  <2>3. \A r \in Runs :
          /\ r # Run(t) => events'[r] = events[r]
          /\ r = Run(t) => /\ Len(events[r]) + 1 \in DOMAIN events'[r]
                           /\ events'[r][Len(events[r]) + 1] = NewEvent(t)
          /\ \A n \in DOMAIN events[r] :
               n \in DOMAIN events'[r] /\ events'[r][n] = events[r][n]
          /\ \A n \in DOMAIN events'[r] :
               n \in DOMAIN events[r] \/ (r = Run(t) /\ n = Len(events[r]) + 1)
    <3> SUFFICES ASSUME NEW r \in Runs
                 PROVE  /\ r # Run(t) => events'[r] = events[r]
                        /\ r = Run(t) => /\ Len(events[r]) + 1 \in DOMAIN events'[r]
                                         /\ events'[r][Len(events[r]) + 1] = NewEvent(t)
                        /\ \A n \in DOMAIN events[r] :
                             n \in DOMAIN events'[r] /\ events'[r][n] = events[r][n]
                        /\ \A n \in DOMAIN events'[r] :
                             n \in DOMAIN events[r] \/ (r = Run(t) /\ n = Len(events[r]) + 1)
      OBVIOUS
    <3>1. \A k \in Nat : k + 1 \in 1 .. k + 1 OBVIOUS
    <3>2. r = Run(t) => Len(events[r]) + 1 \in DOMAIN events'[r]
      BY <1>2, <2>1, <3>1, GrownLog
    <3> QED BY <1>2, <2>1, <3>2, GrownLog
  <2>4. SameCommand(u) => SameCommand(u)' BY <2>1, <2>3 DEF SameCommand
  <2>5. KeyUsed(Run(u), Key(u)) => KeyUsed(Run(u), Key(u))' BY <2>1, <2>3 DEF KeyUsed
  <2>6. SameCommand(u)' => SameCommand(u) \/ ~KeyUsed(Run(u), Key(u))
    <3> SUFFICES ASSUME SameCommand(u)', KeyUsed(Run(u), Key(u)) PROVE SameCommand(u) OBVIOUS
    <3>1. PICK n \in DOMAIN events'[Run(u)] :
            events'[Run(u)][n].key = Key(u) /\ events'[Run(u)][n].body = Command[u].body
      BY DEF SameCommand
    <3>2. CASE n \in DOMAIN events[Run(u)] BY <2>1, <2>3, <3>1, <3>2 DEF SameCommand
    <3>3. CASE n \notin DOMAIN events[Run(u)]
      <4>1. Run(u) = Run(t) /\ events'[Run(u)][n] = NewEvent(t) BY <2>1, <2>3, <3>3
      <4>2. Key(u) = Key(t) BY <2>2, <3>1, <4>1
      <4> QED BY <2>1, <4>1, <4>2
    <3> QED BY <3>2, <3>3
  <2>7. SameCommand(t)' BY <2>1, <2>2, <2>3 DEF SameCommand
  <2> QED BY <2>1, <2>3, <2>4, <2>5, <2>6, <2>7
<1> QED BY <1>1, <1>2, StoredEvents

(* What the others have drafted still fits: they hold its locks, so that   *)
(* nothing was stored where they are about to write.                       *)
LEMMA StoredOthers ==
  ASSUME IInv, NEW t \in Txs, Store(t), NEW u \in Txs, u # t
  PROVE  Fits(u)'
<1>1. TypeOK /\ Fits(u) /\ Fits(t) BY DEF IInv
<1>2. /\ holder' = Released(t) /\ draft' = [draft EXCEPT ![t] = NoDraft]
      /\ step' = [step EXCEPT ![t] = 0]
  BY DEF Store
<1>3. /\ \A l \in Locks : holder[l] = u => holder'[l] = u /\ holder[l] # t
      /\ draft'[u] = draft[u] /\ step'[u] = step[u]
  <2>1. draft'[u] = draft[u] /\ step'[u] = step[u]
    <3>1. draft \in [Txs -> DraftType] /\ step \in [Txs -> Nat] BY <1>1, DraftTypes DEF TypeOK
    <3> QED BY <1>2, <3>1
  <2>2. ASSUME NEW l \in Locks, holder[l] = u PROVE holder'[l] = u /\ holder[l] # t
    BY <1>1, <1>2, <2>2, ReleasedLock
  <2> QED BY <2>1, <2>2
<1>4. /\ RunLock(Run(u)) \in Locks /\ RunLock(Run(t)) \in Locks
      /\ AuditLock \in Locks /\ FirstUseLock \in Locks
  BY CommandTypes DEF Locks
<1>5. holder[RunLock(Run(u))] = u => events'[Run(u)] = events[Run(u)]
  <2>1. SUFFICES ASSUME holder[RunLock(Run(u))] = u PROVE events'[Run(u)] = events[Run(u)]
    OBVIOUS
  <2>2. CASE draft[t].event = <<>> BY <2>2, StoredEvents
  <2>3. CASE draft[t].event # <<>>
    <3>1. holder[RunLock(Run(t))] = t BY <1>1, <2>3 DEF Fits, EventFits
    <3>2. Run(u) # Run(t) BY <1>3, <1>4, <2>1, <3>1
    <3> QED BY <2>3, <3>2, StoredCommands
  <2> QED BY <2>2, <2>3
<1>6. EventFits(u)'
  <2> SUFFICES ASSUME draft[u].event # <<>> PROVE EventFits(u)' BY <1>3 DEF EventFits
  <2>1. holder[RunLock(Run(u))] = u BY <1>1 DEF Fits, EventFits
  <2>2. events'[Run(u)] = events[Run(u)] BY <1>5, <2>1
  <2>3. NewEvent(u)' = NewEvent(u) /\ KeyUsed(Run(u), Key(u))' = KeyUsed(Run(u), Key(u))
    BY <2>2 DEF NewEvent, KeyUsed
  <2> QED BY <1>1, <1>3, <1>4, <2>1, <2>2, <2>3 DEF Fits, EventFits
<1>7. RebuildFits(u)'
  <2> SUFFICES ASSUME Kind(u) = "rebuild", step[u] # 0 PROVE RebuildFits(u)'
    BY <1>3 DEF RebuildFits
  <2>1. holder[RunLock(Run(u))] = u BY <1>1 DEF Fits, RebuildFits
  <2>2. events'[Run(u)] = events[Run(u)] BY <1>5, <2>1
  <2> QED BY <1>1, <1>3, <1>4, <2>1, <2>2 DEF Fits, RebuildFits
<1>8. AuditFits(u)'
  <2> SUFFICES ASSUME draft[u].audit # <<>> PROVE AuditFits(u)' BY <1>3 DEF AuditFits
  <2>1. holder[AuditLock] = u BY <1>1 DEF Fits, AuditFits
  <2>2. draft[t].audit = <<>> BY <1>1, <1>3, <1>4, <2>1 DEF Fits, AuditFits
  <2>3. audit' = audit BY <2>2, StoredAudit
  <2> QED BY <1>1, <1>3, <1>4, <2>1, <2>3 DEF Fits, AuditFits
<1>9. LookFits(u)'
  <2> SUFFICES ASSUME Kind(u) = "firstUse", step[u] \in 1 .. 2 \/ draft[u].event # <<>>
               PROVE  LookFits(u)'
    BY <1>3 DEF LookFits
  <2>1. holder[FirstUseLock] = u /\ ~FirstUseSeen(u) BY <1>1 DEF Fits, LookFits
  <2>2. ~FirstUseSeen(u)'
    <3>1. CASE draft[t].event = <<>>
      <4>1. events' = events BY <3>1, StoredEvents
      <4> QED BY <2>1, <4>1 DEF FirstUseSeen
    <3>2. CASE draft[t].event # <<>>
      <4>1. Grows(t) BY <3>2, StoredEvents
      <4>2. Kind(t) # "firstUse" BY <1>1, <1>3, <1>4, <2>1, <3>2 DEF Fits, LookFits
      <4>3. NewEvent(t).kind # "firstUse" BY <1>1, <4>2, NewEventType
      <4>4. ASSUME NEW r \in Runs, NEW n \in DOMAIN events'[r],
                   events'[r][n].kind = "firstUse", events'[r][n].key = Key(u)
            PROVE  FALSE
        <5>1. /\ r = Run(t) => events'[r][Len(events[r]) + 1] = NewEvent(t)
              /\ \A i \in DOMAIN events[r] : events'[r][i] = events[r][i]
              /\ n \in DOMAIN events[r] \/ (r = Run(t) /\ n = Len(events[r]) + 1)
          BY <1>1, <4>1, GrownLog
        <5>2. n \in DOMAIN events[r] /\ events'[r][n] = events[r][n]
          BY <4>3, <4>4, <5>1
        <5> QED BY <2>1, <4>4, <5>2 DEF FirstUseSeen
      <4> QED BY <4>4 DEF FirstUseSeen
    <3> QED BY <3>1, <3>2
  <2> QED BY <1>3, <1>4, <2>1, <2>2 DEF LookFits
<1>10. AnswerFits(u)'
  <2>1. SameCommand(u) => SameCommand(u)' BY StoredCommands
  <2> QED BY <1>1, <1>3, <2>1 DEF Fits, AnswerFits, PastAppend
<1> QED BY <1>6, <1>7, <1>8, <1>9, <1>10 DEF Fits

LEMMA Storing ==
  ASSUME IInv, NEW t \in Txs, Ended(t), status[t] = "open", Store(t),
         NEW answer \in {"open", "done", "failed"}, status' = [status EXCEPT ![t] = answer],
         answer = "failed" => Kind(t) # "append",
         faults' \in 0 .. MaxFaults
  PROVE  IInv'
<1>1. /\ TypeOK /\ draft \in [Txs -> DraftType] /\ step \in [Txs -> Nat]
      /\ status \in [Txs -> {"open", "done", "failed"}]
  BY DraftTypes DEF IInv, TypeOK
<1>2. /\ step' = [step EXCEPT ![t] = 0] /\ draft' = [draft EXCEPT ![t] = NoDraft]
      /\ holder' = Released(t) /\ outbox' = outbox \cup draft[t].outbox
  BY DEF Store
<1>3. /\ holder' \in [Locks -> Txs \cup {NoTx}]
      /\ \A l \in Locks : holder'[l] # t
      /\ \A l \in Locks, u \in Txs \ {t} : holder[l] = u <=> holder'[l] = u
  BY <1>1, <1>2, ReleasedLock
<1>4. /\ events' \in [Runs -> Seq(EventOf)] /\ projection' \in [Runs -> Seq(Keys)]
      /\ \A r \in Runs : Numbered(events'[r]) /\ projection'[r] = KeysOf(events'[r])
  BY StoredLogs
<1>5. audit' \in Seq(Row) /\ Chained(audit') BY StoredAudit
<1>6. TypeOK'
  <2>1. step' \in [Txs -> Nat] /\ status' \in [Txs -> {"open", "done", "failed"}]
    BY <1>1, <1>2
  <2>2. ASSUME NEW u \in Txs PROVE step'[u] <= Len(Steps[u])
    <3>1. CASE u = t
      <4>1. step'[u] = 0 BY <1>1, <1>2, <3>1
      <4>2. Len(Steps[u]) \in Nat BY StepCount
      <4>3. \A k \in Nat : 0 <= k OBVIOUS
      <4> QED BY <4>1, <4>2, <4>3
    <3>2. CASE u # t
      <4>1. step'[u] = step[u] BY <1>1, <1>2, <3>2
      <4>2. step[u] <= Len(Steps[u]) BY <1>1 DEF TypeOK
      <4> QED BY <4>1, <4>2
    <3> QED BY <3>1, <3>2
  <2>3. draft' \in [Txs -> DraftType] BY <1>1, <1>2, NoDraftType
  <2>4. outbox' \subseteq Runs \X Keys
    <3>1. draft[t].outbox \subseteq Runs \X Keys BY <1>1 DEF DraftType
    <3> QED BY <1>1, <1>2, <3>1 DEF TypeOK
  <2> QED BY <1>3, <1>4, <1>5, <2>1, <2>2, <2>3, <2>4 DEF TypeOK, DraftType
<1>7. HoldersFit'
  <2> SUFFICES ASSUME NEW l \in Locks, NEW u \in Txs, holder'[l] = u
               PROVE  \E i \in 1 .. step'[u] : Steps[u][i].lock = l
    BY DEF HoldersFit
  <2>1. u # t /\ holder[l] = u BY <1>3
  <2>2. step'[u] = step[u] BY <1>1, <1>2, <2>1
  <2> QED BY <2>1, <2>2 DEF IInv, HoldersFit
<1>8. LogsAreChained' BY <1>4, <1>5 DEF LogsAreChained
<1>9. KeysOnce' /\ DeclaredOnce' BY StoredKeys, StoredDeclarations
<1>10. ASSUME NEW u \in Txs PROVE Fits(u)'
  <2>1. draft'[t] = NoDraft /\ step'[t] = 0 BY <1>1, <1>2
  <2> QED BY <2>1, BegunFits, StoredOthers
<1>11. ASSUME NEW u \in Txs PROVE DoneFits(u)'
  <2>1. CASE u = t
    <3>1. status'[t] = answer
      <4>1. status \in [Txs -> {"open", "done", "failed"}] BY <1>1
      <4>2. t \in DOMAIN status BY <4>1
      <4>3. status' = [status EXCEPT ![t] = answer] OBVIOUS
      <4> QED BY <4>2, <4>3
    <3>2. Kind(t) \in {"append", "memory"} => PastAppend(t)
      <4>1. step[t] = Len(Steps[t]) BY DEF Ended
      <4>2. CASE Kind(t) = "append"
        <5>1. Len(Steps[t]) = 2 BY <4>2, StepCount
        <5> QED BY <4>1, <4>2, <5>1 DEF PastAppend
      <4>3. CASE Kind(t) = "memory"
        <5>1. Len(Steps[t]) = 4 BY <4>3, StepCount
        <5> QED BY <4>1, <4>3, <5>1 DEF PastAppend
      <4> QED BY <4>2, <4>3
    <3>3. Kind(t) \in {"append", "memory"} => SameCommand(t)'
      BY <3>2, StoredCommands DEF IInv, Fits, AnswerFits
    <3> QED BY <2>1, <3>1, <3>3 DEF DoneFits
  <2>2. CASE u # t
    <3>1. status'[u] = status[u] BY <1>1, <2>2
    <3>2. /\ SameCommand(u) => SameCommand(u)'
          /\ KeyUsed(Run(u), Key(u)) => KeyUsed(Run(u), Key(u))'
          /\ SameCommand(u)' => SameCommand(u) \/ ~KeyUsed(Run(u), Key(u))
      BY StoredCommands
    <3> QED BY <3>1, <3>2 DEF IInv, DoneFits
  <2> QED BY <2>1, <2>2
<1> QED BY <1>6, <1>7, <1>8, <1>9, <1>10, <1>11 DEF IInv

-----------------------------------------------------------------------------
(* The invariant is inductive                                              *)

LEMMA Started == Init => IInv
<1> SUFFICES ASSUME Init PROVE IInv OBVIOUS
<1>1. <<>> \in Seq(EventOf) /\ <<>> \in Seq(Keys) /\ <<>> \in Seq(Row) BY EmptySeq
<1>2. TypeOK
  <2>1. \A t \in Txs : step[t] = 0 /\ Len(Steps[t]) \in Nat BY StepCount DEF Init
  <2>2. \A k \in Nat : 0 <= k OBVIOUS
  <2>3. \A t \in Txs : step[t] <= Len(Steps[t]) BY <2>1, <2>2
  <2>4. draft \in [Txs -> DraftType] BY NoDraftType DEF Init
  <2>5. step \in [Txs -> Nat] /\ holder \in [Locks -> Txs \cup {NoTx}] /\ faults \in 0 .. MaxFaults
    BY EventLogAssumption DEF Init
  <2>6. /\ events \in [Runs -> Seq(EventOf)] /\ projection \in [Runs -> Seq(Keys)]
        /\ audit \in Seq(Row) /\ outbox \subseteq Runs \X Keys
        /\ status \in [Txs -> {"open", "done", "failed"}]
    BY <1>1 DEF Init
  <2> QED BY <2>3, <2>4, <2>5, <2>6 DEF TypeOK, DraftType
<1>3. HoldersFit BY EventLogAssumption DEF Init, HoldersFit
<1>4. DOMAIN <<>> = {} OBVIOUS
<1>5. LogsAreChained
  <2>1. KeysOf(<<>>) = <<>>
    <3>1. KeysOf(<<>>) \in Seq(Keys) /\ Len(KeysOf(<<>>)) = 0 BY <1>1, KeysOfSeq, EmptySeq
    <3> QED BY <3>1, EmptySeq
  <2> QED BY <1>4, <2>1 DEF Init, LogsAreChained, Numbered, Chained
<1>6. KeysOnce /\ DeclaredOnce BY <1>4 DEF Init, KeysOnce, DeclaredOnce
<1>7. ASSUME NEW t \in Txs PROVE Fits(t) /\ DoneFits(t)
  BY <1>4 DEF Init, NoDraft, Fits, EventFits, RebuildFits, AuditFits, LookFits, AnswerFits,
              PastAppend, DoneFits
<1> QED BY <1>2, <1>3, <1>5, <1>6, <1>7 DEF IInv

LEMMA Stepped == IInv /\ [Next]_vars => IInv'
<1> SUFFICES ASSUME IInv, [Next]_vars PROVE IInv' OBVIOUS
<1>1. CASE UNCHANGED vars
  <2>1. UNCHANGED <<events, projection, audit, outbox, status, step, draft, holder, faults>>
    BY <1>1 DEF vars
  <2>2. TypeOK' BY <2>1 DEF IInv, TypeOK
  <2>3. HoldersFit' BY <2>1 DEF IInv, HoldersFit
  <2>4. LogsAreChained' /\ KeysOnce' /\ DeclaredOnce'
    BY <2>1 DEF IInv, LogsAreChained, KeysOnce, DeclaredOnce
  <2>5. \A t \in Txs : Fits(t)'
    <3> SUFFICES ASSUME NEW t \in Txs PROVE Fits(t)' OBVIOUS
    <3>1. Fits(t) /\ \A l \in Locks : holder[l] = t => holder'[l] = t BY <2>1 DEF IInv
    <3> QED BY <2>1, <3>1, OthersFit
  <2>6. \A t \in Txs : DoneFits(t)' BY <2>1 DEF IInv, DoneFits, KeyUsed, SameCommand
  <2> QED BY <2>2, <2>3, <2>4, <2>5, <2>6 DEF IInv
<1>2. CASE Next
  <2>1. PICK t \in Txs : Works(t) \/ LostCommit(t) \/ Crash(t) \/ Victim(t)
    BY <1>2 DEF Next
  <2>2. faults \in 0 .. MaxFaults BY DEF IInv, TypeOK
  <2>3. CASE TakeLock(t) BY <2>3, TakingALock
  <2>4. CASE AppendEvent(t) BY <2>4, Appending
  <2>5. CASE RepeatEvent(t) BY <2>5, Repeating
  <2>6. CASE Conflict(t)
    <3>1. RollBack(t, "failed") /\ KeyUsed(Run(t), Key(t)) /\ ~SameCommand(t) /\ faults' = faults
      BY <2>6 DEF Conflict
    <3> QED BY <2>2, <3>1, RollingBack
  <2>7. CASE LinkEvent(t) BY <2>7, LinkingEvent
  <2>8. CASE EnterAudit(t) BY <2>8, EnteringAudit
  <2>9. CASE LookForFirstUse(t) BY <2>9, Looking
  <2>10. CASE Rebuild(t) BY <2>10, Rebuilding
  <2>11. CASE Commit(t)
    <3>1. /\ status[t] = "open" /\ Ended(t) /\ Store(t)
          /\ status' = [status EXCEPT ![t] = "done"] /\ faults' = faults
      BY <2>11 DEF Commit
    <3> QED BY <2>2, <3>1, Storing
  <2>12. CASE LostCommit(t)
    <3>1. /\ status[t] = "open" /\ Ended(t) /\ Store(t)
          /\ status' = [status EXCEPT ![t] = Repeats(t)]
          /\ faults < MaxFaults /\ faults' = faults + 1
      BY <2>12 DEF LostCommit
    <3>2. faults' \in 0 .. MaxFaults BY <2>2, <3>1, EventLogAssumption
    <3>3. Repeats(t) \in {"open", "failed"} /\ (Repeats(t) = "failed" => Kind(t) # "append")
      BY DEF Repeats
    <3> HIDE DEF Repeats
    <3> QED BY <3>1, <3>2, <3>3, Storing
  <2>13. CASE Crash(t)
    <3>1. RollBack(t, Repeats(t)) /\ faults < MaxFaults /\ faults' = faults + 1
      BY <2>13 DEF Crash
    <3>2. faults' \in 0 .. MaxFaults BY <2>2, <3>1, EventLogAssumption
    <3>3. Repeats(t) \in {"open", "failed"} /\ (Repeats(t) = "failed" => Kind(t) # "append")
      BY DEF Repeats
    <3> QED BY <3>1, <3>2, <3>3, RollingBack
  <2>14. CASE Victim(t)
    <3> DEFINE again == IF Kind(t) \in {"append", "rebuild"} THEN "open" ELSE "failed"
    <3>1. RollBack(t, again) /\ faults' = faults BY <2>14 DEF Victim
    <3>2. again \in {"open", "failed"} /\ (again = "failed" => Kind(t) # "append") OBVIOUS
    <3> HIDE DEF again
    <3> QED BY <2>2, <3>1, <3>2, RollingBack
  <2> QED BY <2>1, <2>3, <2>4, <2>5, <2>6, <2>7, <2>8, <2>9, <2>10, <2>11, <2>12, <2>13, <2>14
          DEF Works
<1> QED BY <1>1, <1>2

THEOREM Inductive == Spec => []IInv
BY Started, Stepped, PTL DEF Spec

-----------------------------------------------------------------------------
(* Theorems                                                                *)

(* Every reachable state is well typed (canonical_events, audit_events,    *)
(* canonical_projections, outbox and the drafts of open transactions).     *)
THEOREM LogTypes == Spec => []TypeOK
<1>1. IInv => TypeOK BY DEF IInv
<1> QED BY Inductive, <1>1, PTL

(* append_event and append_audit_chain never branch or break a chain, and  *)
(* the cached projection is the replay of its run.                         *)
THEOREM ChainsHold == Spec => []LogsAreChained
<1>1. IInv => LogsAreChained BY DEF IInv
<1> QED BY Inductive, <1>1, PTL

(* The idempotency key of append_event and the search of record_first_use  *)
(* make a command take effect once, whatever is lost or executed again.    *)
THEOREM EffectsAreSingle == Spec => []CommandsTakeEffectOnce
<1>1. IInv => CommandsTakeEffectOnce
  <2> SUFFICES ASSUME IInv PROVE CommandsTakeEffectOnce OBVIOUS
  <2>1. \A t \in Txs : DoneFits(t) BY DEF IInv
  <2>2. \A t \in Txs : status[t] = "done" /\ Kind(t) \in {"append", "memory"} => SameCommand(t)
    BY <2>1 DEF DoneFits
  <2>3. \A t \in Txs : status[t] = "failed" /\ Kind(t) = "append" =>
          KeyUsed(Run(t), Key(t)) /\ ~SameCommand(t)
    BY <2>1 DEF DoneFits
  <2>4. KeysOnce /\ DeclaredOnce BY DEF IInv
  <2> QED BY <2>2, <2>3, <2>4 DEF CommandsTakeEffectOnce, KeysOnce, DeclaredOnce
<1> QED BY Inductive, <1>1, PTL

LEMMA LocksDiffer ==
  /\ AuditLock # FirstUseLock
  /\ \A r : RunLock(r) # AuditLock /\ RunLock(r) # FirstUseLock
BY DEF AuditLock, FirstUseLock, RunLock

(* A waiting transaction that writes no memory holds no audit lock, and    *)
(* unless it waits for that one it holds the first-use lock at most.       *)
LEMMA WaitsInOrder ==
  ASSUME TypeOK, HoldersFit, NEW t \in Txs, ~Ended(t), Kind(t) # "memory"
  PROVE  /\ holder[AuditLock] # t
         /\ \A l \in Locks : holder[l] = t /\ Next1(t).lock # AuditLock =>
              l = FirstUseLock /\ Next1(t).lock = RunLock(Run(t))
         /\ Next1(t).lock \in Locks
<1>1. step[t] \in Nat /\ step[t] <= Len(Steps[t]) /\ step[t] # Len(Steps[t])
  BY DEF TypeOK, Ended
<1>2. AuditLock \in Locks BY DEF Locks
<1>3. \A l \in Locks : holder[l] = t => \E i \in 1 .. step[t] : Steps[t][i].lock = l
  BY DEF HoldersFit
<1>4. Next1(t) = Steps[t][step[t] + 1] BY DEF Next1
<1>5. Next1(t).lock \in Locks
  <2>1. step[t] + 1 \in 1 .. Len(Steps[t]) BY <1>1, StepCount
  <2> QED BY <1>4, <2>1, StepsFit DEF StepFits
<1>0. \A a \in Nat : \A b : a <= b /\ a # b =>
        (b = 1 => a = 0) /\ (b = 2 => a \in 0 .. 1) /\ (b = 3 => a \in 0 .. 2)
  OBVIOUS
<1>6. CASE Kind(t) \in {"audit", "rebuild"}
  <2>0. Len(Steps[t]) = 1 BY <1>6, StepCount
  <2>1. step[t] = 0 BY <1>0, <1>1, <2>0
  <2> QED BY <1>2, <1>3, <1>5, <2>1
<1>7. CASE Kind(t) = "append"
  <2>0. Steps[t] = <<Step(RunLock(Run(t)), "append"), Step(AuditLock, "link")>>
        /\ Len(Steps[t]) = 2
    BY <1>7, StepsOf, StepCount
  <2>1. Steps[t][1].lock = RunLock(Run(t)) /\ Steps[t][2].lock = AuditLock
    BY <2>0 DEF Step
  <2>2. step[t] \in 0 .. 1 BY <1>0, <1>1, <2>0
  <2>3. \A l \in Locks : holder[l] = t => step[t] = 1 /\ l = RunLock(Run(t))
    BY <1>3, <2>1, <2>2
  <2>4. step[t] = 1 => Next1(t).lock = AuditLock BY <1>4, <2>1
  <2> QED BY <1>2, <1>5, <2>3, <2>4, LocksDiffer
<1>8. CASE Kind(t) = "firstUse"
  <2>0. Steps[t] = <<Step(FirstUseLock, "look"), Step(RunLock(Run(t)), "append"),
                     Step(AuditLock, "link")>> /\ Len(Steps[t]) = 3
    BY <1>8, StepsOf, StepCount
  <2>1. /\ Steps[t][1].lock = FirstUseLock /\ Steps[t][2].lock = RunLock(Run(t))
        /\ Steps[t][3].lock = AuditLock
    BY <2>0 DEF Step
  <2>2. step[t] \in 0 .. 2 BY <1>0, <1>1, <2>0
  <2>3. \A l \in Locks : holder[l] = t =>
          \/ step[t] = 1 /\ l = FirstUseLock
          \/ step[t] = 2 /\ l \in {FirstUseLock, RunLock(Run(t))}
    BY <1>3, <2>1, <2>2
  <2>4. /\ step[t] = 2 => Next1(t).lock = AuditLock
        /\ step[t] = 1 => Next1(t).lock = RunLock(Run(t))
    BY <1>4, <2>1
  <2> QED BY <1>2, <1>5, <2>3, <2>4, LocksDiffer
<1> QED BY <1>6, <1>7, <1>8, CommandTypes DEF Kinds

(* First use before run before audit: only a memory write, which locks the *)
(* audit chain before its run, can close a circle of waiting transactions. *)
THEOREM CirclesAreOfMemory == Spec => []CirclesNeedAMemoryWrite
<1>1. IInv => CirclesNeedAMemoryWrite
  <2> SUFFICES ASSUME IInv, NEW S \in SUBSET Stuck, Circle(S),
                      \A t \in S : Kind(t) # "memory"
               PROVE  FALSE
    BY DEF CirclesNeedAMemoryWrite
  <2>1. TypeOK /\ HoldersFit BY DEF IInv
  <2>2. ASSUME NEW t \in S
        PROVE  /\ t \in Txs /\ ~Ended(t) /\ Kind(t) # "memory"
               /\ Blocker(t) \in S /\ Blocker(t) = holder[Next1(t).lock]
    <3>1. t \in Txs /\ Blocker(t) # NoTx BY DEF Stuck
    <3>2. {Blocker(u) : u \in S} = S BY DEF Circle
    <3>3. Blocker(t) \in S BY <3>2
    <3>4. ~Ended(t) /\ Blocker(t) = holder[Next1(t).lock] BY <3>1 DEF Blocker
    <3> QED BY <3>1, <3>3, <3>4
  <2>3. ASSUME NEW t \in S
        PROVE  /\ holder[AuditLock] # t
               /\ \A l \in Locks : holder[l] = t /\ Next1(t).lock # AuditLock =>
                    l = FirstUseLock /\ Next1(t).lock = RunLock(Run(t))
               /\ Next1(t).lock \in Locks
    BY <2>1, <2>2, WaitsInOrder
  <2>4. \A t \in S : Next1(t).lock # AuditLock
    <3>1. SUFFICES ASSUME NEW t \in S, Next1(t).lock = AuditLock PROVE FALSE OBVIOUS
    <3>2. Blocker(t) \in S /\ holder[AuditLock] = Blocker(t) BY <2>2, <3>1
    <3> QED BY <2>3, <3>2
  <2>5. PICK t \in S : TRUE BY DEF Circle
  <2> DEFINE b == Blocker(t)
             c == Blocker(b)
  <2>6. b \in S /\ holder[Next1(t).lock] = b BY <2>2
  <2>7. c \in S /\ holder[Next1(b).lock] = c BY <2>2, <2>6
  <2> HIDE DEF b, c
  <2>8. Next1(b).lock = RunLock(Run(b)) BY <2>3, <2>4, <2>6
  <2>9. Next1(b).lock = FirstUseLock BY <2>3, <2>4, <2>6, <2>7
  <2> QED BY <2>8, <2>9, LocksDiffer
<1> QED BY Inductive, <1>1, PTL
=============================================================================
