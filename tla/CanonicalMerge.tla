--------------------------- MODULE CanonicalMerge ---------------------------
(***************************************************************************)
(* How reduce (src/zhiwei/runtime/reducer.py) merges what several tasks    *)
(* write to ONE canonical field.  Each task declares a strategy for the    *)
(* field, or none, and the tasks complete in any order; the three branches *)
(* of _apply_merge_field are the three actions.  The fields of a Run do    *)
(* not interact, so one field is the whole of the merge.                   *)
(*                                                                         *)
(* A value is its items; an item is named by its writer and its place in   *)
(* what the writer wrote.  A task completes once in a log (TaskMay in      *)
(* RunReducer), so the writer key (task_id, attempt_no) is the task and    *)
(* the return for a repeated key is out of reach.                          *)
(***************************************************************************)
EXTENDS Naturals, Sequences, FiniteSets

CONSTANT Writers        \* tasks that write the field, as their sort order

ASSUME WritersAreTasks == Writers \subseteq Nat \ {0}

Strategies == {"append", "last_write_wins", "conflict_preserving", "undeclared"}
Size == [scalar |-> 1, null |-> 1, empty |-> 0, single |-> 1, pair |-> 2]
Shapes == DOMAIN Size   \* what a task writes (null: None), and of how many items

Unregistered == 0       \* the key ("", -1), below the key of every task
NoWriter == 0           \* the field has no owner

VARIABLES
  strategy,       \* node.output_merge_strategies.get(field), per writer
  shape,          \* whether a writer's value is a list, of what length, or null
  completed,      \* writers whose TaskCompleted was applied
  value,          \* canonical[field]: its kind and its items
  owner,          \* field_owners[field]
  registry,       \* append_writers[field]
  conflicts       \* the values (by writer) of its ConflictRecords

mergeVars == <<strategy, shape, completed, value, owner, registry, conflicts>>

Items(w) == [i \in 1 .. Size[shape[w]] |-> <<w, i>>]
Written(w) ==
  [kind |-> IF shape[w] \in {"scalar", "null"} THEN shape[w] ELSE "list",
   items |-> Items(w)]
Absent == [kind |-> "none", items |-> <<>>]

(* prev is None: a null that was written counts as not written.            *)
Unwritten == value.kind \in {"none", "null"}

(* An undeclared write is merged as conflict_preserving.                   *)
StrategyUndeclaredLww(w) ==      \* mutant: as the last_write_wins default
  IF strategy[w] = "undeclared" THEN "last_write_wins" ELSE strategy[w]

StrategyOf(w) ==
  IF strategy[w] = "undeclared" THEN "conflict_preserving" ELSE strategy[w]

MergeInit ==
  /\ strategy \in [Writers -> Strategies]
  /\ shape \in [Writers -> Shapes]
  /\ completed = {}
  /\ value = Absent
  /\ owner = NoWriter
  /\ registry = <<>>
  /\ conflicts = {}

-----------------------------------------------------------------------------
(* sorted(pairs, key=writer key), which is stable: the place of a pair is  *)
(* the number of pairs that may not come after it.                         *)
StableSort(pairs) ==
  LET Place(i) == Cardinality({j \in DOMAIN pairs :
                     \/ pairs[j].key < pairs[i].key
                     \/ pairs[j].key = pairs[i].key /\ j <= i})
  IN  [p \in DOMAIN pairs |-> pairs[CHOOSE i \in DOMAIN pairs : Place(i) = p]]

(* The items already there with their writers (the ones no append wrote    *)
(* have the key Unregistered, put in front), followed by the items of w.   *)
Entries(w) ==
  LET missing == Len(value.items) - Len(registry)
      held == [i \in DOMAIN value.items |->
                 [item |-> value.items[i],
                  key |-> IF i <= missing THEN Unregistered
                          ELSE registry[i - missing]]]
  IN  held \o [i \in DOMAIN Items(w) |-> [item |-> Items(w)[i], key |-> w]]

Keep(entries) ==
  /\ value' = [kind |-> "list", items |-> [i \in DOMAIN entries |-> entries[i].item]]
  /\ registry' = [i \in DOMAIN entries |-> entries[i].key]

AppendInOrder(w) == Keep(Entries(w))     \* mutant: in the order of arrival

AppendTo(w) == Keep(StableSort(Entries(w)))

AppendOwner(w) == IF owner = NoWriter THEN w ELSE owner

MergeAppend(w) ==
  /\ StrategyOf(w) = "append"
  /\ AppendTo(w)
  /\ owner' = AppendOwner(w)
  /\ UNCHANGED conflicts

(* Task-id ordering: the lower task id wins.                               *)
Overwrites(w) == Unwritten \/ owner = NoWriter \/ w < owner

Overwrite(w) == value' = Written(w) /\ owner' = w /\ registry' = <<>>

MergeLastWriteWins(w) ==
  /\ StrategyOf(w) = "last_write_wins"
  /\ IF Overwrites(w) THEN Overwrite(w) ELSE UNCHANGED <<value, owner, registry>>
  /\ UNCHANGED conflicts

MergePreserving(w) ==
  /\ StrategyOf(w) = "conflict_preserving"
  /\ IF Unwritten \/ owner = NoWriter
       THEN value' = Written(w) /\ owner' = w /\ UNCHANGED conflicts
       ELSE /\ conflicts' = conflicts \cup
                 {[v \in {owner, w} |-> IF v = owner THEN value ELSE Written(w)]}
            /\ UNCHANGED <<value, owner>>
  /\ UNCHANGED registry

Complete(w) ==
  /\ w \notin completed
  /\ completed' = completed \cup {w}
  /\ MergeAppend(w) \/ MergeLastWriteWins(w) \/ MergePreserving(w)
  /\ UNCHANGED <<strategy, shape>>

MergeNext == \E w \in Writers : Complete(w)

MergeSpec == MergeInit /\ [][MergeNext]_mergeVars

-----------------------------------------------------------------------------
(* What a reader of the projection may rely on.                            *)
Places(v) == DOMAIN v.items

(* The types; and a field is owned exactly when it has a value, by a task  *)
(* that completed, or a later write would take it over in silence.         *)
FieldTypes ==
  /\ strategy \in [Writers -> Strategies]
  /\ shape \in [Writers -> Shapes]
  /\ completed \subseteq Writers
  /\ value.kind \in {"none", "null", "scalar", "list"}
  /\ value.items \in Seq(Writers \X (1..2))
  /\ owner \in completed \cup {NoWriter}
  /\ owner = NoWriter <=> value = Absent
  /\ registry \in Seq(Writers \cup {Unregistered})

(* What tasks that all append leave is decided by who completed and not by *)
(* the order in which they did: every item of theirs, once, by writer and  *)
(* then as the writer listed them (ADR-005, supplement 1).                 *)
AppendIsOrderFree ==
  (\A w \in completed : strategy[w] = "append") =>
     /\ Len(value.items) = Cardinality(UNION {{w} \X DOMAIN Items(w) : w \in completed})
     /\ \A w \in completed : \A i \in DOMAIN Items(w) :
          \E p \in Places(value) : value.items[p] = <<w, i>>
     /\ \A p, q \in Places(value) : p < q =>
          \/ value.items[p][1] < value.items[q][1]
          \/ /\ value.items[p][1] = value.items[q][1]
             /\ value.items[p][2] < value.items[q][2]

(* What w wrote stands in the canonical value, or in a conflict record     *)
(* beside the value it met.                                                *)
Survives(w) ==
  \/ \A i \in DOMAIN Items(w) : \E p \in Places(value) : value.items[p] = <<w, i>>
  \/ \E c \in conflicts : w \in DOMAIN c /\ c[w] = Written(w)

(* Unless some writer asked for last_write_wins, no write of a value other *)
(* than null disappears, whatever nulls, lists and scalars are written     *)
(* before and after it (no silent overwrite, ADR-005, supplement 3).       *)
NothingLost ==
  (\A w \in completed : strategy[w] # "last_write_wins") =>
     \A w \in completed : shape[w] # "null" => Survives(w)

(* The same of every write.  It is violated: a null that was written is    *)
(* taken for a field nobody wrote, and the next write replaces it without  *)
(* a conflict record.                                                      *)
NoSilentOverwrite ==
  (\A w \in completed : strategy[w] # "last_write_wins") =>
     \A w \in completed : Survives(w)

=============================================================================
