---------------------------- MODULE RunLifecycle ----------------------------
(***************************************************************************)
(* What a reader of the run projection is promised: a run begins, may be   *)
(* paused and resumed, and ends once; a node is worked on only while the   *)
(* run is running and only after everything it depends on has completed;   *)
(* a node is skipped only behind a failed or skipped dependency, or by a   *)
(* cancel; and each verdict on the run agrees with the nodes.  Module      *)
(* AgentRun implements this specification.                                 *)
(***************************************************************************)
CONSTANTS
  Nodes,     \* the nodes of the TaskGraph
  Before     \* Before[t]: the dependencies of node t

VARIABLES run, node

lvars == <<run, node>>

LInit == run = "none" /\ node = [t \in Nodes |-> "absent"]

Begin ==
  /\ run = "none" /\ run' = "running"
  /\ node' = [t \in Nodes |-> "pending"]

Pause == run = "running" /\ run' = "paused" /\ UNCHANGED node
Resume == run = "paused" /\ run' = "running" /\ UNCHANGED node

(* An attempt at a node begins, ends, or does both at once.                *)
Work(t) ==
  /\ run = "running"
  /\ \A d \in Before[t] : node[d] = "completed"
  /\ node[t] \in {"pending", "started", "failed"}
  /\ \E s \in {"started", "completed", "failed"} : node' = [node EXCEPT ![t] = s]
  /\ UNCHANGED run

Skip(t) ==
  /\ run = "running" /\ node[t] = "pending"
  /\ \E d \in Before[t] : node[d] \in {"failed", "skipped"}
  /\ node' = [node EXCEPT ![t] = "skipped"]
  /\ UNCHANGED run

Complete ==
  /\ run = "running" /\ \A t \in Nodes : node[t] = "completed"
  /\ run' = "completed" /\ UNCHANGED node

Fail ==
  /\ run = "running"
  /\ \A t \in Nodes : node[t] \in {"completed", "failed", "skipped"}
  /\ \E t \in Nodes : node[t] = "failed"
  /\ run' = "failed" /\ UNCHANGED node

(* Nothing is under way when a run is cancelled; what never began is       *)
(* skipped.                                                                *)
Cancel ==
  /\ run \in {"running", "paused"}
  /\ \A t \in Nodes : node[t] # "started"
  /\ run' = "cancelled"
  /\ node' = [t \in Nodes |-> IF node[t] = "pending" THEN "skipped" ELSE node[t]]

LNext ==
  \/ Begin \/ Pause \/ Resume \/ Complete \/ Fail \/ Cancel
  \/ \E t \in Nodes : Work(t) \/ Skip(t)

Lifecycle == LInit /\ [][LNext]_lvars

=============================================================================
