------------------------------ MODULE MCOutbox ------------------------------
(* Instances of Outbox: a start command, a signal, an unparsable command   *)
(* and an event, taken by two dispatchers.                                 *)
EXTENDS Outbox, TLC

CONSTANTS start, cancel, bad, event, w1, w2

NoMessages == {}
StartAndSignal == {start, cancel}
StartBadAndEvent == {start, bad, event}
BadOnes == {bad}
EventOnes == {event}
TwoWorkers == {w1, w2}

(* The default OutboxDispatcherConfig: every dispatcher has the same id.   *)
SharedId == [w \in TwoWorkers |-> "outbox-dispatcher"]
(* run_dispatcher draws a fresh id per process.                            *)
OwnIds == [w \in TwoWorkers |-> IF w = w1 THEN "dispatcher-1" ELSE "dispatcher-2"]

TwoSymmetry == Permutations(TwoWorkers)
=============================================================================
