-------------------------- MODULE CommandDelivery ---------------------------
(***************************************************************************)
(* What the transactional outbox promises about a message once the         *)
(* business transaction that wrote it has committed: it is handed over at  *)
(* least once before it is called delivered, or it is given up after       *)
(* MaxAttempts failures that were really observed, and neither verdict is  *)
(* ever taken back.  How leases, claims and dispatchers achieve that is    *)
(* module Outbox, which implements this one.                               *)
(***************************************************************************)
EXTENDS Naturals

CONSTANTS
  Messages,      \* rows of the outbox table
  MaxAttempts,   \* OutboxDispatcherConfig.max_attempts
  NeedsHandOver  \* messages that have a receiver to be handed to

VARIABLES
  fate,          \* absent, queued, delivered or dead
  handed,        \* whether the receiver got the message at least once
  failures       \* failed hand-overs observed so far

dvars == <<fate, handed, failures>>

DInit ==
  /\ fate = [m \in Messages |-> "absent"]
  /\ handed = [m \in Messages |-> FALSE]
  /\ failures = [m \in Messages |-> 0]

Enqueue(m) ==
  /\ fate[m] = "absent"
  /\ fate' = [fate EXCEPT ![m] = "queued"]
  /\ UNCHANGED <<handed, failures>>

(* A late duplicate may arrive after the verdict: at least once, never     *)
(* at most once.                                                           *)
HandOver(m) ==
  /\ fate[m] # "absent"
  /\ handed' = [handed EXCEPT ![m] = TRUE]
  /\ UNCHANGED <<fate, failures>>

(* The receiver may have got a message whose hand-over was seen to fail.   *)
ObserveFailure(m) ==
  /\ fate[m] # "absent"
  /\ failures' = [failures EXCEPT ![m] = @ + 1]
  /\ \/ UNCHANGED handed
     \/ handed' = [handed EXCEPT ![m] = TRUE]
  /\ UNCHANGED fate

Deliver(m) ==
  /\ fate[m] = "queued"
  /\ m \in NeedsHandOver => handed[m]
  /\ fate' = [fate EXCEPT ![m] = "delivered"]
  /\ UNCHANGED <<handed, failures>>

GiveUp(m) ==
  /\ fate[m] = "queued"
  /\ failures[m] >= MaxAttempts
  /\ fate' = [fate EXCEPT ![m] = "dead"]
  /\ UNCHANGED <<handed, failures>>

DNext ==
  \E m \in Messages :
    Enqueue(m) \/ HandOver(m) \/ ObserveFailure(m) \/ Deliver(m) \/ GiveUp(m)

Delivery == DInit /\ [][DNext]_dvars

=============================================================================
