------------------------------ MODULE SpscQueue ------------------------------
(***************************************************************************)
(* What a single-producer single-consumer telemetry ring promises          *)
(* (cpp/include/mm/telemetry_ring.hpp): a bounded FIFO that never blocks   *)
(* its producer, refuses and counts a record only when it is full, and     *)
(* never loses, duplicates or reorders one it took.                        *)
(***************************************************************************)
EXTENDS Naturals, Sequences

CONSTANTS
  Records,   \* what may be pushed
  Capacity   \* slots_.size()

ASSUME CapacityAssumption == Capacity \in Nat \ {0}

VARIABLES
  queue,     \* records taken and not yet consumed, oldest first
  dropped    \* pushes refused so far

queueVars == <<queue, dropped>>

(* A successful try_push.                                                  *)
Push(r) ==
  /\ Len(queue) < Capacity
  /\ queue' = Append(queue, r)
  /\ UNCHANGED dropped

(* A refused try_push: nothing is written, the refusal is counted.         *)
Drop ==
  /\ Len(queue) = Capacity
  /\ dropped' = dropped + 1
  /\ UNCHANGED queue

(* A successful try_pop.                                                   *)
Pop ==
  /\ queue # << >>
  /\ queue' = Tail(queue)
  /\ UNCHANGED dropped

QueueInit == queue = << >> /\ dropped = 0
QueueNext == (\E r \in Records : Push(r)) \/ Drop \/ Pop
QueueSpec == QueueInit /\ [][QueueNext]_queueVars
==============================================================================
