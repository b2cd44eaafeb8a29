------------------------------- MODULE SpscRing ------------------------------
(***************************************************************************)
(* SpscTelemetryRing (cpp/include/mm/telemetry_ring.hpp), one step per     *)
(* access to memory that the two threads share.  A thread is inside a slot *)
(* while its pc says so, since copying a record is not atomic.             *)
(*                                                                         *)
(* The indexes are 64-bit counters that count pushes and pops; they are    *)
(* natural numbers here (2^64 records are out of reach, and a power-of-two *)
(* capacity divides 2^64, so the slot of an index survives the wrap).      *)
(* Every atomic access is acquire/release or to the thread's own index, so *)
(* interleaving the steps is the memory model that is left.                *)
(***************************************************************************)
EXTENDS Integers, Sequences

CONSTANTS
  Records,     \* the records pushed
  Zero,        \* TelemetryRecord{}, what a fresh slot holds
  Capacity,    \* slots_.size(), what bit_ceil made of the request
  MaxAttempts  \* bound of the model on calls of try_push

ASSUME RingAssumption ==
  /\ Capacity \in Nat \ {0}
  /\ MaxAttempts \in Nat
  /\ Zero \in Records

VARIABLES
  slots,    \* slots_
  head,     \* head_, the consumer's index
  tail,     \* tail_, the producer's index
  dropped,  \* dropped_
  prodPc,   \* where try_push is
  prodRec,  \* the record try_push was called with
  consPc,   \* where try_pop is
  consRec,  \* the copy try_pop made
  log       \* history: every record published, in order

vars == <<slots, head, tail, dropped, prodPc, prodRec, consPc, consRec, log>>
producerVars == <<prodPc, prodRec>>
consumerVars == <<consPc, consRec>>

SlotOf(i) == i % Capacity
Full(h) == tail - h = Capacity
Attempts == tail + dropped + (IF prodPc = "idle" THEN 0 ELSE 1)

(* Mutant: the producer does not look for room.                            *)
PushClaimUnchecked(r) ==
  /\ prodPc = "idle"
  /\ Attempts < MaxAttempts
  /\ prodPc' = "write"
  /\ prodRec' = r
  /\ UNCHANGED <<slots, head, tail, dropped, consumerVars, log>>

(* try_push: read the consumer's index, find room, and enter the slot.     *)
PushClaim(r) ==
  /\ prodPc = "idle"
  /\ Attempts < MaxAttempts
  /\ ~Full(head)
  /\ prodPc' = "write"
  /\ prodRec' = r
  /\ UNCHANGED <<slots, head, tail, dropped, consumerVars, log>>

(* Mutant: a full ring evicts its oldest record instead of refusing.       *)
PushEvicts ==
  /\ prodPc = "idle"
  /\ Attempts < MaxAttempts
  /\ Full(head)
  /\ dropped' = dropped + 1
  /\ head' = head + 1
  /\ UNCHANGED <<slots, tail, producerVars, consumerVars, log>>

(* try_push: read the consumer's index and find the ring full.             *)
PushRefuse ==
  /\ prodPc = "idle"
  /\ Attempts < MaxAttempts
  /\ Full(head)
  /\ dropped' = dropped + 1
  /\ UNCHANGED <<slots, head, tail, producerVars, consumerVars, log>>

(* try_push: the record is in the slot.                                    *)
PushWrite ==
  /\ prodPc = "write"
  /\ slots' = [slots EXCEPT ![SlotOf(tail)] = prodRec]
  /\ prodPc' = "publish"
  /\ UNCHANGED <<head, tail, dropped, prodRec, consumerVars, log>>

(* try_push: the release store of the producer's index.                    *)
PushPublish ==
  /\ prodPc = "publish"
  /\ tail' = tail + 1
  /\ prodPc' = "idle"
  /\ log' = Append(log, prodRec)
  /\ UNCHANGED <<slots, head, dropped, prodRec, consumerVars>>

(* try_pop: read the producer's index, find a record, enter its slot.  On  *)
(* an empty ring try_pop returns false and nothing changes.                *)
PopClaim ==
  /\ consPc = "idle"
  /\ tail # head
  /\ consPc' = "copy"
  /\ UNCHANGED <<slots, head, tail, dropped, producerVars, consRec, log>>

(* Mutant: the newest record is copied, not the oldest.                    *)
PopCopyNewest ==
  /\ consPc = "copy"
  /\ consRec' = slots[SlotOf(tail - 1)]
  /\ consPc' = "retire"
  /\ UNCHANGED <<slots, head, tail, dropped, producerVars, log>>

(* try_pop: the record is copied out.                                      *)
PopCopy ==
  /\ consPc = "copy"
  /\ consRec' = slots[SlotOf(head)]
  /\ consPc' = "retire"
  /\ UNCHANGED <<slots, head, tail, dropped, producerVars, log>>

(* try_pop: the release store of the consumer's index gives the slot back. *)
PopRetire ==
  /\ consPc = "retire"
  /\ head' = head + 1
  /\ consPc' = "idle"
  /\ UNCHANGED <<slots, tail, dropped, producerVars, consRec, log>>

Init ==
  /\ slots = [i \in 0 .. Capacity - 1 |-> Zero]
  /\ head = 0
  /\ tail = 0
  /\ dropped = 0
  /\ prodPc = "idle"
  /\ prodRec = Zero
  /\ consPc = "idle"
  /\ consRec = Zero
  /\ log = << >>

Next ==
  \/ \E r \in Records : PushClaim(r)
  \/ PushRefuse
  \/ PushWrite
  \/ PushPublish
  \/ PopClaim
  \/ PopCopy
  \/ PopRetire

Spec == Init /\ [][Next]_vars

------------------------------------------------------------------------------
(* Every variable of the ring has its type.                                *)
TypeOK ==
  /\ slots \in [0 .. Capacity - 1 -> Records]
  /\ head \in Nat
  /\ tail \in Nat
  /\ dropped \in Nat
  /\ prodPc \in {"idle", "write", "publish"}
  /\ prodRec \in Records
  /\ consPc \in {"idle", "copy", "retire"}
  /\ consRec \in Records
  /\ log \in Seq(Records)

(* pending() never underflows and never exceeds the slots there are,       *)
(* whichever thread reads it.                                              *)
PendingBounded == head <= tail /\ tail - head <= Capacity

(* The two threads are never inside the same slot: no record is read while *)
(* it is being written, and none is overwritten while it is being read.    *)
NoSlotRace ==
  ~(prodPc = "write" /\ consPc = "copy" /\ SlotOf(tail) = SlotOf(head))

(* What try_pop returns is the oldest record published and not yet popped. *)
PopsInOrder == consPc = "retire" => consRec = log[head + 1]

(* The pending records as the ring holds them, oldest first.               *)
Pending == [i \in 1 .. (tail - head) |-> slots[SlotOf(head + (i - 1))]]

Abstract == INSTANCE SpscQueue WITH queue <- Pending

(* The ring implements the bounded FIFO that drops only when it is full.   *)
ImplementsQueue == Abstract!QueueSpec
==============================================================================
