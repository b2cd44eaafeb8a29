------------------------------- MODULE ShmRing -------------------------------
(***************************************************************************)
(* The shared-memory ring between the engine and a client process          *)
(* (cpp/include/mm/shm_ring.hpp, python/mmclient/shm_ipc.py), one step per *)
(* access to memory both processes reach.  A message is the number of the  *)
(* push that wrote it.  Two producers exist: try_push, which refuses when  *)
(* the ring is full (orders and reports), and push_overwrite, which moves  *)
(* the consumer's index (market data); a ring has one of them.             *)
(*                                                                         *)
(* Copying a slot is not atomic: a copy made while the producer writes the *)
(* same slot yields the old message, the new one or a mixture.             *)
(***************************************************************************)
EXTENDS Integers, Sequences

CONSTANTS
  Capacity,    \* ShmRingHeader::capacity
  MaxPushes    \* bound of the model on the calls of the producer

ASSUME ShmAssumption == Capacity \in Nat \ {0} /\ MaxPushes \in Nat

VARIABLES
  slots,    \* slots_
  head,     \* header_->head
  tail,     \* header_->tail
  dropped,  \* header_->dropped
  prodPc,   \* where the producer is
  prodHead, \* the head it loaded
  consPc,   \* where try_pop is
  consHead, \* the head it loaded
  copy,     \* the slot it copied
  calls,    \* history: pushes begun
  got       \* history: what try_pop returned, in order

vars == <<slots, head, tail, dropped, prodPc, prodHead, consPc, consHead, copy,
          calls, got>>
producerVars == <<prodPc, prodHead, calls>>
consumerVars == <<consPc, consHead, copy, got>>

Torn == -1
Empty == 0
Mask(i) == i % Capacity
(* Mutant: one message too many fits.                                      *)
RingFullLate == tail - prodHead > Capacity
RingFull == tail - prodHead >= Capacity

------------------------------------------------------------------------------
(* Either producer: load the consumer's index.                             *)
PushLoad ==
  /\ prodPc = "idle" /\ calls < MaxPushes
  /\ prodHead' = head
  /\ calls' = calls + 1
  /\ prodPc' = "check"
  /\ UNCHANGED <<slots, head, tail, dropped, consumerVars>>

(* try_push: refuse when full, and count it if asked to.                   *)
PushRefuse ==
  \E countDrop \in BOOLEAN :
    /\ prodPc = "check" /\ RingFull
    /\ dropped' = IF countDrop THEN dropped + 1 ELSE dropped
    /\ prodPc' = "idle"
    /\ UNCHANGED <<slots, head, tail, prodHead, calls, consumerVars>>

(* push_overwrite: move the consumer's index and count the tick it loses.  *)
PushEvict ==
  /\ prodPc = "check" /\ RingFull
  /\ head' = prodHead + 1
  /\ dropped' = dropped + 1
  /\ prodPc' = "write"
  /\ UNCHANGED <<slots, tail, prodHead, calls, consumerVars>>

(* Either producer, with room: enter the slot.                             *)
PushEnter ==
  /\ prodPc = "check" /\ ~RingFull
  /\ prodPc' = "write"
  /\ UNCHANGED <<slots, head, tail, dropped, prodHead, calls, consumerVars>>

(* Either producer: the slot is written, then the index is published.      *)
PushWrite ==
  /\ prodPc = "write"
  /\ slots' = [slots EXCEPT ![Mask(tail)] = tail + 1]
  /\ prodPc' = "publish"
  /\ UNCHANGED <<head, tail, dropped, prodHead, calls, consumerVars>>

PushPublish ==
  /\ prodPc = "publish"
  /\ tail' = tail + 1
  /\ prodPc' = "idle"
  /\ UNCHANGED <<slots, head, dropped, prodHead, calls, consumerVars>>

------------------------------------------------------------------------------
(* try_pop: load the consumer's own index.                                 *)
PopLoad ==
  /\ consPc = "idle"
  /\ consHead' = head
  /\ consPc' = "check"
  /\ UNCHANGED <<slots, head, tail, dropped, producerVars, copy, got>>

(* try_pop: load the producer's index; an empty ring ends the call.        *)
PopCheck ==
  /\ consPc = "check"
  /\ consPc' = IF tail = consHead THEN "idle" ELSE "copy"
  /\ UNCHANGED <<slots, head, tail, dropped, producerVars, consHead, copy, got>>

Copies(slot) ==
  IF prodPc = "write" /\ Mask(tail) = slot
  THEN {slots[slot], tail + 1, Torn}
  ELSE {slots[slot]}

(* try_pop: copy the slot.                                                 *)
PopCopy ==
  \E v \in Copies(Mask(consHead)) :
    /\ consPc = "copy"
    /\ copy' = v
    /\ consPc' = "retire"
    /\ UNCHANGED <<slots, head, tail, dropped, producerVars, consHead, got>>

(* try_pop: store the consumer's index and return the copy.                *)
PopRetire ==
  /\ consPc = "retire"
  /\ head' = consHead + 1
  /\ got' = Append(got, copy)
  /\ consPc' = "idle"
  /\ UNCHANGED <<slots, tail, dropped, producerVars, consHead, copy>>

------------------------------------------------------------------------------
Init ==
  /\ slots = [i \in 0 .. Capacity - 1 |-> Empty]
  /\ head = 0 /\ tail = 0 /\ dropped = 0
  /\ prodPc = "idle" /\ prodHead = 0 /\ calls = 0
  /\ consPc = "idle" /\ consHead = 0 /\ copy = Empty /\ got = << >>

PopStep == PopLoad \/ PopCheck \/ PopCopy \/ PopRetire
PushStep == PushLoad \/ PushEnter \/ PushWrite \/ PushPublish

(* A ring fed by push_overwrite.                                           *)
MarketNext == PushStep \/ PushEvict \/ PopStep
MarketSpec == Init /\ [][MarketNext]_vars

------------------------------------------------------------------------------
(* Every order pushed is popped once, whole and in order.                  *)
OrdersArrive == \A i \in 1 .. Len(got) : got[i] = i

(* The consumer never reads an older tick after a newer one.               *)
TicksGetFresher == \A i, j \in 1 .. Len(got) : i < j => got[i] < got[j]
==============================================================================
