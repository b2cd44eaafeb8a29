--------------------------- MODULE SpscRingProofs ----------------------------
(***************************************************************************)
(* The telemetry ring, for every capacity and every record: no slot is     *)
(* shared, records come out in order, and the ring implements SpscQueue.   *)
(***************************************************************************)
EXTENDS SpscRing, SequenceTheorems, TLAPS

(* What each thread has established when it is inside a call: the producer *)
(* found room and its room can only grow, the consumer found a record and  *)
(* it can only be joined by others.                                        *)
ClaimsHold ==
  /\ prodPc # "idle" => tail - head < Capacity
  /\ consPc # "idle" => head < tail
  /\ prodPc = "publish" => slots[SlotOf(tail)] = prodRec

(* The window of the ring holds the records published and not yet popped.  *)
WindowHolds ==
  /\ Len(log) = tail
  /\ \A i \in Nat : (head <= i /\ i < tail) => slots[SlotOf(i)] = log[i + 1]

Inv ==
  /\ TypeOK
  /\ PendingBounded
  /\ ClaimsHold
  /\ WindowHolds
  /\ PopsInOrder

------------------------------------------------------------------------------
(* Two indexes less than a lap apart are in the same slot only if equal.   *)
LEMMA SlotsDistinct ==
  ASSUME NEW i \in Nat, NEW j \in Nat, i <= j, j < i + Capacity,
         SlotOf(i) = SlotOf(j)
  PROVE  i = j
<1>1. Capacity \in Nat \ {0}
  BY RingAssumption
<1> DEFINE q == i \div Capacity
           r == j \div Capacity
<1>2. /\ q \in Int /\ r \in Int
      /\ i = Capacity * q + (i % Capacity)
      /\ j = Capacity * r + (j % Capacity)
  BY <1>1
<1>3. j - i = Capacity * r - Capacity * q
  BY <1>1, <1>2 DEF SlotOf
<1> HIDE DEF q, r
<1>4. j - i = Capacity * (r - q)
  BY <1>1, <1>2, <1>3
<1>5. ~(r - q >= 1)
  <2>1. ASSUME r - q >= 1 PROVE Capacity * (r - q) >= Capacity
    BY <2>1, <1>1, <1>2
  <2>2. QED  BY <2>1, <1>1, <1>2, <1>4
<1>6. ~(r - q <= -1)
  <2>1. ASSUME r - q <= -1 PROVE Capacity * (r - q) <= -Capacity
    BY <2>1, <1>1, <1>2
  <2>2. QED  BY <2>1, <1>1, <1>2, <1>4
<1>7. r - q = 0
  BY <1>2, <1>5, <1>6
<1>8. QED  BY <1>1, <1>2, <1>4, <1>7

(* Every index has a slot.                                                 *)
LEMMA SlotInRange == \A i \in Nat : SlotOf(i) \in 0 .. Capacity - 1
BY RingAssumption DEF SlotOf

------------------------------------------------------------------------------
(* A fresh ring satisfies the invariant.                                   *)
LEMMA InitInv == Init => Inv
<1> SUFFICES ASSUME Init PROVE Inv
  OBVIOUS
<1>1. TypeOK
  BY RingAssumption DEF Init, TypeOK
<1>2. PendingBounded /\ ClaimsHold /\ PopsInOrder
  BY RingAssumption DEF Init, PendingBounded, ClaimsHold, PopsInOrder
<1>3. WindowHolds
  BY DEF Init, WindowHolds
<1>4. QED  BY <1>1, <1>2, <1>3 DEF Inv

(* Every step of either thread preserves the invariant.                    *)
LEMMA NextInv == Inv /\ [Next]_vars => Inv'
<1> SUFFICES ASSUME Inv, [Next]_vars PROVE Inv'
  OBVIOUS
<1> USE RingAssumption
<1>t. TypeOK /\ PendingBounded /\ ClaimsHold /\ WindowHolds /\ PopsInOrder
  BY DEF Inv
<1>1. CASE \E r \in Records : PushClaim(r)
  BY <1>t, <1>1 DEF PushClaim, Full, Inv, TypeOK, PendingBounded, ClaimsHold, WindowHolds,
     PopsInOrder, consumerVars
<1>2. CASE PushRefuse
  BY <1>t, <1>2 DEF PushRefuse, Inv, TypeOK, PendingBounded, ClaimsHold, WindowHolds,
     PopsInOrder, consumerVars, producerVars
<1>3. CASE PushWrite
  <2>1. TypeOK' /\ PendingBounded'
    BY <1>t, <1>3, SlotInRange DEF PushWrite, TypeOK, PendingBounded, consumerVars
  <2>2. slots'[SlotOf(tail)] = prodRec
    BY <1>t, <1>3, SlotInRange DEF PushWrite, TypeOK
  <2>3. ClaimsHold'
    BY <2>2, <1>t, <1>3 DEF PushWrite, ClaimsHold, consumerVars
  <2>4. ASSUME NEW i \in Nat, head <= i, i < tail
        PROVE  slots'[SlotOf(i)] = log[i + 1]
    <3>1. SlotOf(i) # SlotOf(tail)
      <4>1. tail < i + Capacity /\ tail \in Nat /\ i # tail /\ i <= tail
        BY <2>4, <1>t, <1>3 DEF PushWrite, ClaimsHold, TypeOK
      <4>2. QED  BY <4>1, SlotsDistinct
    <3>2. slots'[SlotOf(i)] = slots[SlotOf(i)]
      BY <3>1, <1>t, <1>3, SlotInRange DEF PushWrite, TypeOK
    <3>3. QED  BY <3>2, <2>4, <1>t DEF WindowHolds
  <2>5. WindowHolds'
    BY <2>4, <1>t, <1>3 DEF PushWrite, WindowHolds
  <2>6. PopsInOrder'
    BY <1>t, <1>3 DEF PushWrite, PopsInOrder, consumerVars
  <2>7. QED  BY <2>1, <2>3, <2>5, <2>6 DEF Inv
<1>4. CASE PushPublish
  <2>1. TypeOK'
    BY <1>t, <1>4 DEF PushPublish, TypeOK, consumerVars
  <2>2. PendingBounded' /\ ClaimsHold'
    BY <1>t, <1>4 DEF PushPublish, PendingBounded, ClaimsHold, TypeOK, consumerVars
  <2>3. /\ Len(log') = tail + 1
        /\ log'[tail + 1] = prodRec
        /\ \A i \in 1 .. tail : log'[i] = log[i]
    BY <1>t, <1>4 DEF PushPublish, WindowHolds, TypeOK
  <2>4. WindowHolds'
    BY <2>3, <1>t, <1>4 DEF PushPublish, WindowHolds, ClaimsHold, TypeOK
  <2>5. PopsInOrder'
    BY <2>3, <1>t, <1>4 DEF PushPublish, PopsInOrder, ClaimsHold, TypeOK, consumerVars
  <2>6. QED  BY <2>1, <2>2, <2>4, <2>5 DEF Inv
<1>5. CASE PopClaim
  BY <1>t, <1>5 DEF PopClaim, Inv, TypeOK, PendingBounded, ClaimsHold, WindowHolds,
     PopsInOrder, producerVars
<1>6. CASE PopCopy
  <2>1. slots[SlotOf(head)] \in Records
    BY <1>t, SlotInRange DEF TypeOK
  <2>2. slots[SlotOf(head)] = log[head + 1]
    BY <1>t, <1>6 DEF PopCopy, ClaimsHold, WindowHolds, TypeOK
  <2>3. QED
    BY <2>1, <2>2, <1>t, <1>6 DEF PopCopy, Inv, TypeOK, PendingBounded, ClaimsHold,
       WindowHolds, PopsInOrder, producerVars
<1>7. CASE PopRetire
  BY <1>t, <1>7 DEF PopRetire, Inv, TypeOK, PendingBounded, ClaimsHold, WindowHolds,
     PopsInOrder, producerVars
<1>8. CASE UNCHANGED vars
  BY <1>t, <1>8 DEF vars, Inv, TypeOK, PendingBounded, ClaimsHold, WindowHolds, PopsInOrder
<1>9. QED
  BY <1>1, <1>2, <1>3, <1>4, <1>5, <1>6, <1>7, <1>8 DEF Next

(* The ring's inductive invariant holds in every reachable state.          *)
THEOREM InvHolds == Spec => []Inv
BY InitInv, NextInv, PTL DEF Spec

(* No slot is ever written and read at the same time, for every capacity.  *)
THEOREM SlotsNeverRace == Spec => []NoSlotRace
<1>1. Inv => NoSlotRace
  <2> SUFFICES ASSUME Inv, prodPc = "write", consPc = "copy",
                      SlotOf(tail) = SlotOf(head)
               PROVE  FALSE
    BY DEF NoSlotRace
  <2>1. head \in Nat /\ tail \in Nat /\ head < tail /\ tail < head + Capacity
    BY RingAssumption DEF Inv, TypeOK, ClaimsHold
  <2>2. QED  BY <2>1, SlotsDistinct
<1>2. QED  BY <1>1, InvHolds, PTL

(* Records are popped in the order they were published, none lost.         *)
THEOREM PoppedInOrder == Spec => []PopsInOrder
<1>1. Inv => PopsInOrder  BY DEF Inv
<1>2. QED  BY <1>1, InvHolds, PTL

(* pending() stays within the ring.                                        *)
THEOREM PendingIsBounded == Spec => []PendingBounded
<1>1. Inv => PendingBounded  BY DEF Inv
<1>2. QED  BY <1>1, InvHolds, PTL

------------------------------------------------------------------------------
(* The pending records are a sequence as long as the indexes are apart.    *)
LEMMA PendingSeq ==
  ASSUME Inv
  PROVE  /\ Pending \in Seq(Records)
         /\ Len(Pending) = tail - head
         /\ \A i \in 1 .. (tail - head) :
              Pending[i] = slots[SlotOf(head + (i - 1))]
<1>1. head \in Nat /\ tail \in Nat /\ tail - head \in Nat
  BY DEF Inv, TypeOK, PendingBounded
<1>2. \A i \in 1 .. (tail - head) : slots[SlotOf(head + (i - 1))] \in Records
  <2> TAKE i \in 1 .. (tail - head)
  <2>1. head + (i - 1) \in Nat  BY <1>1
  <2>2. QED  BY <2>1, SlotInRange DEF Inv, TypeOK
<1>3. QED  BY <1>1, <1>2 DEF Pending

(* A fresh ring is the empty queue.                                        *)
LEMMA InitMaps == Init => Abstract!QueueInit
BY DEF Init, Abstract!QueueInit, Pending

(* Every step of the ring is a step of the queue or changes nothing the    *)
(* queue shows: a record enters at the producer's release store, leaves at *)
(* the consumer's, and is refused at the check that finds the ring full.   *)
LEMMA StepMaps ==
  ASSUME Inv, Inv', [Next]_vars
  PROVE  [Abstract!QueueNext]_(Abstract!queueVars)
<1> USE RingAssumption
<1>n. head \in Nat /\ tail \in Nat /\ head <= tail
  BY DEF Inv, TypeOK, PendingBounded
<1>m. Pending' \in Seq(Records) /\ Len(Pending') = tail' - head'
  <2>0. TypeOK' /\ PendingBounded'
    BY DEF Inv
  <2>a. head' \in Nat /\ tail' \in Nat
    BY <2>0 DEF TypeOK
  <2>b. head' <= tail'
    BY <2>0 DEF PendingBounded
  <2>1. tail' - head' \in Nat
    <3>1. \A a, b \in Nat : a <= b => b - a \in Nat  OBVIOUS
    <3>2. QED  BY ONLY <2>a, <2>b, <3>1
  <2>2. \A i \in 1 .. (tail' - head') : slots'[SlotOf(head' + (i - 1))] \in Records
    <3> TAKE i \in 1 .. (tail' - head')
    <3>1. head' + (i - 1) \in Nat
      <4>1. i \in Nat \ {0}  BY <2>1
      <4>2. \A a \in Nat : a + (i - 1) \in Nat  BY <4>1
      <4>3. QED  BY <2>a, <4>2
    <3>2. QED  BY <3>1, <2>0, SlotInRange DEF TypeOK
  <2>3. QED  BY <2>1, <2>2 DEF Pending
<1>1. CASE \E r \in Records : PushClaim(r)
  BY <1>1 DEF PushClaim, Pending, Abstract!queueVars
<1>2. CASE PushRefuse
  <2>1. Pending' = Pending /\ dropped' = dropped + 1 /\ tail - head = Capacity
    BY <1>2 DEF PushRefuse, Pending, Full
  <2>2. Len(Pending) = Capacity
    BY <2>1, PendingSeq
  <2>3. QED  BY <2>1, <2>2 DEF Abstract!QueueNext, Abstract!Drop
<1>3. CASE PushWrite
  <2>1. \A i \in 1 .. (tail - head) :
          slots'[SlotOf(head + (i - 1))] = slots[SlotOf(head + (i - 1))]
    <3> TAKE i \in 1 .. (tail - head)
    <3>1. /\ head + (i - 1) \in Nat /\ head + (i - 1) < tail
          /\ tail < head + (i - 1) + Capacity
      BY <1>n, <1>3 DEF PushWrite, Inv, ClaimsHold
    <3>2. SlotOf(head + (i - 1)) # SlotOf(tail)
      BY <3>1, <1>n, SlotsDistinct
    <3>3. QED  BY <3>1, <3>2, <1>3, SlotInRange DEF PushWrite, Inv, TypeOK
  <2>2. Pending' = Pending
    BY <2>1, <1>3 DEF PushWrite, Pending
  <2>3. QED  BY <2>2, <1>3 DEF PushWrite, Abstract!queueVars
<1>4. CASE PushPublish
  <2>1. /\ tail' = tail + 1 /\ head' = head /\ slots' = slots /\ dropped' = dropped
        /\ prodRec \in Records /\ slots[SlotOf(tail)] = prodRec
        /\ tail - head < Capacity
    BY <1>4 DEF PushPublish, Inv, ClaimsHold, TypeOK
  <2>2. /\ Pending \in Seq(Records) /\ Len(Pending) = tail - head
        /\ Pending' = [i \in 1 .. (tail - head) + 1 |-> slots[SlotOf(head + (i - 1))]]
    BY <2>1, <1>n, PendingSeq DEF Pending
  <2>3. ASSUME NEW i \in 1 .. (tail - head) + 1
        PROVE  Pending'[i] = Append(Pending, prodRec)[i]
    <3>1. CASE i = (tail - head) + 1
      <4>1. head + (i - 1) = tail  BY <3>1, <1>n
      <4>2. QED  BY <4>1, <3>1, <2>1, <2>2, <1>n
    <3>2. CASE i \in 1 .. (tail - head)
      BY <3>2, <2>2, <1>n, PendingSeq
    <3>3. i \in Int /\ 1 <= i /\ i <= (tail - head) + 1 /\ tail - head \in Int
      BY <1>n
    <3>4. i = (tail - head) + 1 \/ i \in 1 .. (tail - head)
      BY <3>3
    <3>5. QED  BY <3>1, <3>2, <3>4
  <2>4. Pending' = Append(Pending, prodRec)
    <3>1. Append(Pending, prodRec) \in Seq(Records)
          /\ Len(Append(Pending, prodRec)) = (tail - head) + 1
      BY <2>1, <2>2, AppendProperties
    <3>2. tail' - head' = (tail - head) + 1
      BY <2>1, <1>n
    <3>3. QED  BY <3>1, <3>2, <2>3, <1>m, SeqEqual
  <2>5. QED  BY <2>1, <2>2, <2>4 DEF Abstract!QueueNext, Abstract!Push
<1>5. CASE PopClaim
  BY <1>5 DEF PopClaim, Pending, Abstract!queueVars
<1>6. CASE PopCopy
  BY <1>6 DEF PopCopy, Pending, Abstract!queueVars
<1>7. CASE PopRetire
  <2>1. /\ tail' = tail /\ head' = head + 1 /\ slots' = slots /\ dropped' = dropped
        /\ head < tail
    BY <1>7 DEF PopRetire, Inv, ClaimsHold
  <2>2. /\ Pending \in Seq(Records) /\ Len(Pending) = tail - head
        /\ Pending' = [i \in 1 .. (tail - head) - 1 |-> slots[SlotOf(head + i)]]
    <3>1. \A i \in 1 .. (tail - head) - 1 : (head + 1) + (i - 1) = head + i
      BY <1>n
    <3>2. Pending' = [i \in 1 .. (tail - (head + 1)) |-> slots[SlotOf((head + 1) + (i - 1))]]
      BY <2>1 DEF Pending
    <3>3. tail - (head + 1) = (tail - head) - 1
      BY <1>n
    <3>4. QED  BY <3>1, <3>2, <3>3, PendingSeq
  <2>3. ASSUME NEW i \in 1 .. (tail - head) - 1
        PROVE  Pending'[i] = Tail(Pending)[i]
    <3>1. i + 1 \in 1 .. (tail - head) /\ (i + 1) - 1 = i  BY <1>n
    <3>2. Tail(Pending)[i] = Pending[i + 1]  BY <2>2, <2>1, <1>n
    <3>3. QED  BY <3>1, <3>2, <2>2, PendingSeq
  <2>4. Pending # << >>
    BY <2>1, <2>2, <1>n, EmptySeq
  <2>5. Pending' = Tail(Pending)
    <3>1. Tail(Pending) \in Seq(Records) /\ Len(Tail(Pending)) = (tail - head) - 1
      BY <2>2, <2>4, HeadTailProperties
    <3>2. tail' - head' = (tail - head) - 1
      BY <2>1, <1>n
    <3>3. QED  BY <3>1, <3>2, <2>3, <1>m, SeqEqual
  <2>6. QED  BY <2>1, <2>4, <2>5 DEF Abstract!QueueNext, Abstract!Pop
<1>8. CASE UNCHANGED vars
  BY <1>8 DEF vars, Pending, Abstract!queueVars
<1>9. QED
  BY <1>1, <1>2, <1>3, <1>4, <1>5, <1>6, <1>7, <1>8 DEF Next

(* The ring implements the bounded FIFO of SpscQueue for every capacity    *)
(* and every interleaving of the two threads.                              *)
THEOREM RingImplementsQueue == Spec => ImplementsQueue
BY InitMaps, StepMaps, InvHolds, PTL DEF Spec, ImplementsQueue, Abstract!QueueSpec
==============================================================================
