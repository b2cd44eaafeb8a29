------------------------- MODULE ClientSessionProofs -------------------------
(***************************************************************************)
(* The trading client against its engine, for every feed, every number of  *)
(* books, every wire and every counter.                                    *)
(***************************************************************************)
EXTENDS ClientSession, FiniteSetTheorems, SequenceTheorems, TLAPS

Id == Sides \X Nat
Order == [id : Id, px : Nat, state : {"PendingNew", "Live", "PendingCancel"}]

Slate ==
  [epoch : Nat, symbol : {"traded", "foreign"}, orders : Seq(Order),
   current : [Sides -> Id \cup {NoId}], nextCl : [Sides -> Nat],
   rejected : [Sides -> Nat], inSeq : Nat, mdSeq : Nat, seenTob : BOOLEAN,
   bid : Nat, ask : Nat, stopped : BOOLEAN, swept : BOOLEAN]

Command == [type : {"NewOrder", "CancelOrder"}, id : Id]

------------------------------------------------------------------------------
(* What the client's own state keeps by itself.                            *)

(* An order id is in the dict once and was given out by its side; a side   *)
(* opens at most one order per accepted book.                              *)
Distinct(st) ==
  \A i, j \in 1 .. Len(st.orders) : st.orders[i].id = st.orders[j].id => i = j
GivenOut(st, id) == id[2] >= 1 /\ id[2] <= st.nextCl[id[1]]
Numbered(st) ==
  /\ \A i \in 1 .. Len(st.orders) : GivenOut(st, st.orders[i].id)
  /\ \A s \in Sides : st.nextCl[s] <= st.mdSeq

(* What holds a side is known; an undecided order holds its side, one that *)
(* is being pulled does not unless the stale sweep pulled it.              *)
Holding(st) ==
  /\ \A s \in Sides : \/ st.current[s] = NoId
                      \/ SideOf(st.current[s]) = s /\ st.current[s] \in KnownIds(st)
  /\ \A i \in 1 .. Len(st.orders) :
       /\ st.orders[i].state = "PendingNew" =>
            st.current[SideOf(st.orders[i].id)] = st.orders[i].id
       /\ st.orders[i].state = "PendingCancel" /\ ~st.swept =>
            st.current[SideOf(st.orders[i].id)] # st.orders[i].id

(* A side with a barrier has no order.                                     *)
Barred(st) == \A s \in Sides : st.rejected[s] # NoPx => st.current[s] = NoId

(* There is no order without a book, and an undecided one that is off the  *)
(* book leaves a number for its successor.                                 *)
Priced(st) ==
  /\ st.orders # << >> => st.bid > 0 /\ st.ask > 0
  /\ \A i \in 1 .. Len(st.orders) :
       st.orders[i].state = "PendingNew"
         /\ st.orders[i].px # Desired(st, SideOf(st.orders[i].id))
       => st.nextCl[SideOf(st.orders[i].id)] < st.mdSeq

Sound(st) ==
  /\ Distinct(st) /\ Numbered(st) /\ Holding(st) /\ Barred(st) /\ Priced(st)
  /\ st.swept => st.stopped

(* A live order that holds its side is at the price of the book.           *)
FreshOn(st, side) ==
  \A i \in 1 .. Len(st.orders) :
    st.orders[i].state = "Live" /\ st.current[side] = st.orders[i].id /\ ~Locked(st)
    => st.orders[i].px = Desired(st, side)
Fresh(st) == \A s \in Sides : FreshOn(st, s)

------------------------------------------------------------------------------
(* The dict of orders.                                                     *)

(* The lookup of an order in the dict.                                     *)
LEMMA LookupDoes ==
  ASSUME NEW st \in Slate, Distinct(st), NEW i \in 1 .. Len(st.orders)
  PROVE  /\ Place(st, st.orders[i].id) = i
         /\ st.orders[i].id \in KnownIds(st)
         /\ Lookup(st, st.orders[i].id) = st.orders[i]
<1>1. \E j \in 1 .. Len(st.orders) : st.orders[j].id = st.orders[i].id
  OBVIOUS
<1>2. /\ Place(st, st.orders[i].id) \in 1 .. Len(st.orders)
      /\ st.orders[Place(st, st.orders[i].id)].id = st.orders[i].id
  BY <1>1 DEF Place
<1>3. Place(st, st.orders[i].id) = i
  BY <1>2 DEF Distinct
<1>4. QED  BY <1>3 DEF KnownIds, Lookup

(* An order is not the absence of one.                                     *)
LEMMA KnownHasPlace ==
  ASSUME NEW st \in Slate, Distinct(st), NEW id \in KnownIds(st)
  PROVE  \E i \in 1 .. Len(st.orders) :
           /\ st.orders[i].id = id /\ st.orders[i] \in Order
           /\ Lookup(st, id) = st.orders[i] /\ Lookup(st, id) # NoOrder
           /\ Place(st, id) = i
<1>1. PICK i \in 1 .. Len(st.orders) : st.orders[i].id = id
  BY DEF KnownIds
<1>2. st.orders[i] \in Order
  BY DEF Slate
<1>3. st.orders[i] # NoOrder
  BY <1>2 DEF Order, NoOrder, NoId, Id, Sides
<1>4. QED  BY <1>1, <1>2, <1>3, LookupDoes

Marked(orders, ids, state) ==
  [i \in 1 .. Len(orders) |->
     IF orders[i].id \in ids THEN [orders[i] EXCEPT !.state = state] ELSE orders[i]]

(* q holds the orders of st, with another state for those of ids.          *)
Remarks(st, ids, state, q) ==
  /\ q \in Seq(Order) /\ Len(q) = Len(st.orders)
  /\ \A i \in 1 .. Len(st.orders) :
       /\ q[i].id = st.orders[i].id /\ q[i].px = st.orders[i].px
       /\ q[i].state = IF st.orders[i].id \in ids THEN state ELSE st.orders[i].state

(* SetState changes nothing but the state of the orders it is told.        *)
LEMMA MarkedDoes ==
  ASSUME NEW st \in Slate, NEW ids, NEW state \in {"PendingNew", "Live", "PendingCancel"}
  PROVE  Remarks(st, ids, state, Marked(st.orders, ids, state))
<1> DEFINE q == Marked(st.orders, ids, state)
<1>1. st.orders \in Seq(Order)
  BY DEF Slate
<1>2. \A i \in 1 .. Len(st.orders) :
        /\ q[i] \in Order /\ q[i].id = st.orders[i].id /\ q[i].px = st.orders[i].px
        /\ q[i].state = IF st.orders[i].id \in ids THEN state ELSE st.orders[i].state
  <2>1. TAKE i \in 1 .. Len(st.orders)
  <2>2. st.orders[i] \in Order
    BY <1>1
  <2>3. q[i] = IF st.orders[i].id \in ids THEN [st.orders[i] EXCEPT !.state = state]
               ELSE st.orders[i]
    BY DEF Marked
  <2>4. QED  BY <2>2, <2>3 DEF Order
<1>3. q \in Seq(Order) /\ Len(q) = Len(st.orders)
  <2>1. q = [i \in 1 .. Len(st.orders) |-> q[i]]
    BY DEF Marked
  <2>2. Len(st.orders) \in Nat
    BY <1>1
  <2>3. q \in [1 .. Len(st.orders) -> Order]
    BY <1>2, <2>1
  <2>4. QED  BY <2>2, <2>3
<1>4. QED  BY <1>2, <1>3 DEF Remarks

------------------------------------------------------------------------------
(* What a decision on a side does.                                         *)

SameBook(st, t) ==
  /\ t.epoch = st.epoch /\ t.symbol = st.symbol /\ t.inSeq = st.inSeq
  /\ t.mdSeq = st.mdSeq /\ t.seenTob = st.seenTob /\ t.bid = st.bid /\ t.ask = st.ask
  /\ t.stopped = st.stopped /\ t.swept = st.swept

NextId(st, side) == <<side, st.nextCl[side] + 1>>
NewCmd(id) == [type |-> "NewOrder", id |-> id]
Fixed(id, px) == [id |-> id, px |-> px, state |-> "PendingNew"]

(* t is st with a new order on a side, and its older orders as in q.       *)
Opens(st, side, q, t) ==
  /\ t \in Slate /\ SameBook(st, t)
  /\ t.orders = Append(q, Fixed(NextId(st, side), Desired(st, side)))
  /\ t.current = [st.current EXCEPT ![side] = NextId(st, side)]
  /\ t.nextCl = [st.nextCl EXCEPT ![side] = @ + 1]
  /\ t.rejected = [st.rejected EXCEPT ![side] = NoPx]

(* The side stays as it is, but for the barrier.                           *)
Keeps(st, side, t) ==
  /\ t \in Slate /\ SameBook(st, t)
  /\ t.orders = st.orders /\ t.current = st.current /\ t.nextCl = st.nextCl
  /\ t.rejected \in {st.rejected, [st.rejected EXCEPT ![side] = NoPx]}

Quiet(st, side) ==
  \/ st.rejected[side] = Desired(st, side)
  \/ Locked(st)
  \/ \E i \in 1 .. Len(st.orders) :
       /\ st.orders[i].id = st.current[side]
       /\ st.orders[i].state = "PendingNew" \/ st.orders[i].px = Desired(st, side)

Amends(st, side, i) ==
  /\ st.orders[i].id = st.current[side] /\ st.orders[i].state = "Live"
  /\ st.orders[i].px # Desired(st, side)

(* The three outcomes of a decision.                                       *)
Decision(st, side, r) ==
  /\ r.stop = "none"
  /\ \/ Keeps(st, side, r.st) /\ Quiet(st, side) /\ r.cmds = << >>
     \/ /\ st.current[side] = NoId /\ ~Locked(st)
        /\ Opens(st, side, st.orders, r.st)
        /\ r.cmds = <<NewCmd(NextId(st, side))>>
     \/ \E i \in 1 .. Len(st.orders) :
          /\ Amends(st, side, i) /\ ~Locked(st)
          /\ Opens(st, side, Marked(st.orders, {st.current[side]}, "PendingCancel"), r.st)
          /\ r.cmds = <<CancelCmd(st.current[side]), NewCmd(NextId(st, side))>>

(* One command after another.                                              *)
LEMMA TwoCommands ==
  ASSUME NEW a, NEW b
  PROVE  <<a>> \o <<b>> = <<a, b>>
<1> DEFINE S == {a, b}
<1>1. <<a>> \in Seq(S) /\ <<b>> \in Seq(S) /\ <<a, b>> \in Seq(S)
  OBVIOUS
<1>2. /\ Len(<<a>>) = 1 /\ Len(<<b>>) = 1 /\ Len(<<a, b>>) = 2
      /\ <<a>>[1] = a /\ <<b>>[1] = b /\ <<a, b>>[1] = a /\ <<a, b>>[2] = b
  OBVIOUS
<1>3. /\ <<a>> \o <<b>> \in Seq(S) /\ Len(<<a>> \o <<b>>) = 2
      /\ (<<a>> \o <<b>>)[1] = a /\ (<<a>> \o <<b>>)[2] = b
  BY <1>1, <1>2, ConcatProperties
<1>4. \A i \in 1 .. 2 : (<<a>> \o <<b>>)[i] = <<a, b>>[i]
  BY <1>2, <1>3
<1>5. QED  BY <1>1, <1>2, <1>3, <1>4, SeqEqual

(* _new on a slate whose older orders are q.                               *)
LEMMA NewDoes ==
  ASSUME NEW st \in Slate, NEW side \in Sides, NEW q \in Seq(Order), NEW u,
         u = [[st EXCEPT !.rejected[side] = NoPx] EXCEPT !.orders = q]
  PROVE  /\ New(u, side, Desired(st, side)).cmds = <<NewCmd(NextId(st, side))>>
         /\ Opens(st, side, q, New(u, side, Desired(st, side)).st)
<1> DEFINE n == NextId(st, side)
           px == Desired(st, side)
           t == [u EXCEPT !.nextCl[side] = @ + 1, !.current[side] = n,
                          !.orders = Append(@, Fixed(n, px))]
<1>1. /\ u \in Slate /\ SameBook(st, u) /\ u.orders = q /\ u.current = st.current
      /\ u.nextCl = st.nextCl /\ u.rejected = [st.rejected EXCEPT ![side] = NoPx]
  BY DEF Slate, SameBook, NoPx
<1>2. n \in Id /\ px \in Nat
  BY DEF NextId, Id, Slate, Desired
<1>3. Append(q, Fixed(n, px)) \in Seq(Order)
  BY <1>2 DEF Fixed, Order
<1>4. /\ [u.nextCl EXCEPT ![side] = @ + 1] \in [Sides -> Nat]
      /\ [u.current EXCEPT ![side] = n] \in [Sides -> Id \cup {NoId}]
  <2> HIDE DEF n
  <2>1. /\ u.nextCl \in [Sides -> Nat]
        /\ u.current \in [Sides -> Id \cup {NoId}]
    BY <1>1 DEF Slate
  <2>2. u.nextCl[side] + 1 \in Nat
    BY <2>1
  <2>3. [u.nextCl EXCEPT ![side] = @ + 1] \in [Sides -> Nat]
    BY <2>1, <2>2
  <2>4. [u.current EXCEPT ![side] = n] \in [Sides -> Id \cup {NoId}]
    BY <1>2, <2>1
  <2>5. QED  BY <2>3, <2>4
<1>5. t = [[[u EXCEPT !.nextCl = [u.nextCl EXCEPT ![side] = @ + 1]]
               EXCEPT !.current = [u.current EXCEPT ![side] = n]]
               EXCEPT !.orders = Append(q, Fixed(n, px))]
  BY <1>1 DEF Slate
<1>6. t \in Slate
  BY <1>1, <1>3, <1>4, <1>5, ZenonT(60) DEF Slate
<1>7. /\ SameBook(u, t) /\ t.rejected = u.rejected
      /\ t.orders = Append(q, Fixed(n, px))
      /\ t.current = [u.current EXCEPT ![side] = n]
      /\ t.nextCl = [u.nextCl EXCEPT ![side] = @ + 1]
  BY <1>1, <1>5 DEF Slate, SameBook
<1>8. Opens(st, side, q, t)
  BY <1>1, <1>6, <1>7 DEF Opens, SameBook
<1>9. NextId(u, side) = n
  BY <1>1 DEF NextId
<1>10. New(u, side, px) = [st |-> t, stop |-> "none", cmds |-> <<NewCmd(n)>>]
  BY <1>9 DEF New, Result, NextId, Fixed, NewCmd
<1>11. QED  BY <1>8, <1>10

(* _quote has the three outcomes of a decision.                            *)
LEMMA QuoteDoes ==
  ASSUME NEW st \in Slate, Sound(st), st.swept = FALSE, NEW side \in Sides
  PROVE  Decision(st, side, Quote(st, side))
<1> DEFINE px == Desired(st, side)
           lifted == [st EXCEPT !.rejected[side] = NoPx]
           kept == IF st.rejected[side] = px THEN st ELSE lifted
           resting == CurrentOrder(st, side)
<1>1. Distinct(st) /\ Holding(st)
  BY DEF Sound
<1>2. /\ lifted \in Slate /\ SameBook(st, lifted) /\ lifted.orders = st.orders
      /\ lifted.current = st.current /\ lifted.nextCl = st.nextCl
      /\ lifted.rejected = [st.rejected EXCEPT ![side] = NoPx]
  BY DEF Slate, SameBook, NoPx
<1>3. Keeps(st, side, kept)
  BY <1>2 DEF Keeps, SameBook
<1>4. CASE st.current[side] = NoId
  <2>1. NoId \notin KnownIds(st)
    <3>1. \A i \in 1 .. Len(st.orders) : st.orders[i] \in Order
      BY DEF Slate
    <3>2. \A i \in 1 .. Len(st.orders) : st.orders[i].id # NoId
      BY <3>1 DEF Order, Id, NoId, Sides
    <3>3. QED  BY <3>2 DEF KnownIds
  <2>2. resting = NoOrder
    BY <1>4, <2>1 DEF CurrentOrder, Lookup
  <2>3. CASE st.rejected[side] = px \/ Locked(st)
    <3>1. Quote(st, side) = Silence(kept)
      BY <2>3 DEF Quote
    <3>2. Quote(st, side).stop = "none" /\ Quote(st, side).st = kept /\ Quote(st, side).cmds = << >>
      BY <3>1 DEF Silence, Result
    <3>3. Quiet(st, side)
      BY <2>3 DEF Quiet
    <3>4. QED  BY <1>3, <3>2, <3>3 DEF Decision
  <2>4. CASE st.rejected[side] # px /\ ~Locked(st)
    <3>1. Quote(st, side) = New(lifted, side, px)
      BY <2>2, <2>4 DEF Quote
    <3>2. lifted = [[st EXCEPT !.rejected[side] = NoPx] EXCEPT !.orders = st.orders]
      BY DEF Slate
    <3>3. st.orders \in Seq(Order)
      BY DEF Slate
    <3>4. /\ New(lifted, side, px).cmds = <<NewCmd(NextId(st, side))>>
          /\ Opens(st, side, st.orders, New(lifted, side, px).st)
      <4> HIDE DEF lifted
      <4>1. QED  BY <3>2, <3>3, NewDoes
    <3>5. Quote(st, side).stop = "none"
      BY <3>1 DEF New, Result
    <3>6. QED  BY <1>4, <2>4, <3>1, <3>4, <3>5 DEF Decision
  <2>5. QED  BY <2>3, <2>4
<1>5. CASE st.current[side] # NoId
  <2>1. st.current[side] \in KnownIds(st) /\ SideOf(st.current[side]) = side
    BY <1>1, <1>5 DEF Holding
  <2>2. PICK i \in 1 .. Len(st.orders) :
          /\ st.orders[i].id = st.current[side] /\ st.orders[i] \in Order
          /\ resting = st.orders[i] /\ resting # NoOrder
    BY <1>1, <2>1, KnownHasPlace DEF CurrentOrder
  <2>3. CASE Quiet(st, side)
    <3>1. st.rejected[side] = px \/ Locked(st) \/ Waits(resting, px)
      <4>1. ASSUME NEW j \in 1 .. Len(st.orders), st.orders[j].id = st.current[side]
            PROVE  j = i
        BY <1>1, <2>2, <4>1 DEF Distinct
      <4>2. QED  BY <2>2, <2>3, <4>1 DEF Quiet, Waits
    <3>2. Quote(st, side) = Silence(kept)
      BY <2>2, <3>1 DEF Quote
    <3>3. Quote(st, side).stop = "none" /\ Quote(st, side).st = kept /\ Quote(st, side).cmds = << >>
      BY <3>2 DEF Silence, Result
    <3>4. QED  BY <1>3, <2>3, <3>3 DEF Decision
  <2>4. CASE ~Quiet(st, side)
    <3>1. /\ st.rejected[side] # px /\ ~Locked(st) /\ ~Waits(resting, px)
          /\ st.orders[i].state # "PendingNew" /\ st.orders[i].px # px
      BY <2>2, <2>4 DEF Quiet, Waits
    <3>2. st.orders[i].state # "PendingCancel"
      BY <1>1, <2>1, <2>2 DEF Holding
    <3>3. st.orders[i].state = "Live"
      BY <2>2, <3>1, <3>2 DEF Order
    <3>4. Amends(st, side, i)
      BY <2>2, <3>1, <3>3 DEF Amends
    <3> DEFINE q == Marked(st.orders, {st.current[side]}, "PendingCancel")
               u == [lifted EXCEPT !.orders = q]
    <3>5. /\ SetState(lifted, {st.current[side]}, "PendingCancel") = u
          /\ q \in Seq(Order)
      <4>1. q \in Seq(Order)
        BY MarkedDoes DEF Remarks
      <4>2. q = Marked(lifted.orders, {st.current[side]}, "PendingCancel")
        BY <1>2
      <4>3. SetState(lifted, {st.current[side]}, "PendingCancel") = [lifted EXCEPT !.orders = q]
        <5> HIDE DEF lifted, q
        <5>1. SetState(lifted, {st.current[side]}, "PendingCancel")
                = [lifted EXCEPT !.orders = Marked(lifted.orders, {st.current[side]}, "PendingCancel")]
          BY DEF SetState, Marked
        <5>2. QED  BY <4>2, <5>1
      <4>4. QED  BY <4>1, <4>3
    <3>6. /\ Cancel(lifted, resting.id).st = u
          /\ Cancel(lifted, resting.id).cmds = <<CancelCmd(st.current[side])>>
      BY <2>2, <3>5 DEF Cancel, Result
    <3>7. /\ New(u, side, px).cmds = <<NewCmd(NextId(st, side))>>
          /\ Opens(st, side, q, New(u, side, px).st)
      BY <3>5, NewDoes
    <3>8. Quote(st, side) =
            Result(New(u, side, px).st, "none",
                   <<CancelCmd(st.current[side])>> \o <<NewCmd(NextId(st, side))>>)
      BY <2>2, <3>1, <3>6, <3>7 DEF Quote
    <3> HIDE DEF u
    <3>9. <<CancelCmd(st.current[side])>> \o <<NewCmd(NextId(st, side))>>
             = <<CancelCmd(st.current[side]), NewCmd(NextId(st, side))>>
      BY TwoCommands
    <3>10. PICK t, c : t = New(u, side, px).st /\ c = <<CancelCmd(st.current[side]), NewCmd(NextId(st, side))>>
      OBVIOUS
    <3>11. Quote(st, side) = [st |-> t, stop |-> "none", cmds |-> c]
      BY <3>8, <3>9, <3>10 DEF Result
    <3>12. /\ Quote(st, side).stop = "none" /\ Quote(st, side).st = New(u, side, px).st
          /\ Quote(st, side).cmds = <<CancelCmd(st.current[side]), NewCmd(NextId(st, side))>>
      BY <3>10, <3>11
    <3>13. QED  BY <3>1, <3>4, <3>7, <3>12 DEF Decision
  <2>5. QED  BY <2>3, <2>4
<1>6. QED  BY <1>4, <1>5

(* q holds the orders of st, the one that holds the side being pulled.     *)
Alike(st, side, q) ==
  /\ q \in Seq(Order) /\ Len(q) = Len(st.orders)
  /\ \A i \in 1 .. Len(st.orders) :
       /\ q[i].id = st.orders[i].id /\ q[i].px = st.orders[i].px
       /\ q[i].state = IF st.orders[i].id = st.current[side] THEN "PendingCancel"
                       ELSE st.orders[i].state

Settled(st, side) ==
  \A i \in 1 .. Len(st.orders) :
    st.orders[i].id = st.current[side] => st.orders[i].state = "Live"

(* The orders of the dict have the type of an order.                       *)
LEMMA OrdersTyped ==
  ASSUME NEW st \in Slate
  PROVE  /\ st.orders \in Seq(Order) /\ Len(st.orders) \in Nat
         /\ \A i \in 1 .. Len(st.orders) :
              /\ st.orders[i] \in Order /\ st.orders[i].id \in Id
              /\ st.orders[i].px \in Nat /\ st.orders[i].id # NoId
              /\ SideOf(st.orders[i].id) \in Sides
<1>1. st.orders \in Seq(Order)
  BY DEF Slate
<1>2. Len(st.orders) \in Nat
  BY <1>1
<1>3. \A i \in 1 .. Len(st.orders) : st.orders[i] \in Order
  BY <1>1
<1>4. QED  BY <1>1, <1>2, <1>3 DEF Order, Id, NoId, Sides, SideOf

(* The orders after one was opened.                                        *)
LEMMA OpensOrders ==
  ASSUME NEW st \in Slate, NEW side \in Sides, NEW q, Alike(st, side, q), NEW t,
         Opens(st, side, q, t)
  PROVE  /\ Len(t.orders) = Len(st.orders) + 1 /\ Len(st.orders) \in Nat
         /\ \A i \in 1 .. Len(st.orders) :
              /\ t.orders[i].id = st.orders[i].id /\ t.orders[i].px = st.orders[i].px
              /\ t.orders[i].state = IF st.orders[i].id = st.current[side]
                                     THEN "PendingCancel" ELSE st.orders[i].state
         /\ t.orders[Len(st.orders) + 1] = Fixed(NextId(st, side), Desired(st, side))
         /\ KnownIds(t) = KnownIds(st) \cup {NextId(st, side)}
<1> DEFINE f == Fixed(NextId(st, side), Desired(st, side))
           n == Len(st.orders)
<1>1. q \in Seq(Order) /\ Len(q) = n /\ n \in Nat
  BY OrdersTyped DEF Alike
<1>2. t.orders = Append(q, f)
  BY DEF Opens
<1>3. f \in Order /\ f.id = NextId(st, side)
  BY DEF Fixed, Order, NextId, Id, Slate, Desired
<1>4. /\ Len(t.orders) = n + 1 /\ t.orders[n + 1] = f
      /\ \A i \in 1 .. n : t.orders[i] = q[i]
  <2> HIDE DEF f
  <2>1. QED  BY <1>1, <1>2, <1>3, AppendProperties
<1>5. \A i \in 1 .. n : t.orders[i].id = st.orders[i].id
  BY <1>4 DEF Alike
<1>6. KnownIds(t) = KnownIds(st) \cup {NextId(st, side)}
  <2>1. KnownIds(t) = {t.orders[i].id : i \in 1 .. n + 1}
    BY <1>4 DEF KnownIds
  <2>2. 1 .. n + 1 = (1 .. n) \cup {n + 1}
    BY <1>1
  <2>3. {t.orders[i].id : i \in 1 .. n + 1} = {t.orders[i].id : i \in 1 .. n} \cup {t.orders[n + 1].id}
    BY <2>2
  <2>4. {t.orders[i].id : i \in 1 .. n} = KnownIds(st)
    BY <1>5 DEF KnownIds
  <2>5. t.orders[n + 1].id = NextId(st, side)
    BY <1>3, <1>4
  <2>6. QED  BY <2>1, <2>3, <2>4, <2>5
<1>7. QED  BY <1>1, <1>4, <1>5, <1>6 DEF Alike

(* Opening an order keeps the slate sound and its side fresh.              *)
LEMMA OpensKeeps ==
  ASSUME NEW st \in Slate, Sound(st), st.swept = FALSE, NEW side \in Sides,
         NEW q, Alike(st, side, q), NEW t, Opens(st, side, q, t), Settled(st, side),
         st.nextCl[side] < st.mdSeq, st.bid > 0, st.ask > 0
  PROVE  /\ Sound(t) /\ FreshOn(t, side)
         /\ \A s \in Sides : s # side /\ FreshOn(st, s) => FreshOn(t, s)
<1> DEFINE n == Len(st.orders)
           new == NextId(st, side)
<1>1. /\ Len(t.orders) = n + 1 /\ n \in Nat /\ KnownIds(t) = KnownIds(st) \cup {new}
      /\ \A i \in 1 .. n :
              /\ t.orders[i].id = st.orders[i].id /\ t.orders[i].px = st.orders[i].px
              /\ t.orders[i].state = IF st.orders[i].id = st.current[side]
                                     THEN "PendingCancel" ELSE st.orders[i].state
      /\ t.orders[n + 1] = Fixed(new, Desired(st, side))
  BY OpensOrders
<1>2. /\ t.orders[n + 1].id = new /\ t.orders[n + 1].px = Desired(st, side)
      /\ t.orders[n + 1].state = "PendingNew" /\ new[1] = side
      /\ new[2] = st.nextCl[side] + 1 /\ st.nextCl[side] \in Nat /\ new \in Id
  BY <1>1 DEF Fixed, NextId, Slate, Id
<1>3. /\ t \in Slate /\ SameBook(st, t)
      /\ t.current = [st.current EXCEPT ![side] = new]
      /\ t.nextCl = [st.nextCl EXCEPT ![side] = @ + 1]
      /\ t.rejected = [st.rejected EXCEPT ![side] = NoPx]
  BY DEF Opens
<1>4. /\ t.current[side] = new /\ t.nextCl[side] = st.nextCl[side] + 1
      /\ t.rejected[side] = NoPx
      /\ \A s \in Sides : s # side => /\ t.current[s] = st.current[s]
                                      /\ t.nextCl[s] = st.nextCl[s]
                                      /\ t.rejected[s] = st.rejected[s]
      /\ \A s \in Sides : Desired(t, s) = Desired(st, s)
      /\ Locked(t) = Locked(st)
  BY <1>3 DEF Slate, SameBook, Desired, Locked
<1>5. /\ Distinct(st) /\ Numbered(st) /\ Holding(st) /\ Barred(st) /\ Priced(st)
  BY DEF Sound
<1>6. \A i \in 1 .. n : /\ st.orders[i].id \in Id /\ st.orders[i].id # new
                        /\ SideOf(st.orders[i].id) \in Sides
  BY <1>2, <1>5, OrdersTyped DEF Numbered, GivenOut, Id
<1>7. \A i \in 1 .. n + 1 : i = n + 1 \/ i \in 1 .. n
  BY <1>1
<1>8. Distinct(t)
  <2>1. ASSUME NEW i \in 1 .. n + 1, NEW j \in 1 .. n + 1, t.orders[i].id = t.orders[j].id
        PROVE  i = j
    <3>1. CASE i = n + 1
      BY <1>1, <1>2, <1>6, <1>7, <2>1, <3>1
    <3>2. CASE j = n + 1
      BY <1>1, <1>2, <1>6, <1>7, <2>1, <3>2
    <3>3. CASE i \in 1 .. n /\ j \in 1 .. n
      BY <1>1, <1>5, <2>1, <3>3 DEF Distinct
    <3>4. QED  BY <1>7, <3>1, <3>2, <3>3
  <2>2. QED  BY <1>1, <2>1 DEF Distinct
<1>9. Numbered(t)
  <2>1. \A s \in Sides : t.nextCl[s] <= t.mdSeq /\ st.nextCl[s] <= t.nextCl[s]
    BY <1>2, <1>3, <1>4, <1>5, SMTT(60) DEF Numbered, Slate, SameBook
  <2>2. \A i \in 1 .. n + 1 : GivenOut(t, t.orders[i].id)
    <3>1. TAKE i \in 1 .. n + 1
    <3>2. CASE i = n + 1
      BY <1>2, <1>4, <3>2 DEF GivenOut
    <3>3. CASE i \in 1 .. n
      <4>1. GivenOut(st, st.orders[i].id) /\ st.orders[i].id \in Id
        BY <1>5, <1>6, <3>3 DEF Numbered
      <4>2. st.nextCl[st.orders[i].id[1]] <= t.nextCl[st.orders[i].id[1]]
        BY <2>1, <4>1 DEF Id
      <4>3. t.orders[i].id = st.orders[i].id
        BY <1>1, <3>3
      <4>4. st.nextCl \in [Sides -> Nat] /\ t.nextCl \in [Sides -> Nat]
        BY <1>3 DEF Slate
      <4>5. QED  BY <4>1, <4>2, <4>3, <4>4, SMTT(60) DEF GivenOut, Id
    <3>4. QED  BY <1>7, <3>2, <3>3
  <2>3. QED  BY <1>1, <2>1, <2>2 DEF Numbered
<1>10. Holding(t)
  <2>1. \A s \in Sides : \/ t.current[s] = NoId
                         \/ SideOf(t.current[s]) = s /\ t.current[s] \in KnownIds(t)
    BY <1>1, <1>2, <1>4, <1>5 DEF Holding, SideOf
  <2>2. ASSUME NEW i \in 1 .. n + 1
        PROVE  /\ t.orders[i].state = "PendingNew" =>
                    t.current[SideOf(t.orders[i].id)] = t.orders[i].id
               /\ t.orders[i].state = "PendingCancel" =>
                    t.current[SideOf(t.orders[i].id)] # t.orders[i].id
    <3>1. CASE i = n + 1
      BY <1>2, <1>4, <3>1 DEF SideOf
    <3>2. CASE i \in 1 .. n
      <4> DEFINE id == st.orders[i].id
      <4>1. t.orders[i].id = id /\ SideOf(id) \in Sides /\ id # new
        BY <1>1, <1>6, <3>2
      <4>2. CASE SideOf(id) = side
        <5>1. t.orders[i].state # "PendingNew"
          BY <1>1, <1>5, <3>2, <4>2 DEF Holding, Settled
        <5>2. t.current[SideOf(id)] # id
          BY <1>4, <4>1, <4>2
        <5>3. QED  BY <4>1, <5>1, <5>2
      <4>3. CASE SideOf(id) # side
        <5>1. t.current[SideOf(id)] = st.current[SideOf(id)]
          BY <1>4, <4>1, <4>3
        <5>2. st.current[side] # id
          BY <1>5, <4>1, <4>3, OrdersTyped, <3>2 DEF Holding
        <5>3. t.orders[i].state = st.orders[i].state
          BY <1>1, <3>2, <5>2
        <5>4. QED  BY <1>5, <3>2, <4>1, <5>1, <5>3 DEF Holding
      <4>4. QED  BY <4>2, <4>3
    <3>3. QED  BY <1>7, <3>1, <3>2
  <2>3. QED  BY <1>1, <2>1, <2>2 DEF Holding
<1>11. Barred(t)
  BY <1>4, <1>5 DEF Barred
<1>12. Priced(t)
  <2>1. t.bid > 0 /\ t.ask > 0 /\ t.mdSeq = st.mdSeq
    BY <1>3 DEF SameBook
  <2>2. ASSUME NEW i \in 1 .. n + 1, t.orders[i].state = "PendingNew",
               t.orders[i].px # Desired(t, SideOf(t.orders[i].id))
        PROVE  t.nextCl[SideOf(t.orders[i].id)] < t.mdSeq
    <3>1. i \in 1 .. n
      BY <1>2, <1>4, <1>7, <2>2 DEF SideOf
    <3>2. /\ st.orders[i].state = "PendingNew" /\ t.orders[i].id = st.orders[i].id
          /\ st.orders[i].px = t.orders[i].px /\ st.orders[i].id # st.current[side]
          /\ SideOf(st.orders[i].id) \in Sides
      BY <1>1, <1>6, <2>2, <3>1
    <3>3. SideOf(st.orders[i].id) # side
      BY <1>5, <3>1, <3>2 DEF Holding
    <3>4. QED  BY <1>4, <1>5, <2>1, <2>2, <3>1, <3>2, <3>3 DEF Priced
  <2>3. QED  BY <1>1, <2>1, <2>2 DEF Priced
<1>13. FreshOn(t, side)
  <2>1. \A i \in 1 .. n + 1 : t.orders[i].state = "Live" => t.current[side] # t.orders[i].id
    BY <1>1, <1>2, <1>4, <1>6, <1>7
  <2>2. QED  BY <1>1, <2>1 DEF FreshOn
<1>14. ASSUME NEW s \in Sides, s # side, FreshOn(st, s)
       PROVE  FreshOn(t, s)
  <2>1. ASSUME NEW i \in 1 .. n + 1, t.orders[i].state = "Live", t.current[s] = t.orders[i].id,
               ~Locked(t)
        PROVE  t.orders[i].px = Desired(t, s)
    <3>1. i \in 1 .. n
      BY <1>2, <1>7, <2>1
    <3>2. st.orders[i].state = "Live"
      BY <1>1, <2>1, <3>1
    <3>3. st.current[s] = st.orders[i].id
      BY <1>1, <1>4, <1>14, <2>1, <3>1
    <3>4. QED  BY <1>1, <1>4, <1>14, <2>1, <3>1, <3>2, <3>3 DEF FreshOn
  <2>2. QED  BY <1>1, <2>1 DEF FreshOn
<1>15. t.swept => t.stopped
  BY <1>3 DEF SameBook
<1>16. QED  BY <1>8, <1>9, <1>10, <1>11, <1>12, <1>13, <1>14, <1>15 DEF Sound

(* The two outcomes that matter: the side is left alone, or it is opened.  *)
LEMMA DecisionIs ==
  ASSUME NEW st \in Slate, Sound(st), NEW side \in Sides, NEW r, Decision(st, side, r)
  PROVE  \/ Keeps(st, side, r.st) /\ Quiet(st, side) /\ r.cmds = << >>
         \/ \E q :
              /\ Alike(st, side, q) /\ Opens(st, side, q, r.st) /\ Settled(st, side)
              /\ ~Quiet(st, side) \/ st.current[side] = NoId
              /\ \/ /\ st.current[side] = NoId
                    /\ r.cmds = <<NewCmd(NextId(st, side))>>
                 \/ /\ st.current[side] # NoId
                    /\ r.cmds = <<CancelCmd(st.current[side]), NewCmd(NextId(st, side))>>
<1>1. \A i \in 1 .. Len(st.orders) : st.orders[i].id # NoId
  BY OrdersTyped
<1>2. Distinct(st) /\ Barred(st)
  BY DEF Sound
<1>3. CASE Keeps(st, side, r.st) /\ Quiet(st, side) /\ r.cmds = << >>
  BY <1>3
<1>4. CASE /\ st.current[side] = NoId /\ ~Locked(st)
           /\ Opens(st, side, st.orders, r.st)
           /\ r.cmds = <<NewCmd(NextId(st, side))>>
  <2>1. Alike(st, side, st.orders)
    BY <1>1, <1>4, OrdersTyped DEF Alike
  <2>2. Settled(st, side)
    BY <1>1, <1>4 DEF Settled
  <2>3. QED  BY <1>4, <2>1, <2>2
<1>5. ASSUME NEW i \in 1 .. Len(st.orders), Amends(st, side, i), ~Locked(st),
             Opens(st, side, Marked(st.orders, {st.current[side]}, "PendingCancel"), r.st),
             r.cmds = <<CancelCmd(st.current[side]), NewCmd(NextId(st, side))>>
      PROVE  \E q :
              /\ Alike(st, side, q) /\ Opens(st, side, q, r.st) /\ Settled(st, side)
              /\ ~Quiet(st, side) \/ st.current[side] = NoId
              /\ st.current[side] # NoId
  <2> DEFINE q == Marked(st.orders, {st.current[side]}, "PendingCancel")
  <2>1. /\ q \in Seq(Order) /\ Len(q) = Len(st.orders)
        /\ \A k \in 1 .. Len(st.orders) :
             /\ q[k].id = st.orders[k].id /\ q[k].px = st.orders[k].px
             /\ q[k].state = IF st.orders[k].id \in {st.current[side]} THEN "PendingCancel"
                             ELSE st.orders[k].state
    <3>1. Remarks(st, {st.current[side]}, "PendingCancel", q)
      BY MarkedDoes
    <3> HIDE DEF q
    <3>2. QED  BY <3>1 DEF Remarks
  <2>2. Alike(st, side, q)
    <3> HIDE DEF q
    <3>1. QED  BY <2>1 DEF Alike
  <2>3. \A k \in 1 .. Len(st.orders) : st.orders[k].id = st.current[side] => k = i
    BY <1>2, <1>5 DEF Distinct, Amends
  <2>4. Settled(st, side)
    BY <1>5, <2>3 DEF Settled, Amends
  <2>5. st.current[side] # NoId
    BY <1>1, <1>5 DEF Amends
  <2>6. ~Quiet(st, side)
    <3>1. CASE st.rejected[side] = Desired(st, side)
      <4>1. st.rejected[side] = NoPx
        BY <1>2, <2>5 DEF Barred
      <4>2. st.bid > 0 /\ st.ask > 0
        <5>1. st.orders # << >>
          BY <1>5, OrdersTyped
        <5>2. QED  BY <5>1 DEF Sound, Priced
      <4>3. QED  BY <3>1, <4>1, <4>2 DEF Desired, NoPx, Slate
    <3>2. QED  BY <1>5, <2>3, <3>1 DEF Quiet, Amends
  <2>7. QED  BY <1>5, <2>2, <2>4, <2>5, <2>6
<1>6. QED  BY <1>3, <1>4, <1>5 DEF Decision

Decided(st, side, t) ==
  /\ t \in Slate /\ SameBook(st, t) /\ Sound(t) /\ FreshOn(t, side)
  /\ \A s \in Sides : s # side /\ FreshOn(st, s) => FreshOn(t, s)
  /\ \A s \in Sides : s # side => t.nextCl[s] = st.nextCl[s]

(* A decision keeps the slate sound and its side fresh.                    *)
LEMMA DecisionKeeps ==
  ASSUME NEW st \in Slate, Sound(st), st.swept = FALSE, NEW side \in Sides,
         NEW r, Decision(st, side, r), st.bid > 0, st.ask > 0,
         st.nextCl[side] < st.mdSeq \/ (Quiet(st, side) /\ st.current[side] # NoId)
  PROVE  Decided(st, side, r.st)
<1>1. CASE Keeps(st, side, r.st) /\ Quiet(st, side)
  <2> DEFINE t == r.st
  <2>1. /\ t \in Slate /\ SameBook(st, t) /\ t.orders = st.orders /\ t.current = st.current
        /\ t.nextCl = st.nextCl /\ \A s \in Sides : t.rejected[s] \in {st.rejected[s], NoPx}
        /\ KnownIds(t) = KnownIds(st)
    <3>1. /\ t \in Slate /\ SameBook(st, t) /\ t.orders = st.orders /\ t.current = st.current
          /\ t.nextCl = st.nextCl /\ t.rejected \in {st.rejected, [st.rejected EXCEPT ![side] = NoPx]}
      BY <1>1 DEF Keeps
    <3>2. st.rejected \in [Sides -> Nat]
      BY DEF Slate
    <3>3. \A s \in Sides : t.rejected[s] \in {st.rejected[s], NoPx}
      <4> HIDE DEF t
      <4>1. QED  BY <3>1, <3>2
    <3>4. QED  BY <3>1, <3>3 DEF KnownIds
  <2>2. /\ \A s \in Sides : Desired(t, s) = Desired(st, s)
        /\ Locked(t) = Locked(st) /\ t.swept = st.swept /\ t.stopped = st.stopped
        /\ t.mdSeq = st.mdSeq /\ t.bid = st.bid /\ t.ask = st.ask
    BY <2>1 DEF SameBook, Desired, Locked
  <2>3. /\ Distinct(st) /\ Numbered(st) /\ Holding(st) /\ Barred(st) /\ Priced(st)
        /\ st.swept => st.stopped
    BY DEF Sound
  <2> HIDE DEF t
  <2>4. Distinct(t) /\ Numbered(t) /\ Barred(t)
    BY <2>1, <2>2, <2>3 DEF Distinct, Numbered, GivenOut, Barred
  <2>5. Holding(t)
    BY <2>1, <2>2, <2>3 DEF Holding
  <2>6. Priced(t)
    BY <2>1, <2>2, <2>3, OrdersTyped DEF Priced
  <2>7. \A s \in Sides : FreshOn(st, s) => FreshOn(t, s)
    BY <2>1, <2>2 DEF FreshOn
  <2>8. FreshOn(st, side)
    <3>1. CASE st.rejected[side] = Desired(st, side)
      <4>1. st.current[side] = NoId
        BY <2>3, <3>1 DEF Barred, Desired, NoPx, Slate
      <4>2. QED  BY <4>1, OrdersTyped DEF FreshOn
    <3>2. CASE Locked(st)
      BY <3>2 DEF FreshOn
    <3>3. ASSUME NEW i \in 1 .. Len(st.orders), st.orders[i].id = st.current[side],
                 st.orders[i].state = "PendingNew" \/ st.orders[i].px = Desired(st, side)
          PROVE  FreshOn(st, side)
      <4>1. \A j \in 1 .. Len(st.orders) : st.orders[j].id = st.current[side] => j = i
        BY <2>3, <3>3 DEF Distinct
      <4>2. QED  BY <3>3, <4>1 DEF FreshOn
    <3>4. QED  BY <1>1, <3>1, <3>2, <3>3 DEF Quiet
  <2>9. Sound(t)
    BY <2>2, <2>3, <2>4, <2>5, <2>6 DEF Sound
  <2>10. QED  BY <2>1, <2>7, <2>8, <2>9 DEF t, Decided
<1>2. ASSUME NEW q, Alike(st, side, q), Opens(st, side, q, r.st), Settled(st, side),
             ~Quiet(st, side) \/ st.current[side] = NoId
      PROVE  Decided(st, side, r.st)
  <2>1. st.nextCl[side] < st.mdSeq
    BY <1>2
  <2>2. r.st \in Slate /\ SameBook(st, r.st) /\ r.st.nextCl = [st.nextCl EXCEPT ![side] = @ + 1]
    BY <1>2 DEF Opens
  <2>3. \A s \in Sides : s # side => r.st.nextCl[s] = st.nextCl[s]
    BY <2>2 DEF Slate
  <2>4. QED  BY <1>2, <2>1, <2>2, <2>3, OpensKeeps DEF Decided
<1>3. QED  BY <1>1, <1>2, DecisionIs

------------------------------------------------------------------------------
(* What the client says to the engine, and what it then holds.             *)

(* The commands of one side, which c held and which id takes.              *)
Part(side, c, id, cmds, acked) ==
  /\ cmds \in Seq(Command)
  /\ \A i \in 1 .. Len(cmds) :
       /\ SideOf(cmds[i].id) = side
       /\ cmds[i].type = "NewOrder" =>
            /\ cmds[i].id = id
            /\ c # NoId => c \in acked /\ i > 1 /\ cmds[i - 1] = CancelCmd(c)
       /\ cmds[i].type = "CancelOrder" =>
            /\ cmds[i].id = c /\ c \in acked
            /\ i < Len(cmds) /\ cmds[i + 1].type = "NewOrder"
  /\ \A i, j \in 1 .. Len(cmds) :
       cmds[i].type = "NewOrder" /\ cmds[j].type = "NewOrder" => i = j

(* On the side: nothing said and nothing changed, or a new order that      *)
(* takes the side.                                                         *)
Moves(st, side, t, cmds) ==
  \/ /\ cmds = << >>
     /\ t.current[side] = st.current[side] /\ t.nextCl[side] = st.nextCl[side]
  \/ /\ \E i \in 1 .. Len(cmds) : cmds[i].type = "NewOrder"
     /\ t.current[side] = NextId(st, side) /\ t.nextCl[side] = st.nextCl[side] + 1

AckedIds(st) ==
  {st.orders[i].id : i \in {j \in 1 .. Len(st.orders) : st.orders[j].state # "PendingNew"}}

(* An answer on one side.                                                  *)
Spoken(st, side, t, cmds, acked) ==
  /\ Part(side, st.current[side], NextId(st, side), cmds, acked)
  /\ Moves(st, side, t, cmds)
  /\ \A s \in Sides : s # side => t.current[s] = st.current[s] /\ t.nextCl[s] = st.nextCl[s]
  /\ KnownIds(st) \subseteq KnownIds(t) /\ AckedIds(t) \subseteq acked

(* A decision speaks of its side only, pulls what is acknowledged only and *)
(* forgets nothing.                                                        *)
LEMMA DecisionSpeaks ==
  ASSUME NEW st \in Slate, Sound(st), NEW side \in Sides, NEW r, Decision(st, side, r),
         NEW acked, AckedIds(st) \subseteq acked
  PROVE  Spoken(st, side, r.st, r.cmds, acked)
<1> DEFINE t == r.st
<1>1. CASE Keeps(st, side, t) /\ r.cmds = << >>
  <2>1. t.orders = st.orders /\ t.current = st.current /\ t.nextCl = st.nextCl
    BY <1>1 DEF Keeps
  <2>2. KnownIds(t) = KnownIds(st) /\ AckedIds(t) = AckedIds(st)
    BY <2>1 DEF KnownIds, AckedIds
  <2>3. Part(side, st.current[side], NextId(st, side), r.cmds, acked)
    <3>1. r.cmds \in Seq(Command) /\ Len(r.cmds) = 0
      BY <1>1
    <3>2. QED  BY <3>1 DEF Part
  <2>4. QED  BY <1>1, <2>1, <2>2, <2>3 DEF Spoken, Moves
<1>2. ASSUME NEW q, Alike(st, side, q), Opens(st, side, q, t), Settled(st, side),
             \/ /\ st.current[side] = NoId
                /\ r.cmds = <<NewCmd(NextId(st, side))>>
             \/ /\ st.current[side] # NoId
                /\ r.cmds = <<CancelCmd(st.current[side]), NewCmd(NextId(st, side))>>
      PROVE  Spoken(st, side, t, r.cmds, acked)
  <2> DEFINE c == st.current[side]
             id == NextId(st, side)
  <2>1. id \in Id /\ SideOf(id) = side /\ NewCmd(id) \in Command
    BY DEF NextId, Id, SideOf, NewCmd, Command, Slate
  <2>2. /\ t.current = [st.current EXCEPT ![side] = id]
        /\ t.nextCl = [st.nextCl EXCEPT ![side] = @ + 1]
    BY <1>2 DEF Opens
  <2>3. /\ t.current[side] = id /\ t.nextCl[side] = st.nextCl[side] + 1
        /\ \A s \in Sides : s # side => t.current[s] = st.current[s] /\ t.nextCl[s] = st.nextCl[s]
    BY <2>2 DEF Slate
  <2>4. /\ Len(t.orders) = Len(st.orders) + 1 /\ Len(st.orders) \in Nat
        /\ \A i \in 1 .. Len(st.orders) :
              /\ t.orders[i].id = st.orders[i].id
              /\ t.orders[i].state = IF st.orders[i].id = c
                                     THEN "PendingCancel" ELSE st.orders[i].state
        /\ t.orders[Len(st.orders) + 1] = Fixed(id, Desired(st, side))
        /\ KnownIds(t) = KnownIds(st) \cup {id}
    BY <1>2, OpensOrders
  <2>5. t.orders[Len(st.orders) + 1].state = "PendingNew"
    BY <2>4 DEF Fixed
  <2>6. AckedIds(t) \subseteq acked
    <3>1. ASSUME NEW i \in 1 .. Len(t.orders), t.orders[i].state # "PendingNew"
          PROVE  t.orders[i].id \in acked
      <4>1. i \in 1 .. Len(st.orders)
        BY <2>4, <2>5, <3>1
      <4>2. st.orders[i].state # "PendingNew"
        BY <1>2, <2>4, <3>1, <4>1 DEF Settled
      <4>3. st.orders[i].id \in AckedIds(st)
        BY <4>1, <4>2 DEF AckedIds
      <4>4. QED  BY <2>4, <4>1, <4>3
    <3>2. QED  BY <3>1 DEF AckedIds
  <2>7. CASE c = NoId /\ r.cmds = <<NewCmd(id)>>
    <3>1. /\ r.cmds \in Seq(Command) /\ Len(r.cmds) = 1 /\ r.cmds[1] = NewCmd(id)
      BY <2>1, <2>7
    <3>2. r.cmds[1].type = "NewOrder" /\ r.cmds[1].id = id
      BY <3>1 DEF NewCmd
    <3>3. Part(side, c, id, r.cmds, acked)
      BY <2>1, <2>7, <3>1, <3>2 DEF Part
    <3>4. Moves(st, side, t, r.cmds)
      BY <2>3, <3>1, <3>2 DEF Moves
    <3>5. QED  BY <2>3, <2>4, <2>6, <3>3, <3>4 DEF Spoken
  <2>8. CASE c # NoId /\ r.cmds = <<CancelCmd(c), NewCmd(id)>>
    <3>1. c \in KnownIds(st) /\ SideOf(c) = side
      BY <2>8 DEF Sound, Holding
    <3>2. PICK i \in 1 .. Len(st.orders) : st.orders[i].id = c
      BY <3>1 DEF KnownIds
    <3>3. c \in Id /\ c \in acked
      <4>1. st.orders[i].state = "Live"
        BY <1>2, <3>2 DEF Settled
      <4>2. c \in AckedIds(st)
        BY <3>2, <4>1 DEF AckedIds
      <4>3. QED  BY <3>2, <4>2, OrdersTyped
    <3>4. CancelCmd(c) \in Command /\ CancelCmd(c).id = c /\ CancelCmd(c).type = "CancelOrder"
      BY <3>3 DEF CancelCmd, Command
    <3>5. /\ r.cmds \in Seq(Command) /\ Len(r.cmds) = 2
          /\ r.cmds[1] = CancelCmd(c) /\ r.cmds[2] = NewCmd(id)
      BY <2>1, <2>8, <3>4
    <3>6. r.cmds[2].type = "NewOrder" /\ r.cmds[2].id = id
      BY <3>5 DEF NewCmd
    <3>7. r.cmds[1].type = "CancelOrder" /\ r.cmds[1].id = c
      BY <3>4, <3>5
    <3>8. \A k \in 1 .. Len(r.cmds) : k = 1 \/ k = 2
      BY <3>5
    <3>9. \A k \in 1 .. Len(r.cmds) :
            /\ SideOf(r.cmds[k].id) = side
            /\ r.cmds[k].type = "NewOrder" =>
                 r.cmds[k].id = id /\ k > 1 /\ r.cmds[k - 1] = CancelCmd(c) /\ k = 2
            /\ r.cmds[k].type = "CancelOrder" =>
                 /\ r.cmds[k].id = c
                 /\ k < Len(r.cmds) /\ r.cmds[k + 1].type = "NewOrder"
      BY <2>1, <3>1, <3>5, <3>6, <3>7, <3>8
    <3>10. Part(side, c, id, r.cmds, acked)
      BY <3>3, <3>5, <3>9 DEF Part
    <3>11. Moves(st, side, t, r.cmds)
      BY <2>3, <3>5, <3>6 DEF Moves
    <3>12. QED  BY <2>3, <2>4, <2>6, <3>10, <3>11 DEF Spoken
  <2>9. QED  BY <1>2, <2>7, <2>8
<1>3. QED  BY <1>1, <1>2, DecisionIs

(* An answer: the new orders are fresh and take their side, from an        *)
(* acknowledged one only with its cancel right before it, and nothing is   *)
(* pulled otherwise.                                                       *)
NewSaid(st, t, cmds, acked, i) ==
  LET s == SideOf(cmds[i].id) IN
  /\ cmds[i].id = NextId(st, s)
  /\ t.current[s] = NextId(st, s) /\ t.nextCl[s] = st.nextCl[s] + 1
  /\ st.current[s] # NoId =>
       st.current[s] \in acked /\ i > 1 /\ cmds[i - 1] = CancelCmd(st.current[s])

CancelSaid(st, cmds, acked, i) ==
  LET s == SideOf(cmds[i].id) IN
  /\ cmds[i].id = st.current[s] /\ cmds[i].id \in acked
  /\ i < Len(cmds) /\ cmds[i + 1].type = "NewOrder" /\ SideOf(cmds[i + 1].id) = s

Speaks(st, t, cmds, acked) ==
  /\ cmds \in Seq(Command)
  /\ \A i \in 1 .. Len(cmds) :
       /\ SideOf(cmds[i].id) \in Sides
       /\ cmds[i].type = "NewOrder" => NewSaid(st, t, cmds, acked, i)
       /\ cmds[i].type = "CancelOrder" => CancelSaid(st, cmds, acked, i)
  /\ \A i, j \in 1 .. Len(cmds) :
       /\ cmds[i].type = "NewOrder" /\ cmds[j].type = "NewOrder"
       /\ SideOf(cmds[i].id) = SideOf(cmds[j].id)
       => i = j
  /\ \A s \in Sides :
       \/ t.current[s] = st.current[s] /\ t.nextCl[s] = st.nextCl[s]
       \/ \E i \in 1 .. Len(cmds) : cmds[i].type = "NewOrder" /\ SideOf(cmds[i].id) = s
  /\ KnownIds(st) \subseteq KnownIds(t) /\ AckedIds(t) \subseteq acked

(* Silence is an answer.                                                   *)
LEMMA SilenceSpeaks ==
  ASSUME NEW st \in Slate, NEW t, t.orders = st.orders, t.current = st.current,
         t.nextCl = st.nextCl, NEW acked, AckedIds(st) \subseteq acked
  PROVE  Speaks(st, t, << >>, acked)
<1>1. << >> \in Seq(Command) /\ Len(<< >>) = 0
  OBVIOUS
<1>2. KnownIds(t) = KnownIds(st) /\ AckedIds(t) = AckedIds(st)
  BY DEF KnownIds, AckedIds
<1>3. QED  BY <1>1, <1>2 DEF Speaks

(* An answer on both sides, the bids first.                                *)
LEMMA BothSpeak ==
  ASSUME NEW st \in Slate, NEW u \in Slate, NEW t \in Slate, NEW a, NEW b, NEW acked,
         Spoken(st, "B", u, a, acked), Spoken(u, "S", t, b, acked)
  PROVE  Speaks(st, t, a \o b, acked)
<1> DEFINE c == a \o b
           la == Len(a)
<1>1. /\ Part("B", st.current["B"], NextId(st, "B"), a, acked)
      /\ Part("S", u.current["S"], NextId(u, "S"), b, acked)
      /\ Moves(st, "B", u, a) /\ Moves(u, "S", t, b)
      /\ u.current["S"] = st.current["S"] /\ u.nextCl["S"] = st.nextCl["S"]
      /\ t.current["B"] = u.current["B"] /\ t.nextCl["B"] = u.nextCl["B"]
      /\ KnownIds(st) \subseteq KnownIds(u) /\ KnownIds(u) \subseteq KnownIds(t)
      /\ AckedIds(t) \subseteq acked
  BY DEF Spoken, Sides
<1>2. NextId(u, "S") = NextId(st, "S")
  BY <1>1 DEF NextId
<1>3. a \in Seq(Command) /\ b \in Seq(Command) /\ la \in Nat /\ Len(b) \in Nat
  BY <1>1 DEF Part
<1>4. /\ c \in Seq(Command) /\ Len(c) = la + Len(b)
      /\ \A i \in 1 .. la : c[i] = a[i]
      /\ \A i \in 1 .. Len(b) : c[la + i] = b[i]
  BY <1>3, ConcatProperties
<1>5. \A i \in 1 .. Len(c) : i \in 1 .. la \/ (i - la \in 1 .. Len(b) /\ c[i] = b[i - la])
  <2>1. TAKE i \in 1 .. Len(c)
  <2>2. CASE i > la
    <3>1. i - la \in 1 .. Len(b) /\ la + (i - la) = i
      BY <1>3, <1>4, <2>2
    <3>2. QED  BY <1>4, <3>1
  <2>3. QED  BY <1>3, <1>4, <2>2
<1> HIDE DEF c
<1>6. \A i \in 1 .. la : i \in 1 .. Len(c) /\ SideOf(c[i].id) = "B"
  BY <1>1, <1>3, <1>4 DEF Part
<1>7. \A i \in 1 .. Len(b) : la + i \in 1 .. Len(c) /\ SideOf(c[la + i].id) = "S"
  BY <1>1, <1>3, <1>4 DEF Part
<1>8. ASSUME NEW i \in 1 .. la
      PROVE  /\ c[i].type = "NewOrder" => NewSaid(st, t, c, acked, i)
             /\ c[i].type = "CancelOrder" => CancelSaid(st, c, acked, i)
  <2>1. SideOf(c[i].id) = "B" /\ c[i] = a[i]
    BY <1>4, <1>6
  <2>2. CASE c[i].type = "NewOrder"
    <3>1. /\ a[i].id = NextId(st, "B")
          /\ st.current["B"] # NoId =>
               st.current["B"] \in acked /\ i > 1 /\ a[i - 1] = CancelCmd(st.current["B"])
      BY <1>1, <2>1, <2>2 DEF Part
    <3>2. i > 1 => c[i - 1] = a[i - 1]
      BY <1>3, <1>4
    <3>3. u.current["B"] = NextId(st, "B") /\ u.nextCl["B"] = st.nextCl["B"] + 1
      BY <1>1, <2>1, <2>2 DEF Moves
    <3>4. QED  BY <1>1, <2>1, <2>2, <3>1, <3>2, <3>3 DEF NewSaid
  <2>3. CASE c[i].type = "CancelOrder"
    <3>1. /\ a[i].id = st.current["B"] /\ a[i].id \in acked
          /\ i < la /\ a[i + 1].type = "NewOrder"
      BY <1>1, <2>1, <2>3 DEF Part
    <3>2. i + 1 \in 1 .. la
      BY <1>3, <3>1
    <3>3. c[i + 1] = a[i + 1] /\ SideOf(c[i + 1].id) = "B" /\ i < Len(c)
      BY <1>3, <1>4, <1>6, <3>1, <3>2
    <3>4. QED  BY <2>1, <2>3, <3>1, <3>3 DEF CancelSaid
  <2>4. QED  BY <2>2, <2>3
<1>9. ASSUME NEW k \in 1 .. Len(b), NEW i, i = la + k
      PROVE  /\ c[i].type = "NewOrder" => NewSaid(st, t, c, acked, i)
             /\ c[i].type = "CancelOrder" => CancelSaid(st, c, acked, i)
  <2>1. SideOf(c[i].id) = "S" /\ c[i] = b[k] /\ i \in Nat /\ k \in Nat
    BY <1>3, <1>4, <1>7, <1>9
  <2>2. CASE c[i].type = "NewOrder"
    <3>1. /\ b[k].id = NextId(st, "S")
          /\ st.current["S"] # NoId =>
               st.current["S"] \in acked /\ k > 1 /\ b[k - 1] = CancelCmd(st.current["S"])
      BY <1>1, <1>2, <2>1, <2>2 DEF Part
    <3>2. k > 1 => c[i - 1] = b[k - 1] /\ i > 1
      <4>1. HAVE k > 1
      <4>2. k - 1 \in 1 .. Len(b) /\ la + (k - 1) = i - 1
        BY <1>3, <1>9, <4>1
      <4>3. QED  BY <1>3, <1>4, <1>9, <4>1, <4>2
    <3>3. t.current["S"] = NextId(st, "S") /\ t.nextCl["S"] = st.nextCl["S"] + 1
      BY <1>1, <1>2, <2>1, <2>2 DEF Moves
    <3>4. QED  BY <1>1, <2>1, <2>2, <3>1, <3>2, <3>3 DEF NewSaid
  <2>3. CASE c[i].type = "CancelOrder"
    <3>1. /\ b[k].id = st.current["S"] /\ b[k].id \in acked
          /\ k < Len(b) /\ b[k + 1].type = "NewOrder"
      BY <1>1, <2>1, <2>3 DEF Part
    <3>2. k + 1 \in 1 .. Len(b) /\ la + (k + 1) = i + 1
      BY <1>3, <1>9, <3>1
    <3>3. c[i + 1] = b[k + 1] /\ SideOf(c[i + 1].id) = "S" /\ i < Len(c)
      BY <1>3, <1>4, <1>7, <1>9, <3>1, <3>2
    <3>4. QED  BY <2>1, <2>3, <3>1, <3>3 DEF CancelSaid
  <2>4. QED  BY <2>2, <2>3
<1>10. \A i \in 1 .. Len(c) :
         /\ SideOf(c[i].id) \in Sides
         /\ c[i].type = "NewOrder" => NewSaid(st, t, c, acked, i)
         /\ c[i].type = "CancelOrder" => CancelSaid(st, c, acked, i)
  <2>1. TAKE i \in 1 .. Len(c)
  <2>2. CASE i \in 1 .. la
    BY <1>6, <1>8, <2>2 DEF Sides
  <2>3. CASE i - la \in 1 .. Len(b)
    <3>1. i = la + (i - la)
      BY <1>3, <2>3
    <3>2. SideOf(c[i].id) = "S"
      BY <1>7, <2>3, <3>1
    <3>3. QED  BY <1>9, <2>3, <3>1, <3>2 DEF Sides
  <2>4. QED  BY <1>5, <2>2, <2>3
<1>11. ASSUME NEW i \in 1 .. Len(c), NEW j \in 1 .. Len(c), c[i].type = "NewOrder",
              c[j].type = "NewOrder", SideOf(c[i].id) = SideOf(c[j].id)
       PROVE  i = j
  <2>1. CASE i \in 1 .. la /\ j \in 1 .. la
    BY <1>1, <1>4, <1>11, <2>1 DEF Part
  <2>2. CASE i - la \in 1 .. Len(b) /\ j - la \in 1 .. Len(b)
    <3>1. c[i] = b[i - la] /\ c[j] = b[j - la]
      <4>1. la + (i - la) = i /\ la + (j - la) = j
        BY <1>3
      <4>2. QED  BY <1>4, <2>2, <4>1
    <3>2. i - la = j - la
      BY <1>1, <1>11, <2>2, <3>1 DEF Part
    <3>3. QED  BY <1>3, <3>2
  <2>3. \A k \in 1 .. Len(c) : k - la \in 1 .. Len(b) => SideOf(c[k].id) = "S"
    <3>1. \A k \in 1 .. Len(c) : la + (k - la) = k
      BY <1>3
    <3>2. QED  BY <1>7, <3>1
  <2>4. QED  BY <1>5, <1>6, <1>11, <2>1, <2>2, <2>3
<1>12. ASSUME NEW s \in Sides
       PROVE  \/ t.current[s] = st.current[s] /\ t.nextCl[s] = st.nextCl[s]
              \/ \E i \in 1 .. Len(c) : c[i].type = "NewOrder" /\ SideOf(c[i].id) = s
  <2>1. CASE s = "B"
    <3>1. CASE \E i \in 1 .. Len(a) : a[i].type = "NewOrder"
      BY <1>4, <1>6, <2>1, <3>1
    <3>2. QED  BY <1>1, <2>1, <3>1 DEF Moves
  <2>2. CASE s = "S"
    <3>1. CASE \E i \in 1 .. Len(b) : b[i].type = "NewOrder"
      BY <1>4, <1>7, <2>2, <3>1
    <3>2. QED  BY <1>1, <2>2, <3>1 DEF Moves
  <2>3. QED  BY <2>1, <2>2 DEF Sides
<1>13. KnownIds(st) \subseteq KnownIds(t)
  BY <1>1
<1>14. Speaks(st, t, c, acked)
  BY <1>1, <1>4, <1>10, <1>11, <1>12, <1>13 DEF Speaks
<1>15. QED  BY <1>14 DEF c

(* An answer on one side.                                                  *)
LEMMA OneSpeaks ==
  ASSUME NEW st \in Slate, NEW t \in Slate, NEW side \in Sides, NEW a, NEW acked,
         Spoken(st, side, t, a, acked)
  PROVE  Speaks(st, t, a, acked)
<1>1. /\ Part(side, st.current[side], NextId(st, side), a, acked)
      /\ Moves(st, side, t, a)
      /\ \A s \in Sides : s # side => t.current[s] = st.current[s] /\ t.nextCl[s] = st.nextCl[s]
      /\ KnownIds(st) \subseteq KnownIds(t) /\ AckedIds(t) \subseteq acked
  BY DEF Spoken
<1>2. a \in Seq(Command) /\ Len(a) \in Nat
  BY <1>1 DEF Part
<1>3. \A i \in 1 .. Len(a) : SideOf(a[i].id) = side
  BY <1>1 DEF Part
<1>4. ASSUME NEW i \in 1 .. Len(a), a[i].type = "NewOrder"
      PROVE  NewSaid(st, t, a, acked, i)
  <2>1. /\ a[i].id = NextId(st, side)
        /\ st.current[side] # NoId =>
             st.current[side] \in acked /\ i > 1 /\ a[i - 1] = CancelCmd(st.current[side])
    BY <1>1, <1>4 DEF Part
  <2>2. t.current[side] = NextId(st, side) /\ t.nextCl[side] = st.nextCl[side] + 1
    BY <1>1, <1>4 DEF Moves
  <2>3. QED  BY <1>3, <2>1, <2>2 DEF NewSaid
<1>5. ASSUME NEW i \in 1 .. Len(a), a[i].type = "CancelOrder"
      PROVE  CancelSaid(st, a, acked, i)
  <2>1. /\ a[i].id = st.current[side] /\ a[i].id \in acked
        /\ i < Len(a) /\ a[i + 1].type = "NewOrder"
    BY <1>1, <1>5 DEF Part
  <2>2. SideOf(a[i + 1].id) = side
    BY <1>2, <1>3, <2>1
  <2>3. QED  BY <1>3, <2>1, <2>2 DEF CancelSaid
<1>6. \A i, j \in 1 .. Len(a) : a[i].type = "NewOrder" /\ a[j].type = "NewOrder" => i = j
  BY <1>1 DEF Part
<1>7. \A s \in Sides :
       \/ t.current[s] = st.current[s] /\ t.nextCl[s] = st.nextCl[s]
       \/ \E i \in 1 .. Len(a) : a[i].type = "NewOrder" /\ SideOf(a[i].id) = s
  BY <1>1, <1>3 DEF Moves
<1>8. QED  BY <1>1, <1>2, <1>3, <1>4, <1>5, <1>6, <1>7 DEF Speaks

------------------------------------------------------------------------------
(* What a message does to the client.                                      *)

ReportMsg ==
  [type : {"OrderAck", "CancelAck", "Reject", "Fill"}, id : OrderIds, leaves : {0, 1},
   seq : Nat, epoch : Nat]
TickMsg ==
  [type : {"Tob"}, md : Nat, bid : Nat \ {0}, ask : Nat \ {0}, symbol : {"traded"},
   seq : Nat, epoch : Nat]
Msg == ReportMsg \cup TickMsg

(* Reports that end the order for the client.                              *)
Ends(m) == m.type \in {"CancelAck", "Reject"} \/ (m.type = "Fill" /\ m.leaves = 0)

SameOrders(st, t) ==
  /\ t.orders = st.orders /\ t.current = st.current /\ t.nextCl = st.nextCl
  /\ t.rejected = st.rejected

(* What leaves the orders and the book alone leaves the slate sound.       *)
LEMMA StaysSound ==
  ASSUME NEW st \in Slate, Sound(st), NEW t \in Slate, SameOrders(st, t),
         t.bid = st.bid, t.ask = st.ask, t.mdSeq = st.mdSeq, t.swept = st.swept,
         t.swept => t.stopped
  PROVE  Sound(t) /\ \A s \in Sides : FreshOn(st, s) => FreshOn(t, s)
<1>1. /\ t.orders = st.orders /\ t.current = st.current /\ t.nextCl = st.nextCl
      /\ t.rejected = st.rejected /\ KnownIds(t) = KnownIds(st)
      /\ \A s : Desired(t, s) = Desired(st, s)
      /\ Locked(t) = Locked(st)
  BY DEF SameOrders, KnownIds, Desired, Locked
<1>2. Distinct(t)
  BY <1>1 DEF Sound, Distinct
<1>3. Numbered(t) /\ Barred(t)
  BY <1>1 DEF Sound, Numbered, GivenOut, Barred
<1>4. Holding(t)
  BY <1>1 DEF Sound, Holding
<1>5. Priced(t)
  BY <1>1 DEF Sound, Priced
<1>6. \A s \in Sides : FreshOn(st, s) => FreshOn(t, s)
  BY <1>1 DEF FreshOn
<1>7. QED  BY <1>2, <1>3, <1>4, <1>5, <1>6 DEF Sound

(* A new book leaves the slate sound, and every side free to open.         *)
LEMMA MovedSound ==
  ASSUME NEW st \in Slate, Sound(st), NEW t \in Slate, SameOrders(st, t),
         t.bid > 0, t.ask > 0, t.mdSeq > st.mdSeq, t.swept = st.swept,
         t.swept => t.stopped
  PROVE  Sound(t) /\ \A s \in Sides : t.nextCl[s] < t.mdSeq
<1>1. /\ t.orders = st.orders /\ t.current = st.current /\ t.nextCl = st.nextCl
      /\ t.rejected = st.rejected /\ KnownIds(t) = KnownIds(st)
      /\ st.mdSeq \in Nat /\ t.mdSeq \in Nat /\ st.nextCl \in [Sides -> Nat]
  BY DEF SameOrders, KnownIds, Slate
<1>2. Distinct(t)
  BY <1>1 DEF Sound, Distinct
<1>3. \A s \in Sides : t.nextCl[s] < t.mdSeq /\ t.nextCl[s] <= t.mdSeq
  BY <1>1 DEF Sound, Numbered
<1>4. Numbered(t) /\ Barred(t)
  BY <1>1, <1>3 DEF Sound, Numbered, GivenOut, Barred
<1>5. Holding(t)
  BY <1>1 DEF Sound, Holding
<1>6. Priced(t)
  BY <1>1, <1>3, OrdersTyped DEF Priced
<1>7. QED  BY <1>2, <1>3, <1>4, <1>5, <1>6 DEF Sound

(* t is st without the order at place p.                                   *)
Retires(st, p, t) ==
  LET id == st.orders[p].id IN
  /\ t \in Slate /\ SameBook(st, t) /\ t.nextCl = st.nextCl
  /\ t.orders = Without(st.orders, p)
  /\ t.current = [st.current EXCEPT ![SideOf(id)] = IF @ = id THEN NoId ELSE @]

From(p, i) == IF i < p THEN i ELSE i + 1

(* w is q without its place p.                                             *)
Skips(q, p, w) ==
  /\ w \in Seq(Order) /\ Len(w) = Len(q) - 1 /\ Len(q) \in Nat
  /\ \A i \in 1 .. Len(q) - 1 : /\ From(p, i) \in 1 .. Len(q) /\ From(p, i) # p
                                /\ w[i] = q[From(p, i)]
  /\ \A i, j \in 1 .. Len(q) - 1 : From(p, i) = From(p, j) => i = j
  /\ \A k \in 1 .. Len(q) : k # p => \E i \in 1 .. Len(q) - 1 : From(p, i) = k

(* The dict without one order.                                             *)
LEMMA WithoutDoes ==
  ASSUME NEW q \in Seq(Order), NEW p \in 1 .. Len(q)
  PROVE  Skips(q, p, Without(q, p))
<1>1. Len(q) \in Nat
  OBVIOUS
<1>2. \A i \in 1 .. Len(q) - 1 : From(p, i) \in 1 .. Len(q) /\ From(p, i) # p
  BY <1>1 DEF From
<1>3. \A i \in 1 .. Len(q) - 1 : Without(q, p)[i] = q[From(p, i)]
  BY <1>1 DEF From, Without
<1>4. Without(q, p) \in [1 .. Len(q) - 1 -> Order]
  <2>1. \A i \in 1 .. Len(q) - 1 : q[From(p, i)] \in Order
    BY <1>2
  <2>2. Without(q, p) = [i \in 1 .. Len(q) - 1 |-> q[From(p, i)]]
    BY <1>1 DEF From, Without
  <2>3. QED  BY <2>1, <2>2
<1>5. Without(q, p) \in Seq(Order) /\ Len(Without(q, p)) = Len(q) - 1
  <2>1. Len(q) - 1 \in Nat
    BY <1>1
  <2>2. QED  BY <1>4, <2>1
<1>6. \A i, j \in 1 .. Len(q) - 1 : From(p, i) = From(p, j) => i = j
  BY <1>1 DEF From
<1>7. ASSUME NEW k \in 1 .. Len(q), k # p
      PROVE  \E i \in 1 .. Len(q) - 1 : From(p, i) = k
  <2>1. CASE k < p
    <3>1. k \in 1 .. Len(q) - 1 /\ From(p, k) = k
      BY <1>1, <2>1 DEF From
    <3>2. QED  BY <3>1
  <2>2. CASE k > p
    <3>1. k - 1 \in 1 .. Len(q) - 1 /\ From(p, k - 1) = k
      BY <1>1, <2>2 DEF From
    <3>2. QED  BY <3>1
  <2>3. QED  BY <1>1, <1>7, <2>1, <2>2
<1>8. QED  BY <1>1, <1>2, <1>3, <1>5, <1>6, <1>7 DEF Skips

(* The order is forgotten; its side is free if the order held it.          *)
Drops(st, id, t) ==
  /\ t.nextCl = st.nextCl
  /\ \A k \in KnownIds(st) : k # id => k \in KnownIds(t)
  /\ \A s \in Sides : t.current[s] = IF st.current[s] = id THEN NoId ELSE st.current[s]
  /\ AckedIds(t) \subseteq AckedIds(st)

(* A terminal report leaves the slate sound and fresh.                     *)
LEMMA RetireKeeps ==
  ASSUME NEW st \in Slate, Sound(st), Fresh(st), NEW p \in 1 .. Len(st.orders), NEW t,
         Retires(st, p, t),
         \A s \in Sides : t.rejected[s] # NoPx =>
            \/ t.rejected[s] = st.rejected[s]
            \/ st.current[s] = st.orders[p].id
  PROVE  Sound(t) /\ Fresh(t) /\ Drops(st, st.orders[p].id, t)
<1> DEFINE id == st.orders[p].id
           n == Len(st.orders)
           f(i) == From(p, i)
<1>1. /\ t \in Slate /\ SameBook(st, t) /\ t.nextCl = st.nextCl
      /\ t.orders = Without(st.orders, p)
      /\ t.current = [st.current EXCEPT ![SideOf(id)] = IF @ = id THEN NoId ELSE @]
  BY DEF Retires
<1>2. /\ Distinct(st) /\ Numbered(st) /\ Holding(st) /\ Barred(st) /\ Priced(st)
      /\ st.swept => st.stopped
  BY DEF Sound
<1>3. id # NoId /\ id \in Id /\ SideOf(id) \in Sides /\ n \in Nat
  BY OrdersTyped
<1>4. /\ t.orders \in Seq(Order) /\ Len(t.orders) = n - 1
      /\ \A i \in 1 .. n - 1 : f(i) \in 1 .. n /\ f(i) # p /\ t.orders[i] = st.orders[f(i)]
      /\ \A i, j \in 1 .. n - 1 : f(i) = f(j) => i = j
      /\ \A k \in 1 .. n : k # p => \E i \in 1 .. n - 1 : f(i) = k
  <2>1. st.orders \in Seq(Order)
    BY OrdersTyped
  <2>2. Skips(st.orders, p, t.orders)
    BY <1>1, <2>1, WithoutDoes
  <2>3. QED  BY <2>2 DEF Skips
<1> HIDE DEF f
<1>5. \A k \in 1 .. n : k # p => st.orders[k].id # id
  BY <1>2 DEF Distinct
<1>6. \A s \in Sides : t.current[s] = IF st.current[s] = id THEN NoId ELSE st.current[s]
  <2>1. TAKE s \in Sides
  <2>2. CASE s = SideOf(id)
    BY <1>1, <2>2 DEF Slate
  <2>3. CASE s # SideOf(id)
    <3>1. st.current[s] # id
      BY <1>2, <1>3, <2>3 DEF Holding
    <3>2. t.current[s] = st.current[s]
      BY <1>1, <2>3 DEF Slate
    <3>3. QED  BY <3>1, <3>2
  <2>4. QED  BY <2>2, <2>3
<1>7. \A k \in KnownIds(st) : k # id => k \in KnownIds(t)
  <2>1. ASSUME NEW k \in KnownIds(st), k # id  PROVE k \in KnownIds(t)
    <3>1. PICK j \in 1 .. n : st.orders[j].id = k
      BY DEF KnownIds
    <3>2. PICK i \in 1 .. n - 1 : f(i) = j
      BY <1>4, <2>1, <3>1
    <3>3. t.orders[i].id = k /\ i \in 1 .. Len(t.orders)
      BY <1>4, <3>1, <3>2
    <3>4. QED  BY <3>3 DEF KnownIds
  <2>2. QED  BY <2>1
<1>8. AckedIds(t) \subseteq AckedIds(st)
  <2>1. ASSUME NEW i \in 1 .. Len(t.orders), t.orders[i].state # "PendingNew"
        PROVE  t.orders[i].id \in AckedIds(st)
    <3>1. f(i) \in 1 .. n /\ t.orders[i] = st.orders[f(i)]
      BY <1>4
    <3>2. QED  BY <2>1, <3>1 DEF AckedIds
  <2>2. QED  BY <2>1 DEF AckedIds
<1>9. /\ \A s \in Sides : Desired(t, s) = Desired(st, s)
      /\ Locked(t) = Locked(st) /\ t.swept = st.swept /\ t.stopped = st.stopped
      /\ t.mdSeq = st.mdSeq /\ t.bid = st.bid /\ t.ask = st.ask
  BY <1>1 DEF SameBook, Desired, Locked
<1>10. Distinct(t)
  <2>1. ASSUME NEW i \in 1 .. n - 1, NEW j \in 1 .. n - 1, t.orders[i].id = t.orders[j].id
        PROVE  i = j
    <3>1. /\ f(i) \in 1 .. n /\ t.orders[i] = st.orders[f(i)]
          /\ f(j) \in 1 .. n /\ t.orders[j] = st.orders[f(j)]
      BY <1>4
    <3>2. f(i) = f(j)
      BY <1>2, <2>1, <3>1 DEF Distinct
    <3>3. QED  BY <1>4, <3>2
  <2>2. QED  BY <1>4, <2>1 DEF Distinct
<1>11. Numbered(t)
  <2>1. \A i \in 1 .. n - 1 : GivenOut(t, t.orders[i].id)
    BY <1>1, <1>2, <1>4, ZenonT(60) DEF Numbered, GivenOut
  <2>2. QED  BY <1>1, <1>2, <1>4, <1>9, <2>1 DEF Numbered
<1>12. Holding(t)
  <2>1. \A s \in Sides : \/ t.current[s] = NoId
                         \/ SideOf(t.current[s]) = s /\ t.current[s] \in KnownIds(t)
    BY <1>2, <1>6, <1>7 DEF Holding
  <2>2. ASSUME NEW i \in 1 .. n - 1
        PROVE  /\ t.orders[i].state = "PendingNew" =>
                    t.current[SideOf(t.orders[i].id)] = t.orders[i].id
               /\ t.orders[i].state = "PendingCancel" /\ ~t.swept =>
                    t.current[SideOf(t.orders[i].id)] # t.orders[i].id
    <3>1. f(i) \in 1 .. n /\ t.orders[i] = st.orders[f(i)] /\ st.orders[f(i)].id # id
      BY <1>4, <1>5
    <3>2. SideOf(st.orders[f(i)].id) \in Sides /\ st.orders[f(i)].id # NoId
      BY <3>1, OrdersTyped
    <3>3. QED  BY <1>2, <1>6, <1>9, <3>1, <3>2 DEF Holding
  <2>3. QED  BY <1>4, <2>1, <2>2 DEF Holding
<1>13. Barred(t)
  BY <1>2, <1>6 DEF Barred
<1>14. Priced(t)
  <2>1. t.bid > 0 /\ t.ask > 0
    <3>1. st.orders # << >>
      BY <1>3
    <3>2. QED  BY <1>2, <1>9, <3>1 DEF Priced
  <2>2. ASSUME NEW i \in 1 .. n - 1, t.orders[i].state = "PendingNew",
               t.orders[i].px # Desired(t, SideOf(t.orders[i].id))
        PROVE  t.nextCl[SideOf(t.orders[i].id)] < t.mdSeq
    <3>1. f(i) \in 1 .. n /\ t.orders[i] = st.orders[f(i)]
      BY <1>4
    <3>2. SideOf(st.orders[f(i)].id) \in Sides
      BY <3>1, OrdersTyped
    <3>3. QED  BY <1>1, <1>2, <1>9, <2>2, <3>1, <3>2 DEF Priced
  <2>3. QED  BY <1>4, <2>1, <2>2 DEF Priced
<1>15. Fresh(t)
  <2>1. ASSUME NEW s \in Sides, NEW i \in 1 .. n - 1, t.orders[i].state = "Live",
               t.current[s] = t.orders[i].id, ~Locked(t)
        PROVE  t.orders[i].px = Desired(t, s)
    <3>1. f(i) \in 1 .. n /\ t.orders[i] = st.orders[f(i)]
      BY <1>4
    <3>2. st.orders[f(i)].id # NoId
      BY <3>1, OrdersTyped
    <3>3. st.current[s] = st.orders[f(i)].id
      BY <1>6, <2>1, <3>1, <3>2
    <3>4. QED  BY <1>9, <2>1, <3>1, <3>3 DEF Fresh, FreshOn
  <2>2. QED  BY <1>4, <2>1 DEF Fresh, FreshOn
<1>16. Sound(t)
  BY <1>2, <1>9, <1>10, <1>11, <1>12, <1>13, <1>14 DEF Sound
<1>17. QED  BY <1>1, <1>6, <1>7, <1>8, <1>15, <1>16 DEF Drops

(* An answer is judged by the sides, the numbers and the known orders.     *)
LEMMA SpeaksFrom ==
  ASSUME NEW st, NEW u, NEW t, NEW cmds, NEW acked, Speaks(u, t, cmds, acked),
         u.current = st.current, u.nextCl = st.nextCl, KnownIds(u) = KnownIds(st)
  PROVE  Speaks(st, t, cmds, acked)
<1>1. \A s : NextId(u, s) = NextId(st, s)
  BY DEF NextId
<1>2. \A i : NewSaid(u, t, cmds, acked, i) => NewSaid(st, t, cmds, acked, i)
  BY <1>1 DEF NewSaid
<1>3. \A i : CancelSaid(u, cmds, acked, i) => CancelSaid(st, cmds, acked, i)
  BY DEF CancelSaid
<1>4. QED  BY <1>2, <1>3 DEF Speaks

(* What an accepted answer leaves behind.                                  *)
Answers(st, acked, r) ==
  /\ r.stop = "none" /\ r.st \in Slate /\ SameBook(st, r.st)
  /\ Sound(r.st) /\ Fresh(r.st) /\ Speaks(st, r.st, r.cmds, acked)

(* The acknowledged order is live and its side decided again.              *)
LEMMA SettleDoes ==
  ASSUME NEW st \in Slate, Sound(st), Fresh(st), st.swept = FALSE,
         NEW p \in 1 .. Len(st.orders)
  PROVE  Answers(st, AckedIds(st) \cup {st.orders[p].id}, Settle(st, st.orders[p]))
<1> DEFINE o == st.orders[p]
           acked == AckedIds(st) \cup {o.id}
           side == SideOf(o.id)
           q == Marked(st.orders, {o.id}, "Live")
           u == [st EXCEPT !.orders = q]
<1>1. o \in Order /\ o.id \in Id /\ o.id # NoId /\ side \in Sides
  BY OrdersTyped
<1>2. CASE o.state # "PendingNew"
  <2>1. Settle(st, o) = [st |-> st, stop |-> "none", cmds |-> << >>]
    BY <1>2 DEF Settle, Silence, Result
  <2>2. Speaks(st, st, << >>, acked)
    BY SilenceSpeaks
  <2>3. SameBook(st, st)
    BY DEF SameBook
  <2>4. QED  BY <2>1, <2>2, <2>3 DEF Answers
<1>3. CASE o.state = "PendingNew"
  <2>1. Remarks(st, {o.id}, "Live", q)
    BY MarkedDoes
  <2>2. SetState(st, {o.id}, "Live") = u
    BY DEF SetState, Marked
  <2> HIDE DEF q
  <2>3. /\ u.orders = q /\ u.current = st.current /\ u.nextCl = st.nextCl
        /\ u.rejected = st.rejected /\ SameBook(st, u)
    BY DEF Slate, SameBook
  <2>4. u \in Slate
    <3>1. q \in Seq(Order)
      BY <2>1 DEF Remarks
    <3>2. QED  BY <3>1, ZenonT(60) DEF Slate
  <2>5. /\ Len(q) = Len(st.orders)
        /\ \A i \in 1 .. Len(st.orders) :
             /\ q[i].id = st.orders[i].id /\ q[i].px = st.orders[i].px
             /\ q[i].state = IF st.orders[i].id = o.id THEN "Live" ELSE st.orders[i].state
    BY <2>1 DEF Remarks
  <2>6. KnownIds(u) = KnownIds(st)
    BY <2>3, <2>5 DEF KnownIds
  <2>7. Settle(st, o) = Quote(u, side)
    BY <1>3, <2>2 DEF Settle
  <2> HIDE DEF u
  <2>8. /\ \A s \in Sides : Desired(u, s) = Desired(st, s)
        /\ Locked(u) = Locked(st) /\ u.swept = FALSE /\ u.stopped = st.stopped
        /\ u.mdSeq = st.mdSeq /\ u.bid = st.bid /\ u.ask = st.ask
    BY <2>3 DEF SameBook, Desired, Locked
  <2>9. /\ Distinct(st) /\ Numbered(st) /\ Holding(st) /\ Barred(st) /\ Priced(st)
        /\ st.swept => st.stopped
    BY DEF Sound
  <2>10. st.current[side] = o.id /\ st.bid > 0 /\ st.ask > 0
    <3>1. st.orders # << >>
      BY OrdersTyped
    <3>2. QED  BY <1>3, <2>9, <3>1 DEF Holding, Priced
  <2>11. Distinct(u) /\ Numbered(u) /\ Barred(u)
    <3>1. Distinct(u)
      BY <2>3, <2>5, <2>9 DEF Distinct
    <3>2. Numbered(u)
      BY <2>3, <2>5, <2>8, <2>9 DEF Numbered, GivenOut
    <3>3. QED  BY <2>3, <2>9, <3>1, <3>2 DEF Barred
  <2>12. Holding(u)
    BY <2>3, <2>5, <2>6, <2>8, <2>9 DEF Holding
  <2>13. Priced(u)
    <3>1. u.bid > 0 /\ u.ask > 0
      BY <2>8, <2>10
    <3>2. ASSUME NEW i \in 1 .. Len(st.orders), q[i].state = "PendingNew",
                 q[i].px # Desired(u, SideOf(q[i].id))
          PROVE  u.nextCl[SideOf(q[i].id)] < u.mdSeq
      <4>1. SideOf(st.orders[i].id) \in Sides
        BY OrdersTyped
      <4>2. st.orders[i].state = "PendingNew" /\ q[i].id = st.orders[i].id /\ q[i].px = st.orders[i].px
        BY <2>5, <3>2
      <4>3. QED  BY <2>3, <2>8, <2>9, <3>2, <4>1, <4>2 DEF Priced
    <3>3. QED  BY <2>3, <2>5, <3>1, <3>2 DEF Priced
  <2>14. Sound(u)
    BY <2>8, <2>11, <2>12, <2>13 DEF Sound
  <2>15. \A s \in Sides : s # side => FreshOn(u, s)
    <3>1. ASSUME NEW s \in Sides, s # side, NEW i \in 1 .. Len(st.orders), q[i].state = "Live",
                 st.current[s] = q[i].id, ~Locked(st)
          PROVE  q[i].px = Desired(st, s)
      <4>1. st.orders[i].id = st.current[s] /\ st.orders[i].px = q[i].px
        BY <2>5, <3>1
      <4>2. SideOf(st.current[s]) = s
        BY <2>9, <4>1, OrdersTyped DEF Holding
      <4>3. st.orders[i].id # o.id
        BY <3>1, <4>1, <4>2
      <4>4. st.orders[i].state = "Live"
        BY <2>5, <3>1, <4>3
      <4>5. QED  BY <3>1, <4>1, <4>4 DEF Fresh, FreshOn
    <3>2. QED  BY <2>3, <2>5, <2>8, <3>1 DEF FreshOn
  <2>16. Decision(u, side, Quote(u, side))
    BY <1>1, <2>4, <2>8, <2>14, QuoteDoes
  <2>17. u.nextCl[side] < u.mdSeq \/ (Quiet(u, side) /\ u.current[side] # NoId)
    <3>1. CASE o.px # Desired(st, side)
      BY <1>3, <2>3, <2>8, <2>9, <3>1 DEF Priced
    <3>2. CASE o.px = Desired(st, side)
      <4>1. q[p].id = u.current[side] /\ q[p].px = Desired(u, side) /\ p \in 1 .. Len(u.orders)
        BY <1>1, <2>3, <2>5, <2>8, <2>10, <3>2
      <4>2. Quiet(u, side)
        BY <2>3, <4>1 DEF Quiet
      <4>3. QED  BY <1>1, <2>3, <2>10, <4>2
    <3>3. QED  BY <3>1, <3>2
  <2> DEFINE r == Quote(u, side)
  <2> HIDE DEF r
  <2>18. /\ r.st \in Slate /\ SameBook(u, r.st) /\ Sound(r.st) /\ FreshOn(r.st, side)
         /\ \A s \in Sides : s # side /\ FreshOn(u, s) => FreshOn(r.st, s)
    <3>1. u.bid > 0 /\ u.ask > 0
      BY <2>8, <2>10
    <3>2. Decision(u, side, r)
      BY <2>16 DEF r
    <3>3. Decided(u, side, r.st)
      BY <1>1, <2>4, <2>8, <2>14, <2>17, <3>1, <3>2, DecisionKeeps
    <3>4. QED  BY <3>3 DEF Decided
  <2>19. Fresh(r.st)
    BY <2>15, <2>18 DEF Fresh
  <2>20. AckedIds(u) \subseteq acked
    <3>1. ASSUME NEW i \in 1 .. Len(u.orders), u.orders[i].state # "PendingNew"
          PROVE  u.orders[i].id \in acked
      <4>1. i \in 1 .. Len(st.orders) /\ u.orders[i].id = st.orders[i].id
        BY <2>3, <2>5
      <4>2. CASE st.orders[i].id = o.id
        BY <4>1, <4>2
      <4>3. CASE st.orders[i].id # o.id
        <5>1. st.orders[i].state # "PendingNew"
          BY <2>3, <2>5, <3>1, <4>1, <4>3
        <5>2. QED  BY <4>1, <5>1 DEF AckedIds
      <4>4. QED  BY <4>2, <4>3
    <3>2. QED  BY <3>1 DEF AckedIds
  <2>21. Speaks(st, r.st, r.cmds, acked)
    <3> HIDE DEF acked
    <3>1. Spoken(u, side, r.st, r.cmds, acked)
      BY <1>1, <2>4, <2>14, <2>16, <2>20, DecisionSpeaks DEF r
    <3>2. Speaks(u, r.st, r.cmds, acked)
      BY <1>1, <2>4, <2>18, <3>1, OneSpeaks
    <3>3. QED  BY <2>3, <2>6, <3>2, SpeaksFrom
  <2>22. SameBook(st, r.st)
    BY <2>3, <2>18 DEF SameBook
  <2>23. r.stop = "none"
    BY <2>16 DEF r, Decision
  <2>24. Answers(st, acked, r)
    BY <2>18, <2>19, <2>21, <2>22, <2>23 DEF Answers
  <2>25. QED  BY <2>7, <2>24 DEF r
<1>4. QED  BY <1>2, <1>3

AckedBy(st, m) == IF m.type = "OrderAck" THEN AckedIds(st) \cup {m.id} ELSE AckedIds(st)

(* What the client makes of a message it expected: an answer, or an order  *)
(* forgotten in silence, or a stop for a symbol it does not trade.         *)
Handled(st, m, r) ==
  /\ r.st \in Slate /\ Sound(r.st) /\ Fresh(r.st)
  /\ r.st.epoch = st.epoch /\ r.st.symbol = st.symbol /\ r.st.swept = FALSE
  /\ r.st.inSeq = m.seq
  /\ r.st.mdSeq = st.mdSeq \/ (m.type = "Tob" /\ r.st.mdSeq = m.md)
  /\ \/ r.stop = "none" /\ r.st.stopped = FALSE
     \/ r.stop = "protocol" /\ st.symbol = "foreign"
  /\ \/ Speaks(st, r.st, r.cmds, AckedBy(st, m))
     \/ /\ m.type # "Tob" /\ Ends(m) /\ r.cmds = << >>
        /\ Drops(st, m.id, r.st)

Rebooked(st, m, r) ==
  /\ r.stop = "none" /\ r.st \in Slate /\ Sound(r.st) /\ Fresh(r.st)
  /\ r.st.epoch = st.epoch /\ r.st.symbol = st.symbol /\ r.st.swept = FALSE
  /\ r.st.inSeq = st.inSeq /\ r.st.mdSeq = m.md /\ r.st.stopped = st.stopped
  /\ Speaks(st, r.st, r.cmds, AckedIds(st))

(* A new book: both sides are decided.                                     *)
LEMMA TakeBookDoes ==
  ASSUME NEW st \in Slate, Sound(st), st.swept = FALSE,
         NEW m \in TickMsg, m.md > st.mdSeq
  PROVE  Rebooked(st, m, TakeBook(st, m))
<1> DEFINE u == [[st EXCEPT !.seenTob = TRUE] EXCEPT !.mdSeq = m.md, !.bid = m.bid, !.ask = m.ask]
           b == Quote(u, "B")
           a == Quote(b.st, "S")
           acked == AckedIds(st)
<1>1. /\ m.md \in Nat /\ m.bid \in Nat /\ m.ask \in Nat /\ m.bid > 0 /\ m.ask > 0
      /\ st.mdSeq \in Nat
  BY DEF TickMsg, Slate
<1>2. /\ u.orders = st.orders /\ u.current = st.current /\ u.nextCl = st.nextCl
      /\ u.rejected = st.rejected /\ u.epoch = st.epoch /\ u.symbol = st.symbol
      /\ u.inSeq = st.inSeq /\ u.mdSeq = m.md /\ u.bid = m.bid /\ u.ask = m.ask
      /\ u.stopped = st.stopped /\ u.swept = FALSE
  BY DEF Slate
<1>3. u \in Slate
  <2>1. u = [st EXCEPT !.seenTob = TRUE, !.mdSeq = m.md, !.bid = m.bid, !.ask = m.ask]
    BY DEF Slate
  <2>2. QED  BY <1>1, <2>1, ZenonT(60) DEF Slate
<1>4. TakeBook(st, m) = [st |-> a.st, stop |-> "none", cmds |-> b.cmds \o a.cmds]
  BY <1>1 DEF TakeBook, Result
<1> HIDE DEF u
<1>5. Sound(u) /\ \A s \in Sides : u.nextCl[s] < u.mdSeq
  <2>1. SameOrders(st, u)
    BY <1>2 DEF SameOrders
  <2>2. QED  BY <1>1, <1>2, <1>3, <2>1, MovedSound
<1>6. AckedIds(u) = acked /\ KnownIds(u) = KnownIds(st)
  BY <1>2 DEF AckedIds, KnownIds
<1>7. Decision(u, "B", b)
  BY <1>2, <1>3, <1>5, QuoteDoes DEF Sides
<1> HIDE DEF b
<1>8. /\ b.st \in Slate /\ SameBook(u, b.st) /\ Sound(b.st) /\ FreshOn(b.st, "B")
      /\ b.st.nextCl["S"] = u.nextCl["S"]
  <2>1. /\ b.st \in Slate /\ SameBook(u, b.st) /\ Sound(b.st) /\ FreshOn(b.st, "B")
        /\ \A s \in Sides : s # "B" => b.st.nextCl[s] = u.nextCl[s]
    <3>1. "B" \in Sides /\ u.bid > 0 /\ u.ask > 0
      BY <1>1, <1>2 DEF Sides
    <3>2. u.nextCl["B"] < u.mdSeq /\ u.swept = FALSE
      BY <1>2, <1>5, <3>1
    <3>3. Decided(u, "B", b.st)
      BY <1>3, <1>5, <1>7, <3>1, <3>2, DecisionKeeps
    <3>4. QED  BY <3>3 DEF Decided
  <2>2. QED  BY <2>1 DEF Sides
<1>9. b.st.swept = FALSE /\ b.st.bid > 0 /\ b.st.ask > 0 /\ b.st.nextCl["S"] < b.st.mdSeq
  BY <1>1, <1>2, <1>5, <1>8 DEF SameBook, Sides
<1>10. Decision(b.st, "S", a)
  BY <1>8, <1>9, QuoteDoes DEF Sides
<1> HIDE DEF a
<1>11. /\ a.st \in Slate /\ SameBook(b.st, a.st) /\ Sound(a.st) /\ FreshOn(a.st, "S")
       /\ FreshOn(a.st, "B")
  <2>1. /\ a.st \in Slate /\ SameBook(b.st, a.st) /\ Sound(a.st) /\ FreshOn(a.st, "S")
        /\ \A s \in Sides : s # "S" /\ FreshOn(b.st, s) => FreshOn(a.st, s)
    <3>1. "S" \in Sides
      BY DEF Sides
    <3>2. Decided(b.st, "S", a.st)
      BY <1>8, <1>9, <1>10, <3>1, DecisionKeeps
    <3>3. QED  BY <3>2 DEF Decided
  <2>2. QED  BY <1>8, <2>1 DEF Sides
<1>12. Fresh(a.st)
  BY <1>11 DEF Fresh, Sides
<1>13. Speaks(st, a.st, b.cmds \o a.cmds, acked)
  <2>1. "B" \in Sides /\ "S" \in Sides
    BY DEF Sides
  <2>2. Spoken(u, "B", b.st, b.cmds, acked)
    BY <1>3, <1>5, <1>6, <1>7, <2>1, DecisionSpeaks
  <2>3. AckedIds(b.st) \subseteq acked
    BY <2>2 DEF Spoken
  <2>4. Spoken(b.st, "S", a.st, a.cmds, acked)
    BY <1>8, <1>10, <2>1, <2>3, DecisionSpeaks
  <2>5. Speaks(u, a.st, b.cmds \o a.cmds, acked)
    BY <1>3, <1>8, <1>11, <2>2, <2>4, BothSpeak
  <2>6. QED  BY <1>2, <1>6, <2>5, SpeaksFrom
<1>14. /\ a.st.epoch = st.epoch /\ a.st.symbol = st.symbol /\ a.st.swept = FALSE
       /\ a.st.inSeq = st.inSeq /\ a.st.mdSeq = m.md /\ a.st.stopped = st.stopped
  BY <1>2, <1>8, <1>11 DEF SameBook
<1>15. QED  BY <1>4, <1>11, <1>12, <1>13, <1>14 DEF Rebooked

(* on_report and on_tob, handed the message they expect.                   *)
LEMMA OnReportDoes ==
  ASSUME NEW st \in Slate, Sound(st), Fresh(st), st.stopped = FALSE, NEW m \in Msg,
         m.epoch = st.epoch, m.seq = st.inSeq + 1,
         m.type = "Tob" => m.md > st.mdSeq
  PROVE  Handled(st, m, OnReport(st, m))
<1> DEFINE a == Advance(st, m)
           r == OnReport(st, m)
<1> SUFFICES Handled(st, m, r)
  OBVIOUS
<1>1. st.swept = FALSE /\ m.seq \in Nat /\ Contiguous(st, m)
  BY DEF Sound, Contiguous, Msg, TickMsg, ReportMsg, Slate
<1>2. a \in Slate
  BY <1>1, ZenonT(60) DEF Slate, Advance
<1>3. /\ a.orders = st.orders /\ a.current = st.current /\ a.nextCl = st.nextCl
      /\ a.rejected = st.rejected /\ a.epoch = st.epoch /\ a.symbol = st.symbol
      /\ a.inSeq = m.seq /\ a.mdSeq = st.mdSeq /\ a.bid = st.bid /\ a.ask = st.ask
      /\ a.stopped = FALSE /\ a.swept = FALSE
  BY <1>1 DEF Slate, Advance
<1> HIDE DEF a
<1>4. Sound(a) /\ Fresh(a)
  <2>1. SameOrders(st, a)
    BY <1>3 DEF SameOrders
  <2>2. QED  BY <1>1, <1>2, <1>3, <2>1, StaysSound DEF Fresh
<1>5. KnownIds(a) = KnownIds(st) /\ AckedIds(a) = AckedIds(st)
  BY <1>3 DEF KnownIds, AckedIds
<1>6. CASE m.type = "Tob" /\ m.symbol # st.symbol
  <2> DEFINE t == [a EXCEPT !.stopped = TRUE]
  <2>1. r = [st |-> t, stop |-> "protocol", cmds |-> << >>]
    BY <1>1, <1>6 DEF OnReport, OnTob, Stop, Result, a
  <2>2. t \in Slate
    BY <1>2, ZenonT(60) DEF Slate
  <2>3. /\ t.orders = st.orders /\ t.current = st.current /\ t.nextCl = st.nextCl
        /\ t.rejected = st.rejected /\ t.epoch = st.epoch /\ t.symbol = st.symbol
        /\ t.inSeq = m.seq /\ t.mdSeq = st.mdSeq /\ t.bid = st.bid /\ t.ask = st.ask
        /\ t.stopped = TRUE /\ t.swept = FALSE
    BY <1>2, <1>3 DEF Slate
  <2> HIDE DEF t
  <2>4. Sound(t) /\ Fresh(t)
    <3>1. SameOrders(st, t)
      BY <2>3 DEF SameOrders
    <3>2. QED  BY <1>1, <2>2, <2>3, <3>1, StaysSound DEF Fresh
  <2>5. st.symbol = "foreign"
    <3>1. m \in TickMsg
      BY <1>6 DEF Msg, ReportMsg
    <3>2. QED  BY <1>6, <3>1 DEF TickMsg, Slate
  <2>6. Speaks(st, t, << >>, AckedBy(st, m))
    <3>1. AckedIds(st) \subseteq AckedBy(st, m)
      BY DEF AckedBy
    <3>2. QED  BY <2>3, <3>1, SilenceSpeaks
  <2>7. QED  BY <2>1, <2>2, <2>3, <2>4, <2>5, <2>6 DEF Handled
<1>7. CASE m.type = "Tob" /\ m.symbol = st.symbol
  <2>1. r = TakeBook(a, m)
    BY <1>1, <1>7 DEF OnReport, OnTob, a
  <2>2. m \in TickMsg
    BY <1>7 DEF Msg, ReportMsg
  <2>3. /\ r.stop = "none" /\ r.st \in Slate /\ Sound(r.st) /\ Fresh(r.st)
        /\ r.st.epoch = a.epoch /\ r.st.symbol = a.symbol /\ r.st.swept = FALSE
        /\ r.st.inSeq = a.inSeq /\ r.st.mdSeq = m.md /\ r.st.stopped = a.stopped
        /\ Speaks(a, r.st, r.cmds, AckedIds(a))
    <3>1. m.md > a.mdSeq
      BY <1>3, <1>7
    <3>2. Rebooked(a, m, TakeBook(a, m))
      BY <1>2, <1>3, <1>4, <2>2, <3>1, TakeBookDoes
    <3> HIDE DEF r
    <3>3. QED  BY <2>1, <3>2 DEF Rebooked
  <2>4. Speaks(st, r.st, r.cmds, AckedBy(st, m))
    <3>1. AckedBy(st, m) = AckedIds(a)
      BY <1>5, <1>7 DEF AckedBy
    <3>2. QED  BY <1>3, <1>5, <2>3, <3>1, SpeaksFrom
  <2> HIDE DEF r
  <2>5. QED  BY <1>3, <1>7, <2>3, <2>4 DEF Handled
<1>8. CASE m.type # "Tob"
  <2> DEFINE o == Lookup(st, m.id)
  <2>1. m \in ReportMsg
    BY <1>8 DEF Msg, TickMsg
  <2>2. r = IF o = NoOrder THEN Silence(a) ELSE Handle(a, o, m)
    BY <1>1, <1>8 DEF OnReport, a
  <2>3. Handled(st, m, Silence(a))
    <3>1. Silence(a) = [st |-> a, stop |-> "none", cmds |-> << >>]
      BY DEF Silence, Result
    <3>2. Speaks(st, a, << >>, AckedBy(st, m))
      <4>1. AckedIds(st) \subseteq AckedBy(st, m)
        BY DEF AckedBy
      <4>2. QED  BY <1>3, <4>1, SilenceSpeaks
    <3>3. QED  BY <1>2, <1>3, <1>4, <3>1, <3>2 DEF Handled
  <2>4. CASE o = NoOrder
    BY <2>2, <2>3, <2>4
  <2>5. CASE o # NoOrder
    <3>1. m.id \in KnownIds(st)
      BY <2>5 DEF Lookup
    <3>2. PICK p \in 1 .. Len(st.orders) :
            /\ st.orders[p].id = m.id /\ st.orders[p] \in Order
            /\ o = st.orders[p] /\ Place(st, m.id) = p
      BY <3>1, KnownHasPlace DEF Sound
    <3>3. o = a.orders[p] /\ p \in 1 .. Len(a.orders) /\ o.id = m.id
      BY <1>3, <3>2
    <3>4. Place(a, m.id) = p
      BY <1>3, <3>2 DEF Place
    <3>5. r = Handle(a, o, m)
      BY <2>2, <2>5
    <3>6. CASE m.type = "OrderAck"
      <4>1. r = Settle(a, a.orders[p])
        BY <3>3, <3>5, <3>6 DEF Handle
      <4>2. Answers(a, AckedIds(a) \cup {a.orders[p].id}, Settle(a, a.orders[p]))
        BY <1>2, <1>3, <1>4, <3>3, SettleDoes
      <4>3. AckedBy(st, m) = AckedIds(a) \cup {a.orders[p].id}
        BY <1>5, <3>3, <3>6 DEF AckedBy
      <4> HIDE DEF r
      <4>4. Answers(a, AckedBy(st, m), r)
        BY <4>1, <4>2, <4>3
      <4>5. Speaks(st, r.st, r.cmds, AckedBy(st, m))
        <5>1. Speaks(a, r.st, r.cmds, AckedBy(st, m))
          BY <4>4 DEF Answers
        <5>2. QED  BY <1>3, <1>5, <5>1, SpeaksFrom
      <4>6. QED  BY <1>3, <4>4, <4>5 DEF Answers, SameBook, Handled
    <3>7. CASE m.type = "Fill" /\ m.leaves # 0
      BY <2>3, <3>5, <3>7 DEF Handle
    <3>8. CASE Ends(m)
      <4>1. PICK rej \in [Sides -> Nat] :
              /\ r = Silence(Retire([a EXCEPT !.rejected = rej], o))
              /\ \A s \in Sides : rej[s] # a.rejected[s] => a.current[s] = o.id
        <5>1. a = [a EXCEPT !.rejected = a.rejected] /\ a.rejected \in [Sides -> Nat]
          BY <1>2 DEF Slate
        <5>2. CASE m.type # "Reject"
          <6>1. r = Silence(Retire(a, o))
            BY <3>5, <3>8, <5>2 DEF Handle, Ends
          <6>2. QED  BY <5>1, <6>1
        <5>3. CASE m.type = "Reject"
          <6> DEFINE rej == [a.rejected EXCEPT ![SideOf(o.id)] =
                               IF a.current[SideOf(o.id)] = o.id THEN o.px ELSE @]
          <6>1. r = Silence(Retire([a EXCEPT !.rejected = rej], o))
            BY <3>5, <5>3 DEF Handle, Refuse
          <6>2. rej \in [Sides -> Nat] /\ \A s \in Sides : rej[s] # a.rejected[s] => a.current[s] = o.id
            BY <3>2, <5>1 DEF Order
          <6> HIDE DEF rej
          <6>3. QED  BY <6>1, <6>2
        <5>4. QED  BY <5>2, <5>3
      <4> DEFINE b == [a EXCEPT !.rejected = rej]
                 c == [a.current EXCEPT ![SideOf(o.id)] = IF @ = o.id THEN NoId ELSE @]
                 t == [[b EXCEPT !.orders = Without(a.orders, p)] EXCEPT !.current = c]
      <4>2. /\ b.orders = a.orders /\ b.current = a.current /\ Place(b, o.id) = p
        BY <1>2, <3>3, <3>4 DEF Place, Slate
      <4>3. Retire(b, o) = t
        <5>1. Retire(b, o) = [b EXCEPT !.orders = Without(@, Place(b, o.id)),
             !.current[SideOf(o.id)] = IF @ = o.id THEN NoId ELSE @]
          BY DEF Retire
        <5> HIDE DEF b
        <5>2. QED  BY <4>2, <5>1
      <4>4. r = [st |-> t, stop |-> "none", cmds |-> << >>]
        BY <4>1, <4>3 DEF Silence, Result
      <4>5. Without(a.orders, p) \in Seq(Order)
        <5>1. a.orders \in Seq(Order)
          BY <1>2, OrdersTyped
        <5>2. QED  BY <3>3, <5>1, WithoutDoes DEF Skips
      <4>6. c \in [Sides -> Id \cup {NoId}]
        BY <1>2 DEF Slate
      <4>7. /\ t.orders = Without(a.orders, p) /\ t.current = c /\ t.rejected = rej
            /\ t.nextCl = a.nextCl /\ SameBook(a, t)
        BY <1>2 DEF Slate, SameBook
      <4>8. t \in Slate
        <5> HIDE DEF c
        <5>1. QED  BY <1>2, <4>1, <4>5, <4>6, ZenonT(60) DEF Slate
      <4> HIDE DEF t
      <4>9. Retires(a, p, t)
        BY <3>3, <4>7, <4>8 DEF Retires
      <4>10. \A s \in Sides : t.rejected[s] # NoPx =>
                \/ t.rejected[s] = a.rejected[s]
                \/ a.current[s] = a.orders[p].id
        BY <3>3, <4>1, <4>7
      <4>11. Sound(t) /\ Fresh(t) /\ Drops(a, m.id, t)
        BY <1>2, <1>4, <3>3, <4>9, <4>10, RetireKeeps
      <4>12. Drops(st, m.id, t)
        BY <1>3, <1>5, <4>11 DEF Drops
      <4>13. QED  BY <1>3, <1>8, <3>8, <4>4, <4>7, <4>8, <4>11, <4>12 DEF Handled, SameBook
    <3>9. Ends(m) \/ m.type = "OrderAck" \/ (m.type = "Fill" /\ m.leaves # 0)
      BY <2>1 DEF Ends, ReportMsg
    <3>10. QED  BY <3>6, <3>7, <3>8, <3>9
  <2>6. QED  BY <2>4, <2>5
<1>9. QED  BY <1>6, <1>7, <1>8

------------------------------------------------------------------------------
(* What the stale sweep does.                                              *)

(* The k-th smallest place is one of the places.                           *)
LEMMA NthIsOne ==
  ASSUME NEW n \in Nat, NEW S \in SUBSET (1 .. n)
  PROVE  /\ IsFiniteSet(S) /\ Cardinality(S) \in Nat
         /\ \A k \in 1 .. Cardinality(S) : Nth(S, k) \in S
<1> DEFINE below(i) == {j \in S : j <= i}
           rank == [i \in S |-> Cardinality(below(i))]
           c == Cardinality(S)
<1>1. IsFiniteSet(S) /\ c \in Nat
  <2>1. IsFiniteSet(1 .. n)
    BY FS_Interval
  <2>2. IsFiniteSet(S)
    BY <2>1, FS_Subset
  <2>3. QED  BY <2>2, FS_CardinalityType
<1>2. ASSUME NEW i \in S
      PROVE  IsFiniteSet(below(i)) /\ Cardinality(below(i)) \in 1 .. c
  <2>1. below(i) \in SUBSET S /\ below(i) # {}
    <3>1. i \in below(i)
      OBVIOUS
    <3>2. QED  BY <3>1
  <2> HIDE DEF below
  <2>2. /\ IsFiniteSet(below(i)) /\ Cardinality(below(i)) <= c
    BY <1>1, <2>1, FS_Subset
  <2>3. Cardinality(below(i)) \in Nat /\ Cardinality(below(i)) # 0
    BY <2>1, <2>2, FS_CardinalityType, FS_EmptySet
  <2>4. QED  BY <1>1, <2>2, <2>3
<1>3. rank \in [S -> 1 .. c]
  BY <1>2
<1>4. ASSUME NEW i \in S, NEW j \in S, rank[i] = rank[j]
      PROVE  i = j
  <2>1. ASSUME NEW a \in S, NEW b \in S, a < b
        PROVE  Cardinality(below(a)) # Cardinality(below(b))
    <3>1. below(a) \in SUBSET below(b) /\ b \in below(b) /\ b \notin below(a)
      <4>1. \A x \in S : x \in Int /\ (x <= a => x <= b)
        BY <2>1
      <4>2. ~(b <= a) /\ b <= b
        BY <2>1
      <4>3. QED  BY <4>1, <4>2
    <3> HIDE DEF below
    <3>2. below(a) # below(b)
      BY <3>1
    <3>3. QED  BY <1>2, <3>1, <3>2, FS_Subset
  <2>2. QED  BY <1>4, <2>1
<1> HIDE DEF rank
<1>5. rank \in Injection(S, 1 .. c)
  BY <1>3, <1>4 DEF Injection, IsInjective
<1>6. IsFiniteSet(1 .. c) /\ Cardinality(1 .. c) = c
  BY <1>1, FS_Interval
<1>7. rank \in Surjection(S, 1 .. c)
  BY <1>5, <1>6, FS_Injection
<1>8. ASSUME NEW k \in 1 .. c  PROVE Nth(S, k) \in S
  <2>1. \E i \in S : rank[i] = k
    BY <1>7 DEF Surjection
  <2>2. \E i \in S : Cardinality({j \in S : j <= i}) = k
    BY <2>1 DEF rank
  <2>3. QED  BY <2>2 DEF Nth
<1>9. QED  BY <1>1, <1>8

Swept(st, r) ==
  /\ r.st \in Slate /\ Sound(r.st)
  /\ r.st.epoch = st.epoch /\ r.st.symbol = st.symbol /\ r.st.inSeq = st.inSeq
  /\ r.st.mdSeq = st.mdSeq /\ r.st.nextCl = st.nextCl /\ r.st.current = st.current
  /\ KnownIds(r.st) = KnownIds(st) /\ r.st.stopped = TRUE
  /\ r.stop = IF st.stopped THEN "none" ELSE "stale"
  /\ r.cmds \in Seq(Command)
  /\ \A k \in 1 .. Len(r.cmds) :
       r.cmds[k].type = "CancelOrder" /\ r.cmds[k].id \in KnownIds(st)

(* on_timer with a stale book: the client stops and pulls what it knows.   *)
LEMMA OnTimerDoes ==
  ASSUME NEW st \in Slate, Sound(st), st.seenTob, ~st.swept
  PROVE  Swept(st, OnTimer(st, TRUE))
<1> DEFINE n == Len(st.orders)
           pulled == {i \in 1 .. n : st.orders[i].state # "PendingCancel"}
           ids == {st.orders[i].id : i \in pulled}
           c == Cardinality(pulled)
           cmd(k) == CancelCmd(st.orders[Nth(pulled, k)].id)
           cmds == [k \in 1 .. c |-> cmd(k)]
           q == Marked(st.orders, ids, "PendingCancel")
           t == [[st EXCEPT !.orders = q] EXCEPT !.stopped = TRUE, !.swept = TRUE]
<1>1. OnTimer(st, TRUE) =
        [st |-> t, stop |-> IF st.stopped THEN "none" ELSE "stale", cmds |-> cmds]
  BY DEF OnTimer, Result, SetState, Marked
<1>2. n \in Nat /\ st.orders \in Seq(Order)
  BY OrdersTyped
<1>3. Remarks(st, ids, "PendingCancel", q)
  <2> HIDE DEF ids
  <2>1. QED  BY MarkedDoes
<1>4. c \in Nat /\ \A k \in 1 .. c : Nth(pulled, k) \in pulled
  BY <1>2, NthIsOne
<1>5. \A k \in 1 .. c : /\ cmd(k) \in Command /\ cmd(k).type = "CancelOrder"
                        /\ cmd(k).id \in KnownIds(st)
  <2>1. TAKE k \in 1 .. c
  <2> DEFINE i == Nth(pulled, k)
  <2>2. i \in 1 .. n
    BY <1>4
  <2> HIDE DEF i
  <2>3. st.orders[i].id \in Id /\ st.orders[i].id \in KnownIds(st)
    BY <2>2, OrdersTyped DEF KnownIds
  <2>4. cmd(k) = CancelCmd(st.orders[i].id)
    BY DEF i
  <2> HIDE DEF cmd
  <2>5. QED  BY <2>3, <2>4 DEF CancelCmd, Command
<1> HIDE DEF cmd, c
<1>6. cmds \in Seq(Command) /\ Len(cmds) = c /\ \A k \in 1 .. c : cmds[k] = cmd(k)
  <2>1. cmds \in [1 .. c -> Command]
    BY <1>5
  <2>2. QED  BY <1>4, <2>1
<1> HIDE DEF cmds, q
<1>7. q \in Seq(Order)
  BY <1>3 DEF Remarks
<1>8. t = [st EXCEPT !.orders = q, !.stopped = TRUE, !.swept = TRUE]
  BY DEF Slate
<1>9. t \in Slate
  BY <1>7, <1>8, ZenonT(60) DEF Slate
<1>10. /\ t.orders = q /\ t.current = st.current /\ t.nextCl = st.nextCl
       /\ t.rejected = st.rejected /\ t.epoch = st.epoch /\ t.symbol = st.symbol
       /\ t.inSeq = st.inSeq /\ t.mdSeq = st.mdSeq /\ t.bid = st.bid /\ t.ask = st.ask
       /\ t.stopped = TRUE /\ t.swept = TRUE
  BY DEF Slate
<1> HIDE DEF t
<1>11. /\ Len(q) = n
       /\ \A i \in 1 .. n : /\ q[i].id = st.orders[i].id
                            /\ q[i].state = "PendingCancel"
  <2>1. /\ Len(q) = n
        /\ \A i \in 1 .. n :
             /\ q[i].id = st.orders[i].id
             /\ q[i].state = IF st.orders[i].id \in ids THEN "PendingCancel" ELSE st.orders[i].state
    BY <1>3 DEF Remarks
  <2>2. \A i \in 1 .. n : st.orders[i].state # "PendingCancel" => st.orders[i].id \in ids
    OBVIOUS
  <2> HIDE DEF ids
  <2>3. QED  BY <2>1, <2>2
<1>12. KnownIds(t) = KnownIds(st)
  BY <1>10, <1>11 DEF KnownIds
<1>13. Sound(t)
  <2>1. /\ Distinct(st) /\ Numbered(st) /\ Holding(st) /\ Barred(st) /\ Priced(st)
    BY DEF Sound
  <2>2. Distinct(t)
    BY <1>10, <1>11, <2>1 DEF Distinct
  <2>3. Numbered(t) /\ Barred(t)
    BY <1>10, <1>11, <2>1 DEF Numbered, GivenOut, Barred
  <2>4. Holding(t)
    BY <1>10, <1>11, <1>12, <2>1 DEF Holding
  <2>5. Priced(t)
    <3>1. t.orders # << >> => st.orders # << >>
      BY <1>2, <1>7, <1>10, <1>11
    <3>2. QED  BY <1>10, <1>11, <2>1, <3>1 DEF Priced
  <2>6. QED  BY <1>10, <2>2, <2>3, <2>4, <2>5 DEF Sound
<1> DEFINE r == OnTimer(st, TRUE)
           why == IF st.stopped THEN "none" ELSE "stale"
<1>14. /\ r.st = t /\ r.stop = why /\ r.cmds = cmds
  <2>1. r = [st |-> t, stop |-> why, cmds |-> cmds]
    BY <1>1
  <2> HIDE DEF r, why
  <2>2. QED  BY <2>1
<1> HIDE DEF r
<1>15. Swept(st, r)
  <2>1. \A k \in 1 .. Len(cmds) : cmds[k].type = "CancelOrder" /\ cmds[k].id \in KnownIds(st)
    BY <1>5, <1>6
  <2>2. QED  BY <1>6, <1>9, <1>10, <1>12, <1>13, <1>14, <2>1 DEF Swept
<1>16. QED  BY <1>15 DEF r

------------------------------------------------------------------------------
(* What the driver makes of the strategy's answer.                         *)

Driver == [outSeq : Nat, epoch : Nat, close : {NoCode, Protocol, Stale}]
Frame == [type : {"NewOrder", "CancelOrder"}, id : Id, seq : Nat, epoch : Nat]

(* The last number used that the encoder takes.                            *)
Used(outSeq) == IF outSeq <= MaxSeq THEN outSeq ELSE MaxSeq

(* x.frames are the first commands, all of them unless the counter ran out,*)
(* and an intent is latched for a reason.                                  *)
Stamped(d, r, x) ==
  /\ x.st = r.st /\ x.driver \in Driver /\ x.driver.epoch = d.epoch
  /\ x.frames \in Seq(Frame) /\ Len(x.frames) <= Len(r.cmds)
  /\ \A i \in 1 .. Len(x.frames) :
       /\ x.frames[i].type = r.cmds[i].type /\ x.frames[i].id = r.cmds[i].id
       /\ x.frames[i].seq = Used(d.outSeq) + i /\ x.frames[i].epoch = d.epoch
  /\ Used(x.driver.outSeq) = Used(d.outSeq) + Len(x.frames)
  /\ d.outSeq <= x.driver.outSeq
  /\ d.close # NoCode => x.driver.close = d.close
  /\ d.close = NoCode =>
       \/ x.driver.close = NoCode /\ r.stop = "none" /\ Len(x.frames) = Len(r.cmds)
       \/ x.driver.close = Stale /\ r.stop = "stale"
       \/ x.driver.close = Protocol /\ (r.stop = "protocol" \/ x.driver.outSeq > MaxSeq)

(* _dispatch.                                                              *)
LEMMA DispatchDoes ==
  ASSUME NEW d \in Driver, NEW r, r.cmds \in Seq(Command),
         r.stop \in {"none", "stale", "protocol"}
  PROVE  Stamped(d, r, Dispatch(d, r))
<1> DEFINE n == Len(r.cmds)
           out == d.outSeq
           room == IF out < MaxSeq THEN MaxSeq - out ELSE 0
           fit == IF n <= room THEN n ELSE room
           stopped == NoteStop(d, r.stop)
           dr == IF fit = n THEN [stopped EXCEPT !.outSeq = @ + fit]
                 ELSE Latch([stopped EXCEPT !.outSeq = @ + fit + 1], Protocol)
           frame(i) == [type |-> r.cmds[i].type, id |-> r.cmds[i].id,
                        seq |-> out + i, epoch |-> d.epoch]
           frames == [i \in 1 .. fit |-> frame(i)]
           x == Dispatch(d, r)
<1> SUFFICES Stamped(d, r, x)
  OBVIOUS
<1>1. x = [st |-> r.st, driver |-> dr, frames |-> frames]
  BY DEF Dispatch
<1>2. x.st = r.st /\ x.driver = dr /\ x.frames = frames
  <2> HIDE DEF x, dr, frames
  <2>1. QED  BY <1>1
<1>3. n \in Nat /\ out \in Nat /\ MaxSeq \in Nat /\ d.epoch \in Nat
  BY ClientAssumption DEF Driver
<1>4. room \in Nat /\ fit \in Nat /\ fit <= n /\ fit <= room /\ (fit # n => fit = room)
  BY <1>3
<1>5. \A i \in 1 .. fit : /\ frame(i) \in Frame /\ frame(i).type = r.cmds[i].type
                          /\ frame(i).id = r.cmds[i].id /\ frame(i).seq = out + i
                          /\ frame(i).epoch = d.epoch
  <2>1. TAKE i \in 1 .. fit
  <2>2. i \in 1 .. n /\ out + i \in Nat
    <3> HIDE DEF fit, n, out
    <3>1. QED  BY <1>3, <1>4
  <2>3. r.cmds[i] \in Command
    BY <2>2
  <2>4. QED  BY <1>3, <2>2, <2>3 DEF Command, Frame
<1>6. /\ frames \in Seq(Frame) /\ Len(frames) = fit
      /\ \A i \in 1 .. fit : frames[i] = frame(i)
  <2> HIDE DEF frame, fit
  <2>1. frames \in [1 .. fit -> Frame]
    BY <1>5
  <2>2. QED  BY <1>4, <2>1
<1>7. fit > 0 => Used(out) = out
  BY <1>3, <1>4 DEF Used
<1>8. \A i \in 1 .. fit : out + i = Used(out) + i
  BY <1>4, <1>7
<1> HIDE DEF frames
<1>9. \A i \in 1 .. fit :
       /\ frames[i].type = r.cmds[i].type /\ frames[i].id = r.cmds[i].id
       /\ frames[i].seq = Used(out) + i /\ frames[i].epoch = d.epoch
  <2> HIDE DEF fit, frame
  <2>1. QED  BY <1>5, <1>6, <1>8
<1>10. /\ stopped \in Driver /\ stopped.outSeq = out /\ stopped.epoch = d.epoch
       /\ d.close # NoCode => stopped.close = d.close
       /\ d.close = NoCode => \/ stopped.close = NoCode /\ r.stop = "none"
                              \/ stopped.close = Stale /\ r.stop = "stale"
                              \/ stopped.close = Protocol /\ r.stop = "protocol"
  BY DEF NoteStop, Latch, Driver, NoCode, Protocol, Stale
<1> HIDE DEF stopped
<1>11. CASE fit = n
  <2>1. dr = [stopped EXCEPT !.outSeq = @ + fit]
    BY <1>11
  <2>2. /\ dr \in Driver /\ dr.outSeq = out + fit /\ dr.epoch = d.epoch
        /\ dr.close = stopped.close
    <3> HIDE DEF dr, fit
    <3>1. QED  BY <1>3, <1>4, <1>10, <2>1 DEF Driver
  <2>3. Used(out + fit) = Used(out) + fit
    BY <1>3, <1>4, <1>7 DEF Used
  <2> HIDE DEF x, dr, fit
  <2>4. QED  BY <1>2, <1>3, <1>4, <1>6, <1>9, <1>10, <1>11, <2>2, <2>3 DEF Stamped
<1>12. CASE fit # n
  <2> DEFINE e == [stopped EXCEPT !.outSeq = @ + fit + 1]
  <2>1. dr = Latch(e, Protocol)
    BY <1>12
  <2>2. /\ e \in Driver /\ e.outSeq = out + fit + 1 /\ e.epoch = d.epoch
        /\ e.close = stopped.close
    <3> HIDE DEF fit
    <3>1. QED  BY <1>3, <1>4, <1>10 DEF Driver
  <2>3. Used(out + fit + 1) = Used(out) + fit /\ out + fit + 1 > MaxSeq
    BY <1>3, <1>4, <1>12 DEF Used
  <2> HIDE DEF dr, e, fit
  <2>4. /\ dr \in Driver /\ dr.outSeq = out + fit + 1 /\ dr.epoch = d.epoch
        /\ dr.close = IF stopped.close = NoCode THEN Protocol ELSE stopped.close
    BY <2>1, <2>2 DEF Latch, Driver
  <2> HIDE DEF x
  <2>5. QED  BY <1>2, <1>3, <1>4, <1>6, <1>9, <1>10, <2>3, <2>4 DEF Stamped
<1>13. QED  BY <1>11, <1>12

------------------------------------------------------------------------------
(* The two ends: the commands on their way, the orders at the engine and   *)
(* the client's picture of them.                                           *)

Book == [OrderIds -> {"Free", "Live", "Done"}]
News(w, i) == w[i].type = "NewOrder"
Pulls(w, i) == w[i].type = "CancelOrder"

(* Every id in play was given out by the client.                           *)
Mine(w, eo, st) ==
  /\ \A i \in 1 .. Len(w) : w[i].id \in OrderIds /\ GivenOut(st, w[i].id)
  /\ \A id \in OrderIds : eo[id] # "Free" => GivenOut(st, id)

(* A new order on its way is unknown to the engine, holds its side at the  *)
(* client, is the only one of its side and goes before its own cancel.     *)
Opening(w, eo, st) ==
  /\ \A i \in 1 .. Len(w) : News(w, i) =>
       eo[w[i].id] = "Free" /\ st.current[SideOf(w[i].id)] = w[i].id
  /\ \A i, j \in 1 .. Len(w) :
       News(w, i) /\ News(w, j) /\ SideOf(w[i].id) = SideOf(w[j].id) => i = j
  /\ \A i, j \in 1 .. Len(w) :
       News(w, i) /\ Pulls(w, j) /\ w[i].id = w[j].id => i < j

(* At most one order rests on a side, and the client knows it.             *)
Alone(eo) ==
  \A m, n \in OrderIds :
    eo[m] = "Live" /\ eo[n] = "Live" /\ SideOf(m) = SideOf(n) => m = n
KnowsLive(eo, st) == \A m \in OrderIds : eo[m] = "Live" => m \in KnownIds(st)

(* On a wire that is up, what rests on a side is pulled before the next    *)
(* order of the side comes.                                                *)
Amending(w, eo) ==
  \A i \in 1 .. Len(w), m \in OrderIds :
    News(w, i) /\ eo[m] = "Live" /\ SideOf(m) = SideOf(w[i].id) =>
      \E j \in 1 .. i - 1 : Pulls(w, j) /\ w[j].id = m

(* While the client quotes: what it pulls or takes for acknowledged, the   *)
(* engine has seen.                                                        *)
Seen(w, eo, st) ==
  /\ \A i \in 1 .. Len(w) : Pulls(w, i) => eo[w[i].id] # "Free"
  /\ \A id \in AckedIds(st) : id \in OrderIds => eo[id] # "Free"

(* While it quotes on a wire that is up: what rests without holding its    *)
(* side is being pulled, or the order that holds it never got through.     *)
Covered(w, eo, st) ==
  \A m \in OrderIds :
    eo[m] = "Live" /\ m # st.current[SideOf(m)] =>
      \/ \E i \in 1 .. Len(w) : Pulls(w, i) /\ w[i].id = m
      \/ /\ st.current[SideOf(m)] \in OrderIds
         /\ eo[st.current[SideOf(m)]] = "Free"

Picture(w, eo, st, phase, link) ==
  /\ Mine(w, eo, st) /\ Opening(w, eo, st) /\ Alone(eo) /\ KnowsLive(eo, st)
  /\ link = "up" => Amending(w, eo)
  /\ phase = "quoting" => Seen(w, eo, st)
  /\ phase = "quoting" /\ link = "up" => Covered(w, eo, st)

(* A report on its way: it is about an order of this client, what it calls *)
(* over is over, and the engine has seen it.                               *)
Due(m, w, eo, st, phase) ==
  /\ m.id \in OrderIds /\ GivenOut(st, m.id)
  /\ Ends(m) => /\ eo[m.id] # "Live"
                /\ \A i \in 1 .. Len(w) : News(w, i) => w[i].id # m.id
  /\ phase = "quoting" => eo[m.id] # "Free"

(* The reports on their way stay due.                                      *)
StillDue(w, eo, st, q, v, e2, t, p) == \A m : Due(m, w, eo, st, q) => Due(m, v, e2, t, p)

(* Less is promised when the client stops or the wire goes down.           *)
LEMMA PictureWeaker ==
  ASSUME NEW w, NEW eo, NEW st, NEW q1, NEW u1,
         NEW q2, NEW u2,
         Picture(w, eo, st, q1, u1), q2 = "quoting" => q1 = "quoting", u2 = "up" => u1 = "up"
  PROVE  /\ Picture(w, eo, st, q2, u2)
         /\ StillDue(w, eo, st, q1, w, eo, st, q2)
BY DEF Picture, Due, StillDue

(* Nothing is on its way to an engine that knows nothing.                  *)
LEMMA PictureStarts ==
  ASSUME NEW st, NEW q, NEW u, q = "quoting" => AckedIds(st) = {}
  PROVE  Picture(<< >>, Orders!AllFree, st, q, u)
<1>1. \A id \in OrderIds : Orders!AllFree[id] = "Free"
  BY DEF Orders!AllFree
<1>2. Len(<< >>) = 0
  OBVIOUS
<1>3. QED  BY <1>1, <1>2 DEF Picture, Mine, Opening, Alone, KnowsLive, Amending, Seen, Covered

(* The numbers of the order ids.                                           *)
LEMMA IdsGiven ==
  ASSUME NEW st \in Slate, NEW t \in Slate, NEW s \in Sides
  PROVE  /\ ~GivenOut(st, NextId(st, s)) /\ SideOf(NextId(st, s)) = s
         /\ t.nextCl[s] = st.nextCl[s] + 1 => GivenOut(t, NextId(st, s))
         /\ \A id \in Id : id \in OrderIds => id # NoId
         /\ \A id \in Id : /\ GivenOut(st, id)
                           /\ \A x \in Sides : st.nextCl[x] <= t.nextCl[x]
                           => GivenOut(t, id)
         /\ \A id \in Id : /\ GivenOut(st, id)
                           /\ \A x \in Sides : st.nextCl[x] <= MaxBooks
                           => id \in OrderIds
         /\ OrderIds \subseteq Id /\ NextId(st, s) \in Id /\ NoId \notin OrderIds
<1>1. st.nextCl \in [Sides -> Nat] /\ t.nextCl \in [Sides -> Nat] /\ MaxBooks \in Nat
  BY ClientAssumption DEF Slate
<1>2. /\ NextId(st, s)[1] = s /\ NextId(st, s)[2] = st.nextCl[s] + 1 /\ NextId(st, s) \in Id
  BY <1>1 DEF NextId, Id
<1>3. OrderIds \subseteq Id /\ NoId \notin OrderIds
  BY <1>1 DEF OrderIds, Id, NoId, Sides
<1>4. ASSUME NEW id \in Id, GivenOut(st, id), \A x \in Sides : st.nextCl[x] <= t.nextCl[x]
      PROVE  GivenOut(t, id)
  <2>1. id[1] \in Sides /\ id[2] \in Nat
    BY DEF Id
  <2>2. QED  BY <1>1, <1>4, <2>1 DEF GivenOut
<1>5. ASSUME NEW id \in Id, GivenOut(st, id), \A x \in Sides : st.nextCl[x] <= MaxBooks
      PROVE  id \in OrderIds
  <2>1. id[1] \in Sides /\ id[2] \in Nat /\ id = <<id[1], id[2]>>
    BY DEF Id
  <2>2. id[2] \in 1 .. MaxBooks
    BY <1>1, <1>5, <2>1 DEF GivenOut
  <2>3. QED  BY <2>1, <2>2 DEF OrderIds
<1>6. ~GivenOut(st, NextId(st, s)) /\ (t.nextCl[s] = st.nextCl[s] + 1 => GivenOut(t, NextId(st, s)))
  BY <1>1, <1>2 DEF GivenOut
<1>7. QED  BY <1>2, <1>3, <1>4, <1>5, <1>6 DEF SideOf

(* The commands become frames, in order and up to some point.              *)
Framed(cmds, f) ==
  /\ f \in Seq(Frame) /\ cmds \in Seq(Command) /\ Len(f) <= Len(cmds)
  /\ \A i \in 1 .. Len(f) : f[i].type = cmds[i].type /\ f[i].id = cmds[i].id

(* v is w with f behind it.                                                *)
Joins(w, f, v) ==
  /\ v \in Seq(Frame) /\ Len(v) = Len(w) + Len(f) /\ Len(w) \in Nat /\ Len(f) \in Nat
  /\ \A i \in 1 .. Len(w) : i \in 1 .. Len(v) /\ v[i] = w[i]
  /\ \A i \in 1 .. Len(f) : Len(w) + i \in 1 .. Len(v) /\ v[Len(w) + i] = f[i]
  /\ \A i \in 1 .. Len(v) : \/ i \in 1 .. Len(w)
                            \/ \E k \in 1 .. Len(f) : i = Len(w) + k

(* A batch behind what is on its way.                                      *)
LEMMA JoinsDoes ==
  ASSUME NEW w \in Seq(Frame), NEW f \in Seq(Frame)
  PROVE  Joins(w, f, w \o f)
<1> DEFINE v == w \o f
<1>1. Len(w) \in Nat /\ Len(f) \in Nat
  OBVIOUS
<1>2. /\ v \in Seq(Frame) /\ Len(v) = Len(w) + Len(f)
      /\ \A i \in 1 .. Len(w) : v[i] = w[i]
      /\ \A i \in 1 .. Len(f) : v[Len(w) + i] = f[i]
  BY <1>1, ConcatProperties
<1> HIDE DEF v
<1>3. ASSUME NEW i \in 1 .. Len(v), i \notin 1 .. Len(w)
      PROVE  \E k \in 1 .. Len(f) : i = Len(w) + k
  <2>1. i - Len(w) \in 1 .. Len(f) /\ i = Len(w) + (i - Len(w))
    BY <1>1, <1>2, <1>3
  <2>2. QED  BY <2>1
<1>4. Joins(w, f, v)
  BY <1>1, <1>2, <1>3 DEF Joins
<1>5. QED  BY <1>4 DEF v

(* An answer to the engine keeps the picture.                              *)
LEMMA PictureSaid ==
  ASSUME NEW st \in Slate, NEW t \in Slate, Sound(st), Sound(t), t.mdSeq <= MaxBooks,
         NEW eo \in Book, NEW w \in Seq(Frame), NEW cmds, NEW f, Framed(cmds, f),
         NEW acked, Speaks(st, t, cmds, acked),
         \A id \in acked : id \in OrderIds => eo[id] # "Free",
         NEW up, NEW q, q = "quoting" => Len(f) = Len(cmds),
         Picture(w, eo, st, "quoting", up),
         NEW v, Joins(w, f, v)
  PROVE  /\ Picture(v, eo, t, q, up)
         /\ StillDue(w, eo, st, "quoting", v, eo, t, q)
<1> DEFINE n == Len(w)
           cur(s) == st.current[s]
<1>1. /\ Len(v) = n + Len(f) /\ n \in Nat /\ Len(f) \in Nat
      /\ \A i \in 1 .. n : i \in 1 .. Len(v) /\ v[i] = w[i]
      /\ \A i \in 1 .. Len(f) : n + i \in 1 .. Len(v) /\ v[n + i] = f[i]
      /\ \A i \in 1 .. Len(v) : i \in 1 .. n \/ \E k \in 1 .. Len(f) : i = n + k
  BY DEF Joins
<1>2. /\ Mine(w, eo, st) /\ Opening(w, eo, st) /\ Alone(eo) /\ KnowsLive(eo, st)
      /\ up = "up" => Amending(w, eo)
      /\ Seen(w, eo, st)
      /\ up = "up" => Covered(w, eo, st)
  BY DEF Picture
<1>3. ASSUME NEW i \in 1 .. Len(cmds), cmds[i].type = "NewOrder", NEW s, s = SideOf(cmds[i].id)
      PROVE  /\ s \in Sides /\ cmds[i].id = NextId(st, s)
             /\ t.current[s] = NextId(st, s) /\ t.nextCl[s] = st.nextCl[s] + 1
             /\ cur(s) # NoId => cur(s) \in acked /\ i > 1 /\ cmds[i - 1] = CancelCmd(cur(s))
  BY <1>3 DEF Speaks, NewSaid
<1>4. \A s \in Sides : st.nextCl[s] <= t.nextCl[s] /\ st.nextCl[s] <= MaxBooks /\ t.nextCl[s] <= MaxBooks
  <2>1. TAKE s \in Sides
  <2>2. t.nextCl[s] = st.nextCl[s] \/ t.nextCl[s] = st.nextCl[s] + 1
    BY <1>3 DEF Speaks
  <2>3. t.nextCl[s] <= t.mdSeq
    BY DEF Sound, Numbered
  <2>4. st.nextCl[s] \in Nat /\ t.nextCl[s] \in Nat /\ t.mdSeq \in Nat /\ MaxBooks \in Nat
    BY ClientAssumption DEF Slate
  <2>5. st.nextCl[s] <= t.nextCl[s]
    BY <2>2, <2>4
  <2>6. t.nextCl[s] <= MaxBooks
    <3> HIDE DEF cur
    <3>1. t.mdSeq <= MaxBooks
      OBVIOUS
    <3>2. QED  BY <2>3, <2>4, <3>1
  <2>7. st.nextCl[s] <= MaxBooks
    BY <2>4, <2>5, <2>6
  <2>8. QED  BY <2>5, <2>6, <2>7
<1>5. ASSUME NEW s \in Sides, cur(s) # NoId
      PROVE  cur(s) \in OrderIds /\ GivenOut(st, cur(s)) /\ SideOf(cur(s)) = s
  <2>1. cur(s) \in KnownIds(st) /\ SideOf(cur(s)) = s
    BY <1>5 DEF Sound, Holding
  <2>2. PICK i \in 1 .. Len(st.orders) : st.orders[i].id = cur(s)
    BY <2>1 DEF KnownIds
  <2>3. GivenOut(st, cur(s)) /\ cur(s) \in Id
    BY <2>2, OrdersTyped DEF Sound, Numbered
  <2>4. QED  BY <1>4, <2>1, <2>3, IdsGiven
<1>6. ASSUME NEW s \in Sides, t.current[s] # cur(s)
      PROVE  /\ t.current[s] = NextId(st, s) /\ t.nextCl[s] = st.nextCl[s] + 1
             /\ cur(s) # NoId => eo[cur(s)] # "Free"
             /\ \E i \in 1 .. Len(cmds) : cmds[i].type = "NewOrder" /\ SideOf(cmds[i].id) = s
  <2>1. PICK i \in 1 .. Len(cmds) : cmds[i].type = "NewOrder" /\ SideOf(cmds[i].id) = s
    BY <1>6 DEF Speaks
  <2>2. QED  BY <1>3, <1>5, <2>1
<1>7. \A s \in Sides : /\ NextId(st, s) \in Id /\ ~GivenOut(st, NextId(st, s))
                       /\ t.nextCl[s] = st.nextCl[s] + 1 =>
                            GivenOut(t, NextId(st, s)) /\ NextId(st, s) \in OrderIds
  BY <1>4, IdsGiven
<1>8. \A id \in OrderIds : id # NoId /\ (GivenOut(st, id) => GivenOut(t, id)) /\ SideOf(id) \in Sides
  <2>1. \A id \in OrderIds : id # NoId /\ (GivenOut(st, id) => GivenOut(t, id))
    BY <1>4, IdsGiven DEF Sides
  <2>2. \A id \in OrderIds : SideOf(id) \in Sides
    BY DEF OrderIds, SideOf
  <2>3. QED  BY <2>1, <2>2
<1>9. ASSUME NEW k \in 1 .. Len(f), f[k].type = "NewOrder", NEW s, s = SideOf(f[k].id)
      PROVE  /\ s \in Sides /\ f[k].id = NextId(st, s) /\ f[k].id \in OrderIds
             /\ GivenOut(t, f[k].id) /\ ~GivenOut(st, f[k].id) /\ eo[f[k].id] = "Free"
             /\ t.current[s] = f[k].id
             /\ cur(s) # NoId =>
                  /\ eo[cur(s)] # "Free"
                  /\ k - 1 \in 1 .. Len(f)
                  /\ f[k - 1].type = "CancelOrder" /\ f[k - 1].id = cur(s)
  <2>1. k \in 1 .. Len(cmds) /\ cmds[k].type = "NewOrder" /\ cmds[k].id = f[k].id /\ Len(cmds) \in Nat
    BY <1>1, <1>9 DEF Framed
  <2>2. /\ s \in Sides /\ f[k].id = NextId(st, s) /\ t.current[s] = f[k].id
        /\ t.nextCl[s] = st.nextCl[s] + 1
        /\ cur(s) # NoId => cur(s) \in acked /\ k > 1 /\ cmds[k - 1] = CancelCmd(cur(s))
    BY <1>3, <1>9, <2>1
  <2>3. f[k].id \in OrderIds /\ GivenOut(t, f[k].id) /\ ~GivenOut(st, f[k].id)
    BY <1>7, <2>2
  <2>4. eo[f[k].id] = "Free"
    BY <1>2, <2>3 DEF Mine
  <2>5. cur(s) # NoId => eo[cur(s)] # "Free"
    BY <1>5, <2>2
  <2>6. ASSUME cur(s) # NoId
        PROVE  k - 1 \in 1 .. Len(f) /\ f[k - 1].type = "CancelOrder" /\ f[k - 1].id = cur(s)
    <3>1. k - 1 \in 1 .. Len(f)
      BY <1>1, <2>2, <2>6
    <3>2. f[k - 1].type = cmds[k - 1].type /\ f[k - 1].id = cmds[k - 1].id
      BY <3>1 DEF Framed
    <3>3. QED  BY <2>2, <2>6, <3>1, <3>2 DEF CancelCmd
  <2>7. QED  BY <2>2, <2>3, <2>4, <2>5, <2>6
<1>10. ASSUME NEW k \in 1 .. Len(f), f[k].type = "CancelOrder"
       PROVE  /\ f[k].id \in OrderIds /\ GivenOut(st, f[k].id) /\ eo[f[k].id] # "Free"
  <2>1. k \in 1 .. Len(cmds) /\ cmds[k].type = "CancelOrder" /\ cmds[k].id = f[k].id
    BY <1>1, <1>10 DEF Framed
  <2>2. /\ SideOf(f[k].id) \in Sides /\ f[k].id = cur(SideOf(f[k].id)) /\ f[k].id \in acked
    BY <2>1 DEF Speaks, CancelSaid
  <2>3. f[k].id # NoId
    <3>1. f[k] \in Frame
      BY DEF Framed
    <3>2. QED  BY <3>1 DEF Frame, Id, NoId, Sides
  <2>4. QED  BY <1>5, <2>2, <2>3
<1>11. \A k \in 1 .. Len(f) : f[k].type \in {"NewOrder", "CancelOrder"}
  <2>1. \A k \in 1 .. Len(f) : f[k] \in Frame
    BY DEF Framed
  <2>2. QED  BY <2>1 DEF Frame
<1>12. Mine(v, eo, t)
  <2>1. ASSUME NEW i \in 1 .. Len(v)  PROVE v[i].id \in OrderIds /\ GivenOut(t, v[i].id)
    <3>1. CASE i \in 1 .. n
      BY <1>1, <1>2, <1>8, <3>1 DEF Mine
    <3>2. ASSUME NEW k \in 1 .. Len(f), i = n + k
          PROVE  v[i].id \in OrderIds /\ GivenOut(t, v[i].id)
      <4>1. v[i] = f[k]
        BY <1>1, <3>2
      <4>2. f[k].id \in OrderIds /\ GivenOut(t, f[k].id)
        BY <1>8, <1>9, <1>10, <1>11
      <4>3. QED  BY <4>1, <4>2
    <3>3. QED  BY <1>1, <3>1, <3>2
  <2>2. QED  BY <1>2, <1>8, <2>1 DEF Mine
<1>13. ASSUME NEW i \in 1 .. n, News(w, i), NEW s, s = SideOf(w[i].id)
       PROVE  /\ s \in Sides /\ cur(s) = w[i].id /\ cur(s) # NoId
              /\ eo[cur(s)] = "Free" /\ t.current[s] = cur(s)
  <2>1. cur(s) = w[i].id /\ eo[w[i].id] = "Free" /\ w[i].id \in OrderIds
    BY <1>2, <1>13 DEF Opening, Mine
  <2>2. QED  BY <1>6, <1>8, <1>13, <2>1
<1>14. Opening(v, eo, t)
  <2>1. ASSUME NEW i \in 1 .. Len(v), News(v, i)
        PROVE  eo[v[i].id] = "Free" /\ t.current[SideOf(v[i].id)] = v[i].id
    <3>1. CASE i \in 1 .. n
      BY <1>1, <1>13, <2>1, <3>1 DEF News
    <3>2. ASSUME NEW k \in 1 .. Len(f), i = n + k
          PROVE  eo[v[i].id] = "Free" /\ t.current[SideOf(v[i].id)] = v[i].id
      <4>1. v[i] = f[k] /\ f[k].type = "NewOrder"
        BY <1>1, <2>1, <3>2 DEF News
      <4>2. QED  BY <1>9, <4>1
    <3>3. QED  BY <1>1, <3>1, <3>2
  <2>2. ASSUME NEW i \in 1 .. n, NEW k \in 1 .. Len(f), News(w, i), f[k].type = "NewOrder"
        PROVE  SideOf(w[i].id) # SideOf(f[k].id)
    BY <1>9, <1>13, <2>2
  <2>3. ASSUME NEW k \in 1 .. Len(f), NEW l \in 1 .. Len(f), f[k].type = "NewOrder",
               f[l].type = "NewOrder", SideOf(f[k].id) = SideOf(f[l].id)
        PROVE  k = l
    <3>1. /\ k \in 1 .. Len(cmds) /\ cmds[k].type = "NewOrder" /\ cmds[k].id = f[k].id
          /\ l \in 1 .. Len(cmds) /\ cmds[l].type = "NewOrder" /\ cmds[l].id = f[l].id
      BY <1>1, <2>3 DEF Framed
    <3>2. QED  BY <2>3, <3>1 DEF Speaks
  <2>4. ASSUME NEW i \in 1 .. Len(v), NEW j \in 1 .. Len(v), News(v, i), News(v, j),
               SideOf(v[i].id) = SideOf(v[j].id)
        PROVE  i = j
    <3>1. CASE i \in 1 .. n /\ j \in 1 .. n
      BY <1>1, <1>2, <2>4, <3>1 DEF Opening, News
    <3>2. ASSUME NEW k \in 1 .. Len(f), NEW l \in 1 .. Len(f), i = n + k, j = n + l
          PROVE  i = j
      BY <1>1, <2>3, <2>4, <3>2 DEF News
    <3>3. ASSUME i \in 1 .. n, NEW l \in 1 .. Len(f), j = n + l  PROVE FALSE
      <4>1. v[i] = w[i] /\ v[j] = f[l]
        BY <1>1, <3>3
      <4>2. News(w, i) /\ f[l].type = "NewOrder"
        BY <2>4, <4>1 DEF News
      <4>3. QED  BY <2>2, <2>4, <3>3, <4>1, <4>2
    <3>4. ASSUME j \in 1 .. n, NEW l \in 1 .. Len(f), i = n + l  PROVE FALSE
      <4>1. v[j] = w[j] /\ v[i] = f[l]
        BY <1>1, <3>4
      <4>2. News(w, j) /\ f[l].type = "NewOrder"
        BY <2>4, <4>1 DEF News
      <4>3. QED  BY <2>2, <2>4, <3>4, <4>1, <4>2
    <3>5. QED  BY <1>1, <3>1, <3>2, <3>3, <3>4
  <2>5. ASSUME NEW i \in 1 .. Len(v), NEW j \in 1 .. Len(v), News(v, i), Pulls(v, j),
               v[i].id = v[j].id
        PROVE  i < j
    <3>1. CASE i \in 1 .. n /\ j \in 1 .. n
      BY <1>1, <1>2, <2>5, <3>1 DEF Opening, News, Pulls
    <3>2. ASSUME i \in 1 .. n, NEW l \in 1 .. Len(f), j = n + l  PROVE i < j
      BY <1>1, <3>2
    <3>3. ASSUME NEW k \in 1 .. Len(f), i = n + k  PROVE FALSE
      <4>1. ~GivenOut(st, v[i].id)
        <5>1. v[i] = f[k] /\ f[k].type = "NewOrder"
          BY <1>1, <2>5, <3>3 DEF News
        <5>2. QED  BY <1>9, <5>1
      <4>2. CASE j \in 1 .. n
        BY <1>1, <1>2, <2>5, <4>1, <4>2 DEF Mine
      <4>3. ASSUME NEW l \in 1 .. Len(f), j = n + l  PROVE FALSE
        BY <1>1, <1>10, <2>5, <4>1, <4>3, ZenonT(60) DEF Pulls
      <4>4. QED  BY <1>1, <4>2, <4>3
    <3>4. QED  BY <1>1, <3>1, <3>2, <3>3
  <2>6. QED  BY <2>1, <2>4, <2>5 DEF Opening
<1>15. KnowsLive(eo, t)
  BY <1>2 DEF KnowsLive, Speaks
<1>16. ASSUME up = "up"  PROVE Amending(v, eo)
  <2>1. ASSUME NEW i \in 1 .. Len(v), NEW m \in OrderIds, News(v, i), eo[m] = "Live",
               SideOf(m) = SideOf(v[i].id)
        PROVE  \E j \in 1 .. i - 1 : Pulls(v, j) /\ v[j].id = m
    <3>1. CASE i \in 1 .. n
      <4>0. v[i] = w[i] /\ News(w, i)
        BY <1>1, <2>1, <3>1 DEF News
      <4>1. PICK j \in 1 .. i - 1 : Pulls(w, j) /\ w[j].id = m
        BY <1>2, <1>16, <2>1, <3>1, <4>0 DEF Amending
      <4>2. v[j] = w[j]
        BY <1>1, <3>1
      <4>3. QED  BY <4>1, <4>2 DEF Pulls
    <3>2. ASSUME NEW k \in 1 .. Len(f), i = n + k
          PROVE  \E j \in 1 .. i - 1 : Pulls(v, j) /\ v[j].id = m
      <4> DEFINE s == SideOf(m)
      <4>1. f[k].type = "NewOrder" /\ s = SideOf(f[k].id) /\ s \in Sides
        BY <1>1, <1>8, <2>1, <3>2 DEF News
      <4>2. CASE m = cur(s)
        <5>1. cur(s) # NoId
          BY <1>8, <4>2
        <5>2. k - 1 \in 1 .. Len(f) /\ f[k - 1].type = "CancelOrder" /\ f[k - 1].id = m
          BY <1>9, <4>1, <4>2, <5>1
        <5>3. v[n + (k - 1)] = f[k - 1] /\ n + (k - 1) \in 1 .. i - 1
          BY <1>1, <3>2, <5>2
        <5>4. QED  BY <5>2, <5>3 DEF Pulls
      <4>3. CASE m # cur(s)
        <5>1. \/ \E j \in 1 .. n : Pulls(w, j) /\ w[j].id = m
              \/ cur(s) \in OrderIds /\ eo[cur(s)] = "Free"
          BY <1>2, <1>16, <2>1, <4>3 DEF Covered
        <5>2. ~(cur(s) \in OrderIds /\ eo[cur(s)] = "Free")
          BY <1>8, <1>9, <4>1
        <5>3. PICK j \in 1 .. n : Pulls(w, j) /\ w[j].id = m
          BY <5>1, <5>2
        <5>4. v[j] = w[j] /\ j \in 1 .. i - 1
          BY <1>1, <3>2
        <5>5. QED  BY <5>3, <5>4 DEF Pulls
      <4>4. QED  BY <4>2, <4>3
    <3>3. QED  BY <1>1, <3>1, <3>2
  <2>2. QED  BY <2>1 DEF Amending
<1>17. Seen(v, eo, t)
  <2>1. ASSUME NEW i \in 1 .. Len(v), Pulls(v, i)  PROVE eo[v[i].id] # "Free"
    <3>1. CASE i \in 1 .. n
      BY <1>1, <1>2, <2>1, <3>1 DEF Seen, Pulls
    <3>2. ASSUME NEW k \in 1 .. Len(f), i = n + k  PROVE eo[v[i].id] # "Free"
      BY <1>1, <1>10, <2>1, <3>2 DEF Pulls
    <3>3. QED  BY <1>1, <3>1, <3>2
  <2>2. AckedIds(t) \subseteq acked
    BY DEF Speaks
  <2>3. QED  BY <2>1, <2>2 DEF Seen
<1>18. ASSUME q = "quoting", up = "up"  PROVE Covered(v, eo, t)
  <2>1. ASSUME NEW m \in OrderIds, eo[m] = "Live", m # t.current[SideOf(m)]
        PROVE  \/ \E i \in 1 .. Len(v) : Pulls(v, i) /\ v[i].id = m
               \/ /\ t.current[SideOf(m)] \in OrderIds
                  /\ eo[t.current[SideOf(m)]] = "Free"
    <3> DEFINE s == SideOf(m)
    <3>1. s \in Sides
      BY <1>8
    <3>2. CASE t.current[s] = cur(s)
      <4>1. \/ \E j \in 1 .. n : Pulls(w, j) /\ w[j].id = m
            \/ cur(s) \in OrderIds /\ eo[cur(s)] = "Free"
        BY <1>2, <1>18, <2>1, <3>2 DEF Covered
      <4>2. QED  BY <1>1, <3>2, <4>1 DEF Pulls
    <3>3. CASE t.current[s] # cur(s)
      <4>1. /\ t.current[s] = NextId(st, s) /\ NextId(st, s) \in OrderIds
            /\ ~GivenOut(st, NextId(st, s))
        BY <1>6, <1>7, <3>1, <3>3
      <4>2. eo[NextId(st, s)] = "Free"
        BY <1>2, <4>1 DEF Mine
      <4>3. QED  BY <4>1, <4>2
    <3>4. QED  BY <3>2, <3>3
  <2>2. QED  BY <2>1 DEF Covered
<1>19. ASSUME NEW m, Due(m, w, eo, st, "quoting")  PROVE Due(m, v, eo, t, q)
  <2>1. m.id \in OrderIds /\ GivenOut(st, m.id) /\ GivenOut(t, m.id) /\ eo[m.id] # "Free"
    BY <1>8, <1>19 DEF Due
  <2>2. ASSUME Ends(m), NEW i \in 1 .. Len(v), News(v, i)  PROVE v[i].id # m.id
    <3>1. CASE i \in 1 .. n
      BY <1>1, <1>19, <2>2, <3>1 DEF Due, News
    <3>2. ASSUME NEW k \in 1 .. Len(f), i = n + k  PROVE v[i].id # m.id
      BY <1>1, <1>9, <2>1, <2>2, <3>2 DEF News
    <3>3. QED  BY <1>1, <3>1, <3>2
  <2>3. QED  BY <1>19, <2>1, <2>2 DEF Due
<1>20. QED  BY <1>2, <1>12, <1>14, <1>15, <1>16, <1>17, <1>18, <1>19 DEF Picture, StillDue

(* An order whose end was reported is forgotten.                           *)
LEMMA PictureDrops ==
  ASSUME NEW st, NEW t, NEW eo \in Book, NEW w, NEW m, Drops(st, m.id, t),
         NEW up, Picture(w, eo, st, "quoting", up), Ends(m), Due(m, w, eo, st, "quoting")
  PROVE  /\ Picture(w, eo, t, "quoting", up)
         /\ StillDue(w, eo, st, "quoting", w, eo, t, "quoting")
<1>1. /\ Mine(w, eo, st) /\ Opening(w, eo, st) /\ Alone(eo) /\ KnowsLive(eo, st)
      /\ up = "up" => Amending(w, eo)
      /\ Seen(w, eo, st)
      /\ up = "up" => Covered(w, eo, st)
  BY DEF Picture
<1>2. /\ m.id \in OrderIds /\ eo[m.id] # "Live" /\ eo[m.id] # "Free"
      /\ \A i \in 1 .. Len(w) : News(w, i) => w[i].id # m.id
  BY DEF Due
<1>3. \A id : GivenOut(st, id) => GivenOut(t, id)
  BY DEF Drops, GivenOut
<1>4. \A s \in Sides : t.current[s] = IF st.current[s] = m.id THEN NoId ELSE st.current[s]
  BY DEF Drops
<1>5. \A id \in OrderIds : SideOf(id) \in Sides
  BY DEF OrderIds, SideOf
<1>6. Mine(w, eo, t)
  BY <1>1, <1>3 DEF Mine
<1>7. Opening(w, eo, t)
  <2>1. \A i \in 1 .. Len(w) : News(w, i) =>
          eo[w[i].id] = "Free" /\ t.current[SideOf(w[i].id)] = w[i].id
    <3>1. TAKE i \in 1 .. Len(w)
    <3>2. HAVE News(w, i)
    <3>3. /\ eo[w[i].id] = "Free" /\ st.current[SideOf(w[i].id)] = w[i].id
          /\ w[i].id \in OrderIds /\ w[i].id # m.id
      BY <1>1, <1>2, <3>2 DEF Opening, Mine
    <3>4. QED  BY <1>4, <1>5, <3>3
  <2>2. QED  BY <1>1, <2>1 DEF Opening
<1>8. KnowsLive(eo, t)
  BY <1>1, <1>2 DEF KnowsLive, Drops
<1>9. Seen(w, eo, t)
  BY <1>1 DEF Seen, Drops
<1>10. ASSUME up = "up"  PROVE Covered(w, eo, t)
  <2>1. ASSUME NEW x \in OrderIds, eo[x] = "Live", x # t.current[SideOf(x)]
        PROVE  \/ \E i \in 1 .. Len(w) : Pulls(w, i) /\ w[i].id = x
               \/ /\ t.current[SideOf(x)] \in OrderIds
                  /\ eo[t.current[SideOf(x)]] = "Free"
    <3>1. x # st.current[SideOf(x)]
      BY <1>2, <1>4, <1>5, <2>1
    <3>2. CASE \E i \in 1 .. Len(w) : Pulls(w, i) /\ w[i].id = x
      BY <3>2
    <3>3. CASE st.current[SideOf(x)] \in OrderIds /\ eo[st.current[SideOf(x)]] = "Free"
      BY <1>2, <1>4, <1>5, <3>3
    <3>4. QED  BY <1>1, <1>10, <2>1, <3>1, <3>2, <3>3 DEF Covered
  <2>2. QED  BY <2>1 DEF Covered
<1>11. \A x : Due(x, w, eo, st, "quoting") => Due(x, w, eo, t, "quoting")
  BY <1>3 DEF Due
<1>12. QED  BY <1>1, <1>6, <1>7, <1>8, <1>9, <1>10, <1>11 DEF Picture, StillDue

(* The stale sweep pulls orders of this client.                            *)
LEMMA PictureSwept ==
  ASSUME NEW st \in Slate, Sound(st), st.mdSeq <= MaxBooks, NEW t,
         t.nextCl = st.nextCl, t.current = st.current, KnownIds(t) = KnownIds(st),
         NEW eo \in Book, NEW w \in Seq(Frame), NEW f \in Seq(Frame),
         \A k \in 1 .. Len(f) : f[k].type = "CancelOrder" /\ f[k].id \in KnownIds(st),
         NEW up, Picture(w, eo, st, "over", up),
         NEW v, Joins(w, f, v)
  PROVE  /\ Picture(v, eo, t, "over", up)
         /\ StillDue(w, eo, st, "over", v, eo, t, "over")
<1> DEFINE n == Len(w)
<1>1. /\ Len(v) = n + Len(f) /\ n \in Nat /\ Len(f) \in Nat
      /\ \A i \in 1 .. n : i \in 1 .. Len(v) /\ v[i] = w[i]
      /\ \A i \in 1 .. Len(f) : n + i \in 1 .. Len(v) /\ v[n + i] = f[i]
      /\ \A i \in 1 .. Len(v) : i \in 1 .. n \/ \E k \in 1 .. Len(f) : i = n + k
  BY DEF Joins
<1>2. /\ Mine(w, eo, st) /\ Opening(w, eo, st) /\ Alone(eo) /\ KnowsLive(eo, st)
      /\ up = "up" => Amending(w, eo)
  BY DEF Picture
<1>3. \A id : GivenOut(st, id) => GivenOut(t, id)
  BY DEF GivenOut
<1>4. ASSUME NEW id \in KnownIds(st)  PROVE id \in OrderIds /\ GivenOut(st, id)
  <2>1. PICK i \in 1 .. Len(st.orders) : st.orders[i].id = id
    BY DEF KnownIds
  <2>2. GivenOut(st, id) /\ id \in Id
    BY <2>1, OrdersTyped DEF Sound, Numbered
  <2>3. \A x \in Sides : st.nextCl[x] <= MaxBooks
    <3>1. TAKE x \in Sides
    <3>2. st.nextCl[x] <= st.mdSeq
      BY DEF Sound, Numbered
    <3>3. st.nextCl[x] \in Nat /\ st.mdSeq \in Nat /\ MaxBooks \in Nat
      BY ClientAssumption DEF Slate
    <3>4. QED  BY <3>2, <3>3
  <2>4. QED  BY <2>2, <2>3, IdsGiven DEF Sides
<1>5. ASSUME NEW i \in 1 .. Len(v), i \notin 1 .. n
      PROVE  Pulls(v, i) /\ ~News(v, i) /\ v[i].id \in OrderIds /\ GivenOut(st, v[i].id)
  <2>1. PICK k \in 1 .. Len(f) : i = n + k
    BY <1>1, <1>5
  <2>2. v[i] = f[k]
    BY <1>1, <2>1
  <2>3. QED  BY <1>4, <2>2 DEF Pulls, News
<1>6. \A i \in 1 .. Len(v) : News(v, i) => i \in 1 .. n /\ v[i] = w[i] /\ News(w, i)
  BY <1>1, <1>5 DEF News
<1>7. Mine(v, eo, t)
  <2>1. \A i \in 1 .. Len(v) : v[i].id \in OrderIds /\ GivenOut(st, v[i].id)
    BY <1>1, <1>2, <1>5 DEF Mine
  <2>2. QED  BY <1>2, <1>3, <2>1 DEF Mine
<1>8. Opening(v, eo, t)
  <2>1. \A i \in 1 .. Len(v) : News(v, i) =>
          eo[v[i].id] = "Free" /\ t.current[SideOf(v[i].id)] = v[i].id
    BY <1>2, <1>6 DEF Opening
  <2>2. \A i, j \in 1 .. Len(v) :
          News(v, i) /\ News(v, j) /\ SideOf(v[i].id) = SideOf(v[j].id) => i = j
    BY <1>2, <1>6 DEF Opening
  <2>3. ASSUME NEW i \in 1 .. Len(v), NEW j \in 1 .. Len(v), News(v, i), Pulls(v, j),
               v[i].id = v[j].id
        PROVE  i < j
    <3>1. i \in 1 .. n /\ v[i] = w[i] /\ News(w, i)
      BY <1>6, <2>3
    <3>2. CASE j \in 1 .. n
      <4>1. Pulls(w, j) /\ w[j].id = w[i].id
        BY <1>1, <2>3, <3>1, <3>2 DEF Pulls
      <4>2. QED  BY <1>2, <3>1, <3>2, <4>1 DEF Opening
    <3>3. CASE j \notin 1 .. n
      BY <1>1, <3>1, <3>3
    <3>4. QED  BY <3>2, <3>3
  <2>4. QED  BY <2>1, <2>2, <2>3 DEF Opening
<1>9. KnowsLive(eo, t)
  BY <1>2 DEF KnowsLive
<1>10. ASSUME up = "up"  PROVE Amending(v, eo)
  <2>1. ASSUME NEW i \in 1 .. Len(v), NEW m \in OrderIds, News(v, i), eo[m] = "Live",
               SideOf(m) = SideOf(v[i].id)
        PROVE  \E j \in 1 .. i - 1 : Pulls(v, j) /\ v[j].id = m
    <3>1. i \in 1 .. n /\ v[i] = w[i] /\ News(w, i)
      BY <1>6, <2>1
    <3>2. PICK j \in 1 .. i - 1 : Pulls(w, j) /\ w[j].id = m
      BY <1>2, <1>10, <2>1, <3>1 DEF Amending
    <3>3. j \in 1 .. n
      BY <1>1, <3>1
    <3>4. v[j] = w[j]
      BY <1>1, <3>3
    <3>5. QED  BY <3>2, <3>4 DEF Pulls
  <2>2. QED  BY <2>1 DEF Amending
<1>11. \A m : Due(m, w, eo, st, "over") => Due(m, v, eo, t, "over")
  BY <1>3, <1>6 DEF Due
<1>12. QED  BY <1>2, <1>7, <1>8, <1>9, <1>10, <1>11 DEF Picture, StillDue

(* A batch that was cut: what the client had not sent is lost, and every   *)
(* lost cancel was to be followed by a new order of its side.              *)
LEMMA PictureCut ==
  ASSUME NEW st, NEW eo \in Book, NEW w, NEW v, Len(w) \in Nat, Len(v) \in Nat,
         Len(v) <= Len(w), \A i \in 1 .. Len(v) : v[i] = w[i],
         NEW up, NEW q, Picture(w, eo, st, q, up),
         q = "quoting" => \A i \in 1 .. Len(w) : Pulls(w, i) /\ i > Len(v) =>
                 /\ i + 1 \in 1 .. Len(w) /\ News(w, i + 1)
                 /\ SideOf(w[i + 1].id) = SideOf(w[i].id)
  PROVE  /\ Picture(v, eo, st, q, up)
         /\ StillDue(w, eo, st, q, v, eo, st, q)
<1>1. \A i \in 1 .. Len(v) : /\ i \in 1 .. Len(w) /\ v[i] = w[i]
                             /\ News(v, i) = News(w, i) /\ Pulls(v, i) = Pulls(w, i)
  BY DEF News, Pulls
<1>2. /\ Mine(w, eo, st) /\ Opening(w, eo, st) /\ Alone(eo) /\ KnowsLive(eo, st)
      /\ up = "up" => Amending(w, eo)
      /\ q = "quoting" => Seen(w, eo, st)
      /\ q = "quoting" /\ up = "up" => Covered(w, eo, st)
  BY DEF Picture
<1>3. Mine(v, eo, st)
  BY <1>1, <1>2 DEF Mine
<1>4. Opening(v, eo, st)
  BY <1>1, <1>2 DEF Opening
<1>5. ASSUME up = "up"  PROVE Amending(v, eo)
  <2>1. ASSUME NEW i \in 1 .. Len(v), NEW m \in OrderIds, News(v, i), eo[m] = "Live",
               SideOf(m) = SideOf(v[i].id)
        PROVE  \E j \in 1 .. i - 1 : Pulls(v, j) /\ v[j].id = m
    <3>1. PICK j \in 1 .. i - 1 : Pulls(w, j) /\ w[j].id = m
      BY <1>1, <1>2, <1>5, <2>1 DEF Amending
    <3>2. j \in 1 .. Len(v)
      BY <3>1
    <3>3. QED  BY <1>1, <3>1, <3>2
  <2>2. QED  BY <2>1 DEF Amending
<1>6. q = "quoting" => Seen(v, eo, st)
  BY <1>1, <1>2 DEF Seen
<1>7. ASSUME q = "quoting", up = "up"  PROVE Covered(v, eo, st)
  <2>1. ASSUME NEW m \in OrderIds, eo[m] = "Live", m # st.current[SideOf(m)]
        PROVE  \/ \E i \in 1 .. Len(v) : Pulls(v, i) /\ v[i].id = m
               \/ /\ st.current[SideOf(m)] \in OrderIds
                  /\ eo[st.current[SideOf(m)]] = "Free"
    <3>1. ASSUME NEW i \in 1 .. Len(w), Pulls(w, i), w[i].id = m, i \notin 1 .. Len(v)
          PROVE  /\ st.current[SideOf(m)] \in OrderIds
                 /\ eo[st.current[SideOf(m)]] = "Free"
      <4>1. i + 1 \in 1 .. Len(w) /\ News(w, i + 1) /\ SideOf(w[i + 1].id) = SideOf(m)
        BY <1>7, <3>1
      <4>2. QED  BY <1>2, <4>1 DEF Opening, Mine
    <3>2. ASSUME NEW i \in 1 .. Len(v), Pulls(w, i), w[i].id = m
          PROVE  \E k \in 1 .. Len(v) : Pulls(v, k) /\ v[k].id = m
      BY <1>1, <3>2
    <3>3. QED  BY <1>2, <1>7, <2>1, <3>1, <3>2 DEF Covered
  <2>2. QED  BY <2>1 DEF Covered
<1>8. \A m : Due(m, w, eo, st, q) => Due(m, v, eo, st, q)
  BY <1>1 DEF Due
<1>9. QED  BY <1>2, <1>3, <1>4, <1>5, <1>6, <1>7, <1>8 DEF Picture, StillDue

(* Orders that rest end at the engine: pulled, or filled.                  *)
LEMMA PictureEnds ==
  ASSUME NEW st, NEW eo \in Book, NEW e2 \in Book, NEW w,
         \A id \in OrderIds : e2[id] = eo[id] \/ (eo[id] = "Live" /\ e2[id] = "Done"),
         NEW up, NEW q, Picture(w, eo, st, q, up)
  PROVE  /\ Picture(w, e2, st, q, up)
         /\ StillDue(w, eo, st, q, w, e2, st, q)
         /\ \A m : m.id \in OrderIds /\ eo[m.id] = "Live" /\ (Ends(m) => e2[m.id] # "Live")
                   => Due(m, w, e2, st, q)
<1>1. /\ Mine(w, eo, st) /\ Opening(w, eo, st) /\ Alone(eo) /\ KnowsLive(eo, st)
      /\ up = "up" => Amending(w, eo)
      /\ q = "quoting" => Seen(w, eo, st)
      /\ q = "quoting" /\ up = "up" => Covered(w, eo, st)
  BY DEF Picture
<1>2. \A id \in OrderIds : /\ e2[id] = "Live" => eo[id] = "Live"
                           /\ (e2[id] = "Free") = (eo[id] = "Free")
  OBVIOUS
<1>3. Mine(w, e2, st)
  BY <1>1, <1>2 DEF Mine
<1>4. Opening(w, e2, st)
  BY <1>1, <1>2 DEF Opening, Mine
<1>5. Alone(e2) /\ KnowsLive(e2, st)
  BY <1>1, <1>2 DEF Alone, KnowsLive
<1>6. up = "up" => Amending(w, e2)
  BY <1>1, <1>2 DEF Amending
<1>7. q = "quoting" => Seen(w, e2, st)
  BY <1>1, <1>2 DEF Seen, Mine
<1>8. q = "quoting" /\ up = "up" => Covered(w, e2, st)
  BY <1>1, <1>2 DEF Covered
<1>9. \A m : Due(m, w, eo, st, q) => Due(m, w, e2, st, q)
  BY <1>2 DEF Due
<1>10. ASSUME NEW m, m.id \in OrderIds, eo[m.id] = "Live", Ends(m) => e2[m.id] # "Live"
       PROVE  Due(m, w, e2, st, q)
  <2>1. GivenOut(st, m.id) /\ e2[m.id] # "Free"
    BY <1>1, <1>2, <1>10 DEF Mine
  <2>2. \A i \in 1 .. Len(w) : News(w, i) => w[i].id # m.id
    BY <1>1, <1>10 DEF Opening
  <2>3. QED  BY <1>10, <2>1, <2>2 DEF Due
<1>11. QED  BY <1>3, <1>4, <1>5, <1>6, <1>7, <1>8, <1>9, <1>10 DEF Picture, StillDue

(* v is w without its head.                                                *)
Pops(w, v) ==
  /\ Len(w) \in Nat /\ Len(w) > 0 /\ Len(v) = Len(w) - 1
  /\ \A i \in 1 .. Len(v) : i + 1 \in 1 .. Len(w) /\ v[i] = w[i + 1]
  /\ \A i \in 1 .. Len(w) : i # 1 => i - 1 \in 1 .. Len(v) /\ v[i - 1] = w[i]

Shifted(w, v) ==
  /\ \A i \in 1 .. Len(v) : /\ i + 1 \in 1 .. Len(w) /\ v[i] = w[i + 1]
                            /\ News(v, i) = News(w, i + 1)
                            /\ Pulls(v, i) = Pulls(w, i + 1)
  /\ \A i \in 1 .. Len(w) : i # 1 => /\ i - 1 \in 1 .. Len(v) /\ v[i - 1] = w[i]
                                     /\ Pulls(v, i - 1) = Pulls(w, i)
  /\ Len(v) \in Nat /\ 1 \in 1 .. Len(w)

(* What stays of the picture whatever the head was.                        *)
LEMMA PopsKeeps ==
  ASSUME NEW st, NEW eo, NEW w, NEW v, Pops(w, v), NEW q,
         Picture(w, eo, st, q, "down")
  PROVE  /\ Picture(v, eo, st, q, "down")
         /\ StillDue(w, eo, st, q, v, eo, st, q)
         /\ Shifted(w, v)
<1>1. /\ \A i \in 1 .. Len(v) : /\ i + 1 \in 1 .. Len(w) /\ v[i] = w[i + 1]
                                /\ News(v, i) = News(w, i + 1)
                                /\ Pulls(v, i) = Pulls(w, i + 1)
      /\ \A i \in 1 .. Len(w) : i # 1 => /\ i - 1 \in 1 .. Len(v) /\ v[i - 1] = w[i]
                                         /\ Pulls(v, i - 1) = Pulls(w, i)
  BY DEF Pops, News, Pulls
<1>2. /\ Mine(w, eo, st) /\ Opening(w, eo, st) /\ Alone(eo) /\ KnowsLive(eo, st)
      /\ q = "quoting" => Seen(w, eo, st)
  BY DEF Picture
<1>3. Len(v) \in Nat /\ Len(w) \in Nat /\ 1 \in 1 .. Len(w)
  BY DEF Pops
<1>4. Mine(v, eo, st)
  BY <1>1, <1>2 DEF Mine
<1>5. Opening(v, eo, st)
  <2>1. \A i \in 1 .. Len(v) : News(v, i) =>
          eo[v[i].id] = "Free" /\ st.current[SideOf(v[i].id)] = v[i].id
    BY <1>1, <1>2, SMTT(60) DEF Opening
  <2>2. ASSUME NEW i \in 1 .. Len(v), NEW j \in 1 .. Len(v), News(v, i), News(v, j),
               SideOf(v[i].id) = SideOf(v[j].id)
        PROVE  i = j
    <3>1. i + 1 = j + 1
      BY <1>1, <1>2, <2>2 DEF Opening
    <3>2. QED  BY <3>1
  <2>3. ASSUME NEW i \in 1 .. Len(v), NEW j \in 1 .. Len(v), News(v, i), Pulls(v, j),
               v[i].id = v[j].id
        PROVE  i < j
    <3>1. i + 1 < j + 1
      BY <1>1, <1>2, <2>3 DEF Opening
    <3>2. QED  BY <3>1
  <2>4. QED  BY <2>1, <2>2, <2>3 DEF Opening
<1>6. q = "quoting" => Seen(v, eo, st)
  BY <1>1, <1>2 DEF Seen
<1>7. \A m : Due(m, w, eo, st, q) => Due(m, v, eo, st, q)
  BY <1>1 DEF Due
<1>8. QED  BY <1>1, <1>2, <1>3, <1>4, <1>5, <1>6, <1>7 DEF Picture, StillDue, Shifted

(* The engine takes a cancel of what does not, or no longer, rest.         *)
LEMMA PictureCancelled ==
  ASSUME NEW st, NEW eo, NEW w, NEW v, Pops(w, v), NEW q,
         Picture(w, eo, st, q, "up"), Pulls(w, 1), eo[w[1].id] # "Live"
  PROVE  /\ Picture(v, eo, st, q, "up")
         /\ StillDue(w, eo, st, q, v, eo, st, q)
         /\ \A m : m.id = w[1].id => Due(m, v, eo, st, q)
<1>1. Picture(w, eo, st, q, "down")
  BY DEF Picture
<1>2. /\ Picture(v, eo, st, q, "down")
      /\ StillDue(w, eo, st, q, v, eo, st, q)
      /\ \A i \in 1 .. Len(v) : /\ i + 1 \in 1 .. Len(w) /\ v[i] = w[i + 1]
                                /\ News(v, i) = News(w, i + 1)
                                /\ Pulls(v, i) = Pulls(w, i + 1)
      /\ \A i \in 1 .. Len(w) : i # 1 => /\ i - 1 \in 1 .. Len(v) /\ v[i - 1] = w[i]
                                         /\ Pulls(v, i - 1) = Pulls(w, i)
      /\ Len(v) \in Nat /\ 1 \in 1 .. Len(w)
  <2>1. Shifted(w, v) /\ Picture(v, eo, st, q, "down") /\ StillDue(w, eo, st, q, v, eo, st, q)
    BY <1>1, PopsKeeps
  <2>2. QED  BY <2>1 DEF Shifted
<1>3. Amending(v, eo)
  <2>1. ASSUME NEW i \in 1 .. Len(v), NEW m \in OrderIds, News(v, i), eo[m] = "Live",
               SideOf(m) = SideOf(v[i].id)
        PROVE  \E j \in 1 .. i - 1 : Pulls(v, j) /\ v[j].id = m
    <3>1. i + 1 \in 1 .. Len(w) /\ News(w, i + 1) /\ w[i + 1] = v[i]
      BY <1>2, <2>1
    <3>2. PICK j \in 1 .. (i + 1) - 1 : Pulls(w, j) /\ w[j].id = m
      BY <2>1, <3>1 DEF Picture, Amending
    <3>3. j # 1 /\ j \in 1 .. Len(w) /\ j - 1 \in 1 .. i - 1
      BY <1>2, <2>1, <3>2
    <3>4. Pulls(v, j - 1) /\ v[j - 1].id = m
      BY <1>2, <3>2, <3>3
    <3>5. QED  BY <3>3, <3>4
  <2>2. QED  BY <2>1 DEF Amending
<1>4. ASSUME q = "quoting"  PROVE Covered(v, eo, st)
  <2>1. ASSUME NEW m \in OrderIds, eo[m] = "Live", NEW i \in 1 .. Len(w), Pulls(w, i), w[i].id = m
        PROVE  \E j \in 1 .. Len(v) : Pulls(v, j) /\ v[j].id = m
    <3>1. i # 1
      BY <2>1
    <3>2. i - 1 \in 1 .. Len(v) /\ Pulls(v, i - 1) /\ v[i - 1].id = m
      BY <1>2, <2>1, <3>1
    <3>3. QED  BY <3>2
  <2>2. Covered(w, eo, st)
    BY <1>4 DEF Picture
  <2>3. QED  BY <2>1, <2>2 DEF Covered
<1>5. ASSUME NEW m, m.id = w[1].id  PROVE Due(m, v, eo, st, q)
  <2>1. m.id \in OrderIds /\ GivenOut(st, m.id) /\ (q = "quoting" => eo[m.id] # "Free")
    BY <1>1, <1>2, <1>5 DEF Picture, Mine, Seen
  <2>2. ASSUME NEW i \in 1 .. Len(v), News(v, i), v[i].id = m.id  PROVE FALSE
    <3>1. i + 1 < 1
      BY <1>1, <1>2, <1>5, <2>2 DEF Picture, Opening
    <3>2. QED  BY <3>1
  <2>3. QED  BY <1>5, <2>1, <2>2 DEF Due
<1>6. QED  BY <1>2, <1>3, <1>4, <1>5 DEF Picture

(* The engine takes a new order: it rests or is refused.                   *)
LEMMA PictureOpened ==
  ASSUME NEW st \in Slate, Sound(st), NEW eo \in Book, NEW e2 \in Book, NEW w, NEW v,
         Pops(w, v), NEW q,
         Picture(w, eo, st, q, "up"), News(w, 1), ~Pulls(w, 1),
         e2[w[1].id] # "Free", \A id \in OrderIds : id # w[1].id => e2[id] = eo[id]
  PROVE  /\ Picture(v, e2, st, q, "up")
         /\ StillDue(w, eo, st, q, v, e2, st, q)
         /\ \A m : m.id = w[1].id /\ (Ends(m) => e2[m.id] # "Live") => Due(m, v, e2, st, q)
<1> DEFINE c == w[1].id
           s == SideOf(c)
<1>1. Picture(w, eo, st, q, "down")
  BY DEF Picture
<1>2. /\ Picture(v, eo, st, q, "down")
      /\ StillDue(w, eo, st, q, v, eo, st, q)
      /\ \A i \in 1 .. Len(v) : /\ i + 1 \in 1 .. Len(w) /\ v[i] = w[i + 1]
                                /\ News(v, i) = News(w, i + 1)
                                /\ Pulls(v, i) = Pulls(w, i + 1)
      /\ \A i \in 1 .. Len(w) : i # 1 => /\ i - 1 \in 1 .. Len(v) /\ v[i - 1] = w[i]
                                         /\ Pulls(v, i - 1) = Pulls(w, i)
      /\ Len(v) \in Nat /\ 1 \in 1 .. Len(w)
  <2>1. Shifted(w, v) /\ Picture(v, eo, st, q, "down") /\ StillDue(w, eo, st, q, v, eo, st, q)
    BY <1>1, PopsKeeps
  <2>2. QED  BY <2>1 DEF Shifted
<1>3. /\ Mine(w, eo, st) /\ Opening(w, eo, st) /\ Alone(eo) /\ KnowsLive(eo, st)
      /\ Amending(w, eo)
      /\ q = "quoting" => Seen(w, eo, st)
      /\ q = "quoting" => Covered(w, eo, st)
      /\ Mine(v, eo, st) /\ Opening(v, eo, st) /\ (q = "quoting" => Seen(v, eo, st))
  BY <1>2 DEF Picture
<1>4. /\ c \in OrderIds /\ GivenOut(st, c) /\ eo[c] = "Free" /\ st.current[s] = c
      /\ s \in Sides /\ c # NoId
  <2>1. /\ c \in OrderIds /\ GivenOut(st, c) /\ eo[c] = "Free" /\ st.current[s] = c
    BY <1>2, <1>3 DEF Mine, Opening
  <2>2. s \in Sides
    BY <2>1 DEF OrderIds, SideOf
  <2>3. QED  BY <2>1, <2>2, IdsGiven
<1>5. \A m \in OrderIds : eo[m] = "Live" => SideOf(m) # s
  <2>1. ASSUME NEW m \in OrderIds, eo[m] = "Live", SideOf(m) = s  PROVE FALSE
    <3>1. \E j \in 1 .. 1 - 1 : Pulls(w, j)
      BY <1>2, <1>3, <2>1 DEF Amending
    <3>2. QED  BY <3>1
  <2>2. QED  BY <2>1
<1>6. ASSUME NEW i \in 1 .. Len(v), News(v, i)  PROVE SideOf(v[i].id) # s /\ v[i].id # c
  <2>1. ASSUME SideOf(v[i].id) = s  PROVE FALSE
    <3>1. i + 1 = 1
      BY <1>2, <1>3, <1>6, <2>1 DEF Opening
    <3>2. QED  BY <3>1
  <2>2. QED  BY <2>1
<1>7. Mine(v, e2, st)
  BY <1>3, <1>4 DEF Mine
<1>8. Opening(v, e2, st)
  <2>1. \A i \in 1 .. Len(v) : News(v, i) => e2[v[i].id] = "Free"
    BY <1>3, <1>6 DEF Opening, Mine
  <2>2. QED  BY <1>3, <2>1 DEF Opening
<1>9. Alone(e2)
  BY <1>3, <1>5 DEF Alone
<1>10. KnowsLive(e2, st)
  <2>1. c \in KnownIds(st)
    BY <1>4 DEF Sound, Holding
  <2>2. QED  BY <1>3, <2>1 DEF KnowsLive
<1>11. Amending(v, e2)
  <2>1. ASSUME NEW i \in 1 .. Len(v), NEW m \in OrderIds, News(v, i), e2[m] = "Live",
               SideOf(m) = SideOf(v[i].id)
        PROVE  \E j \in 1 .. i - 1 : Pulls(v, j) /\ v[j].id = m
    <3>1. i + 1 \in 1 .. Len(w) /\ News(w, i + 1) /\ w[i + 1] = v[i]
      BY <1>2, <2>1
    <3>2. eo[m] = "Live"
      BY <1>6, <2>1
    <3>3. PICK j \in 1 .. (i + 1) - 1 : Pulls(w, j) /\ w[j].id = m
      BY <1>3, <2>1, <3>1, <3>2 DEF Amending
    <3>4. j # 1 /\ j \in 1 .. Len(w) /\ j - 1 \in 1 .. i - 1
      BY <1>2, <2>1, <3>3
    <3>5. Pulls(v, j - 1) /\ v[j - 1].id = m
      BY <1>2, <3>3, <3>4
    <3>6. QED  BY <3>4, <3>5
  <2>2. QED  BY <2>1 DEF Amending
<1>12. q = "quoting" => Seen(v, e2, st)
  BY <1>3 DEF Seen, Mine
<1>13. ASSUME q = "quoting"  PROVE Covered(v, e2, st)
  <2>1. ASSUME NEW m \in OrderIds, e2[m] = "Live", m # st.current[SideOf(m)]
        PROVE  \/ \E i \in 1 .. Len(v) : Pulls(v, i) /\ v[i].id = m
               \/ /\ st.current[SideOf(m)] \in OrderIds
                  /\ e2[st.current[SideOf(m)]] = "Free"
    <3>1. m # c
      BY <1>4, <2>1
    <3>2. eo[m] = "Live" /\ SideOf(m) # s
      BY <1>5, <2>1, <3>1
    <3>3. ASSUME NEW i \in 1 .. Len(w), Pulls(w, i), w[i].id = m
          PROVE  \E j \in 1 .. Len(v) : Pulls(v, j) /\ v[j].id = m
      <4>1. i # 1
        BY <3>3
      <4>2. i - 1 \in 1 .. Len(v) /\ Pulls(v, i - 1) /\ v[i - 1].id = m
        BY <1>2, <3>3, <4>1
      <4>3. QED  BY <4>2
    <3>4. ASSUME st.current[SideOf(m)] \in OrderIds, eo[st.current[SideOf(m)]] = "Free"
          PROVE  e2[st.current[SideOf(m)]] = "Free"
      <4>1. SideOf(m) \in Sides
        BY DEF OrderIds, SideOf
      <4>2. st.current[SideOf(m)] # NoId
        BY <1>4, <3>4, IdsGiven
      <4>3. SideOf(st.current[SideOf(m)]) = SideOf(m)
        BY <4>1, <4>2 DEF Sound, Holding
      <4>4. st.current[SideOf(m)] # c
        BY <3>2, <4>3
      <4>5. QED  BY <3>4, <4>4
    <3>5. QED  BY <1>3, <1>13, <2>1, <3>2, <3>3, <3>4 DEF Covered
  <2>2. QED  BY <2>1 DEF Covered
<1>14. ASSUME NEW m, Due(m, w, eo, st, q)  PROVE Due(m, v, e2, st, q)
  <2>1. Due(m, v, eo, st, q)
    BY <1>2, <1>14 DEF StillDue
  <2>2. Ends(m) => m.id # c
    BY <1>2, <1>14 DEF Due
  <2>3. QED  BY <2>1, <2>2 DEF Due
<1>15. ASSUME NEW m, m.id = c, Ends(m) => e2[c] # "Live"  PROVE Due(m, v, e2, st, q)
  BY <1>4, <1>6, <1>15 DEF Due
<1>16. QED  BY <1>7, <1>8, <1>9, <1>10, <1>11, <1>12, <1>13, <1>14, <1>15 DEF Picture, StillDue

------------------------------------------------------------------------------
(* Queues.                                                                 *)

(* A frame that moves from the batch to the wire stays in its place.       *)
LEMMA HandOver ==
  ASSUME NEW S, NEW a \in Seq(S), NEW b \in Seq(S), b # << >>
  PROVE  Append(a, Head(b)) \o Tail(b) = a \o b
<1> DEFINE c == Append(a, Head(b))
           d == Tail(b)
<1>1. /\ Head(b) \in S /\ d \in Seq(S) /\ Len(d) = Len(b) - 1 /\ Head(b) = b[1]
      /\ \A i \in 1 .. Len(d) : d[i] = b[i + 1]
  BY HeadTailProperties
<1>2. /\ c \in Seq(S) /\ Len(c) = Len(a) + 1 /\ c[Len(a) + 1] = b[1]
      /\ \A i \in 1 .. Len(a) : c[i] = a[i]
  BY <1>1, AppendProperties
<1>3. Len(a) \in Nat /\ Len(b) \in Nat /\ Len(b) > 0
  BY EmptySeq
<1> HIDE DEF c, d
<1>4. /\ c \o d \in Seq(S) /\ Len(c \o d) = Len(a) + Len(b)
      /\ \A i \in 1 .. Len(a) + Len(b) :
           (c \o d)[i] = IF i <= Len(a) + 1 THEN c[i] ELSE d[i - (Len(a) + 1)]
  <2>1. /\ c \o d \in Seq(S) /\ Len(c \o d) = Len(c) + Len(d)
        /\ \A i \in 1 .. Len(c) + Len(d) :
             (c \o d)[i] = IF i <= Len(c) THEN c[i] ELSE d[i - Len(c)]
    BY <1>1, <1>2, ConcatProperties
  <2>2. Len(c) + Len(d) = Len(a) + Len(b)
    BY <1>1, <1>2, <1>3
  <2>3. QED  BY <1>2, <2>1, <2>2
<1>5. /\ a \o b \in Seq(S) /\ Len(a \o b) = Len(a) + Len(b)
      /\ \A i \in 1 .. Len(a) + Len(b) :
           (a \o b)[i] = IF i <= Len(a) THEN a[i] ELSE b[i - Len(a)]
  BY ConcatProperties
<1>6. ASSUME NEW i \in 1 .. Len(a) + Len(b)  PROVE (c \o d)[i] = (a \o b)[i]
  <2>1. CASE i <= Len(a)
    <3>1. (c \o d)[i] = c[i] /\ c[i] = a[i]
      BY <1>2, <1>3, <1>4, <2>1
    <3>2. QED  BY <1>5, <2>1, <3>1
  <2>2. CASE i = Len(a) + 1
    <3>1. (c \o d)[i] = b[1] /\ i - Len(a) = 1
      BY <1>2, <1>3, <1>4, <2>2
    <3>2. QED  BY <1>3, <1>5, <2>2, <3>1
  <2>3. CASE i > Len(a) + 1
    <3>1. i - (Len(a) + 1) \in 1 .. Len(d) /\ (i - (Len(a) + 1)) + 1 = i - Len(a)
      BY <1>1, <1>3, <2>3
    <3>2. (c \o d)[i] = d[i - (Len(a) + 1)] /\ (a \o b)[i] = b[i - Len(a)]
      BY <1>3, <1>4, <1>5, <2>3
    <3>3. QED  BY <1>1, <3>1, <3>2
  <2>4. i \in Nat /\ (i <= Len(a) \/ i = Len(a) + 1 \/ i > Len(a) + 1)
    BY <1>3
  <2>5. QED  BY <2>1, <2>2, <2>3, <2>4
<1>7. c \o d = a \o b
  BY <1>4, <1>5, <1>6, SeqEqual
<1>8. QED  BY <1>7 DEF c, d

(* The tail of a queue of two parts.                                       *)
LEMMA TailOfTwo ==
  ASSUME NEW S, NEW a \in Seq(S), NEW b \in Seq(S), a # << >>
  PROVE  Tail(a) \o b = Tail(a \o b) /\ a \o b # << >> /\ Head(a \o b) = Head(a)
<1> DEFINE c == Tail(a)
           d == a \o b
<1>1. /\ c \in Seq(S) /\ Len(c) = Len(a) - 1
      /\ \A i \in 1 .. Len(c) : c[i] = a[i + 1]
  BY HeadTailProperties
<1>2. Len(a) \in Nat /\ Len(b) \in Nat /\ Len(a) > 0
  BY EmptySeq
<1>3. /\ d \in Seq(S) /\ Len(d) = Len(a) + Len(b)
      /\ \A i \in 1 .. Len(a) + Len(b) :
           d[i] = IF i <= Len(a) THEN a[i] ELSE b[i - Len(a)]
  BY ConcatProperties
<1> HIDE DEF c, d
<1>4. d # << >>
  BY <1>2, <1>3
<1>5. /\ Tail(d) \in Seq(S) /\ Len(Tail(d)) = Len(d) - 1
      /\ \A i \in 1 .. Len(Tail(d)) : Tail(d)[i] = d[i + 1]
  BY <1>3, <1>4, HeadTailProperties
<1>6. /\ c \o b \in Seq(S) /\ Len(c \o b) = Len(a) - 1 + Len(b)
      /\ \A i \in 1 .. Len(a) - 1 + Len(b) :
           (c \o b)[i] = IF i <= Len(a) - 1 THEN c[i] ELSE b[i - (Len(a) - 1)]
  <2>1. /\ c \o b \in Seq(S) /\ Len(c \o b) = Len(c) + Len(b)
        /\ \A i \in 1 .. Len(c) + Len(b) :
             (c \o b)[i] = IF i <= Len(c) THEN c[i] ELSE b[i - Len(c)]
    BY <1>1, ConcatProperties
  <2>2. QED  BY <1>1, <2>1
<1>7. ASSUME NEW i \in 1 .. Len(a) - 1 + Len(b)  PROVE (c \o b)[i] = Tail(d)[i]
  <2>1. Tail(d)[i] = d[i + 1] /\ i + 1 \in 1 .. Len(a) + Len(b)
    BY <1>2, <1>3, <1>5
  <2>2. CASE i <= Len(a) - 1
    <3>1. (c \o b)[i] = a[i + 1]
      BY <1>1, <1>2, <1>6, <2>2
    <3>2. d[i + 1] = a[i + 1]
      BY <1>2, <1>3, <2>1, <2>2
    <3>3. QED  BY <2>1, <3>1, <3>2
  <2>3. CASE i > Len(a) - 1
    <3>1. (c \o b)[i] = b[i - (Len(a) - 1)]
      BY <1>2, <1>6, <2>3
    <3>2. d[i + 1] = b[(i + 1) - Len(a)] /\ (i + 1) - Len(a) = i - (Len(a) - 1)
      BY <1>2, <1>3, <2>1, <2>3
    <3>3. QED  BY <2>1, <3>1, <3>2
  <2>4. i \in Nat /\ (i <= Len(a) - 1 \/ i > Len(a) - 1)
    BY <1>2
  <2>5. QED  BY <2>2, <2>3, <2>4
<1>8. c \o b = Tail(d)
  BY <1>2, <1>3, <1>5, <1>6, <1>7, SeqEqual, SMTT(60)
<1>9. d[1] = a[1]
  BY <1>2, <1>3
<1>10. QED  BY <1>3, <1>4, <1>8, <1>9 DEF c, d

(* What is added behind the second part is added behind both.              *)
LEMMA AppendToTwo ==
  ASSUME NEW S, NEW a \in Seq(S), NEW b \in Seq(S), NEW e \in S
  PROVE  a \o Append(b, e) = Append(a \o b, e)
<1> DEFINE c == Append(b, e)
           d == a \o b
<1>1. Len(a) \in Nat /\ Len(b) \in Nat
  OBVIOUS
<1>2. /\ c \in Seq(S) /\ Len(c) = Len(b) + 1 /\ c[Len(b) + 1] = e
      /\ \A i \in 1 .. Len(b) : c[i] = b[i]
  BY AppendProperties
<1>3. /\ d \in Seq(S) /\ Len(d) = Len(a) + Len(b)
      /\ \A i \in 1 .. Len(a) + Len(b) :
           d[i] = IF i <= Len(a) THEN a[i] ELSE b[i - Len(a)]
  BY ConcatProperties
<1> HIDE DEF c, d
<1>4. /\ Append(d, e) \in Seq(S) /\ Len(Append(d, e)) = Len(a) + Len(b) + 1
      /\ Append(d, e)[Len(a) + Len(b) + 1] = e
      /\ \A i \in 1 .. Len(a) + Len(b) : Append(d, e)[i] = d[i]
  BY <1>3, AppendProperties
<1>5. /\ a \o c \in Seq(S) /\ Len(a \o c) = Len(a) + Len(b) + 1
      /\ \A i \in 1 .. Len(a) + Len(b) + 1 :
           (a \o c)[i] = IF i <= Len(a) THEN a[i] ELSE c[i - Len(a)]
  BY <1>1, <1>2, ConcatProperties
<1>6. ASSUME NEW i \in 1 .. Len(a) + Len(b) + 1  PROVE (a \o c)[i] = Append(d, e)[i]
  <2>1. CASE i <= Len(a)
    BY <1>1, <1>3, <1>4, <1>5, <2>1
  <2>2. CASE i > Len(a) /\ i <= Len(a) + Len(b)
    <3>1. i - Len(a) \in 1 .. Len(b) /\ i \in 1 .. Len(a) + Len(b)
      BY <1>1, <2>2
    <3>2. Append(d, e)[i] = b[i - Len(a)]
      BY <1>1, <1>3, <1>4, <2>2, <3>1
    <3>3. (a \o c)[i] = c[i - Len(a)]
      BY <1>1, <1>5, <2>2
    <3>4. QED  BY <1>2, <3>1, <3>2, <3>3
  <2>3. CASE i = Len(a) + Len(b) + 1
    <3>1. (a \o c)[i] = c[i - Len(a)] /\ i - Len(a) = Len(b) + 1
      BY <1>1, <1>5, <2>3
    <3>2. QED  BY <1>2, <1>4, <2>3, <3>1
  <2>4. \/ i <= Len(a)
        \/ i > Len(a) /\ i <= Len(a) + Len(b)
        \/ i = Len(a) + Len(b) + 1
    BY <1>1
  <2>5. QED  BY <2>1, <2>2, <2>3, <2>4
<1>7. a \o c = Append(d, e)
  BY <1>4, <1>5, <1>6, SeqEqual
<1>8. QED  BY <1>7 DEF c, d

(* v is w with m behind it.                                                *)
Grows(w, m, v) ==
  /\ Len(w) \in Nat /\ Len(v) = Len(w) + 1 /\ v[Len(w) + 1] = m
  /\ \A i \in 1 .. Len(w) : i \in 1 .. Len(v) /\ v[i] = w[i]
  /\ \A i \in 1 .. Len(v) : i \in 1 .. Len(w) \/ i = Len(w) + 1

(* The end of a queue.                                                     *)
LEMMA GrowsDoes ==
  ASSUME NEW S, NEW w \in Seq(S), NEW m \in S
  PROVE  Grows(w, m, Append(w, m)) /\ Append(w, m) \in Seq(S)
<1>1. Len(w) \in Nat
  OBVIOUS
<1>2. /\ Append(w, m) \in Seq(S) /\ Len(Append(w, m)) = Len(w) + 1
      /\ Append(w, m)[Len(w) + 1] = m /\ \A i \in 1 .. Len(w) : Append(w, m)[i] = w[i]
  BY AppendProperties
<1>3. QED  BY <1>1, <1>2 DEF Grows

(* The head of a queue.                                                    *)
LEMMA PopsDoes ==
  ASSUME NEW S, NEW w \in Seq(S), w # << >>
  PROVE  Pops(w, Tail(w)) /\ Tail(w) \in Seq(S) /\ Head(w) = w[1] /\ Head(w) \in S
<1> DEFINE v == Tail(w)
<1>1. Len(w) \in Nat /\ Len(w) > 0
  BY EmptySeq
<1>2. /\ v \in Seq(S) /\ Len(v) = Len(w) - 1 /\ Head(w) = w[1] /\ Head(w) \in S
      /\ \A i \in 1 .. Len(v) : v[i] = w[i + 1]
  BY HeadTailProperties
<1> HIDE DEF v
<1>3. \A i \in 1 .. Len(v) : i + 1 \in 1 .. Len(w) /\ v[i] = w[i + 1]
  BY <1>1, <1>2
<1>4. ASSUME NEW i \in 1 .. Len(w), i # 1
      PROVE  i - 1 \in 1 .. Len(v) /\ v[i - 1] = w[i]
  <2>1. i - 1 \in 1 .. Len(v) /\ (i - 1) + 1 = i
    BY <1>1, <1>2, <1>4
  <2>2. QED  BY <1>2, <2>1
<1>5. Pops(w, v)
  BY <1>1, <1>2, <1>3, <1>4 DEF Pops
<1>6. QED  BY <1>2, <1>5 DEF v

(* What the client has said and the engine has not taken: the wire and the *)
(* batches behind it.                                                      *)
FlowOf(sent, batch) == sent \o batch["pump"] \o batch["timer"]

(* At most one task has a batch.                                           *)
LEMMA FlowIs ==
  ASSUME NEW sent \in Seq(Frame), NEW batch \in [Tasks -> Seq(Frame)], NEW t \in Tasks,
         \A u \in Tasks : u # t => batch[u] = << >>
  PROVE  FlowOf(sent, batch) = sent \o batch[t] /\ FlowOf(sent, batch) \in Seq(Frame)
<1>1. batch["pump"] \in Seq(Frame) /\ batch["timer"] \in Seq(Frame)
  BY DEF Tasks
<1>2. sent \o batch[t] \in Seq(Frame)
  BY ConcatProperties
<1>3. CASE t = "pump"
  <2>1. batch["timer"] = << >>
    BY <1>3 DEF Tasks
  <2>2. (sent \o batch["pump"]) \o << >> = sent \o batch["pump"]
    BY <1>2, <1>3, ConcatEmptySeq
  <2>3. QED  BY <1>2, <1>3, <2>1, <2>2 DEF FlowOf
<1>4. CASE t = "timer"
  <2>1. batch["pump"] = << >>
    BY <1>4 DEF Tasks
  <2>2. sent \o << >> = sent
    BY ConcatEmptySeq
  <2>3. QED  BY <1>2, <1>4, <2>1, <2>2 DEF FlowOf
<1>5. QED  BY <1>3, <1>4 DEF Tasks

------------------------------------------------------------------------------
(* The numbers on the wires.                                               *)

(* The commands on their way carry the numbers the engine will expect, up  *)
(* to the last one given out.                                              *)
Counted(w, next, last) ==
  /\ \A i \in 1 .. Len(w) : w[i].seq = next + i - 1
  /\ next + Len(w) - 1 = last
Ours(w, epoch) == \A i \in 1 .. Len(w) : w[i].epoch = epoch

(* The engine takes a command.                                             *)
LEMMA CountedPops ==
  ASSUME NEW w, NEW v, Pops(w, v), NEW next \in Nat, NEW last, Counted(w, next, last)
  PROVE  w[1].seq = next /\ Counted(v, next + 1, last)
<1>1. Len(w) \in Nat /\ Len(w) > 0 /\ Len(v) = Len(w) - 1 /\ 1 \in 1 .. Len(w)
  BY DEF Pops
<1>2. ASSUME NEW i \in 1 .. Len(v)  PROVE v[i].seq = (next + 1) + i - 1
  <2>1. i \in Nat /\ i + 1 \in 1 .. Len(w)
    BY <1>1
  <2>2. v[i] = w[i + 1]
    BY DEF Pops
  <2>3. w[i + 1].seq = next + (i + 1) - 1
    BY <2>1 DEF Counted
  <2>4. QED  BY <2>1, <2>2, <2>3
<1>3. w[1].seq = next
  BY <1>1 DEF Counted
<1>4. (next + 1) + Len(v) - 1 = last
  BY <1>1 DEF Counted
<1>5. QED  BY <1>2, <1>3, <1>4 DEF Counted

(* A batch is numbered on.                                                 *)
LEMMA CountedJoins ==
  ASSUME NEW w, NEW f, NEW v, Joins(w, f, v), NEW next \in Nat, NEW last \in Nat,
         Counted(w, next, last), \A i \in 1 .. Len(f) : f[i].seq = last + i
  PROVE  Counted(v, next, last + Len(f))
<1> DEFINE n == Len(w)
           k == Len(f)
<1>1. Len(v) = n + k /\ n \in Nat /\ k \in Nat /\ next + n - 1 = last
  BY DEF Joins, Counted
<1> HIDE DEF n, k
<1>2. ASSUME NEW i \in 1 .. Len(v)  PROVE v[i].seq = next + i - 1
  <2>1. CASE i \in 1 .. Len(w)
    BY <2>1 DEF Joins, Counted
  <2>2. CASE \E j \in 1 .. Len(f) : i = Len(w) + j
    <3>1. PICK j \in 1 .. Len(f) : i = Len(w) + j
      BY <2>2
    <3>a. v[Len(w) + j] = f[j]
      BY DEF Joins
    <3>b. f[j].seq = last + j
      OBVIOUS
    <3>c. j \in Nat
      BY <1>1 DEF k
    <3>2. v[i].seq = last + j /\ j \in Nat /\ i = n + j
      BY <3>1, <3>a, <3>b, <3>c DEF n
    <3>3. last + j = next + (n + j) - 1
      BY <1>1, <3>2
    <3>4. QED  BY <3>2, <3>3
  <2>3. QED  BY <2>1, <2>2 DEF Joins
<1>3. next + Len(v) - 1 = last + k
  BY <1>1
<1>4. QED  BY <1>2, <1>3 DEF Counted, k

(* The messages on their way are numbered on from the last one handled, up *)
(* to the next one the engine writes.                                      *)
InOrder(q, base, epoch, next) ==
  /\ \A i \in 1 .. Len(q) : q[i].seq = base + i /\ q[i].epoch = epoch
  /\ next = base + Len(q) + 1

(* The client takes a message, and the engine writes one.                  *)
LEMMA InwardMoves ==
  ASSUME NEW q, NEW v, NEW base \in Nat, NEW epoch, NEW next,
         InOrder(q, base, epoch, next)
  PROVE  /\ Pops(q, v) => /\ q[1].seq = base + 1 /\ q[1].epoch = epoch
                          /\ InOrder(v, base + 1, epoch, next)
         /\ \A m : Grows(q, m, v) /\ m.seq = next /\ m.epoch = epoch
                   => InOrder(v, base, epoch, next + 1)
<1>1. ASSUME Pops(q, v)
      PROVE  /\ q[1].seq = base + 1 /\ q[1].epoch = epoch
             /\ InOrder(v, base + 1, epoch, next)
  <2>1. Len(q) \in Nat /\ Len(q) > 0 /\ Len(v) = Len(q) - 1 /\ 1 \in 1 .. Len(q)
    BY <1>1 DEF Pops
  <2>2. \A i \in 1 .. Len(v) : v[i].seq = (base + 1) + i /\ v[i].epoch = epoch
    BY <1>1, <2>1 DEF Pops, InOrder
  <2>3. next = (base + 1) + Len(v) + 1
    BY <2>1 DEF InOrder
  <2>4. QED  BY <2>1, <2>2, <2>3 DEF InOrder
<1>2. ASSUME NEW m, Grows(q, m, v), m.seq = next, m.epoch = epoch
      PROVE  InOrder(v, base, epoch, next + 1)
  <2>1. Len(q) \in Nat /\ Len(v) = Len(q) + 1 /\ v[Len(q) + 1] = m
    BY <1>2 DEF Grows
  <2>2. ASSUME NEW i \in 1 .. Len(v)  PROVE v[i].seq = base + i /\ v[i].epoch = epoch
    <3>1. CASE i \in 1 .. Len(q)
      BY <1>2, <3>1 DEF Grows, InOrder
    <3>2. CASE i = Len(q) + 1
      BY <1>2, <2>1, <3>2 DEF InOrder
    <3>3. QED  BY <1>2, <3>1, <3>2 DEF Grows
  <2>3. next + 1 = base + Len(v) + 1
    BY <2>1 DEF InOrder
  <2>4. QED  BY <2>2, <2>3 DEF InOrder
<1>3. QED  BY <1>1, <1>2

(* The ticks on their way and the one in the outbox carry books younger    *)
(* than the last one accepted, in order.                                   *)
IsTick(q, i) == q[i].type = "Tob"
Younger(q, base, box, top) ==
  /\ base <= top
  /\ \A i \in 1 .. Len(q) : IsTick(q, i) => base < q[i].md /\ q[i].md <= top
  /\ \A i, j \in 1 .. Len(q) : i < j /\ IsTick(q, i) /\ IsTick(q, j) => q[i].md < q[j].md
  /\ box # << >> =>
       /\ base < box[1].md /\ box[1].md <= top
       /\ \A i \in 1 .. Len(q) : IsTick(q, i) => q[i].md < box[1].md

(* The client takes a message.                                             *)
LEMMA YoungerPops ==
  ASSUME NEW q, NEW v, Pops(q, v), NEW base, NEW box, NEW top, Younger(q, base, box, top)
  PROVE  /\ Younger(v, base, box, top)
         /\ q[1].type = "Tob" => base < q[1].md /\ Younger(v, q[1].md, box, top)
<1>1. /\ Len(q) \in Nat /\ Len(v) \in Nat /\ 1 \in 1 .. Len(q)
      /\ \A i \in 1 .. Len(v) : /\ i + 1 \in 1 .. Len(q) /\ v[i] = q[i + 1] /\ 1 < i + 1
                                /\ IsTick(v, i) = IsTick(q, i + 1)
  BY DEF Pops, IsTick
<1>2. \A i, j \in 1 .. Len(v) : i < j => i + 1 < j + 1
  BY <1>1
<1>3. Younger(v, base, box, top)
  <2>1. \A i \in 1 .. Len(v) : IsTick(v, i) => base < v[i].md /\ v[i].md <= top
    BY <1>1 DEF Younger
  <2>2. \A i, j \in 1 .. Len(v) : i < j /\ IsTick(v, i) /\ IsTick(v, j) => v[i].md < v[j].md
    BY <1>1, <1>2 DEF Younger
  <2>3. box # << >> => \A i \in 1 .. Len(v) : IsTick(v, i) => v[i].md < box[1].md
    BY <1>1 DEF Younger
  <2>4. QED  BY <2>1, <2>2, <2>3 DEF Younger
<1>4. ASSUME q[1].type = "Tob"
      PROVE  base < q[1].md /\ Younger(v, q[1].md, box, top)
  <2>1. IsTick(q, 1)
    BY <1>4 DEF IsTick
  <2>2. base < q[1].md /\ q[1].md <= top
    BY <1>1, <2>1 DEF Younger
  <2>3. \A i \in 1 .. Len(v) : IsTick(v, i) => q[1].md < v[i].md
    BY <1>1, <2>1 DEF Younger
  <2>4. box # << >> => q[1].md < box[1].md
    BY <1>1, <2>1 DEF Younger
  <2>5. QED  BY <1>3, <2>2, <2>3, <2>4 DEF Younger
<1>5. QED  BY <1>3, <1>4

(* A new book replaces the tick in the outbox.                             *)
LEMMA YoungerBook ==
  ASSUME NEW q \in Seq(Msg), NEW base \in Nat, NEW box, NEW top \in Nat,
         Younger(q, base, box, top), NEW m, m.md = top + 1
  PROVE  Younger(q, base, <<m>>, top + 1)
<1>1. ASSUME NEW i \in 1 .. Len(q), IsTick(q, i)
      PROVE  base < q[i].md /\ q[i].md <= top + 1 /\ q[i].md < top + 1
  <2>1. q[i] \in Msg /\ q[i].type = "Tob"
    BY <1>1 DEF IsTick
  <2>2. q[i].md \in Nat
    BY <2>1 DEF Msg, TickMsg, ReportMsg
  <2>3. QED  BY <1>1, <2>2 DEF Younger
<1>2. base < top + 1 /\ base <= top + 1
  BY DEF Younger
<1>3. <<m>>[1] = m
  OBVIOUS
<1>4. QED  BY <1>1, <1>2, <1>3 DEF Younger

(* The engine writes: a report, or the tick.                               *)
LEMMA YoungerGrows ==
  ASSUME NEW q, NEW v, NEW m, Grows(q, m, v), NEW base, NEW box, NEW top,
         Younger(q, base, box, top)
  PROVE  /\ m.type # "Tob" => Younger(v, base, box, top)
         /\ box # << >> /\ m.md = box[1].md => Younger(v, base, << >>, top)
<1>1. /\ Len(q) \in Nat /\ Len(v) = Len(q) + 1 /\ v[Len(q) + 1] = m
      /\ \A i \in 1 .. Len(q) : /\ i \in 1 .. Len(v) /\ v[i] = q[i]
                                /\ IsTick(v, i) = IsTick(q, i)
      /\ \A i \in 1 .. Len(v) : i \in 1 .. Len(q) \/ i = Len(q) + 1
  BY DEF Grows, IsTick
<1>2. ASSUME m.type # "Tob"  PROVE Younger(v, base, box, top)
  <2>1. \A i \in 1 .. Len(v) : IsTick(v, i) => i \in 1 .. Len(q) /\ IsTick(q, i) /\ v[i] = q[i]
    BY <1>1, <1>2 DEF IsTick
  <2>2. QED  BY <2>1 DEF Younger
<1>3. ASSUME box # << >>, m.md = box[1].md  PROVE Younger(v, base, << >>, top)
  <2>1. \A i \in 1 .. Len(v) :
          IsTick(v, i) => \/ i \in 1 .. Len(q) /\ IsTick(q, i) /\ v[i] = q[i]
                          \/ i = Len(q) + 1 /\ v[i] = m
    BY <1>1
  <2>2. \A i \in 1 .. Len(v) : IsTick(v, i) => base < v[i].md /\ v[i].md <= top
    BY <1>3, <2>1 DEF Younger
  <2>3. ASSUME NEW i \in 1 .. Len(v), NEW j \in 1 .. Len(v), i < j, IsTick(v, i), IsTick(v, j)
        PROVE  v[i].md < v[j].md
    <3>1. i \in 1 .. Len(q)
      BY <1>1, <2>3
    <3>2. IsTick(q, i) /\ v[i] = q[i]
      BY <1>1, <2>3, <3>1
    <3>3. CASE j \in 1 .. Len(q)
      BY <1>1, <2>3, <3>1, <3>2, <3>3 DEF Younger
    <3>4. CASE j = Len(q) + 1
      BY <1>1, <1>3, <3>1, <3>2, <3>4 DEF Younger
    <3>5. QED  BY <1>1, <3>3, <3>4
  <2>4. QED  BY <2>2, <2>3 DEF Younger
<1>4. QED  BY <1>2, <1>3

(* The reports on their way to the client and in the outbox.               *)
Awaited(q, box, w, eo, st, phase) ==
  /\ \A i \in 1 .. Len(q) : q[i].type # "Tob" => Due(q[i], w, eo, st, phase)
  /\ \A i \in 1 .. Len(box) : Due(box[i], w, eo, st, phase)

(* What becomes of them when the rest changes, and when they move.         *)
LEMMA AwaitedMoves ==
  ASSUME NEW q, NEW box, NEW w, NEW eo, NEW st, NEW p, Awaited(q, box, w, eo, st, p)
  PROVE  /\ \A w2, e2, t, p2 : StillDue(w, eo, st, p, w2, e2, t, p2)
                               => Awaited(q, box, w2, e2, t, p2)
         /\ \A v : Pops(q, v) => Awaited(v, box, w, eo, st, p)
         /\ \A v, m : /\ Grows(q, m, v)
                      /\ m.type # "Tob" => Due(m, w, eo, st, p)
                      => Awaited(v, box, w, eo, st, p)
         /\ \A b : Pops(box, b) => Awaited(q, b, w, eo, st, p)
         /\ \A b, m : Grows(box, m, b) /\ Due(m, w, eo, st, p) => Awaited(q, b, w, eo, st, p)
<1>1. \A w2, e2, t, p2 : StillDue(w, eo, st, p, w2, e2, t, p2)
                         => Awaited(q, box, w2, e2, t, p2)
  BY DEF Awaited, StillDue
<1>2. \A v : Pops(q, v) => Awaited(v, box, w, eo, st, p)
  BY DEF Awaited, Pops
<1>3. ASSUME NEW v, NEW m, Grows(q, m, v), m.type # "Tob" => Due(m, w, eo, st, p)
      PROVE  Awaited(v, box, w, eo, st, p)
  BY <1>3 DEF Awaited, Grows
<1>4. \A b : Pops(box, b) => Awaited(q, b, w, eo, st, p)
  BY DEF Awaited, Pops
<1>5. ASSUME NEW b, NEW m, Grows(box, m, b), Due(m, w, eo, st, p)
      PROVE  Awaited(q, b, w, eo, st, p)
  BY <1>5 DEF Awaited, Grows
<1>6. QED  BY <1>1, <1>2, <1>3, <1>4, <1>5

------------------------------------------------------------------------------
(* The inductive invariant.                                                *)

TaskState == {"cancelled", "reading", "holding", "sending", "sleeping", "closing",
              "done", "OSError", "ConnectionClosed"}
Engine == [orders : Book, inSeq : Nat, outSeq : Nat, reports : Seq(ReportMsg),
           tob : Seq(TickMsg), broken : BOOLEAN]

Typed ==
  /\ strat \in Slate /\ driver \in Driver
  /\ task \in [Tasks -> TaskState] /\ unsent \in [Tasks -> Seq(Frame)]
  /\ hand \in Msg \cup {NoFrame} /\ conn \in {"up", "peerClosed", "closed"}
  /\ attempt \in Nat /\ engine \in Engine
  /\ toEngine \in Seq(Frame) /\ toClient \in Seq(Msg) /\ mdSeq \in 0 .. MaxBooks

Flow == FlowOf(toEngine, unsent)
Inbox == IF hand = NoFrame THEN toClient ELSE <<hand>> \o toClient
Heard == driver.epoch # 0
Phase == IF Heard /\ driver.close = NoCode THEN "quoting" ELSE "over"
LastSeq == IF Heard THEN strat.inSeq ELSE 0
LastMd == IF Heard THEN strat.mdSeq ELSE 0

Slated ==
  /\ Sound(strat) /\ strat.mdSeq <= mdSeq
  /\ strat.stopped = FALSE => Fresh(strat)

(* The lock, the hand of the pump and the timer's errand.                  *)
Tasking ==
  Running =>
    /\ \A t \in Tasks : unsent[t] # << >> => task[t] = "sending"
    /\ unsent["pump"] = << >> \/ unsent["timer"] = << >>
    /\ hand = NoFrame <=> task["pump"] # "holding"
    /\ task["timer"] = "closing" => driver.close # NoCode
    /\ attempt # 0

Idle ==
  ~Running =>
    /\ unsent = [t \in Tasks |-> << >>] /\ hand = NoFrame /\ engine = NewSession
    /\ toEngine = << >> /\ toClient = << >> /\ strat.seenTob = FALSE

Closing ==
  Running => \/ wire = NoCode
             \/ conn # "up" /\ driver.close # NoCode /\ wire = driver.close

(* Before the first message.                                               *)
Deaf ==
  Running /\ ~Heard =>
    /\ Flow = << >> /\ driver = NewDriver /\ engine.orders = Orders!AllFree
    /\ engine.inSeq = 1 /\ engine.reports = << >> /\ strat.seenTob = FALSE
    /\ \A i \in 1 .. Len(Inbox) : Inbox[i].type = "Tob"

(* After it.                                                               *)
Told ==
  Running /\ Heard =>
    /\ driver.epoch = attempt /\ strat.epoch = attempt
    /\ driver.close = NoCode => strat.stopped = FALSE

Numbers ==
  Running =>
    /\ engine.broken => "OSError" \in TaskEnds
    /\ Ours(Flow, attempt)
    /\ conn = "up" /\ "OSError" \notin TaskEnds =>
         Counted(Flow, engine.inSeq, Used(driver.outSeq))
    /\ driver.close = Protocol => strat.symbol = "foreign" \/ driver.outSeq > MaxSeq

Inward ==
  Running /\ driver.close = NoCode =>
    /\ InOrder(Inbox, LastSeq, attempt, engine.outSeq)
    /\ Younger(Inbox, LastMd, engine.tob, mdSeq)

Pictured == Running => Picture(Flow, engine.orders, strat, Phase, conn)
Expected == Running => Awaited(Inbox, engine.reports, Flow, engine.orders, strat, Phase)

(* While the client quotes, a cancel is followed by the order that takes   *)
(* its place.                                                              *)
Coupled(w) ==
  \A i \in 1 .. Len(w) :
    Pulls(w, i) => /\ i + 1 \in 1 .. Len(w) /\ News(w, i + 1)
                   /\ SideOf(w[i + 1].id) = SideOf(w[i].id)
Paired == Running /\ Phase = "quoting" => \A t \in Tasks : Coupled(unsent[t])

Inv ==
  /\ Typed /\ Slated /\ Tasking /\ Idle /\ Closing /\ EndingMatchesWire
  /\ Deaf /\ Told /\ Numbers /\ Inward /\ Pictured /\ Expected /\ Paired

(* The queues hold frames and messages.                                    *)
LEMMA QueuesTyped ==
  ASSUME Typed
  PROVE  Flow \in Seq(Frame) /\ Inbox \in Seq(Msg)
<1>1. toEngine \in Seq(Frame) /\ unsent["pump"] \in Seq(Frame) /\ unsent["timer"] \in Seq(Frame)
  BY DEF Typed, Tasks
<1>2. toEngine \o unsent["pump"] \in Seq(Frame)
  BY <1>1, ConcatProperties
<1>3. Flow \in Seq(Frame)
  BY <1>1, <1>2, ConcatProperties DEF Flow, FlowOf
<1>4. toClient \in Seq(Msg)
  BY DEF Typed
<1>5. ASSUME hand # NoFrame  PROVE <<hand>> \o toClient \in Seq(Msg)
  <2>1. <<hand>> \in Seq(Msg)
    BY <1>5 DEF Typed
  <2>2. QED  BY <1>4, <2>1, ConcatProperties
<1>6. QED  BY <1>3, <1>4, <1>5 DEF Inbox

Blank(st, e, symbol) ==
  /\ st \in Slate /\ Sound(st) /\ Fresh(st) /\ AckedIds(st) = {}
  /\ st.epoch = e /\ st.symbol = symbol /\ st.inSeq = 0 /\ st.mdSeq = 0
  /\ st.stopped = FALSE /\ st.seenTob = FALSE

(* A clean slate is sound and takes nothing for acknowledged.              *)
LEMMA CleanSlateIs ==
  ASSUME NEW e \in Nat, NEW symbol \in {"traded", "foreign"}
  PROVE  Blank(CleanSlate(e, symbol), e, symbol)
<1> DEFINE st == CleanSlate(e, symbol)
<1>1. << >> \in Seq(Order) /\ Len(<< >>) = 0
  OBVIOUS
<1>2. /\ st.epoch = e /\ st.symbol = symbol /\ st.inSeq = 0 /\ st.mdSeq = 0
      /\ st.stopped = FALSE /\ st.seenTob = FALSE /\ st.swept = FALSE /\ st.orders = << >>
      /\ st.current = [s \in Sides |-> NoId] /\ st.nextCl = [s \in Sides |-> 0]
      /\ st.rejected = [s \in Sides |-> NoPx] /\ st.bid = NoPx /\ st.ask = NoPx
  BY DEF CleanSlate
<1>3. /\ [s \in Sides |-> NoId] \in [Sides -> Id \cup {NoId}]
      /\ [s \in Sides |-> 0] \in [Sides -> Nat] /\ [s \in Sides |-> NoPx] \in [Sides -> Nat]
      /\ NoPx \in Nat /\ 0 \in Nat
  BY DEF NoPx
<1>4. st \in Slate
  BY <1>1, <1>3, ZenonT(60) DEF Slate, CleanSlate
<1>5. Distinct(st) /\ Numbered(st) /\ Holding(st) /\ Barred(st) /\ Priced(st)
  BY <1>1, <1>2 DEF Distinct, Numbered, Holding, Barred, Priced
<1>6. Fresh(st) /\ AckedIds(st) = {}
  BY <1>1, <1>2 DEF Fresh, FreshOn, AckedIds
<1>7. Sound(st)
  BY <1>2, <1>5 DEF Sound
<1> HIDE DEF st
<1>8. Blank(st, e, symbol)
  BY <1>2, <1>4, <1>6, <1>7 DEF Blank
<1>9. QED  BY <1>8 DEF st

(* The engine's side of a new session.                                     *)
LEMMA NewSessionIs ==
  /\ NewSession \in Engine /\ NewSession.orders = Orders!AllFree
  /\ NewSession.inSeq = 1 /\ NewSession.outSeq = 1 /\ NewSession.reports = << >>
  /\ NewSession.tob = << >> /\ NewSession.broken = FALSE
<1>1. Orders!AllFree \in Book
  BY DEF Orders!AllFree, Book
<1>2. << >> \in Seq(ReportMsg) /\ << >> \in Seq(TickMsg) /\ 1 \in Nat
  OBVIOUS
<1>3. NewSession \in Engine
  BY <1>1, <1>2, ZenonT(60) DEF NewSession, Engine
<1>4. QED  BY <1>3 DEF NewSession

(* The initial states.                                                     *)
LEMMA InitInv == Init => Inv
<1> SUFFICES ASSUME Init  PROVE Inv
  OBVIOUS
<1>1. ~Running /\ main # "ended"
  BY DEF Init, Running
<1>2. PICK symbol \in {"traded", "foreign"} : strat = CleanSlate(0, symbol)
  BY DEF Init
<1>3. /\ strat \in Slate /\ Sound(strat) /\ Fresh(strat) /\ strat.mdSeq = 0
      /\ strat.seenTob = FALSE
  BY <1>2, CleanSlateIs DEF Blank
<1>4. driver \in Driver
  BY DEF Init, NewDriver, Driver
<1>5. /\ unsent \in [Tasks -> Seq(Frame)] /\ toEngine \in Seq(Frame) /\ toClient \in Seq(Msg)
      /\ task \in [Tasks -> TaskState]
  BY DEF Init, TaskState
<1>6. mdSeq \in 0 .. MaxBooks
  BY ClientAssumption DEF Init
<1>7. Typed
  BY <1>3, <1>4, <1>5, <1>6, NewSessionIs DEF Typed, Init
<1>8. Slated /\ Idle
  BY <1>3 DEF Slated, Idle, Init
<1>9. QED
  BY <1>1, <1>7, <1>8
  DEF Inv, Tasking, Closing, EndingMatchesWire, Deaf, Told, Numbers, Inward, Pictured,
      Expected, Paired

------------------------------------------------------------------------------
(* The steps that leave the two pictures alone.                            *)

(* The operator stops, and what follows the end of a connection.           *)
LEMMA OutsideKeeps ==
  ASSUME Inv, OperatorStops \/ Decide \/ DialFails
  PROVE  Inv'
<1>1. /\ UNCHANGED <<strat, driver, task, unsent, hand, conn, wire, peerVars>>
      /\ Running' = Running
      /\ Running => attempt' = attempt
      /\ attempt' \in Nat
  BY DEF Inv, Typed, OperatorStops, Decide, DialFails, Running, peerVars
<1>2. /\ Flow' = Flow /\ Inbox' = Inbox /\ Phase' = Phase /\ Heard' = Heard
      /\ LastSeq' = LastSeq /\ LastMd' = LastMd /\ TaskEnds' = TaskEnds
  BY <1>1 DEF Flow, Inbox, Phase, Heard, LastSeq, LastMd, TaskEnds, peerVars
<1>3. Typed' /\ Slated' /\ Idle'
  BY <1>1 DEF Inv, Typed, Slated, Idle, peerVars
<1>4. Tasking' /\ Closing'
  BY <1>1 DEF Inv, Tasking, Closing
<1>5. Deaf' /\ Told'
  BY <1>1, <1>2 DEF Inv, Deaf, Told, peerVars
<1>6. Numbers' /\ Inward'
  BY <1>1, <1>2 DEF Inv, Numbers, Inward, peerVars
<1>7. Pictured' /\ Expected' /\ Paired'
  BY <1>1, <1>2 DEF Inv, Pictured, Expected, Paired, peerVars
<1>8. EndingMatchesWire'
  BY <1>1 DEF Inv, EndingMatchesWire, OperatorStops, Decide, DialFails
<1>9. QED  BY <1>3, <1>4, <1>5, <1>6, <1>7, <1>8 DEF Inv

(* The pump ends, the timer closes the socket, the engine closes it.       *)
LEMMA PumpEndsKeeps ==
  ASSUME Inv, PumpEnds
  PROVE  Inv'
<1>1. /\ UNCHANGED <<strat, driver, unsent, hand, conn, wire, main, attempt, peerVars>>
      /\ Running /\ Running' /\ main' # "ended"
      /\ task' = [task EXCEPT !["pump"] = "done"] /\ task["pump"] = "reading"
  BY DEF PumpEnds, Running
<1>2. /\ Flow' = Flow /\ Inbox' = Inbox /\ Phase' = Phase /\ Heard' = Heard
      /\ LastSeq' = LastSeq /\ LastMd' = LastMd
  BY <1>1 DEF Flow, Inbox, Phase, Heard, LastSeq, LastMd, peerVars
<1>3. /\ task' \in [Tasks -> TaskState] /\ task'["pump"] = "done"
      /\ task'["timer"] = task["timer"]
  BY <1>1 DEF Inv, Typed, Tasks, TaskState
<1>4. ("OSError" \in TaskEnds) = ("OSError" \in TaskEnds')
  BY <1>1, <1>3 DEF TaskEnds, Tasks
<1>5. Typed' /\ Slated' /\ Idle'
  BY <1>1, <1>3 DEF Inv, Typed, Slated, Idle, peerVars
<1>6. Tasking'
  BY <1>1, <1>3 DEF Inv, Tasking, Tasks
<1>7. Closing' /\ EndingMatchesWire'
  BY <1>1 DEF Inv, Closing, EndingMatchesWire
<1>8. Deaf' /\ Told'
  BY <1>1, <1>2 DEF Inv, Deaf, Told, peerVars
<1>9. Numbers' /\ Inward'
  BY <1>1, <1>2, <1>4 DEF Inv, Numbers, Inward, peerVars
<1>10. Pictured' /\ Expected' /\ Paired'
  BY <1>1, <1>2 DEF Inv, Pictured, Expected, Paired, peerVars
<1>11. QED  BY <1>5, <1>6, <1>7, <1>8, <1>9, <1>10 DEF Inv

(* The wire goes down.                                                     *)
LEMMA WireDownKeeps ==
  ASSUME Inv, TimerCloses \/ EngineCloses
  PROVE  Inv'
<1>1. /\ UNCHANGED <<strat, driver, unsent, hand, main, attempt, peerVars>>
      /\ Running /\ Running' /\ main' # "ended" /\ conn' \in {"peerClosed", "closed"}
  BY DEF TimerCloses, EngineCloses, ClosesSocket, Running, Serving, clientVars
<1>2. \/ task' = task /\ wire' = wire
      \/ /\ task' = [task EXCEPT !["timer"] = "done"] /\ task["timer"] = "closing"
         /\ wire' = IF conn = "up" THEN CloseCode ELSE wire
  BY DEF TimerCloses, EngineCloses, ClosesSocket, clientVars
<1>3. /\ Flow' = Flow /\ Inbox' = Inbox /\ Phase' = Phase /\ Heard' = Heard
      /\ LastSeq' = LastSeq /\ LastMd' = LastMd
  BY <1>1 DEF Flow, Inbox, Phase, Heard, LastSeq, LastMd, peerVars
<1>4. /\ task' \in [Tasks -> TaskState] /\ task'["pump"] = task["pump"]
      /\ task'["timer"] = task["timer"] \/ (task["timer"] = "closing" /\ task'["timer"] = "done")
  BY <1>2 DEF Inv, Typed, Tasks, TaskState
<1>5. ("OSError" \in TaskEnds) = ("OSError" \in TaskEnds')
  BY <1>4 DEF TaskEnds, Tasks
<1>6. Typed' /\ Slated' /\ Idle'
  BY <1>1, <1>4 DEF Inv, Typed, Slated, Idle, peerVars
<1>7. Tasking'
  BY <1>1, <1>4 DEF Inv, Tasking, Tasks
<1>8. Closing' /\ EndingMatchesWire'
  BY <1>1, <1>2 DEF Inv, Closing, EndingMatchesWire, Tasking, CloseCode
<1>9. Deaf' /\ Told'
  BY <1>1, <1>3 DEF Inv, Deaf, Told, peerVars
<1>10. Numbers' /\ Inward'
  BY <1>1, <1>3, <1>5 DEF Inv, Numbers, Inward, peerVars
<1>11. Pictured' /\ Expected' /\ Paired'
  <2>1. Picture(Flow, engine.orders, strat, Phase, conn)
    BY <1>1 DEF Inv, Pictured
  <2>2. Picture(Flow, engine.orders, strat, Phase, conn')
    BY <1>1, <2>1 DEF Picture
  <2>3. QED  BY <1>1, <1>3, <2>2 DEF Inv, Pictured, Expected, Paired, peerVars
<1>12. QED  BY <1>6, <1>7, <1>8, <1>9, <1>10, <1>11 DEF Inv

(* A connection begins.                                                    *)
LEMMA DialKeeps ==
  ASSUME Inv, Dial
  PROVE  Inv'
<1>1. /\ UNCHANGED <<strat, unsent, hand, peerVars>>
      /\ ~Running /\ Running' /\ main' # "ended" /\ attempt' = attempt + 1
      /\ driver' = NewDriver /\ conn' = "up" /\ wire' = NoCode
      /\ task' = [t \in Tasks |-> IF t = "pump" THEN "reading" ELSE "sleeping"]
  BY DEF Dial, Running
<1>2. /\ unsent = [t \in Tasks |-> << >>] /\ hand = NoFrame /\ engine = NewSession
      /\ toEngine = << >> /\ toClient = << >> /\ strat.seenTob = FALSE
  BY <1>1 DEF Inv, Idle
<1>3. /\ unsent'["pump"] = << >> /\ unsent'["timer"] = << >> /\ Inbox' = << >>
      /\ \A t \in Tasks : unsent'[t] = << >>
  BY <1>1, <1>2 DEF Tasks, Inbox, peerVars
<1>4. Flow' = << >>
  <2>1. << >> \in Seq(Frame) /\ << >> \o << >> = << >>
    BY ConcatEmptySeq
  <2>2. QED  BY <1>1, <1>2, <1>3, <2>1 DEF Flow, FlowOf, peerVars
<1>5. /\ Heard' = FALSE /\ Phase' = "over" /\ LastSeq' = 0 /\ LastMd' = 0
      /\ driver'.close = NoCode /\ driver'.outSeq = 0 /\ driver' \in Driver
  BY <1>1 DEF Heard, Phase, LastSeq, LastMd, NewDriver, Driver
<1>6. /\ task'["pump"] = "reading" /\ task'["timer"] = "sleeping"
      /\ task' \in [Tasks -> TaskState]
  BY <1>1 DEF Tasks, TaskState
<1>7. Typed' /\ Slated' /\ Idle'
  BY <1>1, <1>5, <1>6 DEF Inv, Typed, Slated, Idle, peerVars
<1>8. Tasking'
  <2>1. attempt \in Nat /\ attempt' # 0
    BY <1>1 DEF Inv, Typed
  <2>2. QED  BY <1>1, <1>2, <1>3, <1>6, <2>1 DEF Tasking, Tasks
<1>9. Closing' /\ EndingMatchesWire'
  BY <1>1 DEF Closing, EndingMatchesWire
<1>10. Len(<< >>) = 0
  OBVIOUS
<1>11. Deaf' /\ Told'
  BY <1>1, <1>2, <1>3, <1>4, <1>5, <1>10, NewSessionIs DEF Deaf, Told, peerVars
<1>12. Numbers'
  <2>1. Counted(<< >>, 1, 0) /\ Ours(<< >>, attempt')
    BY <1>10 DEF Counted, Ours
  <2>2. Used(driver'.outSeq) = 0
    BY <1>5, ClientAssumption DEF Used
  <2>3. engine'.inSeq = 1 /\ engine'.broken = FALSE
    BY <1>1, <1>2, NewSessionIs DEF peerVars
  <2>4. driver'.close # Protocol
    BY <1>5 DEF Protocol, NoCode
  <2>5. QED  BY <1>4, <2>1, <2>2, <2>3, <2>4 DEF Numbers
<1>13. Inward'
  <2>1. engine'.outSeq = 1 /\ engine'.tob = << >>
    BY <1>1, <1>2, NewSessionIs DEF peerVars
  <2>2. mdSeq' \in Nat
    BY <1>7 DEF Typed
  <2>3. InOrder(<< >>, 0, attempt', 1) /\ Younger(<< >>, 0, << >>, mdSeq')
    BY <1>10, <2>2 DEF InOrder, Younger
  <2>4. QED  BY <1>3, <1>5, <2>1, <2>3 DEF Inward
<1>14. Pictured' /\ Expected' /\ Paired'
  <2>1. engine'.orders = Orders!AllFree /\ engine'.reports = << >>
    BY <1>1, <1>2, NewSessionIs DEF peerVars
  <2>2. Picture(<< >>, Orders!AllFree, strat', "over", conn')
    BY PictureStarts
  <2>3. Awaited(<< >>, << >>, << >>, Orders!AllFree, strat', "over")
    BY <1>10 DEF Awaited
  <2>4. QED  BY <1>3, <1>4, <1>5, <2>1, <2>2, <2>3 DEF Pictured, Expected, Paired
<1>15. QED
  BY <1>7, <1>8, <1>9, <1>11, <1>12, <1>13, <1>14 DEF Inv

(* The client forgets its orders and its book.                             *)
LEMMA OnDisconnectIs ==
  ASSUME NEW st \in Slate, Sound(st), NEW t, t = OnDisconnect(st)
  PROVE  /\ t \in Slate /\ Sound(t) /\ t.mdSeq = st.mdSeq
         /\ t.stopped = TRUE /\ t.seenTob = FALSE
<1>1. << >> \in Seq(Order) /\ Len(<< >>) = 0
  OBVIOUS
<1>2. /\ [s \in Sides |-> NoId] \in [Sides -> Id \cup {NoId}] /\ NoPx \in Nat
  BY DEF NoPx
<1>3. t \in Slate
  BY <1>1, <1>2, ZenonT(60) DEF Slate, OnDisconnect
<1>4. /\ t.mdSeq = st.mdSeq /\ t.stopped = TRUE /\ t.seenTob = FALSE /\ t.orders = << >>
      /\ t.current = [s \in Sides |-> NoId] /\ t.nextCl = st.nextCl
      /\ t.rejected = st.rejected
  BY DEF OnDisconnect, Slate
<1>5. Distinct(t) /\ Holding(t) /\ Barred(t) /\ Priced(t)
  BY <1>1, <1>4 DEF Distinct, Holding, Barred, Priced
<1>6. Numbered(t)
  BY <1>1, <1>4 DEF Numbered, Sound
<1>7. QED  BY <1>3, <1>4, <1>5, <1>6 DEF Sound

(* A connection ends, and with it the session at the engine.               *)
LEMMA RunClientEndsKeeps ==
  ASSUME Inv, RunClientEnds
  PROVE  Inv'
<1>1. PICK stopped \in BOOLEAN :
        /\ Running /\ main' = "ended"
        /\ ending' \in IF Raised = {} THEN {Ending(stopped)} ELSE Raised
        /\ task' = [t \in Tasks |-> "cancelled"] /\ unsent' = [t \in Tasks |-> << >>]
        /\ hand' = NoFrame /\ strat' = OnDisconnect(strat) /\ ClosesSocket /\ SessionOver
        /\ UNCHANGED <<driver, attempt>>
  BY DEF RunClientEnds
<1>2. ~Running'
  BY <1>1 DEF Running
<1>3. /\ strat' \in Slate /\ Sound(strat') /\ strat'.mdSeq = strat.mdSeq
      /\ strat'.stopped = TRUE /\ strat'.seenTob = FALSE
  BY <1>1, OnDisconnectIs DEF Inv, Typed, Slated
<1>4. Typed'
  <2>1. task' \in [Tasks -> TaskState] /\ unsent' \in [Tasks -> Seq(Frame)]
    BY <1>1 DEF TaskState
  <2>2. engine' \in Engine /\ toEngine' \in Seq(Frame) /\ toClient' \in Seq(Msg) /\ mdSeq' = mdSeq
    BY <1>1, NewSessionIs DEF SessionOver
  <2>3. conn' = "closed"
    BY <1>1 DEF ClosesSocket
  <2>4. QED  BY <1>1, <1>3, <2>1, <2>2, <2>3 DEF Inv, Typed
<1>5. Slated'
  BY <1>1, <1>3 DEF Inv, Slated, SessionOver
<1>6. Idle'
  BY <1>1, <1>3 DEF Idle, SessionOver
<1>7. EndingMatchesWire'
  <2>1. driver.close \in {NoCode, Protocol, Stale}
    BY DEF Inv, Typed, Driver
  <2>2. wire = NoCode \/ (conn # "up" /\ driver.close # NoCode /\ wire = driver.close)
    BY <1>1 DEF Inv, Closing
  <2>3. wire' = IF conn = "up" THEN CloseCode ELSE wire
    BY <1>1 DEF ClosesSocket
  <2>4. /\ ending' = "Decided" => driver.close # NoCode
        /\ ending' \in {"Stopped", "PeerGone"} => driver.close = NoCode
    BY <1>1 DEF Raised, Ending
  <2>5. QED
    BY <1>1, <2>1, <2>2, <2>3, <2>4
    DEF EndingMatchesWire, CloseCode, NoCode, Normal, Protocol, Stale
<1>8. QED
  BY <1>2, <1>4, <1>5, <1>6, <1>7
  DEF Inv, Tasking, Closing, Deaf, Told, Numbers, Inward, Pictured, Expected, Paired

------------------------------------------------------------------------------
(* The steps of the adapter.                                               *)

(* The pump takes a frame off the socket.                                  *)
LEMMA PumpTakesKeeps ==
  ASSUME Inv, PumpTakes
  PROVE  Inv'
<1>1. /\ UNCHANGED <<strat, driver, unsent, conn, wire, main, attempt, ending, engine,
                     toEngine, mdSeq>>
      /\ Running /\ Running' /\ main' # "ended" /\ task["pump"] = "reading"
      /\ toClient # << >> /\ hand' = Head(toClient) /\ toClient' = Tail(toClient)
      /\ task' = [task EXCEPT !["pump"] = "holding"]
  BY DEF PumpTakes, Running
<1>2. toClient \in Seq(Msg) /\ hand = NoFrame
  BY <1>1 DEF Inv, Typed, Tasking
<1>3. hand' \in Msg /\ toClient' \in Seq(Msg)
  BY <1>1, <1>2, PopsDoes
<1>4. hand' # NoFrame
  BY <1>3 DEF Msg, ReportMsg, TickMsg, NoFrame
<1>5. Inbox' = Inbox
  <2>1. << >> \in Seq(Msg) /\ <<hand'>> = Append(<< >>, Head(toClient))
    BY <1>1
  <2>2. <<hand'>> \o toClient' = << >> \o toClient
    BY <1>1, <1>2, <2>1, HandOver
  <2>3. << >> \o toClient = toClient
    BY <1>2, ConcatEmptySeq
  <2>4. QED  BY <1>2, <1>4, <2>2, <2>3 DEF Inbox
<1>6. /\ Flow' = Flow /\ Phase' = Phase /\ Heard' = Heard
      /\ LastSeq' = LastSeq /\ LastMd' = LastMd
  BY <1>1 DEF Flow, Phase, Heard, LastSeq, LastMd
<1>7. /\ task' \in [Tasks -> TaskState] /\ task'["pump"] = "holding"
      /\ task'["timer"] = task["timer"]
  BY <1>1 DEF Inv, Typed, Tasks, TaskState
<1>8. ("OSError" \in TaskEnds) = ("OSError" \in TaskEnds')
  BY <1>1, <1>7 DEF TaskEnds, Tasks
<1>9. Typed' /\ Slated' /\ Idle'
  BY <1>1, <1>3, <1>7 DEF Inv, Typed, Slated, Idle
<1>10. Tasking'
  BY <1>1, <1>4, <1>7 DEF Inv, Tasking, Tasks
<1>11. Closing' /\ EndingMatchesWire'
  BY <1>1 DEF Inv, Closing, EndingMatchesWire
<1>12. Deaf' /\ Told'
  BY <1>1, <1>5, <1>6 DEF Inv, Deaf, Told
<1>13. Numbers' /\ Inward'
  BY <1>1, <1>5, <1>6, <1>8 DEF Inv, Numbers, Inward
<1>14. Pictured' /\ Expected' /\ Paired'
  BY <1>1, <1>5, <1>6 DEF Inv, Pictured, Expected, Paired
<1>15. QED  BY <1>9, <1>10, <1>11, <1>12, <1>13, <1>14 DEF Inv

(* A task in the middle of a batch holds the lock.                         *)
LEMMA BatchIs ==
  ASSUME Inv, Running, NEW t \in Tasks, unsent[t] # << >>
  PROVE  /\ \A u \in Tasks : u # t => unsent[u] = << >>
         /\ task[t] = "sending" /\ (t = "pump" => hand = NoFrame)
         /\ unsent[t] \in Seq(Frame) /\ toEngine \in Seq(Frame)
         /\ Flow = toEngine \o unsent[t]
<1>1. /\ \A u \in Tasks : u # t => unsent[u] = << >>
      /\ task[t] = "sending" /\ (t = "pump" => hand = NoFrame)
  BY DEF Inv, Tasking, Tasks
<1>2. toEngine \in Seq(Frame) /\ unsent \in [Tasks -> Seq(Frame)]
  BY DEF Inv, Typed
<1>3. Flow = toEngine \o unsent[t]
  BY <1>1, <1>2, FlowIs DEF Flow
<1>4. QED  BY <1>1, <1>2, <1>3

(* What is left of a batch.                                                *)
LEMMA CoupledPops ==
  ASSUME NEW w, NEW v, Pops(w, v), Coupled(w)
  PROVE  Coupled(v)
<1>1. /\ Len(w) \in Nat /\ Len(v) = Len(w) - 1
      /\ \A i \in 1 .. Len(v) : i + 1 \in 1 .. Len(w) /\ v[i] = w[i + 1]
  BY DEF Pops
<1> SUFFICES ASSUME NEW i \in 1 .. Len(v), Pulls(v, i)
             PROVE  /\ i + 1 \in 1 .. Len(v) /\ News(v, i + 1)
                    /\ SideOf(v[i + 1].id) = SideOf(v[i].id)
  BY DEF Coupled
<1>2. i + 1 \in 1 .. Len(w) /\ Pulls(w, i + 1) /\ v[i] = w[i + 1]
  BY <1>1 DEF Pulls
<1>3. /\ (i + 1) + 1 \in 1 .. Len(w) /\ News(w, (i + 1) + 1)
      /\ SideOf(w[(i + 1) + 1].id) = SideOf(w[i + 1].id)
  BY <1>2 DEF Coupled
<1>4. i + 1 \in 1 .. Len(v)
  BY <1>1, <1>3
<1>5. v[i + 1] = w[(i + 1) + 1]
  BY <1>1, <1>4
<1>6. QED  BY <1>2, <1>3, <1>4, <1>5 DEF News

(* Where a task goes.                                                      *)
LEMMA BatchOutIs ==
  ASSUME NEW t \in Tasks, NEW d
  PROVE  /\ BatchOut(t, d) \in {"done", "reading", "closing", "sleeping"}
         /\ BatchOut(t, d) = "closing" => t = "timer" /\ d.close # NoCode
BY DEF BatchOut, Tasks

(* A frame goes out: it moves from the batch to the wire.                  *)
LEMMA SendFrameKeeps ==
  ASSUME Inv, NEW t \in Tasks, SendFrame(t)
  PROVE  Inv'
<1> DEFINE b == unsent[t]
<1>1. /\ UNCHANGED <<strat, driver, hand, conn, wire, main, attempt, ending, engine,
                     toClient, mdSeq>>
      /\ Running /\ Running' /\ main' # "ended" /\ b # << >> /\ conn = "up"
      /\ toEngine' = Append(toEngine, Head(b))
      /\ unsent' = [unsent EXCEPT ![t] = Tail(@)]
      /\ task' = [task EXCEPT ![t] = IF Len(b) = 1 THEN BatchOut(t, driver) ELSE "sending"]
  BY DEF SendFrame, Running
<1>2. /\ \A u \in Tasks : u # t => unsent[u] = << >>
      /\ task[t] = "sending" /\ (t = "pump" => hand = NoFrame)
      /\ b \in Seq(Frame) /\ toEngine \in Seq(Frame) /\ Flow = toEngine \o b
  BY <1>1, BatchIs
<1>3. Pops(b, Tail(b)) /\ Tail(b) \in Seq(Frame) /\ Head(b) \in Frame
  BY <1>1, <1>2, PopsDoes
<1>4. /\ unsent' \in [Tasks -> Seq(Frame)] /\ unsent'[t] = Tail(b)
      /\ \A u \in Tasks : u # t => unsent'[u] = << >>
      /\ toEngine' \in Seq(Frame)
  BY <1>1, <1>2, <1>3 DEF Inv, Typed
<1>5. Flow' = Flow
  <2>1. Append(toEngine, Head(b)) \o Tail(b) = toEngine \o b
    BY <1>1, <1>2, HandOver
  <2>2. FlowOf(toEngine', unsent') = toEngine' \o unsent'[t]
    BY <1>4, FlowIs
  <2>3. QED  BY <1>1, <1>2, <1>4, <2>1, <2>2 DEF Flow
<1>6. Len(b) = 1 => Tail(b) = << >>
  <2>1. Len(Tail(b)) = Len(b) - 1
    BY <1>3 DEF Pops
  <2>2. Len(Tail(b)) = 0 => Tail(b) = << >>
    BY <1>3, EmptySeq
  <2>3. QED  BY <2>1, <2>2
<1>7. /\ task' \in [Tasks -> TaskState]
      /\ \A u \in Tasks : u # t => task'[u] = task[u]
      /\ task'[t] \in {"done", "reading", "closing", "sleeping", "sending"}
      /\ task'[t] = "closing" => t = "timer" /\ driver.close # NoCode
      /\ unsent'[t] # << >> => task'[t] = "sending"
  BY <1>1, <1>4, <1>6, BatchOutIs DEF Inv, Typed, TaskState
<1>8. ("OSError" \in TaskEnds) = ("OSError" \in TaskEnds')
  BY <1>2, <1>7 DEF TaskEnds, Tasks
<1>9. /\ Inbox' = Inbox /\ Phase' = Phase /\ Heard' = Heard
      /\ LastSeq' = LastSeq /\ LastMd' = LastMd
  BY <1>1 DEF Inbox, Phase, Heard, LastSeq, LastMd
<1>10. Typed' /\ Slated' /\ Idle'
  BY <1>1, <1>4, <1>7 DEF Inv, Typed, Slated, Idle
<1>11. Tasking'
  <2>1. \A u \in Tasks : unsent'[u] # << >> => task'[u] = "sending"
    BY <1>4, <1>7
  <2>2. unsent'["pump"] = << >> \/ unsent'["timer"] = << >>
    BY <1>4 DEF Tasks
  <2>3. hand' = NoFrame <=> task'["pump"] # "holding"
    BY <1>1, <1>2, <1>7 DEF Inv, Tasking, Tasks
  <2>4. task'["timer"] = "closing" => driver'.close # NoCode
    BY <1>1, <1>7 DEF Inv, Tasking, Tasks
  <2>5. QED  BY <1>1, <2>1, <2>2, <2>3, <2>4 DEF Inv, Tasking
<1>12. Closing' /\ EndingMatchesWire'
  BY <1>1 DEF Inv, Closing, EndingMatchesWire
<1>13. Deaf' /\ Told'
  BY <1>1, <1>5, <1>9 DEF Inv, Deaf, Told
<1>14. Numbers' /\ Inward'
  BY <1>1, <1>5, <1>8, <1>9 DEF Inv, Numbers, Inward
<1>15. Pictured' /\ Expected'
  BY <1>1, <1>5, <1>9 DEF Inv, Pictured, Expected
<1>16. Paired'
  <2>1. ASSUME Phase = "quoting"  PROVE Coupled(unsent'[t])
    BY <1>1, <1>3, <1>4, <2>1, CoupledPops DEF Inv, Paired
  <2>2. Coupled(<< >>)
    BY DEF Coupled
  <2>3. QED  BY <1>4, <1>9, <2>1, <2>2 DEF Paired
<1>17. QED  BY <1>10, <1>11, <1>12, <1>13, <1>14, <1>15, <1>16 DEF Inv

(* A send fails: the rest of the batch is lost.                            *)
LEMMA SendFailsKeeps ==
  ASSUME Inv, NEW t \in Tasks, SendFails(t)
  PROVE  Inv'
<1> DEFINE b == unsent[t]
<1>1. /\ UNCHANGED <<strat, driver, hand, conn, wire, main, attempt, ending, engine,
                     toEngine, toClient, mdSeq>>
      /\ Running /\ Running' /\ main' # "ended" /\ b # << >>
      /\ unsent' = [unsent EXCEPT ![t] = << >>]
      /\ task' = [task EXCEPT ![t] = IF conn = "up" THEN "OSError"
                                     ELSE IF t = "pump" THEN "done" ELSE "ConnectionClosed"]
  BY DEF SendFails, Running, peerVars
<1>2. /\ \A u \in Tasks : u # t => unsent[u] = << >>
      /\ task[t] = "sending" /\ (t = "pump" => hand = NoFrame)
      /\ b \in Seq(Frame) /\ toEngine \in Seq(Frame) /\ Flow = toEngine \o b
  BY <1>1, BatchIs
<1>3. unsent' \in [Tasks -> Seq(Frame)] /\ \A u \in Tasks : unsent'[u] = << >>
  BY <1>1, <1>2 DEF Inv, Typed
<1>4. Flow' = toEngine
  <2>1. FlowOf(toEngine, unsent') = toEngine \o unsent'[t]
    BY <1>2, <1>3, FlowIs
  <2>2. toEngine \o << >> = toEngine
    BY <1>2, ConcatEmptySeq
  <2>3. QED  BY <1>1, <1>3, <2>1, <2>2 DEF Flow
<1>5. Joins(toEngine, b, Flow) /\ Len(b) > 0
  BY <1>1, <1>2, JoinsDoes, EmptySeq
<1>6. /\ Len(toEngine) \in Nat /\ Len(Flow) \in Nat /\ Len(toEngine) <= Len(Flow)
      /\ \A i \in 1 .. Len(toEngine) : i \in 1 .. Len(Flow) /\ toEngine[i] = Flow[i]
      /\ Len(Flow) # 0
  BY <1>5 DEF Joins
<1>7. /\ task' \in [Tasks -> TaskState]
      /\ \A u \in Tasks : u # t => task'[u] = task[u]
      /\ task'[t] \in {"OSError", "done", "ConnectionClosed"}
      /\ conn = "up" => task'[t] = "OSError"
  BY <1>1 DEF Inv, Typed, TaskState
<1>8. "OSError" \in TaskEnds => "OSError" \in TaskEnds'
  BY <1>2, <1>7 DEF TaskEnds, Tasks
<1>9. /\ Inbox' = Inbox /\ Phase' = Phase /\ Heard' = Heard
      /\ LastSeq' = LastSeq /\ LastMd' = LastMd
  BY <1>1 DEF Inbox, Phase, Heard, LastSeq, LastMd
<1>10. Typed' /\ Slated' /\ Idle'
  BY <1>1, <1>3, <1>7 DEF Inv, Typed, Slated, Idle
<1>11. Tasking'
  <2>1. hand' = NoFrame <=> task'["pump"] # "holding"
    BY <1>1, <1>2, <1>7 DEF Inv, Tasking, Tasks
  <2>2. task'["timer"] = "closing" => driver'.close # NoCode
    BY <1>1, <1>7 DEF Inv, Tasking, Tasks
  <2>3. QED  BY <1>1, <1>3, <2>1, <2>2 DEF Inv, Tasking, Tasks
<1>12. Closing' /\ EndingMatchesWire'
  BY <1>1 DEF Inv, Closing, EndingMatchesWire
<1>13. Heard
  <2>1. Len(<< >>) = 0
    OBVIOUS
  <2>2. QED  BY <1>1, <1>6, <2>1 DEF Inv, Deaf
<1>14. Deaf' /\ Told'
  BY <1>1, <1>9, <1>13 DEF Inv, Deaf, Told
<1>15. Numbers'
  <2>1. Ours(Flow', attempt')
    BY <1>1, <1>4, <1>6 DEF Inv, Numbers, Ours
  <2>2. conn' = "up" => "OSError" \in TaskEnds'
    BY <1>1, <1>7 DEF TaskEnds
  <2>3. QED  BY <1>1, <1>8, <2>1, <2>2 DEF Inv, Numbers
<1>16. Inward'
  BY <1>1, <1>9 DEF Inv, Inward
<1>17. engine.orders \in Book
  BY DEF Inv, Typed, Engine
<1>18. Picture(Flow, engine.orders, strat, Phase, conn)
  BY <1>1 DEF Inv, Pictured
<1>19. Phase = "quoting" =>
         \A i \in 1 .. Len(Flow) : Pulls(Flow, i) /\ i > Len(toEngine) =>
           /\ i + 1 \in 1 .. Len(Flow) /\ News(Flow, i + 1)
           /\ SideOf(Flow[i + 1].id) = SideOf(Flow[i].id)
  <2> SUFFICES ASSUME Phase = "quoting", NEW i \in 1 .. Len(Flow), Pulls(Flow, i),
                      i > Len(toEngine)
               PROVE  /\ i + 1 \in 1 .. Len(Flow) /\ News(Flow, i + 1)
                      /\ SideOf(Flow[i + 1].id) = SideOf(Flow[i].id)
    OBVIOUS
  <2>1. PICK k \in 1 .. Len(b) : i = Len(toEngine) + k
    BY <1>5, <1>6, SMTT(60) DEF Joins
  <2>2. Flow[i] = b[k] /\ Pulls(b, k)
    BY <1>5, <2>1 DEF Joins, Pulls
  <2>3. Coupled(b)
    BY <1>1 DEF Inv, Paired
  <2>4. k + 1 \in 1 .. Len(b) /\ News(b, k + 1) /\ SideOf(b[k + 1].id) = SideOf(b[k].id)
    BY <2>2, <2>3 DEF Coupled
  <2>5. Len(toEngine) + (k + 1) = i + 1
    BY <1>6, <2>1
  <2>6. i + 1 \in 1 .. Len(Flow) /\ Flow[i + 1] = b[k + 1]
    BY <1>5, <2>4, <2>5 DEF Joins
  <2>7. QED  BY <2>2, <2>4, <2>6 DEF News
<1>20. /\ Picture(toEngine, engine.orders, strat, Phase, conn)
       /\ StillDue(Flow, engine.orders, strat, Phase, toEngine, engine.orders, strat, Phase)
  BY <1>6, <1>17, <1>18, <1>19, PictureCut
<1>21. Pictured' /\ Expected'
  <2>1. Awaited(Inbox, engine.reports, Flow, engine.orders, strat, Phase)
    BY <1>1 DEF Inv, Expected
  <2>2. Awaited(Inbox, engine.reports, toEngine, engine.orders, strat, Phase)
    BY <1>20, <2>1, AwaitedMoves
  <2>3. QED  BY <1>1, <1>4, <1>9, <1>20, <2>2 DEF Pictured, Expected
<1>22. Paired'
  <2>1. Coupled(<< >>)
    BY DEF Coupled
  <2>2. QED  BY <1>3, <2>1 DEF Paired
<1>23. QED
  BY <1>10, <1>11, <1>12, <1>14, <1>15, <1>16, <1>21, <1>22 DEF Inv

------------------------------------------------------------------------------
(* A task runs the driver.                                                 *)

(* The batch goes behind what is on its way, and the task to its sends or  *)
(* on; an intent once latched stays.                                       *)
LEMMA DrivesDoes ==
  ASSUME Inv, Running, NEW t \in Tasks, NEW x, Drives(t, x),
         x.st \in Slate, x.driver \in Driver, x.frames \in Seq(Frame),
         task[t] # "OSError", hand' \in Msg \cup {NoFrame},
         t = "pump" => hand' = NoFrame, t = "timer" => hand' = hand,
         driver.close # NoCode => x.driver.close = driver.close
  PROVE  /\ UNCHANGED <<conn, wire, main, attempt, ending, engine, toEngine, toClient, mdSeq>>
         /\ strat' = x.st /\ driver' = x.driver /\ Running' /\ main' # "ended"
         /\ unsent'[t] = x.frames /\ \A u \in Tasks : u # t => unsent'[u] = << >>
         /\ Joins(Flow, x.frames, Flow') /\ Flow' = Flow \o x.frames
         /\ ("OSError" \in TaskEnds) = ("OSError" \in TaskEnds')
         /\ Typed' /\ Tasking' /\ Idle' /\ Closing' /\ EndingMatchesWire'
<1>1. /\ UNCHANGED <<conn, wire, main, attempt, ending, engine, toEngine, toClient, mdSeq>>
      /\ strat' = x.st /\ driver' = x.driver /\ Running' /\ main' # "ended"
      /\ \A u \in Tasks : unsent[u] = << >>
      /\ unsent' = [unsent EXCEPT ![t] = x.frames]
      /\ task' = [task EXCEPT ![t] = IF x.frames = << >> THEN BatchOut(t, x.driver)
                                     ELSE "sending"]
  BY DEF Drives, LockFree, Running, peerVars
<1>2. /\ unsent' \in [Tasks -> Seq(Frame)] /\ unsent'[t] = x.frames
      /\ \A u \in Tasks : u # t => unsent'[u] = << >>
      /\ toEngine \in Seq(Frame) /\ unsent \in [Tasks -> Seq(Frame)]
  BY <1>1 DEF Inv, Typed
<1>3. /\ task' \in [Tasks -> TaskState]
      /\ \A u \in Tasks : u # t => task'[u] = task[u]
      /\ task'[t] \in {"done", "reading", "closing", "sleeping", "sending"}
      /\ task'[t] = "closing" => t = "timer" /\ x.driver.close # NoCode
      /\ unsent'[t] # << >> => task'[t] = "sending"
  BY <1>1, <1>2, BatchOutIs DEF Inv, Typed, TaskState
<1>4. Flow = toEngine
  <2>1. \A u \in Tasks : u # t => unsent[u] = << >>
    BY <1>1
  <2>2. FlowOf(toEngine, unsent) = toEngine \o unsent[t]
    BY <1>2, <2>1, FlowIs
  <2>3. toEngine \o << >> = toEngine
    BY <1>2, ConcatEmptySeq
  <2>4. QED  BY <1>1, <2>2, <2>3 DEF Flow
<1>5. Flow' = Flow \o x.frames
  <2>1. FlowOf(toEngine, unsent') = toEngine \o unsent'[t]
    BY <1>2, FlowIs
  <2>2. QED  BY <1>1, <1>2, <1>4, <2>1 DEF Flow
<1>6. Joins(Flow, x.frames, Flow')
  BY <1>2, <1>4, <1>5, JoinsDoes
<1>7. ("OSError" \in TaskEnds) = ("OSError" \in TaskEnds')
  BY <1>3 DEF TaskEnds, Tasks
<1>8. Typed' /\ Idle'
  BY <1>1, <1>2, <1>3 DEF Inv, Typed, Idle
<1>9. Tasking'
  <2>1. \A u \in Tasks : unsent'[u] # << >> => task'[u] = "sending"
    BY <1>2, <1>3
  <2>2. unsent'["pump"] = << >> \/ unsent'["timer"] = << >>
    BY <1>2 DEF Tasks
  <2>3. hand' = NoFrame <=> task'["pump"] # "holding"
    BY <1>3 DEF Inv, Tasking, Tasks
  <2>4. task'["timer"] = "closing" => driver'.close # NoCode
    BY <1>1, <1>3 DEF Inv, Tasking, Tasks
  <2>5. attempt' # 0
    BY <1>1 DEF Inv, Tasking
  <2>6. QED  BY <2>1, <2>2, <2>3, <2>4, <2>5 DEF Tasking
<1>10. Closing' /\ EndingMatchesWire'
  BY <1>1 DEF Inv, Closing, EndingMatchesWire
<1>11. QED  BY <1>1, <1>2, <1>5, <1>6, <1>7, <1>8, <1>9, <1>10

(* The numbers of a batch follow on.                                       *)
LEMMA NumbersDriven ==
  ASSUME Inv, Running, Running', NEW d \in Driver, NEW r, NEW x, Stamped(d, r, x),
         d.outSeq = driver.outSeq, d.epoch = attempt,
         driver' = x.driver, Joins(Flow, x.frames, Flow'),
         ("OSError" \in TaskEnds) = ("OSError" \in TaskEnds'),
         UNCHANGED <<conn, attempt, engine>>,
         driver'.close = Protocol => strat'.symbol = "foreign" \/ driver'.outSeq > MaxSeq
  PROVE  Numbers'
<1>1. /\ \A i \in 1 .. Len(x.frames) : /\ x.frames[i].seq = Used(d.outSeq) + i
                                       /\ x.frames[i].epoch = attempt
      /\ Used(x.driver.outSeq) = Used(d.outSeq) + Len(x.frames)
  BY DEF Stamped
<1>2. Used(d.outSeq) \in Nat /\ engine.inSeq \in Nat
  BY ClientAssumption DEF Used, Driver, Inv, Typed, Engine
<1>3. Ours(Flow', attempt)
  BY <1>1 DEF Inv, Numbers, Ours, Joins
<1>4. ASSUME conn = "up", "OSError" \notin TaskEnds
      PROVE  Counted(Flow', engine.inSeq, Used(driver'.outSeq))
  <2>1. Counted(Flow, engine.inSeq, Used(d.outSeq))
    BY <1>4 DEF Inv, Numbers
  <2>2. Counted(Flow', engine.inSeq, Used(d.outSeq) + Len(x.frames))
    BY <1>1, <1>2, <2>1, CountedJoins
  <2>3. QED  BY <1>1, <2>2
<1>5. QED  BY <1>3, <1>4 DEF Inv, Numbers

(* The timer finds the feed stale.                                         *)
LEMMA TimerTickKeeps ==
  ASSUME Inv, TimerTick
  PROVE  Inv'
<1> DEFINE r == OnTimer(strat, TRUE)
           x == Dispatch(driver, r)
<1>1. /\ Running /\ task["timer"] = "sleeping" /\ strat.seenTob /\ ~strat.swept
      /\ Drives("timer", x) /\ hand' = hand
  BY DEF TimerTick
<1>2. strat \in Slate /\ driver \in Driver /\ Sound(strat) /\ strat.mdSeq <= mdSeq
  BY DEF Inv, Typed, Slated
<1>3. Swept(strat, r)
  BY <1>1, <1>2, OnTimerDoes
<1> HIDE DEF r
<1>4. Stamped(driver, r, x)
  <2>1. r.cmds \in Seq(Command) /\ r.stop \in {"none", "stale", "protocol"}
    BY <1>3 DEF Swept
  <2>2. QED  BY <1>2, <2>1, DispatchDoes
<1> HIDE DEF x
<1>5. /\ x.st = r.st /\ x.st \in Slate /\ x.driver \in Driver /\ x.frames \in Seq(Frame)
      /\ x.driver.epoch = driver.epoch
      /\ driver.close # NoCode => x.driver.close = driver.close
  BY <1>3, <1>4 DEF Stamped, Swept
<1>6. "timer" \in Tasks /\ hand \in Msg \cup {NoFrame}
  BY DEF Tasks, Inv, Typed
<1>7. /\ UNCHANGED <<conn, wire, main, attempt, ending, engine, toEngine, toClient, mdSeq>>
      /\ strat' = x.st /\ driver' = x.driver /\ Running' /\ main' # "ended"
      /\ Joins(Flow, x.frames, Flow')
      /\ ("OSError" \in TaskEnds) = ("OSError" \in TaskEnds')
      /\ Typed' /\ Tasking' /\ Idle' /\ Closing' /\ EndingMatchesWire'
  BY <1>1, <1>5, <1>6, DrivesDoes
<1>8. Heard /\ driver.epoch = attempt /\ strat.epoch = attempt
       /\ (driver.close = NoCode => strat.stopped = FALSE)
  BY <1>1 DEF Inv, Deaf, Told
<1>9. driver'.close # NoCode /\ Heard' /\ Phase' = "over"
  <2>1. driver.close = NoCode => r.stop = "stale"
    BY <1>3, <1>8 DEF Swept
  <2>2. x.driver.close # NoCode
    BY <1>4, <2>1 DEF Stamped, NoCode, Stale, Protocol
  <2>3. QED  BY <1>5, <1>7, <1>8, <2>2 DEF Heard, Phase
<1>10. Slated'
  BY <1>2, <1>3, <1>5, <1>7 DEF Swept, Slated
<1>11. Deaf' /\ Told' /\ Inward' /\ Paired'
  BY <1>3, <1>5, <1>7, <1>8, <1>9 DEF Deaf, Told, Inward, Paired, Swept
<1>12. Numbers'
  <2>1. r.stop # "protocol" /\ r.st.symbol = strat.symbol
    BY <1>3 DEF Swept
  <2>2. driver.outSeq \in Nat /\ x.driver.outSeq \in Nat /\ driver.outSeq <= x.driver.outSeq
    BY <1>2, <1>4, <1>5 DEF Stamped, Driver
  <2>3. driver.close = Protocol => strat.symbol = "foreign" \/ driver.outSeq > MaxSeq
    BY <1>1 DEF Inv, Numbers
  <2>4. MaxSeq \in Nat
    BY ClientAssumption
  <2>5. driver'.close = Protocol => strat'.symbol = "foreign" \/ driver'.outSeq > MaxSeq
    BY <1>4, <1>5, <1>7, <2>1, <2>2, <2>3, <2>4 DEF Stamped, NoCode, Stale, Protocol
  <2>6. QED  BY <1>1, <1>2, <1>4, <1>7, <1>8, <2>5, NumbersDriven
<1>13. /\ Picture(Flow', engine.orders, strat', "over", conn)
       /\ StillDue(Flow, engine.orders, strat, Phase, Flow', engine.orders, strat', "over")
  <2>1. Picture(Flow, engine.orders, strat, Phase, conn)
    BY <1>1 DEF Inv, Pictured
  <2>2. /\ Picture(Flow, engine.orders, strat, "over", conn)
        /\ StillDue(Flow, engine.orders, strat, Phase, Flow, engine.orders, strat, "over")
    BY <2>1, PictureWeaker
  <2>3. engine.orders \in Book /\ Flow \in Seq(Frame) /\ strat.mdSeq <= MaxBooks
    BY <1>2, ClientAssumption, QueuesTyped DEF Inv, Typed, Engine, Slate
  <2>4. \A k \in 1 .. Len(x.frames) :
          x.frames[k].type = "CancelOrder" /\ x.frames[k].id \in KnownIds(strat)
    <3>1. Len(x.frames) \in Nat /\ Len(r.cmds) \in Nat /\ Len(x.frames) <= Len(r.cmds)
      BY <1>3, <1>4 DEF Stamped, Swept
    <3>2. \A k \in 1 .. Len(x.frames) : k \in 1 .. Len(r.cmds)
      BY <3>1
    <3>3. QED  BY <1>3, <1>4, <3>2 DEF Stamped, Swept
  <2>5. /\ strat'.nextCl = strat.nextCl /\ strat'.current = strat.current
        /\ KnownIds(strat') = KnownIds(strat)
    BY <1>3, <1>5, <1>7 DEF Swept
  <2>6. /\ Picture(Flow', engine.orders, strat', "over", conn)
        /\ StillDue(Flow, engine.orders, strat, "over", Flow', engine.orders, strat', "over")
    BY <1>2, <1>5, <1>7, <2>2, <2>3, <2>4, <2>5, PictureSwept
  <2>7. QED  BY <2>2, <2>6 DEF StillDue
<1>14. Inbox' = Inbox
  BY <1>1, <1>7 DEF Inbox
<1>15. Pictured' /\ Expected'
  <2>1. Awaited(Inbox, engine.reports, Flow, engine.orders, strat, Phase)
    BY <1>1 DEF Inv, Expected
  <2>2. Awaited(Inbox, engine.reports, Flow', engine.orders, strat', "over")
    BY <1>13, <2>1, AwaitedMoves
  <2>3. QED  BY <1>7, <1>9, <1>13, <1>14, <2>2 DEF Pictured, Expected
<1>16. QED  BY <1>7, <1>10, <1>11, <1>12, <1>15 DEF Inv

(* What the pump holds is the first of what is on its way.                 *)
LEMMA HandIsFirst ==
  ASSUME Inv, PumpHandles, toClient' = toClient
  PROVE  /\ Running /\ hand \in Msg /\ hand' = NoFrame /\ task["pump"] = "holding"
         /\ Inbox \in Seq(Msg) /\ Pops(Inbox, Inbox') /\ 1 \in 1 .. Len(Inbox)
         /\ Inbox[1] = hand
<1>1. Running /\ task["pump"] = "holding" /\ hand' = NoFrame
  BY DEF PumpHandles
<1>2. hand # NoFrame /\ hand \in Msg /\ toClient \in Seq(Msg)
  BY <1>1 DEF Inv, Typed, Tasking
<1>3. /\ <<hand>> \in Seq(Msg) /\ <<hand>> # << >> /\ Tail(<<hand>>) = << >>
      /\ Head(<<hand>>) = hand
  BY <1>2
<1>4. /\ Tail(<<hand>>) \o toClient = Tail(<<hand>> \o toClient)
      /\ <<hand>> \o toClient # << >> /\ Head(<<hand>> \o toClient) = hand
  BY <1>2, <1>3, TailOfTwo
<1>5. << >> \o toClient = toClient
  BY <1>2, ConcatEmptySeq
<1>6. Inbox = <<hand>> \o toClient /\ Inbox' = toClient
  BY <1>1, <1>2 DEF Inbox
<1>7. Inbox \in Seq(Msg) /\ Inbox # << >> /\ Tail(Inbox) = Inbox' /\ Head(Inbox) = hand
  BY <1>3, <1>4, <1>5, <1>6, QueuesTyped DEF Inv
<1>8. Pops(Inbox, Tail(Inbox)) /\ Head(Inbox) = Inbox[1]
  BY <1>7, PopsDoes
<1>9. 1 \in 1 .. Len(Inbox)
  BY <1>7, EmptySeq
<1>10. QED  BY <1>1, <1>2, <1>7, <1>8, <1>9

(* A message is read and dropped: the client is closing.                   *)
LEMMA PumpDropsKeeps ==
  ASSUME Inv, PumpHandles, driver.close # NoCode
  PROVE  Inv'
<1>1. PICK x : x = OnBytes(driver, strat, hand) /\ Drives("pump", x)
  BY DEF PumpHandles
<1>2. x.st = strat /\ x.driver = driver /\ x.frames = << >>
  BY <1>1 DEF OnBytes
<1>3. toClient' = toClient /\ "pump" \in Tasks
  BY <1>1 DEF Drives, peerVars, Tasks
<1>4. /\ Running /\ hand \in Msg /\ hand' = NoFrame /\ task["pump"] = "holding"
      /\ Pops(Inbox, Inbox') /\ Inbox[1] = hand
  BY <1>3, HandIsFirst
<1>5. /\ x.st \in Slate /\ x.driver \in Driver /\ x.frames \in Seq(Frame)
      /\ Flow \in Seq(Frame)
  BY <1>2, QueuesTyped DEF Inv, Typed
<1>6. /\ UNCHANGED <<conn, wire, main, attempt, ending, engine, toEngine, toClient, mdSeq>>
      /\ strat' = x.st /\ driver' = x.driver /\ Running' /\ main' # "ended"
      /\ Flow' = Flow \o x.frames
      /\ ("OSError" \in TaskEnds) = ("OSError" \in TaskEnds')
      /\ Typed' /\ Tasking' /\ Idle' /\ Closing' /\ EndingMatchesWire'
  BY <1>1, <1>2, <1>3, <1>4, <1>5, DrivesDoes
<1>7. Flow' = Flow
  BY <1>2, <1>5, <1>6, ConcatEmptySeq
<1>8. Phase' = "over" /\ Phase = "over" /\ Heard' = Heard /\ Heard
  BY <1>2, <1>4, <1>6 DEF Phase, Heard, Inv, Deaf, NewDriver
<1>9. Slated' /\ Deaf' /\ Told' /\ Inward' /\ Paired'
  BY <1>2, <1>4, <1>6, <1>8 DEF Inv, Slated, Deaf, Told, Inward, Paired
<1>10. Numbers'
  BY <1>2, <1>4, <1>6, <1>7 DEF Inv, Numbers
<1>11. Pictured' /\ Expected'
  <2>1. Awaited(Inbox, engine.reports, Flow, engine.orders, strat, Phase)
    BY <1>4 DEF Inv, Expected
  <2>2. Awaited(Inbox', engine.reports, Flow, engine.orders, strat, Phase)
    BY <1>4, <2>1, AwaitedMoves
  <2>3. QED  BY <1>2, <1>4, <1>6, <1>7, <1>8, <2>2 DEF Inv, Pictured, Expected
<1>12. QED  BY <1>6, <1>9, <1>10, <1>11 DEF Inv

(* The slate a message meets: the client's own, or a clean one for the     *)
(* first message of a connection.                                          *)
Met == IF Heard THEN strat ELSE CleanSlate(attempt, strat.symbol)

Meets(st) ==
  /\ st \in Slate /\ Sound(st) /\ Fresh(st) /\ st.stopped = FALSE
  /\ st.epoch = attempt /\ st.symbol = strat.symbol
  /\ st.inSeq = LastSeq /\ st.mdSeq = LastMd
  /\ Picture(Flow, engine.orders, st, "quoting", conn)
  /\ Awaited(Inbox, engine.reports, Flow, engine.orders, st, "quoting")

(* It is sound, and the picture holds of it.                               *)
LEMMA MetIs ==
  ASSUME Inv, Running, driver.close = NoCode
  PROVE  Meets(Met)
<1>1. strat \in Slate /\ Sound(strat) /\ attempt \in Nat /\ strat.symbol \in {"traded", "foreign"}
  BY DEF Inv, Typed, Slated, Slate
<1>2. CASE Heard
  <2>1. Met = strat /\ Phase = "quoting" /\ LastSeq = strat.inSeq /\ LastMd = strat.mdSeq
    BY <1>2 DEF Met, Phase, LastSeq, LastMd
  <2>2. strat.epoch = attempt /\ strat.stopped = FALSE
    BY <1>2 DEF Inv, Told
  <2>3. Fresh(strat)
    BY <2>2 DEF Inv, Slated
  <2>4. /\ Picture(Flow, engine.orders, strat, "quoting", conn)
        /\ Awaited(Inbox, engine.reports, Flow, engine.orders, strat, "quoting")
    BY <2>1 DEF Inv, Pictured, Expected
  <2>5. QED  BY <1>1, <2>1, <2>2, <2>3, <2>4 DEF Meets
<1>3. CASE ~Heard
  <2>1. Met = CleanSlate(attempt, strat.symbol) /\ LastSeq = 0 /\ LastMd = 0
    BY <1>3 DEF Met, LastSeq, LastMd
  <2>2. Blank(Met, attempt, strat.symbol)
    BY <1>1, <2>1, CleanSlateIs
  <2>3. /\ Flow = << >> /\ engine.orders = Orders!AllFree /\ engine.reports = << >>
        /\ \A i \in 1 .. Len(Inbox) : Inbox[i].type = "Tob"
    BY <1>3 DEF Inv, Deaf
  <2>4. AckedIds(Met) = {}
    BY <2>2 DEF Blank
  <2>5. Picture(<< >>, Orders!AllFree, Met, "quoting", conn)
    BY <2>4, PictureStarts
  <2>6. Len(<< >>) = 0
    OBVIOUS
  <2>7. Awaited(Inbox, << >>, << >>, Orders!AllFree, Met, "quoting")
    BY <2>3, <2>6 DEF Awaited
  <2>8. QED  BY <2>1, <2>2, <2>3, <2>5, <2>7 DEF Meets, Blank
<1>4. QED  BY <1>2, <1>3

(* A batch of the client's own: every cancel goes with its successor.      *)
LEMMA FramesCoupled ==
  ASSUME NEW st, NEW t, NEW cmds, NEW acked, Speaks(st, t, cmds, acked), NEW f,
         Framed(cmds, f), Len(f) = Len(cmds)
  PROVE  Coupled(f)
<1>1. Len(f) \in Nat /\ \A i \in 1 .. Len(f) : f[i].type = cmds[i].type /\ f[i].id = cmds[i].id
  BY DEF Framed
<1> SUFFICES ASSUME NEW i \in 1 .. Len(f), Pulls(f, i)
             PROVE  /\ i + 1 \in 1 .. Len(f) /\ News(f, i + 1)
                    /\ SideOf(f[i + 1].id) = SideOf(f[i].id)
  BY DEF Coupled
<1>2. cmds[i].type = "CancelOrder"
  BY <1>1 DEF Pulls
<1>3. CancelSaid(st, cmds, acked, i)
  BY <1>2 DEF Speaks
<1>4. i < Len(f) /\ cmds[i + 1].type = "NewOrder" /\ SideOf(cmds[i + 1].id) = SideOf(cmds[i].id)
  BY <1>3 DEF CancelSaid
<1>5. i + 1 \in 1 .. Len(f)
  BY <1>1, <1>4
<1>6. QED  BY <1>1, <1>4, <1>5 DEF News

(* What the client makes of a message keeps the picture: an answer, or an  *)
(* order forgotten.                                                        *)
LEMMA PictureHandled ==
  ASSUME Inv, NEW st \in Slate, Sound(st), NEW m, NEW r, Handled(st, m, r),
         r.st.mdSeq <= MaxBooks,
         NEW d, NEW x, Stamped(d, r, x), d.close = NoCode,
         NEW q, q = "quoting" => x.driver.close = NoCode,
         NEW v, Joins(Flow, x.frames, v), v = Flow \o x.frames,
         Picture(Flow, engine.orders, st, "quoting", conn),
         m.type # "Tob" => Due(m, Flow, engine.orders, st, "quoting")
  PROVE  /\ Picture(v, engine.orders, r.st, q, conn)
         /\ StillDue(Flow, engine.orders, st, "quoting", v, engine.orders, r.st, q)
         /\ q = "quoting" => Coupled(x.frames)
<1>1. engine.orders \in Book /\ Flow \in Seq(Frame)
  BY QueuesTyped DEF Inv, Typed, Engine
<1>2. r.st \in Slate /\ Sound(r.st)
  BY DEF Handled
<1>3. q = "quoting" => Len(x.frames) = Len(r.cmds)
  BY DEF Stamped, NoCode, Stale, Protocol
<1>4. CASE Speaks(st, r.st, r.cmds, AckedBy(st, m))
  <2>1. Framed(r.cmds, x.frames)
    BY <1>4 DEF Framed, Stamped, Speaks
  <2>2. \A id \in AckedBy(st, m) : id \in OrderIds => engine.orders[id] # "Free"
    <3>1. \A id \in AckedIds(st) : id \in OrderIds => engine.orders[id] # "Free"
      BY DEF Picture, Seen
    <3>2. m.type = "OrderAck" => engine.orders[m.id] # "Free"
      BY DEF Due
    <3>3. QED  BY <3>1, <3>2 DEF AckedBy
  <2>3. /\ Picture(v, engine.orders, r.st, q, conn)
        /\ StillDue(Flow, engine.orders, st, "quoting", v, engine.orders, r.st, q)
    BY <1>1, <1>2, <1>3, <1>4, <2>1, <2>2, PictureSaid
  <2>4. q = "quoting" => Coupled(x.frames)
    BY <1>3, <1>4, <2>1, FramesCoupled
  <2>5. QED  BY <2>3, <2>4
<1>5. CASE m.type # "Tob" /\ Ends(m) /\ r.cmds = << >> /\ Drops(st, m.id, r.st)
  <2>1. x.frames = << >>
    <3>1. x.frames \in Seq(Frame) /\ Len(x.frames) <= 0
      BY <1>5 DEF Stamped
    <3>2. QED  BY <3>1, EmptySeq
  <2>2. v = Flow
    BY <1>1, <2>1, ConcatEmptySeq
  <2>3. /\ Picture(Flow, engine.orders, r.st, "quoting", conn)
        /\ StillDue(Flow, engine.orders, st, "quoting", Flow, engine.orders, r.st, "quoting")
    BY <1>1, <1>5, PictureDrops
  <2>4. /\ Picture(Flow, engine.orders, r.st, q, conn)
        /\ StillDue(Flow, engine.orders, r.st, "quoting", Flow, engine.orders, r.st, q)
    BY <2>3, PictureWeaker
  <2>5. Coupled(x.frames)
    BY <2>1 DEF Coupled
  <2>6. QED  BY <2>2, <2>3, <2>4, <2>5 DEF StillDue
<1>6. QED  BY <1>4, <1>5 DEF Handled

(* A message is handled.                                                   *)
LEMMA PumpReadsKeeps ==
  ASSUME Inv, PumpHandles, driver.close = NoCode
  PROVE  Inv'
<1> DEFINE d == [driver EXCEPT !.epoch = attempt]
           r == OnReport(Met, hand)
<1>1. PICK x : x = OnBytes(driver, strat, hand) /\ Drives("pump", x)
  BY DEF PumpHandles
<1>2. toClient' = toClient /\ "pump" \in Tasks
  BY <1>1 DEF Drives, peerVars, Tasks
<1>3. /\ Running /\ hand \in Msg /\ hand' = NoFrame /\ task["pump"] = "holding"
      /\ Pops(Inbox, Inbox') /\ 1 \in 1 .. Len(Inbox) /\ Inbox[1] = hand
  BY <1>2, HandIsFirst
<1>4. Meets(Met)
  BY <1>3, MetIs
<1>5. LastSeq \in Nat /\ LastMd \in Nat /\ attempt \in Nat /\ attempt # 0
  BY <1>3, <1>4 DEF Meets, Slate, Inv, Typed, Tasking
<1>6. /\ hand.seq = LastSeq + 1 /\ hand.epoch = attempt
      /\ InOrder(Inbox', LastSeq + 1, attempt, engine.outSeq)
  <2>1. InOrder(Inbox, LastSeq, attempt, engine.outSeq)
    BY <1>3 DEF Inv, Inward
  <2>2. QED  BY <1>3, <1>5, <2>1, InwardMoves
<1>7. /\ Younger(Inbox', LastMd, engine.tob, mdSeq)
      /\ hand.type = "Tob" => LastMd < hand.md /\ Younger(Inbox', hand.md, engine.tob, mdSeq)
  <2>1. Younger(Inbox, LastMd, engine.tob, mdSeq)
    BY <1>3 DEF Inv, Inward
  <2>2. QED  BY <1>3, <2>1, YoungerPops
<1>8. /\ d \in Driver /\ d.close = NoCode /\ d.epoch = attempt /\ d.outSeq = driver.outSeq
      /\ Heard => d = driver
  <2>1. driver \in Driver /\ attempt \in Nat
    BY DEF Inv, Typed
  <2>2. d \in Driver /\ d.close = NoCode /\ d.epoch = attempt /\ d.outSeq = driver.outSeq
    BY <2>1 DEF Driver
  <2>3. Heard => driver.epoch = attempt
    BY <1>3 DEF Inv, Told
  <2>4. QED  BY <2>1, <2>2, <2>3 DEF Driver
<1>9. x = Dispatch(d, r)
  <2>1. CASE Heard
    BY <1>1, <1>8, <2>1 DEF Heard, OnBytes, Met
  <2>2. CASE ~Heard
    BY <1>1, <1>6, <2>2 DEF Heard, OnBytes, Met, OnConnect
  <2>3. QED  BY <2>1, <2>2
<1>10. Handled(Met, hand, r)
  BY <1>3, <1>4, <1>6, <1>7, OnReportDoes DEF Meets
<1> HIDE DEF d, r
<1>11. Stamped(d, r, x)
  <2>1. r.cmds \in Seq(Command)
    <3>1. << >> \in Seq(Command)
      OBVIOUS
    <3>2. QED  BY <1>10, <3>1 DEF Handled, Speaks
  <2>2. r.stop \in {"none", "stale", "protocol"}
    BY <1>10 DEF Handled
  <2>3. QED  BY <1>8, <1>9, <2>1, <2>2, DispatchDoes
<1>12. /\ x.st = r.st /\ x.st \in Slate /\ x.driver \in Driver /\ x.frames \in Seq(Frame)
       /\ x.driver.epoch = attempt
  BY <1>8, <1>10, <1>11 DEF Stamped, Handled
<1>13. /\ UNCHANGED <<conn, wire, main, attempt, ending, engine, toEngine, toClient, mdSeq>>
       /\ strat' = x.st /\ driver' = x.driver /\ Running' /\ main' # "ended"
       /\ unsent'["pump"] = x.frames /\ \A u \in Tasks : u # "pump" => unsent'[u] = << >>
       /\ Joins(Flow, x.frames, Flow') /\ Flow' = Flow \o x.frames
       /\ ("OSError" \in TaskEnds) = ("OSError" \in TaskEnds')
       /\ Typed' /\ Tasking' /\ Idle' /\ Closing' /\ EndingMatchesWire'
  BY <1>1, <1>2, <1>3, <1>12, DrivesDoes
<1>14. /\ Heard' /\ driver'.epoch = attempt
       /\ Phase' = IF driver'.close = NoCode THEN "quoting" ELSE "over"
  BY <1>5, <1>12, <1>13 DEF Heard, Phase
<1>15. strat'.mdSeq = LastMd \/ (hand.type = "Tob" /\ strat'.mdSeq = hand.md)
  BY <1>4, <1>10, <1>12, <1>13 DEF Handled, Meets
<1>16. Younger(Inbox', strat'.mdSeq, engine.tob, mdSeq)
  BY <1>7, <1>15
<1>17. Slated'
  <2>1. strat'.mdSeq <= mdSeq
    BY <1>16 DEF Younger
  <2>2. QED  BY <1>10, <1>12, <1>13, <2>1 DEF Handled, Slated
<1>18. /\ strat'.epoch = attempt /\ strat'.symbol = strat.symbol
       /\ strat'.inSeq = LastSeq + 1
  BY <1>4, <1>6, <1>10, <1>12, <1>13 DEF Handled, Meets
<1>19. driver'.close = NoCode => r.stop = "none"
  BY <1>8, <1>11, <1>13 DEF Stamped, NoCode, Stale, Protocol
<1>20. Deaf' /\ Told'
  <2>1. r.stop = "none" => strat'.stopped = FALSE
    BY <1>10, <1>12, <1>13 DEF Handled
  <2>2. QED  BY <1>13, <1>14, <1>18, <1>19, <2>1 DEF Deaf, Told
<1>21. Inward'
  <2>1. LastSeq' = LastSeq + 1 /\ LastMd' = strat'.mdSeq
    BY <1>14, <1>18 DEF LastSeq, LastMd
  <2>2. QED  BY <1>6, <1>13, <1>16, <2>1 DEF Inward
<1>22. Numbers'
  <2>1. r.stop = "protocol" => strat.symbol = "foreign"
    BY <1>4, <1>10 DEF Handled, Meets
  <2>2. driver'.close = Protocol => strat'.symbol = "foreign" \/ driver'.outSeq > MaxSeq
    BY <1>8, <1>11, <1>13, <1>18, <2>1 DEF Stamped, NoCode, Stale, Protocol
  <2>3. QED  BY <1>3, <1>8, <1>11, <1>13, <2>2, NumbersDriven
<1>23. /\ Picture(Flow', engine.orders, strat', Phase', conn)
       /\ StillDue(Flow, engine.orders, Met, "quoting", Flow', engine.orders, strat', Phase')
       /\ Phase' = "quoting" => Coupled(x.frames)
  <2>1. Met \in Slate /\ Sound(Met) /\ Picture(Flow, engine.orders, Met, "quoting", conn)
    BY <1>4 DEF Meets
  <2>2. strat'.mdSeq \in Nat /\ strat'.mdSeq <= mdSeq /\ mdSeq \in 0 .. MaxBooks
    BY <1>13, <1>17 DEF Slated, Inv, Typed, Slate
  <2>3. r.st.mdSeq <= MaxBooks
    BY <1>12, <1>13, <2>2, ClientAssumption
  <2>4. hand.type # "Tob" => Due(hand, Flow, engine.orders, Met, "quoting")
    BY <1>3, <1>4 DEF Meets, Awaited
  <2>5. Phase' = "quoting" => x.driver.close = NoCode
    BY <1>13, <1>14
  <2>6. QED  BY <1>8, <1>10, <1>11, <1>12, <1>13, <2>1, <2>3, <2>4, <2>5, PictureHandled
<1>24. Pictured' /\ Expected'
  <2>1. Awaited(Inbox, engine.reports, Flow, engine.orders, Met, "quoting")
    BY <1>4 DEF Meets
  <2>2. Awaited(Inbox', engine.reports, Flow, engine.orders, Met, "quoting")
    BY <1>3, <2>1, AwaitedMoves
  <2>3. Awaited(Inbox', engine.reports, Flow', engine.orders, strat', Phase')
    BY <1>23, <2>2, AwaitedMoves
  <2>4. QED  BY <1>13, <1>23, <2>3 DEF Pictured, Expected
<1>25. Paired'
  <2>1. Coupled(<< >>)
    BY DEF Coupled
  <2>2. QED  BY <1>13, <1>23, <2>1 DEF Paired
<1>26. QED
  BY <1>13, <1>17, <1>20, <1>21, <1>22, <1>24, <1>25 DEF Inv

------------------------------------------------------------------------------
(* The steps of the engine.                                                *)

(* They leave the client alone.                                            *)
LEMMA ClientSide ==
  ASSUME Inv, Serving, UNCHANGED clientVars, conn' \in {conn, "peerClosed"},
         engine' \in Engine, toEngine' \in Seq(Frame), toClient' \in Seq(Msg),
         mdSeq' \in {mdSeq, mdSeq + 1}, mdSeq' <= MaxBooks
  PROVE  /\ UNCHANGED <<strat, driver, task, unsent, hand, main, attempt, TaskEnds>>
         /\ UNCHANGED <<Heard, Phase, LastSeq, LastMd>>
         /\ Running /\ Running' /\ conn = "up" /\ strat.mdSeq <= mdSeq
         /\ Typed' /\ Slated' /\ Tasking' /\ Idle' /\ Closing' /\ EndingMatchesWire' /\ Told'
<1>1. /\ UNCHANGED <<strat, driver, task, unsent, hand, wire, main, attempt, ending>>
      /\ Running /\ Running' /\ conn = "up" /\ main' # "ended"
  BY DEF clientVars, Serving, Running
<1>2. UNCHANGED <<Heard, Phase, LastSeq, LastMd, TaskEnds>>
  BY <1>1 DEF Heard, Phase, LastSeq, LastMd, TaskEnds
<1>3. mdSeq \in Nat /\ mdSeq' \in 0 .. MaxBooks /\ strat.mdSeq \in Nat /\ strat.mdSeq <= mdSeq
  BY ClientAssumption DEF Inv, Typed, Slated, Slate
<1>4. Typed' /\ Idle'
  BY <1>1, <1>3 DEF Inv, Typed, Idle
<1>5. Slated'
  BY <1>1, <1>3 DEF Inv, Slated
<1>6. Tasking' /\ Closing' /\ EndingMatchesWire'
  BY <1>1 DEF Inv, Tasking, Closing, EndingMatchesWire
<1>7. Told'
  BY <1>1, <1>2 DEF Inv, Told
<1>8. QED  BY <1>1, <1>2, <1>3, <1>4, <1>5, <1>6, <1>7

(* What the engine writes goes behind what is on its way.                  *)
LEMMA WritesDoes ==
  ASSUME Inv, NEW e \in Msg, toClient' = Append(toClient, e), hand' = hand
  PROVE  Grows(Inbox, e, Inbox') /\ toClient' \in Seq(Msg)
<1>1. toClient \in Seq(Msg) /\ Inbox \in Seq(Msg) /\ hand \in Msg \cup {NoFrame}
  BY QueuesTyped DEF Inv, Typed
<1>2. Inbox' = Append(Inbox, e)
  <2>1. CASE hand = NoFrame
    BY <2>1 DEF Inbox
  <2>2. CASE hand # NoFrame
    <3>1. <<hand>> \in Seq(Msg)
      BY <1>1, <2>2
    <3>2. <<hand>> \o Append(toClient, e) = Append(<<hand>> \o toClient, e)
      BY <1>1, <3>1, AppendToTwo
    <3>3. QED  BY <2>2, <3>2 DEF Inbox
  <2>3. QED  BY <2>1, <2>2
<1>3. QED  BY <1>1, <1>2, GrowsDoes

(* A report is the same before and after it gets its envelope.             *)
LEMMA DueSame ==
  ASSUME NEW m, NEW e, e.id = m.id, e.type = m.type, e.leaves = m.leaves,
         NEW w, NEW eo, NEW st, NEW q, Due(m, w, eo, st, q)
  PROVE  Due(e, w, eo, st, q)
BY DEF Due, Ends

(* The engine writes a report.                                             *)
LEMMA WritesReportKeeps ==
  ASSUME Inv, EngineWrites, engine.reports # << >>
  PROVE  Inv'
<1> DEFINE h == Head(engine.reports)
           e == Envelope(h)
           box == Tail(engine.reports)
<1>1. /\ Serving /\ UNCHANGED <<clientVars, conn, toEngine, mdSeq>>
      /\ toClient' = Append(toClient, e)
      /\ engine' = [engine EXCEPT !.reports = box, !.outSeq = @ + 1]
  BY DEF EngineWrites
<1>2. /\ engine.reports \in Seq(ReportMsg) /\ engine.outSeq \in Nat /\ attempt \in Nat
      /\ engine \in Engine /\ mdSeq <= MaxBooks /\ toEngine \in Seq(Frame)
  BY ClientAssumption DEF Inv, Typed, Engine
<1>3. /\ h = engine.reports[1] /\ h \in ReportMsg /\ box \in Seq(ReportMsg)
      /\ Pops(engine.reports, box)
  BY <1>2, PopsDoes
<1>4. 1 \in 1 .. Len(engine.reports)
  BY <1>3 DEF Pops
<1> HIDE DEF h, box
<1>5. /\ e \in ReportMsg /\ e.seq = engine.outSeq /\ e.epoch = attempt
      /\ e.id = h.id /\ e.type = h.type /\ e.leaves = h.leaves /\ e.type # "Tob"
  BY <1>2, <1>3 DEF Envelope, ReportMsg
<1> HIDE DEF e
<1>6. e \in Msg
  BY <1>5 DEF Msg
<1>7. hand' = hand
  BY <1>1 DEF clientVars
<1>8. Grows(Inbox, e, Inbox') /\ toClient' \in Seq(Msg)
  BY <1>1, <1>6, <1>7, WritesDoes
<1>9. /\ engine' \in Engine /\ engine'.orders = engine.orders /\ engine'.inSeq = engine.inSeq
      /\ engine'.broken = engine.broken /\ engine'.tob = engine.tob
      /\ engine'.outSeq = engine.outSeq + 1 /\ engine'.reports = box
  <2>1. engine.outSeq + 1 \in Nat
    BY <1>2
  <2>2. engine' \in Engine
    BY <1>1, <1>2, <1>3, <2>1, ZenonT(60) DEF Engine
  <2>3. QED  BY <1>1, <1>2, <2>2 DEF Engine
<1>10. /\ UNCHANGED <<strat, driver, task, unsent, hand, main, attempt, TaskEnds>>
       /\ UNCHANGED <<Heard, Phase, LastSeq, LastMd>>
       /\ Running /\ Running' /\ conn = "up"
       /\ Typed' /\ Slated' /\ Tasking' /\ Idle' /\ Closing' /\ EndingMatchesWire' /\ Told'
  BY <1>1, <1>2, <1>8, <1>9, ClientSide
<1>11. Flow' = Flow
  BY <1>1, <1>10 DEF Flow
<1>12. Numbers' /\ Paired'
  BY <1>1, <1>9, <1>10, <1>11 DEF Inv, Numbers, Paired
<1>13. Heard
  BY <1>10 DEF Inv, Deaf
<1>14. Deaf'
  BY <1>10, <1>13 DEF Deaf
<1>15. ASSUME driver.close = NoCode
       PROVE  /\ InOrder(Inbox', LastSeq, attempt, engine.outSeq + 1)
              /\ Younger(Inbox', LastMd, engine.tob, mdSeq)
  <2>1. /\ InOrder(Inbox, LastSeq, attempt, engine.outSeq)
        /\ Younger(Inbox, LastMd, engine.tob, mdSeq)
    BY <1>10, <1>15 DEF Inv, Inward
  <2>2. LastSeq \in Nat
    BY DEF LastSeq, Inv, Typed, Slate
  <2>3. InOrder(Inbox', LastSeq, attempt, engine.outSeq + 1)
    BY <1>5, <1>8, <2>1, <2>2, InwardMoves
  <2>4. Younger(Inbox', LastMd, engine.tob, mdSeq)
    BY <1>5, <1>8, <2>1, YoungerGrows
  <2>5. QED  BY <2>3, <2>4
<1>16. Inward'
  BY <1>1, <1>9, <1>10, <1>15 DEF Inward
<1>17. Pictured'
  BY <1>1, <1>9, <1>10, <1>11 DEF Inv, Pictured
<1>18. Expected'
  <2>1. Awaited(Inbox, engine.reports, Flow, engine.orders, strat, Phase)
    BY <1>10 DEF Inv, Expected
  <2>2. Due(h, Flow, engine.orders, strat, Phase)
    BY <1>3, <1>4, <2>1 DEF Awaited
  <2>3. Due(e, Flow, engine.orders, strat, Phase)
    BY <1>5, <2>2, DueSame
  <2>4. Awaited(Inbox', engine.reports, Flow, engine.orders, strat, Phase)
    BY <1>8, <2>1, <2>3, AwaitedMoves
  <2>5. Awaited(Inbox', box, Flow, engine.orders, strat, Phase)
    BY <1>3, <2>4, AwaitedMoves
  <2>6. QED  BY <1>9, <1>10, <1>11, <2>5 DEF Expected
<1>19. QED
  BY <1>10, <1>12, <1>14, <1>16, <1>17, <1>18 DEF Inv

(* The engine writes the tick.                                             *)
LEMMA WritesTickKeeps ==
  ASSUME Inv, EngineWrites, engine.reports = << >>
  PROVE  Inv'
<1> DEFINE h == engine.tob[1]
           e == Envelope(h)
<1>1. /\ Serving /\ UNCHANGED <<clientVars, conn, toEngine, mdSeq>>
      /\ toClient' = Append(toClient, e) /\ engine.tob # << >>
      /\ engine' = [engine EXCEPT !.tob = << >>, !.outSeq = @ + 1]
  BY DEF EngineWrites
<1>2. /\ engine.tob \in Seq(TickMsg) /\ engine.outSeq \in Nat /\ attempt \in Nat
      /\ engine \in Engine /\ mdSeq <= MaxBooks /\ toEngine \in Seq(Frame)
  BY ClientAssumption DEF Inv, Typed, Engine
<1>3. h \in TickMsg
  BY <1>1, <1>2, EmptySeq
<1>4. /\ e \in TickMsg /\ e.seq = engine.outSeq /\ e.epoch = attempt /\ e.type = "Tob"
      /\ e.md = engine.tob[1].md
  BY <1>2, <1>3 DEF Envelope, TickMsg
<1> HIDE DEF e, h
<1>5. e \in Msg
  BY <1>4 DEF Msg
<1>6. hand' = hand
  BY <1>1 DEF clientVars
<1>7. Grows(Inbox, e, Inbox') /\ toClient' \in Seq(Msg)
  BY <1>1, <1>5, <1>6, WritesDoes
<1>8. /\ engine' \in Engine /\ engine'.orders = engine.orders /\ engine'.inSeq = engine.inSeq
      /\ engine'.broken = engine.broken /\ engine'.tob = << >>
      /\ engine'.outSeq = engine.outSeq + 1 /\ engine'.reports = engine.reports
  <2>1. engine.outSeq + 1 \in Nat /\ << >> \in Seq(TickMsg)
    BY <1>2
  <2>2. engine' \in Engine
    BY <1>1, <1>2, <2>1, ZenonT(60) DEF Engine
  <2>3. QED  BY <1>1, <1>2, <2>2 DEF Engine
<1>9. /\ UNCHANGED <<strat, driver, task, unsent, hand, main, attempt, TaskEnds>>
      /\ UNCHANGED <<Heard, Phase, LastSeq, LastMd>>
      /\ Running /\ Running' /\ conn = "up"
      /\ Typed' /\ Slated' /\ Tasking' /\ Idle' /\ Closing' /\ EndingMatchesWire' /\ Told'
  BY <1>1, <1>2, <1>7, <1>8, ClientSide
<1>10. Flow' = Flow
  BY <1>1, <1>9 DEF Flow
<1>11. Numbers' /\ Paired'
  BY <1>1, <1>8, <1>9, <1>10 DEF Inv, Numbers, Paired
<1>12. Deaf'
  <2>1. ASSUME ~Heard  PROVE \A i \in 1 .. Len(Inbox') : Inbox'[i].type = "Tob"
    BY <1>4, <1>7, <1>9, <2>1 DEF Inv, Deaf, Grows
  <2>2. QED  BY <1>8, <1>9, <1>10, <2>1 DEF Inv, Deaf
<1>13. ASSUME driver.close = NoCode
       PROVE  /\ InOrder(Inbox', LastSeq, attempt, engine.outSeq + 1)
              /\ Younger(Inbox', LastMd, << >>, mdSeq)
  <2>1. /\ InOrder(Inbox, LastSeq, attempt, engine.outSeq)
        /\ Younger(Inbox, LastMd, engine.tob, mdSeq)
    BY <1>9, <1>13 DEF Inv, Inward
  <2>2. LastSeq \in Nat
    BY DEF LastSeq, Inv, Typed, Slate
  <2>3. InOrder(Inbox', LastSeq, attempt, engine.outSeq + 1)
    BY <1>4, <1>7, <2>1, <2>2, InwardMoves
  <2>4. Younger(Inbox', LastMd, << >>, mdSeq)
    BY <1>1, <1>4, <1>7, <2>1, YoungerGrows
  <2>5. QED  BY <2>3, <2>4
<1>14. Inward'
  BY <1>1, <1>8, <1>9, <1>13 DEF Inward
<1>15. Pictured'
  BY <1>1, <1>8, <1>9, <1>10 DEF Inv, Pictured
<1>16. Expected'
  <2>1. Awaited(Inbox, engine.reports, Flow, engine.orders, strat, Phase)
    BY <1>9 DEF Inv, Expected
  <2>2. Awaited(Inbox', engine.reports, Flow, engine.orders, strat, Phase)
    BY <1>4, <1>7, <2>1, AwaitedMoves
  <2>3. QED  BY <1>8, <1>9, <1>10, <2>2 DEF Expected
<1>17. QED
  BY <1>9, <1>11, <1>12, <1>14, <1>15, <1>16 DEF Inv

(* The engine takes the first of what is on its way.                       *)
LEMMA FlowTail ==
  ASSUME NEW sent \in Seq(Frame), sent # << >>, NEW batch \in [Tasks -> Seq(Frame)]
  PROVE  /\ Pops(FlowOf(sent, batch), FlowOf(Tail(sent), batch))
         /\ FlowOf(sent, batch)[1] = Head(sent)
<1> DEFINE a == batch["pump"]
           b == batch["timer"]
           w == sent \o a
<1>1. a \in Seq(Frame) /\ b \in Seq(Frame)
  BY DEF Tasks
<1>2. Tail(sent) \o a = Tail(w) /\ w # << >> /\ Head(w) = Head(sent)
  BY <1>1, TailOfTwo
<1>3. w \in Seq(Frame)
  BY <1>1, ConcatProperties
<1> HIDE DEF w
<1>4. Tail(w) \o b = Tail(w \o b) /\ w \o b # << >> /\ Head(w \o b) = Head(w)
  BY <1>1, <1>2, <1>3, TailOfTwo
<1>5. w \o b \in Seq(Frame)
  BY <1>1, <1>3, ConcatProperties
<1>6. Pops(w \o b, Tail(w \o b)) /\ Head(w \o b) = (w \o b)[1]
  BY <1>4, <1>5, PopsDoes
<1>7. FlowOf(sent, batch) = w \o b /\ FlowOf(Tail(sent), batch) = Tail(w \o b)
  BY <1>2, <1>4 DEF FlowOf, w
<1>8. QED  BY <1>2, <1>4, <1>6, <1>7

(* What is known when the engine takes a command c.                        *)
Taking(c) ==
  /\ Serving /\ UNCHANGED <<clientVars, toClient, mdSeq>>
  /\ toEngine' \in Seq(Frame) /\ Pops(Flow, Flow') /\ c = Flow[1]
  /\ c \in Frame /\ c.id \in OrderIds /\ Heard
  /\ c.epoch = attempt /\ ("OSError" \notin TaskEnds => c.seq = engine.inSeq)
  /\ Picture(Flow, engine.orders, strat, Phase, "up")
  /\ engine \in Engine /\ mdSeq <= MaxBooks /\ toClient \in Seq(Msg)

(* A command on its way is the client's own.                               *)
LEMMA TakingIs ==
  ASSUME Inv, EngineTakes
  PROVE  Taking(Head(toEngine))
<1> DEFINE c == Head(toEngine)
<1>1. /\ Serving /\ UNCHANGED <<clientVars, toClient, mdSeq>> /\ toEngine # << >>
      /\ toEngine' = Tail(toEngine)
  BY ZenonT(60) DEF EngineTakes
<1>2. Running /\ conn = "up" /\ unsent' = unsent
  BY <1>1 DEF Serving, clientVars
<1>3. /\ toEngine \in Seq(Frame) /\ unsent \in [Tasks -> Seq(Frame)] /\ engine \in Engine
      /\ mdSeq <= MaxBooks /\ toClient \in Seq(Msg) /\ Flow \in Seq(Frame)
  BY ClientAssumption, QueuesTyped DEF Inv, Typed
<1>4. c \in Frame /\ toEngine' \in Seq(Frame)
  BY <1>1, <1>3, PopsDoes
<1>5. Pops(Flow, Flow') /\ c = Flow[1]
  BY <1>1, <1>2, <1>3, FlowTail DEF Flow
<1>6. 1 \in 1 .. Len(Flow)
  BY <1>5 DEF Pops
<1>7. Heard
  <2>1. Len(<< >>) = 0
    OBVIOUS
  <2>2. QED  BY <1>2, <1>6, <2>1 DEF Inv, Deaf
<1>8. Picture(Flow, engine.orders, strat, Phase, "up")
  BY <1>2 DEF Inv, Pictured
<1>9. c.id \in OrderIds
  BY <1>5, <1>6, <1>8 DEF Picture, Mine
<1>10. c.epoch = attempt
  BY <1>2, <1>5, <1>6 DEF Inv, Numbers, Ours
<1>11. ASSUME "OSError" \notin TaskEnds  PROVE c.seq = engine.inSeq
  <2>1. Counted(Flow, engine.inSeq, Used(driver.outSeq))
    BY <1>2, <1>11 DEF Inv, Numbers
  <2>2. engine.inSeq \in Nat
    BY <1>3 DEF Engine
  <2>3. QED  BY <1>5, <2>1, <2>2, CountedPops
<1>12. QED
  BY <1>1, <1>3, <1>4, <1>5, <1>7, <1>8, <1>9, <1>10, <1>11 DEF Taking

(* A command out of order breaks the session.                              *)
LEMMA BreaksKeeps ==
  ASSUME Inv, NEW c, Taking(c), c.seq # engine.inSeq \/ c.epoch # attempt,
         engine' = [engine EXCEPT !.broken = TRUE], conn' = "peerClosed"
  PROVE  Inv'
<1>1. /\ Serving /\ UNCHANGED <<clientVars, toClient, mdSeq>>
      /\ toEngine' \in Seq(Frame) /\ Pops(Flow, Flow') /\ Heard
      /\ Picture(Flow, engine.orders, strat, Phase, "up") /\ "OSError" \in TaskEnds
      /\ engine \in Engine /\ mdSeq <= MaxBooks /\ toClient \in Seq(Msg)
  BY DEF Taking
<1>2. /\ engine' \in Engine /\ engine'.orders = engine.orders
      /\ engine'.tob = engine.tob /\ engine'.outSeq = engine.outSeq
      /\ engine'.reports = engine.reports
  <2>1. engine' \in Engine
    BY <1>1, ZenonT(60) DEF Engine
  <2>2. QED  BY <1>1, <2>1 DEF Engine
<1>3. /\ UNCHANGED <<strat, driver, task, unsent, hand, main, attempt, TaskEnds>>
      /\ UNCHANGED <<Heard, Phase, LastSeq, LastMd>>
      /\ Running /\ Running' /\ conn = "up"
      /\ Typed' /\ Slated' /\ Tasking' /\ Idle' /\ Closing' /\ EndingMatchesWire' /\ Told'
  BY <1>1, <1>2, ClientSide
<1>4. Inbox' = Inbox
  BY <1>1, <1>3 DEF Inbox
<1>5. Deaf' /\ Inward' /\ Paired'
  BY <1>1, <1>2, <1>3, <1>4 DEF Inv, Deaf, Inward, Paired
<1>6. Numbers'
  <2>1. Ours(Flow', attempt)
    BY <1>1, <1>3 DEF Inv, Numbers, Ours, Pops
  <2>2. QED  BY <1>1, <1>3, <2>1 DEF Inv, Numbers
<1>7. /\ Picture(Flow', engine.orders, strat, Phase, "down")
      /\ StillDue(Flow, engine.orders, strat, Phase, Flow', engine.orders, strat, Phase)
  <2>1. Picture(Flow, engine.orders, strat, Phase, "down")
    BY <1>1, PictureWeaker
  <2>2. QED  BY <1>1, <2>1, PopsKeeps
<1>8. Pictured' /\ Expected'
  <2>1. Picture(Flow', engine.orders, strat, Phase, conn')
    BY <1>7, PictureWeaker
  <2>2. Awaited(Inbox, engine.reports, Flow, engine.orders, strat, Phase)
    BY <1>3 DEF Inv, Expected
  <2>3. Awaited(Inbox, engine.reports, Flow', engine.orders, strat, Phase)
    BY <1>7, <2>2, AwaitedMoves
  <2>4. QED  BY <1>2, <1>3, <1>4, <2>1, <2>3 DEF Pictured, Expected
<1>9. QED  BY <1>3, <1>5, <1>6, <1>8 DEF Inv

Answered(o, m) ==
  engine' = [engine EXCEPT !.inSeq = @ + 1, !.orders = o, !.reports = Append(@, m)]

(* A command in order is answered with a report.                           *)
LEMMA AcceptsKeeps ==
  ASSUME Inv, NEW c, Taking(c), c.seq = engine.inSeq, conn' = conn,
         NEW e2 \in Book, NEW m \in ReportMsg, Answered(e2, m),
         Picture(Flow', e2, strat, Phase, "up"),
         StillDue(Flow, engine.orders, strat, Phase, Flow', e2, strat, Phase),
         Due(m, Flow', e2, strat, Phase)
  PROVE  Inv'
<1>1. /\ Serving /\ UNCHANGED <<clientVars, toClient, mdSeq>>
      /\ toEngine' \in Seq(Frame) /\ Pops(Flow, Flow') /\ Heard
      /\ engine \in Engine /\ mdSeq <= MaxBooks /\ toClient \in Seq(Msg)
  BY DEF Taking
<1>2. Grows(engine.reports, m, Append(engine.reports, m))
      /\ Append(engine.reports, m) \in Seq(ReportMsg) /\ engine.inSeq \in Nat
  <2>1. engine.reports \in Seq(ReportMsg) /\ engine.inSeq \in Nat
    BY <1>1 DEF Engine
  <2>2. QED  BY <2>1, GrowsDoes
<1>3. /\ engine' \in Engine /\ engine'.orders = e2 /\ engine'.tob = engine.tob
      /\ engine'.outSeq = engine.outSeq /\ engine'.broken = engine.broken
      /\ engine'.inSeq = engine.inSeq + 1 /\ engine'.reports = Append(engine.reports, m)
  <2>1. engine.inSeq + 1 \in Nat
    BY <1>2
  <2>2. engine' \in Engine
    BY <1>1, <1>2, <2>1, ZenonT(60) DEF Engine, Answered
  <2>3. QED  BY <1>1, <2>2 DEF Engine, Answered
<1>4. /\ UNCHANGED <<strat, driver, task, unsent, hand, main, attempt, TaskEnds>>
      /\ UNCHANGED <<Heard, Phase, LastSeq, LastMd>>
      /\ Running /\ Running' /\ conn = "up"
      /\ Typed' /\ Slated' /\ Tasking' /\ Idle' /\ Closing' /\ EndingMatchesWire' /\ Told'
  BY <1>1, <1>3, ClientSide
<1>5. Inbox' = Inbox
  BY <1>1, <1>4 DEF Inbox
<1>6. Deaf' /\ Inward' /\ Paired'
  BY <1>1, <1>3, <1>4, <1>5 DEF Inv, Deaf, Inward, Paired
<1>7. Numbers'
  <2>1. Ours(Flow', attempt)
    BY <1>1, <1>4 DEF Inv, Numbers, Ours, Pops
  <2>2. ASSUME "OSError" \notin TaskEnds
        PROVE  Counted(Flow', engine.inSeq + 1, Used(driver.outSeq))
    <3>1. Counted(Flow, engine.inSeq, Used(driver.outSeq))
      BY <1>4, <2>2 DEF Inv, Numbers
    <3>2. QED  BY <1>1, <1>2, <3>1, CountedPops
  <2>3. QED  BY <1>3, <1>4, <2>1, <2>2 DEF Inv, Numbers
<1>8. Pictured' /\ Expected'
  <2>1. Awaited(Inbox, engine.reports, Flow, engine.orders, strat, Phase)
    BY <1>4 DEF Inv, Expected
  <2>2. Awaited(Inbox, engine.reports, Flow', e2, strat, Phase)
    BY <2>1, AwaitedMoves
  <2>3. Awaited(Inbox, Append(engine.reports, m), Flow', e2, strat, Phase)
    BY <1>2, <2>2, AwaitedMoves
  <2>4. QED  BY <1>3, <1>4, <1>5, <2>3 DEF Pictured, Expected
<1>9. QED  BY <1>4, <1>6, <1>7, <1>8 DEF Inv

(* The engine takes a command.                                             *)
LEMMA EngineTakesKeeps ==
  ASSUME Inv, EngineTakes
  PROVE  Inv'
<1> DEFINE c == Head(toEngine)
           eo == engine.orders
           Outcomes == IF c.type = "NewOrder" THEN Orders!NewOutcomes(eo, c.id)
                       ELSE {Orders!CancelOutcome(eo, c.id)}
           reply(x) == Report((CHOOSE r \in x.batch : TRUE)[1], c.id, 0)
           Broke == engine' = [engine EXCEPT !.broken = TRUE] /\ conn' = "peerClosed"
<1>1. Taking(c)
  BY TakingIs
<1>2. \/ (c.seq # engine.inSeq \/ c.epoch # attempt) /\ Broke
      \/ /\ c.seq = engine.inSeq /\ c.epoch = attempt /\ conn' = conn
         /\ \E x \in Outcomes : Answered(x.orders, reply(x))
  BY ZenonT(60) DEF EngineTakes, Answered
<1> HIDE DEF c, Outcomes, reply, Broke
<1>3. CASE (c.seq # engine.inSeq \/ c.epoch # attempt) /\ Broke
  BY <1>1, <1>3, BreaksKeeps DEF Broke
<1>4. CASE /\ c.seq = engine.inSeq /\ c.epoch = attempt /\ conn' = conn
           /\ \E x \in Outcomes : Answered(x.orders, reply(x))
  <2>1. conn' = conn
    BY <1>4
  <2>2. PICK x \in Outcomes : Answered(x.orders, reply(x))
    BY <1>4
  <2> DEFINE e2 == x.orders
             m == reply(x)
  <2>3. /\ c = Flow[1] /\ c.id \in OrderIds /\ Pops(Flow, Flow') /\ 1 \in 1 .. Len(Flow)
        /\ Picture(Flow, eo, strat, Phase, "up") /\ eo \in Book
        /\ c.type \in {"NewOrder", "CancelOrder"}
    BY <1>1 DEF Taking, Pops, Engine, Frame
  <2>4. strat \in Slate /\ Sound(strat)
    BY DEF Inv, Typed, Slated
  <2>5. ASSUME NEW a, x.batch = {a}  PROVE m = Report(a[1], c.id, 0)
    <3>1. (CHOOSE r \in x.batch : TRUE) \in x.batch
      BY <2>5
    <3>2. (CHOOSE r \in x.batch : TRUE) = a
      BY <2>5, <3>1
    <3>3. QED  BY <3>2 DEF reply
  <2>6. m.id = c.id
    BY DEF Report, reply
  <2>7. CASE c.type = "NewOrder"
    <3>1. News(Flow, 1) /\ ~Pulls(Flow, 1) /\ eo[c.id] = "Free"
      BY <2>3, <2>7 DEF News, Pulls, Picture, Opening
    <3>2. \/ e2 = [eo EXCEPT ![c.id] = "Done"] /\ x.batch = {<<"Reject", c.id>>}
          \/ e2 = [eo EXCEPT ![c.id] = "Live"] /\ x.batch = {<<"OrderAck", c.id>>}
      BY <2>7, <3>1 DEF Outcomes, Orders!NewOutcomes, Orders!Outcome
    <3>3. /\ e2 \in Book /\ e2[c.id] # "Free"
          /\ \A id \in OrderIds : id # c.id => e2[id] = eo[id]
      BY <2>3, <3>2 DEF Book
    <3>4. m \in ReportMsg /\ (Ends(m) => e2[c.id] # "Live")
      <4>1. CASE x.batch = {<<"Reject", c.id>>} /\ e2[c.id] = "Done"
        <5>1. m = Report("Reject", c.id, 0)
          BY <2>5, <4>1, <<"Reject", c.id>>[1] = "Reject"
        <5>2. QED  BY <2>3, <4>1, <5>1 DEF Report, ReportMsg
      <4>2. CASE x.batch = {<<"OrderAck", c.id>>}
        <5>1. m = Report("OrderAck", c.id, 0)
          BY <2>5, <4>2, <<"OrderAck", c.id>>[1] = "OrderAck"
        <5>2. QED  BY <2>3, <5>1 DEF Report, ReportMsg, Ends
      <4>3. QED  BY <2>3, <3>2, <4>1, <4>2 DEF Book
    <3> HIDE DEF m, e2
    <3>5. /\ Picture(Flow', e2, strat, Phase, "up")
          /\ StillDue(Flow, eo, strat, Phase, Flow', e2, strat, Phase)
          /\ Due(m, Flow', e2, strat, Phase)
      BY <2>3, <2>4, <2>6, <3>1, <3>3, <3>4, PictureOpened
    <3>6. Answered(e2, m)
      BY <2>2 DEF m, e2
    <3>7. QED  BY <1>1, <1>4, <2>1, <3>3, <3>4, <3>5, <3>6, AcceptsKeeps
  <2>8. CASE c.type = "CancelOrder"
    <3>1. Pulls(Flow, 1)
      BY <2>3, <2>8 DEF Pulls
    <3>2. \/ /\ eo[c.id] = "Live" /\ e2 = [eo EXCEPT ![c.id] = "Done"]
             /\ x.batch = {<<"CancelAck", c.id>>}
          \/ eo[c.id] # "Live" /\ e2 = eo /\ x.batch = {<<"Reject", c.id>>}
      BY <2>8 DEF Outcomes, Orders!CancelOutcome, Orders!Outcome
    <3>3. /\ e2 \in Book /\ e2[c.id] # "Live"
          /\ \A id \in OrderIds : e2[id] = eo[id] \/ (eo[id] = "Live" /\ e2[id] = "Done")
      BY <2>3, <3>2 DEF Book
    <3>4. m \in ReportMsg
      <4>1. m = Report("CancelAck", c.id, 0) \/ m = Report("Reject", c.id, 0)
        BY <2>5, <3>2, <<"Reject", c.id>>[1] = "Reject", <<"CancelAck", c.id>>[1] = "CancelAck"
      <4>2. QED  BY <2>3, <4>1 DEF Report, ReportMsg
    <3> HIDE DEF m, e2
    <3>5. /\ Picture(Flow, e2, strat, Phase, "up")
          /\ StillDue(Flow, eo, strat, Phase, Flow, e2, strat, Phase)
      BY <2>3, <3>3, PictureEnds
    <3>6. /\ Picture(Flow', e2, strat, Phase, "up")
          /\ StillDue(Flow, e2, strat, Phase, Flow', e2, strat, Phase)
          /\ Due(m, Flow', e2, strat, Phase)
      BY <2>3, <2>6, <3>1, <3>3, <3>5, PictureCancelled
    <3>7. StillDue(Flow, eo, strat, Phase, Flow', e2, strat, Phase)
      BY <3>5, <3>6 DEF StillDue
    <3>8. Answered(e2, m)
      BY <2>2 DEF m, e2
    <3>9. QED  BY <1>1, <1>4, <2>1, <3>3, <3>4, <3>6, <3>7, <3>8, AcceptsKeeps
  <2>9. QED  BY <2>3, <2>7, <2>8
<1>5. QED  BY <1>2, <1>3, <1>4

(* The orders of a session are finitely many.                              *)
LEMMA OrderIdsFinite == IsFiniteSet(OrderIds)
<1>1. IsFiniteSet(Sides)
  <2>1. IsFiniteSet({"B"}) /\ {"B"} \cup {"S"} = Sides
    BY FS_Singleton DEF Sides
  <2>2. QED  BY <2>1, FS_AddElement, FS_Singleton, FS_Union
<1>2. IsFiniteSet(1 .. MaxBooks)
  BY ClientAssumption, FS_Interval
<1>3. QED  BY <1>1, <1>2, FS_Product DEF OrderIds

Fills(fills, o) ==
  [i \in 1 .. Len(fills) |-> Report("Fill", fills[i], IF o[fills[i]] = "Live" THEN 1 ELSE 0)]
Booked(o, fills, top) ==
  engine' = [engine EXCEPT !.orders = o, !.reports = @ \o Fills(fills, o),
                           !.tob = <<Tick(mdSeq + 1, top)>>]

(* A book fills what rests, ends some of it, and leaves a tick.            *)
LEMMA EngineBookKeeps ==
  ASSUME Inv, EngineBook
  PROVE  Inv'
<1> DEFINE eo == engine.orders
<1>1. /\ Serving /\ UNCHANGED <<clientVars, conn, toEngine, toClient>>
      /\ mdSeq < MaxBooks /\ mdSeq' = mdSeq + 1
  BY ZenonT(60) DEF EngineBook
<1>2. PICK top \in Tops, x \in Orders!BookOutcomes(eo) :
        \E fills \in Sweeps({r[2] : r \in x.batch}) : Booked(x.orders, fills, top)
  BY ZenonT(60) DEF EngineBook, Booked, Fills
<1>3. PICK hit, done : /\ hit \subseteq Orders!LiveIds(eo) /\ done \subseteq hit
                       /\ x = Orders!BookOutcome(eo, hit, done)
  <2>1. PICK p \in (SUBSET Orders!LiveIds(eo)) \X (SUBSET Orders!LiveIds(eo)) :
          p[2] \subseteq p[1] /\ x = Orders!BookOutcome(eo, p[1], p[2])
    BY <1>2 DEF Orders!BookOutcomes
  <2>2. p[1] \subseteq Orders!LiveIds(eo) /\ p[2] \subseteq p[1]
    BY <2>1
  <2>3. QED  BY <2>1, <2>2
<1> DEFINE e2 == x.orders
<1>4. /\ hit \subseteq OrderIds /\ \A id \in hit : eo[id] = "Live"
      /\ e2 = [id \in OrderIds |-> IF id \in done THEN "Done" ELSE eo[id]]
      /\ x.batch = {<<"Fill", id>> : id \in hit}
  BY <1>3 DEF e2, Orders!LiveIds, Orders!BookOutcome, Orders!Outcome
<1>5. {r[2] : r \in x.batch} = hit
  <2>1. \A id : <<"Fill", id>>[2] = id
    OBVIOUS
  <2>2. ASSUME NEW id \in hit  PROVE id \in {r[2] : r \in x.batch}
    <3>1. <<"Fill", id>> \in x.batch
      BY <1>4
    <3>2. QED  BY <2>1, <3>1
  <2>3. \A id \in {r[2] : r \in x.batch} : id \in hit
    BY <1>4, <2>1
  <2>4. QED  BY <2>2, <2>3
<1> HIDE DEF e2
<1>6. PICK fills \in Sweeps(hit) : Booked(e2, fills, top)
  BY <1>2, <1>5 DEF e2
<1> DEFINE n == Cardinality(hit)
           new == Fills(fills, e2)
           tick == Tick(mdSeq + 1, top)
           box == engine.reports \o new
<1>7. IsFiniteSet(hit) /\ n \in Nat
  BY <1>4, OrderIdsFinite, FS_Subset, FS_CardinalityType
<1>8. Len(fills) = n /\ \A i \in 1 .. n : fills[i] \in hit
  BY <1>6, <1>7 DEF Sweeps
<1>9. engine \in Engine /\ eo \in Book /\ mdSeq \in Nat
  BY DEF Inv, Typed, Engine
<1>10. /\ e2 \in Book
       /\ \A id \in OrderIds : e2[id] = eo[id] \/ (eo[id] = "Live" /\ e2[id] = "Done")
  BY <1>3, <1>4, <1>9 DEF Book, e2
<1> HIDE DEF n
<1>11. /\ new \in Seq(ReportMsg) /\ Len(new) = n
       /\ \A i \in 1 .. n : /\ new[i].id \in OrderIds /\ eo[new[i].id] = "Live"
                            /\ Ends(new[i]) => e2[new[i].id] # "Live"
  <2>1. \A i \in 1 .. n : /\ new[i] = Report("Fill", fills[i], IF e2[fills[i]] = "Live" THEN 1 ELSE 0)
                          /\ fills[i] \in OrderIds /\ eo[fills[i]] = "Live"
    BY <1>4, <1>8 DEF Fills
  <2> HIDE DEF new
  <2>2. \A i \in 1 .. n : /\ new[i] \in ReportMsg
                          /\ new[i].id = fills[i] /\ (Ends(new[i]) => e2[fills[i]] # "Live")
    <3>1. \A id \in OrderIds, k \in {0, 1} :
            /\ Report("Fill", id, k) \in ReportMsg /\ Report("Fill", id, k).id = id
            /\ Ends(Report("Fill", id, k)) => k = 0
      BY DEF Report, ReportMsg, Ends
    <3>2. QED  BY <2>1, <3>1
  <2>3. new \in [1 .. n -> ReportMsg] /\ new \in Seq(ReportMsg) /\ Len(new) = n
    <3>1. new = [i \in 1 .. n |-> new[i]]
      BY <1>8 DEF new, Fills
    <3>2. new \in [1 .. n -> ReportMsg]
      BY <2>2, <3>1
    <3>3. QED  BY <1>7, <3>2
  <2>4. QED  BY <2>1, <2>2, <2>3
<1>12. tick \in TickMsg /\ tick.md = mdSeq + 1 /\ <<tick>> \in Seq(TickMsg) /\ tick.type = "Tob"
  <2>1. top[1] \in Nat \ {0} /\ top[2] \in Nat \ {0}
    BY <1>2, ClientAssumption
  <2>2. tick \in TickMsg /\ tick.md = mdSeq + 1 /\ tick.type = "Tob"
    BY <1>9, <2>1 DEF Tick, TickMsg
  <2>3. QED  BY <2>2
<1> HIDE DEF new, tick
<1>13. /\ box \in Seq(ReportMsg) /\ Len(engine.reports) \in Nat
       /\ Len(box) = Len(engine.reports) + n
       /\ \A i \in 1 .. Len(box) :
            box[i] = IF i <= Len(engine.reports) THEN engine.reports[i]
                     ELSE new[i - Len(engine.reports)]
  <2>1. engine.reports \in Seq(ReportMsg)
    BY <1>9 DEF Engine
  <2>2. /\ box \in Seq(ReportMsg) /\ Len(box) = Len(engine.reports) + Len(new)
        /\ \A i \in 1 .. Len(engine.reports) + Len(new) :
             box[i] = IF i <= Len(engine.reports) THEN engine.reports[i]
                      ELSE new[i - Len(engine.reports)]
    BY <1>11, <2>1, ConcatProperties
  <2>3. QED  BY <1>11, <2>1, <2>2
<1> HIDE DEF box
<1>14. engine' = [engine EXCEPT !.orders = e2, !.reports = box, !.tob = <<tick>>]
  BY <1>6 DEF Booked, box, new, tick
<1>15. /\ engine' \in Engine /\ engine'.orders = e2 /\ engine'.reports = box
       /\ engine'.tob = <<tick>> /\ engine'.outSeq = engine.outSeq
       /\ engine'.inSeq = engine.inSeq /\ engine'.broken = engine.broken
  <2>1. engine' \in Engine
    BY <1>9, <1>10, <1>12, <1>13, <1>14, ZenonT(60) DEF Engine
  <2>2. QED  BY <1>9, <1>14, <2>1 DEF Engine
<1>16. mdSeq' <= MaxBooks /\ toEngine' \in Seq(Frame) /\ toClient' \in Seq(Msg)
  BY <1>1, <1>9, ClientAssumption DEF Inv, Typed
<1>17. /\ UNCHANGED <<strat, driver, task, unsent, hand, main, attempt, TaskEnds>>
       /\ UNCHANGED <<Heard, Phase, LastSeq, LastMd>>
       /\ Running /\ Running' /\ conn = "up"
       /\ Typed' /\ Slated' /\ Tasking' /\ Idle' /\ Closing' /\ EndingMatchesWire' /\ Told'
  BY <1>1, <1>15, <1>16, ClientSide
<1>18. Flow' = Flow /\ Inbox' = Inbox
  BY <1>1, <1>17 DEF Flow, Inbox
<1>19. Numbers' /\ Paired'
  BY <1>1, <1>15, <1>17, <1>18 DEF Inv, Numbers, Paired
<1>20. Deaf'
  <2>1. ASSUME ~Heard  PROVE e2 = Orders!AllFree /\ box = << >>
    <3>1. eo = Orders!AllFree /\ engine.reports = << >>
      BY <1>17, <2>1 DEF Inv, Deaf
    <3>2. \A id \in OrderIds : eo[id] = "Free"
      BY <3>1 DEF Orders!AllFree
    <3>3. hit = {} /\ done = {}
      BY <1>3, <1>4, <3>2
    <3>4. e2 = Orders!AllFree
      BY <1>4, <3>2, <3>3 DEF e2, Orders!AllFree
    <3>5. n = 0
      BY <3>3, FS_EmptySet DEF n
    <3>6. Len(box) = 0
      BY <1>13, <3>1, <3>5
    <3>7. QED  BY <1>13, <3>4, <3>6, EmptySeq
  <2>2. QED  BY <1>15, <1>17, <1>18, <2>1 DEF Inv, Deaf
<1>21. Inward'
  <2>1. ASSUME driver.close = NoCode  PROVE Younger(Inbox, LastMd, <<tick>>, mdSeq + 1)
    <3>1. Younger(Inbox, LastMd, engine.tob, mdSeq)
      BY <1>17, <2>1 DEF Inv, Inward
    <3>2. Inbox \in Seq(Msg) /\ LastMd \in Nat
      BY QueuesTyped DEF LastMd, Inv, Typed, Slate
    <3>3. QED  BY <1>9, <1>12, <3>1, <3>2, YoungerBook
  <2>2. QED  BY <1>1, <1>15, <1>17, <1>18, <2>1 DEF Inv, Inward
<1>22. /\ Picture(Flow, e2, strat, Phase, conn)
       /\ StillDue(Flow, eo, strat, Phase, Flow, e2, strat, Phase)
       /\ \A m : m.id \in OrderIds /\ eo[m.id] = "Live" /\ (Ends(m) => e2[m.id] # "Live")
                 => Due(m, Flow, e2, strat, Phase)
  <2>1. Picture(Flow, eo, strat, Phase, conn)
    BY <1>17 DEF Inv, Pictured
  <2>2. QED  BY <1>9, <1>10, <2>1, PictureEnds
<1>23. Pictured'
  BY <1>1, <1>15, <1>17, <1>18, <1>22 DEF Pictured
<1>24. Expected'
  <2>1. Awaited(Inbox, engine.reports, Flow, eo, strat, Phase)
    BY <1>17 DEF Inv, Expected
  <2>2. Awaited(Inbox, engine.reports, Flow, e2, strat, Phase)
    BY <1>22, <2>1, AwaitedMoves
  <2>3. ASSUME NEW i \in 1 .. Len(box)  PROVE Due(box[i], Flow, e2, strat, Phase)
    <3>1. CASE i <= Len(engine.reports)
      <4>1. i \in 1 .. Len(engine.reports) /\ box[i] = engine.reports[i]
        BY <1>13, <3>1
      <4>2. QED  BY <2>2, <4>1 DEF Awaited
    <3>2. CASE i > Len(engine.reports)
      <4>1. i - Len(engine.reports) \in 1 .. n /\ box[i] = new[i - Len(engine.reports)]
        BY <1>7, <1>13, <3>2
      <4>2. QED  BY <1>11, <1>22, <4>1
    <3>3. QED  BY <1>13, <3>1, <3>2
  <2>4. Awaited(Inbox, box, Flow, e2, strat, Phase)
    BY <2>2, <2>3 DEF Awaited
  <2>5. QED  BY <1>15, <1>17, <1>18, <2>4 DEF Expected
<1>25. QED
  BY <1>17, <1>19, <1>20, <1>21, <1>23, <1>24 DEF Inv

------------------------------------------------------------------------------
(* The theorems.                                                           *)

(* Nothing happens.                                                        *)
LEMMA StutterKeeps ==
  ASSUME Inv, UNCHANGED vars
  PROVE  Inv'
<1>1. UNCHANGED <<strat, driver, task, unsent, hand, wire, main, attempt, ending, conn,
                  engine, toEngine, toClient, mdSeq>>
  BY DEF vars, clientVars, peerVars
<1>2. UNCHANGED <<Flow, Inbox, Phase, Heard, LastSeq, LastMd, TaskEnds, Running>>
  BY <1>1 DEF Flow, Inbox, Phase, Heard, LastSeq, LastMd, TaskEnds, Running
<1>3. Typed' /\ Slated' /\ Tasking' /\ Idle' /\ Closing'
  BY <1>1, <1>2 DEF Inv, Typed, Slated, Tasking, Idle, Closing
<1>4. EndingMatchesWire' /\ Deaf' /\ Told' /\ Numbers'
  BY <1>1, <1>2 DEF Inv, EndingMatchesWire, Deaf, Told, Numbers
<1>5. Inward' /\ Pictured' /\ Expected' /\ Paired'
  BY <1>1, <1>2 DEF Inv, Inward, Pictured, Expected, Paired
<1>6. QED  BY <1>3, <1>4, <1>5 DEF Inv

(* Every step keeps the invariant.                                         *)
LEMMA NextKeeps ==
  ASSUME Inv, [Next]_vars
  PROVE  Inv'
<1>1. CASE PumpTakes
  BY <1>1, PumpTakesKeeps
<1>2. CASE PumpHandles
  BY <1>2, PumpDropsKeeps, PumpReadsKeeps
<1>3. CASE PumpEnds
  BY <1>3, PumpEndsKeeps
<1>4. CASE TimerTick
  BY <1>4, TimerTickKeeps
<1>5. CASE TimerCloses \/ EngineCloses
  BY <1>5, WireDownKeeps
<1>6. CASE Sends
  BY <1>6, SendFrameKeeps, SendFailsKeeps DEF Sends
<1>7. CASE RunClientEnds
  BY <1>7, RunClientEndsKeeps
<1>8. CASE OperatorStops \/ Decide \/ DialFails
  BY <1>8, OutsideKeeps
<1>9. CASE Dial
  BY <1>9, DialKeeps
<1>10. CASE EngineTakes
  BY <1>10, EngineTakesKeeps
<1>11. CASE EngineBook
  BY <1>11, EngineBookKeeps
<1>12. CASE EngineWrites
  BY <1>12, WritesReportKeeps, WritesTickKeeps
<1>13. CASE UNCHANGED vars
  BY <1>13, StutterKeeps
<1>14. QED
  BY <1>1, <1>2, <1>3, <1>4, <1>5, <1>6, <1>7, <1>8, <1>9, <1>10, <1>11, <1>12, <1>13
  DEF Next

(* The two ends of the session stay in step: for every feed, whatever the  *)
(* two tasks, the engine, the operator and the reconnects do.              *)
THEOREM SessionInvariant == Spec => []Inv
<1>1. Init => Inv
  BY InitInv
<1>2. Inv /\ [Next]_vars => Inv'
  BY NextKeeps
<1>3. QED  BY <1>1, <1>2, PTL DEF Spec

(* What run_client returns is what the close frame told the peer           *)
(* (_session.py, ws_naive.py _ending and _close).                          *)
THEOREM EndingIsTold == Spec => []EndingMatchesWire
<1>1. Inv => EndingMatchesWire
  BY DEF Inv
<1>2. QED  BY <1>1, SessionInvariant, PTL

(* The engine meets every command with the number and the epoch it         *)
(* expects unless a send timed out, and the client accuses the engine only *)
(* over a foreign symbol or out of numbers (_stamp, on_bytes, Session).    *)
THEOREM WireIsKept == Spec => []WireDiscipline
<1>1. Inv => WireDiscipline
  <2> SUFFICES ASSUME Inv  PROVE WireDiscipline
    OBVIOUS
  <2>1. CASE Running
    BY <2>1 DEF Inv, Numbers, WireDiscipline
  <2>2. CASE ~Running
    <3>1. engine.broken = FALSE
      BY <2>2, NewSessionIs DEF Inv, Idle
    <3>2. QED  BY <2>2, <3>1 DEF WireDiscipline
  <2>3. QED  BY <2>1, <2>2
<1>2. QED  BY <1>1, SessionInvariant, PTL

(* No settled side lags the freshest accepted book (Strategy._quote and    *)
(* _reconsider).                                                           *)
THEOREM QuotesAreFresh == Spec => []FreshQuotes
<1>1. Inv => FreshQuotes
  <2> SUFFICES ASSUME Inv, Running, ~strat.stopped, NEW side \in Sides,
                      CurrentOrder(strat, side).state = "Live", ~Locked(strat)
               PROVE  CurrentOrder(strat, side).px = Desired(strat, side)
    BY DEF FreshQuotes
  <2>1. strat \in Slate /\ Distinct(strat) /\ strat.stopped \in BOOLEAN
    BY DEF Inv, Typed, Slated, Sound, Slate
  <2>2. FreshOn(strat, side)
    BY <2>1 DEF Inv, Slated, Fresh
  <2>3. strat.current[side] \in KnownIds(strat)
    BY DEF CurrentOrder, Lookup, NoOrder
  <2>4. PICK i \in 1 .. Len(strat.orders) :
          /\ strat.orders[i].id = strat.current[side]
          /\ Lookup(strat, strat.current[side]) = strat.orders[i]
    BY <2>1, <2>3, KnownHasPlace
  <2>5. QED  BY <2>2, <2>4 DEF CurrentOrder, FreshOn
<1>2. QED  BY <1>1, SessionInvariant, PTL

(* At most one order per side rests at the engine, whatever is in flight   *)
(* (Strategy._quote: an amend is a cancel, then a new order).              *)
THEOREM OneRests == Spec => []OneRestingPerSide
<1>1. Inv => OneRestingPerSide
  <2> SUFFICES ASSUME Inv, NEW side \in Sides  PROVE Cardinality(LiveAt(side)) <= 1
    BY DEF OneRestingPerSide
  <2>1. Alone(engine.orders)
    <3>1. CASE Running
      BY <3>1 DEF Inv, Pictured, Picture
    <3>2. CASE ~Running
      <4>1. engine.orders = Orders!AllFree
        BY <3>2, NewSessionIs DEF Inv, Idle
      <4>2. QED  BY <4>1 DEF Alone, Orders!AllFree
    <3>3. QED  BY <3>1, <3>2
  <2>2. \A m, n \in LiveAt(side) : m = n
    BY <2>1 DEF Alone, LiveAt
  <2>3. CASE LiveAt(side) = {}
    <3>1. Cardinality(LiveAt(side)) = 0
      BY <2>3, FS_EmptySet
    <3>2. QED  BY <3>1
  <2>4. CASE LiveAt(side) # {}
    <3>1. PICK m : m \in LiveAt(side)
      BY <2>4
    <3>2. LiveAt(side) = {m}
      BY <2>2, <3>1
    <3>3. Cardinality(LiveAt(side)) = 1
      BY <3>2, FS_Singleton
    <3>4. QED  BY <3>3
  <2>5. QED  BY <2>3, <2>4
<1>2. QED  BY <1>1, SessionInvariant, PTL

(* As long as the client quotes, it knows every order that rests at the    *)
(* engine (Strategy._orders against OrderEngine).                          *)
THEOREM PictureIsComplete == Spec => []PictureComplete
<1>1. Inv => PictureComplete
  BY DEF Inv, Pictured, Picture, KnowsLive, PictureComplete
<1>2. QED  BY <1>1, SessionInvariant, PTL

==============================================================================
