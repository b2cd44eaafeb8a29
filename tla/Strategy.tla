------------------------------ MODULE Strategy -------------------------------
(***************************************************************************)
(* The decision core of the client (python/mmclient/strategy.py): a pure   *)
(* state machine that is handed engine messages and timer ticks and        *)
(* returns commands.  Its state is a record and each method a function     *)
(* from a state to a Result: the state after it, the StopQuoting returned  *)
(* if any, which is always the first of the commands, and the other ones.  *)
(*                                                                         *)
(* `_orders` is a dict in insertion order, hence a sequence.  An order id  *)
(* is its side and its number.  Quantities and the count of conflated      *)
(* ticks never enter a decision and are left out.                          *)
(***************************************************************************)
EXTENDS Integers, Sequences, FiniteSets

Sides == {"B", "S"}
NoPx == 0
NoId == <<"none", 0>>
NoOrder == [id |-> NoId, px |-> NoPx, state |-> "None"]

SideOf(id) == id[1]

Result(st, stop, cmds) == [st |-> st, stop |-> stop, cmds |-> cmds]
Silence(st) == Result(st, "none", << >>)
Stop(st) == Result([st EXCEPT !.stopped = TRUE], "protocol", << >>)

(* on_connect: a clean slate under the epoch of the new connection.        *)
CleanSlate(epoch, symbol) ==
  [epoch |-> epoch, symbol |-> symbol,
   orders |-> << >>, current |-> [s \in Sides |-> NoId],
   nextCl |-> [s \in Sides |-> 0], rejected |-> [s \in Sides |-> NoPx],
   inSeq |-> 0, mdSeq |-> 0, seenTob |-> FALSE, bid |-> NoPx, ask |-> NoPx,
   stopped |-> FALSE, swept |-> FALSE]
OnConnect(st, epoch) == CleanSlate(epoch, st.symbol)

(* on_disconnect: forget the orders, the book and the staleness origin.    *)
OnDisconnect(st) ==
  [st EXCEPT !.orders = << >>, !.current = [s \in Sides |-> NoId],
             !.bid = NoPx, !.ask = NoPx, !.seenTob = FALSE, !.stopped = TRUE]

------------------------------------------------------------------------------
(* _orders.get and the order that holds a side.                            *)
KnownIds(st) == {st.orders[i].id : i \in 1 .. Len(st.orders)}
Place(st, id) == CHOOSE i \in 1 .. Len(st.orders) : st.orders[i].id = id
Lookup(st, id) == IF id \in KnownIds(st) THEN st.orders[Place(st, id)] ELSE NoOrder
CurrentOrder(st, side) == Lookup(st, st.current[side])

SetState(st, ids, state) ==
  [st EXCEPT !.orders = [i \in 1 .. Len(@) |->
     IF @[i].id \in ids THEN [@[i] EXCEPT !.state = state] ELSE @[i]]]

CancelCmd(id) == [type |-> "CancelOrder", id |-> id]

(* _cancel.                                                                *)
Cancel(st, id) ==
  Result(SetState(st, {id}, "PendingCancel"), "none", <<CancelCmd(id)>>)

(* _new: the order takes its side.                                         *)
New(st, side, px) ==
  LET id == <<side, st.nextCl[side] + 1>> IN
  Result([st EXCEPT !.nextCl[side] = @ + 1, !.current[side] = id,
                    !.orders = Append(@, [id |-> id, px |-> px,
                                          state |-> "PendingNew"])],
         "none", <<[type |-> "NewOrder", id |-> id]>>)

(* The orders without the one at place p.                                  *)
Without(orders, p) ==
  [i \in 1 .. Len(orders) - 1 |-> IF i < p THEN orders[i] ELSE orders[i + 1]]

(* Mutant: any terminal report frees the side.                             *)
RetireFreesSide(st, o) ==
  [st EXCEPT !.orders = Without(@, Place(st, o.id)),
             !.current[SideOf(o.id)] = NoId]

(* _retire: the order leaves, and frees its side if it still holds it.     *)
Retire(st, o) ==
  [st EXCEPT !.orders = Without(@, Place(st, o.id)),
             !.current[SideOf(o.id)] = IF @ = o.id THEN NoId ELSE @]

Desired(st, side) == IF side = "B" THEN st.bid ELSE st.ask
Locked(st) == st.bid >= st.ask

(* Nothing is sent for a side whose order is undecided or already there.   *)
Waits(o, px) == o.state = "PendingNew" \/ o.px = px

(* _quote: the reject barrier falls with the first book that wants another *)
(* price, then a locked book, an order in flight and an unchanged price    *)
(* are all answered with silence; anything else amends or opens.           *)
Quote(st, side) ==
  LET px == Desired(st, side)
      barred == st.rejected[side] = px
      lifted == IF barred THEN st ELSE [st EXCEPT !.rejected[side] = NoPx]
      resting == CurrentOrder(st, side)
  IN
  IF barred \/ Locked(st) \/ (resting # NoOrder /\ Waits(resting, px))
  THEN Silence(lifted)
  ELSE IF resting = NoOrder THEN New(lifted, side, px)
  ELSE LET cancelled == Cancel(lifted, resting.id)
           opened == New(cancelled.st, side, px)
       IN Result(opened.st, "none", cancelled.cmds \o opened.cmds)

------------------------------------------------------------------------------
(* _advance_seq: whether the envelope counter is the expected one.         *)
Contiguous(st, m) == m.seq = st.inSeq + 1
Advance(st, m) == [st EXCEPT !.inSeq = m.seq]

(* The body of on_tob past _admit.                                         *)
TakeBook(st, m) ==
  LET fresh == [st EXCEPT !.seenTob = TRUE]
      moved == [fresh EXCEPT !.mdSeq = m.md, !.bid = m.bid, !.ask = m.ask]
      bids == Quote(moved, "B")
      asks == Quote(bids.st, "S")
  IN
  IF m.md < st.mdSeq THEN Stop(st)
  ELSE IF m.md = st.mdSeq THEN Silence(fresh)
  ELSE Result(asks.st, "none", bids.cmds \o asks.cmds)

(* on_tob and _admit: the epoch is judged before the counter and the       *)
(* symbol after it.                                                        *)
OnTob(st, m) ==
  IF st.stopped \/ m.epoch # st.epoch THEN Silence(st)
  ELSE IF ~Contiguous(st, m) THEN Stop(st)
  ELSE IF m.symbol # st.symbol THEN Stop(Advance(st, m))
  ELSE TakeBook(Advance(st, m), m)

(* Mutant: an acknowledged side waits for the next book.                   *)
SettleQuietly(st, o) == Silence(SetState(st, {o.id}, "Live"))

(* An OrderAck settles its side, which is decided again on the freshest    *)
(* book (_reconsider).                                                     *)
Settle(st, o) ==
  IF o.state # "PendingNew" THEN Silence(st)
  ELSE Quote(SetState(st, {o.id}, "Live"), SideOf(o.id))

(* A Reject of the order that holds its side raises the barrier.           *)
Refuse(st, o) ==
  Silence(Retire([st EXCEPT !.rejected[SideOf(o.id)] =
                    IF st.current[SideOf(o.id)] = o.id THEN o.px ELSE @], o))

(* Mutant: any fill ends the order.                                        *)
HandleFillAsEnd(st, o, m) ==
  CASE m.type = "OrderAck" -> Settle(st, o)
    [] m.type \in {"CancelAck", "Fill"} -> Silence(Retire(st, o))
    [] m.type = "Reject" -> Refuse(st, o)

(* The part of on_report that handles a report of a known order.           *)
Handle(st, o, m) ==
  CASE m.type = "OrderAck" -> Settle(st, o)
    [] m.type = "CancelAck" -> Silence(Retire(st, o))
    [] m.type = "Fill" -> Silence(IF m.leaves = 0 THEN Retire(st, o) ELSE st)
    [] m.type = "Reject" -> Refuse(st, o)

(* on_report.                                                              *)
OnReport(st, m) ==
  IF m.type = "Tob" THEN OnTob(st, m)
  ELSE IF st.stopped \/ m.epoch # st.epoch THEN Silence(st)
  ELSE IF ~Contiguous(st, m) THEN Stop(st)
  ELSE LET o == Lookup(st, m.id) IN
       IF o = NoOrder THEN Silence(Advance(st, m)) ELSE Handle(Advance(st, m), o, m)

(* The k-th smallest of a set of places.                                   *)
Nth(places, k) == CHOOSE i \in places : Cardinality({j \in places : j <= i}) = k

(* on_timer, with the age of the last book past the limit or not: stop     *)
(* once, and pull every order whose cancel is not yet in flight.           *)
OnTimer(st, stale) ==
  LET pulled == {i \in 1 .. Len(st.orders) : st.orders[i].state # "PendingCancel"}
      id(k) == st.orders[Nth(pulled, k)].id
  IN
  IF st.swept \/ ~st.seenTob \/ ~stale THEN Silence(st)
  ELSE Result([SetState(st, {st.orders[i].id : i \in pulled}, "PendingCancel")
                 EXCEPT !.stopped = TRUE, !.swept = TRUE],
              IF st.stopped THEN "none" ELSE "stale",
              [k \in 1 .. Cardinality(pulled) |-> CancelCmd(id(k))])
==============================================================================
