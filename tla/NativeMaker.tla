----------------------------- MODULE NativeMaker -----------------------------
(***************************************************************************)
(* The native market maker (cpp/include/mm/strategy_native.hpp) on one     *)
(* side of the shared-memory order ring (module ShmRing) and a venue on    *)
(* the other: ticks and reports drive the maker, the commands of a         *)
(* decision are pushed one by one, spinning while the ring is full, and    *)
(* the venue pops them, acknowledges, rejects and fills.  The driver       *)
(* around the maker (bench/probes/native_mm_probe.cpp is the one in the    *)
(* repository) and the venue are external.                                 *)
(***************************************************************************)
EXTENDS ShmRing, FiniteSets

CONSTANTS
  OrderSize, MaxPosition, HalfSpread,  \* StrategyConfig
  Ticks,         \* tops of book the maker may see: <<bid_px, ask_px>>
  DepthTargets,  \* what the pricing of on_depth may come to: <<bid, ask>>
  FillSizes,     \* quantities of one fill
  MaxOrders      \* bound of the model on the client ids used

ASSUME MakerAssumption ==
  /\ OrderSize \in Nat \ {0} /\ MaxPosition \in Nat /\ HalfSpread \in Nat \ {0}
  /\ Ticks \subseteq Int \X Int
  /\ DepthTargets \subseteq Int \X Int /\ \A t \in DepthTargets : t[1] < t[2]
  /\ FillSizes \subseteq Nat
  /\ MaxOrders \in Nat

VARIABLES
  maker,    \* the members of NativeMarketMaker decisions depend on
  sent,     \* the commands decided; the ring carries their numbers
  resting,  \* the orders at the venue
  reports   \* the report ring, as a queue

makerVars == <<maker, sent, resting, reports>>

NoId == 0

(* C++ division truncates towards zero.                                    *)
Quotient(a, b) == IF a >= 0 THEN a \div b ELSE -((-a) \div b)

New(side, id, px) == [type |-> "new", side |-> side, id |-> id, px |-> px]
Cancel(id) == [type |-> "cancel", id |-> id]

------------------------------------------------------------------------------
(* One side of a decision: the maker's record, the cancel and the order.   *)
Side(m, cancels, news) == [m |-> m, cancels |-> cancels, news |-> news]

Quote(m, side) == IF side = "bid" THEN m.bid ELSE m.ask

Moved(m, side, px) == (IF side = "bid" THEN m.bidPx ELSE m.askPx) # px

Withdrawn(m, side) ==
  IF side = "bid" THEN [m EXCEPT !.bid = NoId] ELSE [m EXCEPT !.ask = NoId]

Posted(m, side, px) ==
  IF side = "bid"
  THEN [m EXCEPT !.bid = m.nextId, !.bidPx = px, !.nextId = @ + 1]
  ELSE [m EXCEPT !.ask = m.nextId, !.askPx = px, !.nextId = @ + 1]

(* Pull the quote, if there is one.                                        *)
Withdraw(m, side) ==
  IF Quote(m, side) = NoId THEN Side(m, << >>, << >>)
  ELSE Side(Withdrawn(m, side), <<Cancel(Quote(m, side))>>, << >>)

(* Post, or cancel and post, or leave a quote that has not moved.          *)
Requote(m, side, px) ==
  IF Quote(m, side) # NoId /\ ~Moved(m, side, px) THEN Side(m, << >>, << >>)
  ELSE Side(Posted(m, side, px),
            IF Quote(m, side) = NoId THEN << >> ELSE <<Cancel(Quote(m, side))>>,
            <<New(side, m.nextId, px)>>)

(* Mutant: a position at the limit still quotes.                           *)
MayQuoteAtLimit(m, side) ==
  IF side = "bid" THEN m.pos <= MaxPosition ELSE m.pos >= -MaxPosition

MayQuote(m, side) ==
  IF side = "bid" THEN m.pos < MaxPosition ELSE m.pos > -MaxPosition

Manage(m, side, px, clear) ==
  IF MayQuote(m, side) /\ clear THEN Requote(m, side, px) ELSE Withdraw(m, side)

(* Both sides, the bid first; a decision lists its cancels before its      *)
(* orders.                                                                 *)
Both(b, a) == [m |-> a.m, cmds |-> (b.cancels \o a.cancels) \o (b.news \o a.news)]

Decision(m, tob, target) ==
  LET b == Manage(m, "bid", target[1], target[1] < tob[2])
  IN Both(b, Manage(b.m, "ask", target[2], target[2] > tob[1]))

cancel_all(m) ==
  LET b == Withdraw(m, "bid") IN Both(b, Withdraw(b.m, "ask"))

ValidBook(tob) == tob[1] > 0 /\ tob[2] > 0 /\ tob[1] < tob[2]

on_tob(m, tob) ==
  LET mid == (tob[1] + tob[2]) \div 2
      skew == Quotient(m.pos * 2, 10)
  IN IF ~ValidBook(tob) THEN cancel_all(m)
     ELSE Decision(m, tob, <<mid - HalfSpread - skew, mid + HalfSpread - skew>>)

on_depth(m, tob, target) ==
  IF ~ValidBook(tob) THEN cancel_all(m) ELSE Decision(m, tob, target)

on_fill(m, id, qty) ==
  IF id = m.bid THEN [m EXCEPT !.pos = @ + qty, !.bid = NoId]
  ELSE IF id = m.ask THEN [m EXCEPT !.pos = @ - qty, !.ask = NoId]
  ELSE m

(* Mutant: a rejected ask is kept.                                         *)
on_reject_keeps(m, id) == IF id = m.bid THEN [m EXCEPT !.bid = NoId] ELSE m

on_reject(m, id) ==
  IF id = m.bid THEN [m EXCEPT !.bid = NoId]
  ELSE IF id = m.ask THEN [m EXCEPT !.ask = NoId]
  ELSE m

------------------------------------------------------------------------------
(* The driver's thread is between two decisions: everything is pushed.     *)
Polling == prodPc = "idle" /\ tail = Len(sent)

Decides(d) ==
  /\ Polling
  /\ maker' = d.m
  /\ sent' = sent \o d.cmds
  /\ UNCHANGED <<vars, resting, reports>>

OnTick ==
  /\ maker.nextId < MaxOrders
  /\ \E tob \in Ticks :
       \/ Decides(on_tob(maker, tob))
       \/ \E target \in DepthTargets : Decides(on_depth(maker, tob, target))

(* The feed went stale (is_stale).                                         *)
OnStale == (maker.bid # NoId \/ maker.ask # NoId) /\ Decides(cancel_all(maker))

OnReport ==
  LET r == Head(reports) IN
  /\ Polling /\ reports # << >>
  /\ maker' = CASE r.type = "ack" -> maker
                [] r.type = "fill" -> on_fill(maker, r.id, r.qty)
                [] r.type = "reject" -> on_reject(maker, r.id)
  /\ reports' = Tail(reports)
  /\ UNCHANGED <<vars, sent, resting>>

(* The commands of the decision go into the ring; a full ring is tried     *)
(* again.                                                                  *)
Push ==
  /\ tail < Len(sent)
  /\ PushStep \/ PushRefuse
  /\ UNCHANGED makerVars

------------------------------------------------------------------------------
(* The venue (external).                                                   *)
Report(type, id, qty) == [type |-> type, id |-> id, qty |-> qty]

Apply(c) ==
  \/ /\ c.type = "new"
     /\ resting' = resting \cup {[id |-> c.id, side |-> c.side, px |-> c.px, qty |-> OrderSize]}
     /\ reports' = Append(reports, Report("ack", c.id, 0))
  \/ /\ c.type = "new"
     /\ UNCHANGED resting
     /\ reports' = Append(reports, Report("reject", c.id, 0))
  \/ /\ c.type = "cancel"
     /\ resting' = {o \in resting : o.id # c.id}
     /\ reports' = Append(reports, Report(IF resting' = resting THEN "reject" ELSE "ack", c.id, 0))

Pop ==
  \/ PopLoad /\ UNCHANGED makerVars
  \/ PopCheck /\ UNCHANGED makerVars
  \/ PopCopy /\ UNCHANGED makerVars
  \/ /\ PopRetire
     /\ IF copy \in DOMAIN sent THEN Apply(sent[copy]) ELSE UNCHANGED <<resting, reports>>
     /\ UNCHANGED <<maker, sent>>

Fill ==
  \E o \in resting, q \in FillSizes :
    /\ q <= o.qty
    /\ resting' = (resting \ {o}) \cup (IF q = o.qty THEN {} ELSE {[o EXCEPT !.qty = @ - q]})
    /\ reports' = Append(reports, Report("fill", o.id, q))
    /\ UNCHANGED <<vars, maker, sent>>

------------------------------------------------------------------------------
MakerInit ==
  /\ Init
  /\ maker = [pos |-> 0, bid |-> NoId, ask |-> NoId, bidPx |-> 0, askPx |-> 0, nextId |-> 1]
  /\ sent = << >> /\ resting = {} /\ reports = << >>

MakerNext == OnTick \/ OnStale \/ OnReport \/ Push \/ Pop \/ Fill

MakerSpec == MakerInit /\ [][MakerNext]_<<vars, makerVars>>

------------------------------------------------------------------------------
(* The position the maker knows stays within one order of the limit,       *)
(* whatever fills, partial fills and rejects race its quotes (on_fill and  *)
(* the limit checks of on_tob and on_depth).                               *)
KnownPositionBounded ==
  maker.pos \in -(MaxPosition + OrderSize - 1) .. MaxPosition + OrderSize - 1

(* A quote the maker counts on stands: once nothing is in flight, the id   *)
(* it holds for a side rests at the venue, untouched and at the price it   *)
(* remembers, and its two quotes do not cross.                             *)
QuotesStand ==
  /\ (tail = Len(sent) /\ Len(got) = Len(sent) /\ reports = << >>) =>
       \A side \in {"bid", "ask"} :
         LET id == Quote(maker, side) IN
         id # NoId => [id |-> id, side |-> side, qty |-> OrderSize,
                       px |-> IF side = "bid" THEN maker.bidPx ELSE maker.askPx] \in resting
  /\ (maker.bid # NoId /\ maker.ask # NoId) => maker.bidPx < maker.askPx
==============================================================================
