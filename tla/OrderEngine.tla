----------------------------- MODULE OrderEngine -----------------------------
(***************************************************************************)
(* The order engine of cpp/src/engine.cpp: session-scoped orders, the      *)
(* live index the fill sweep walks, the per-session entry counter, the     *)
(* exogenous top of book, and the four calls the server makes on it        *)
(* (on_new, on_cancel, on_book, end_session).  The engine runs on one      *)
(* thread and finishes each call before the next, so a call is one step;   *)
(* `out` is the batch of messages that call returned.                      *)
(*                                                                         *)
(* A batch is a set: every message carries what orders it (fills their     *)
(* exec id), and a call returns no message twice.  A call that runs out of *)
(* memory leaves by an exception; the two Throws actions are those exits.  *)
(***************************************************************************)
EXTENDS Integers, FiniteSets

CONSTANTS
  Sessions,      \* session keys; the server passes the connection epoch
  ClIds,         \* client order ids, numbered in the order std::map keeps them
  Offers,        \* the bodies of NewOrder the clients may send
  Tops,          \* the top-of-book values the feed may publish
  MdSeqs,        \* the md_seq values a book may carry
  Symbol,        \* Instrument::symbol
  TickSize,      \* Instrument::tick_size
  LotSize,       \* Instrument::lot_size
  MaxOrderQty,   \* Instrument::max_order_qty
  MinPrice,      \* Instrument::min_price
  MaxPrice,      \* Instrument::max_price
  MaxLiveOrders, \* Instrument::max_live_orders
  MaxSessionEntries, \* max_session_entries_, the per-session retention cap
  MaxStale       \* bound of the model on stale_books_ignored_

(* The wire spells a side B or S; anything else is rejected.               *)
Sides == {"Bid", "Ask"}
WireSides == Sides \cup {"Other"}

ASSUME SetsAssumption ==
  /\ Sessions \subseteq Nat /\ IsFiniteSet(Sessions)
  /\ ClIds \subseteq Nat /\ IsFiniteSet(ClIds)
  /\ \A o \in Offers :
       o \in [sym : {Symbol} \cup {"other"}, side : WireSides, px : Int,
              qty : Int, postOnly : BOOLEAN]
  /\ Tops \subseteq [bidPx : Int, bidQty : Int, askPx : Int, askQty : Int]
  /\ MdSeqs \subseteq Nat
  /\ MaxStale \in Nat

(* What the constructor throws on (a non-positive tick or lot, a negative  *)
(* live cap, a non-positive quantity cap, an empty price range, a zero     *)
(* entry cap) never becomes an engine.                                     *)
ASSUME InstrumentAssumption ==
  /\ TickSize \in Nat \ {0}
  /\ LotSize \in Nat \ {0}
  /\ MaxLiveOrders \in Nat
  /\ MaxOrderQty \in Nat \ {0}
  /\ MinPrice \in Int /\ MaxPrice \in Int /\ MinPrice <= MaxPrice
  /\ MaxSessionEntries \in Nat \ {0}

VARIABLES
  orders,      \* orders_: (session, cl_id) -> Order, NoOrder where absent
  live,        \* live_bids_ and live_asks_: the keys each index refers to
  entries,     \* entries_by_session_, NoNode where the session has none
  book,        \* book_
  bookSeen,    \* book_seen_
  nextEngId,   \* next_eng_id_
  nextExecId,  \* next_exec_id_
  staleBooks,  \* stale_books_ignored_
  out,         \* the batch returned by the last call
  ended,       \* epochs the server has closed; an epoch never recurs
  asked,       \* history: the quantity accepted for a key
  traded,      \* history: the quantity of all fills reported for a key
  acked,       \* history: keys for which an OrderAck was returned
  closed       \* history: per key, the terminal reports returned

engineVars == <<orders, live, entries, book, bookSeen, nextEngId,
                nextExecId, staleBooks>>
historyVars == <<asked, traded, acked, closed>>
vars == <<engineVars, out, ended, historyVars>>

Keys == Sessions \X ClIds
NoNode == -1

(* Order: the record kept per key.  A Rejected tombstone means nothing but *)
(* its state.                                                              *)
Blank(st) == [st |-> st, side |-> "Bid", px |-> 0, leaves |-> 0, eng |-> 0]
NoOrder == Blank("Absent")
Tombstone == Blank("Rejected")
Terminal == {"Filled", "Cancelled", "Rejected"}

(* to_ticks and to_raw_px: storage is in ticks, the wire in raw units.     *)
ToTicks(raw) == raw \div TickSize
ToRawPx(ticks) == ticks * TickSize

Least(a, b) == IF a <= b THEN a ELSE b

(* session_range: the keys of one session in a container.                  *)
SessionRange(S, s) == {k \in S : k[1] = s}


LiveCount(s) == Cardinality(SessionRange(live["Bid"], s))
              + Cardinality(SessionRange(live["Ask"], s))

EntryCount(s) == IF entries[s] = NoNode THEN 0 ELSE entries[s]
EntryCapBreached(s) == EntryCount(s) >= MaxSessionEntries

(* A resting or entering order on `side` at raw price px meets the book b: *)
(* the opposite side is displayed (positive quantity and price) and at or  *)
(* through px.                                                             *)
OppQty(side, b) == IF side = "Bid" THEN b.askQty ELSE b.bidQty
OppPx(side, b) == IF side = "Bid" THEN b.askPx ELSE b.bidPx
Crosses(side, px, b) ==
  /\ OppQty(side, b) > 0
  /\ OppPx(side, b) > 0
  /\ IF side = "Bid" THEN OppPx(side, b) <= px ELSE OppPx(side, b) >= px

(* validate_order: the first failing check names the reject.               *)
Validate(o) ==
  CASE o.sym # Symbol -> "UnknownSymbol"
    [] o.sym = Symbol /\ o.side \notin Sides -> "BadSide"
    [] OTHER ->
       IF o.px % TickSize # 0 THEN "TickSize"
       ELSE IF o.qty % LotSize # 0 THEN "LotSize"
       ELSE IF o.qty <= 0 \/ o.qty > MaxOrderQty THEN "QtyLimit"
       ELSE IF o.px < MinPrice \/ o.px > MaxPrice THEN "PriceRange"
       ELSE "Valid"

(* The check order of on_new; "Accept" when no check fails.                *)
Verdict(s, cl, o) ==
  IF orders[<<s, cl>>].st # "Absent" THEN "DupClOrdId"
  ELSE IF Validate(o) # "Valid" THEN Validate(o)
  ELSE IF LiveCount(s) >= MaxLiveOrders THEN "MaxLiveOrders"
  ELSE IF o.postOnly /\ Crosses(o.side, o.px, book) THEN "PostOnlyCross"
  ELSE "Accept"

Accepted(o) == [st |-> "Live", side |-> o.side, px |-> ToTicks(o.px),
                leaves |-> o.qty, eng |-> nextEngId]

(* The messages a call returns.                                            *)
AckMsg(k, eng) == [type |-> "OrderAck", key |-> k, eng |-> eng]
CancelAckMsg(k) == [type |-> "CancelAck", key |-> k, eng |-> orders[k].eng]
RejectMsg(k, code) == [type |-> "Reject", key |-> k, code |-> code]

------------------------------------------------------------------------------
(* Mutant: a rollback that is forgotten.                                   *)
KeepInsert(m, k, inserted) == m

(* The order map a throw leaves behind: the catch block of on_new erases   *)
(* the node it had already emplaced.                                       *)
UndoInsert(m, k, inserted) == IF inserted THEN [m EXCEPT ![k] = NoOrder] ELSE m

(* undo_counter: erase the session's counter node if this call created it. *)
UndoCounter(e, s, isNew) == IF isNew THEN [e EXCEPT ![s] = NoNode] ELSE e

(* try_emplace(session, 0).                                                *)
ReserveCounter(s) == [entries EXCEPT ![s] = EntryCount(s)]
CountEntry(s) == [entries EXCEPT ![s] = EntryCount(s) + 1]

(* on_new, duplicate id: answered and nothing recorded.                    *)
RejectDuplicate(s, cl, o) ==
  /\ Verdict(s, cl, o) = "DupClOrdId"
  /\ out' = {RejectMsg(<<s, cl>>, "DupClOrdId")}
  /\ UNCHANGED <<engineVars, ended, historyVars>>

(* on_new, any other reject: a tombstone consumes the id for the session.  *)
RejectAndBury(s, cl, o) ==
  /\ Verdict(s, cl, o) \notin {"DupClOrdId", "Accept"}
  /\ out' = {RejectMsg(<<s, cl>>, Verdict(s, cl, o))}
  /\ orders' = [orders EXCEPT ![<<s, cl>>] = Tombstone]
  /\ entries' = CountEntry(s)
  /\ UNCHANGED <<live, book, bookSeen, nextEngId, nextExecId, staleBooks,
                 ended, historyVars>>

(* on_new, accept.                                                         *)
Accept(s, cl, o) ==
  LET k == <<s, cl>> IN
  /\ Verdict(s, cl, o) = "Accept"
  /\ out' = {AckMsg(k, nextEngId)}
  /\ orders' = [orders EXCEPT ![k] = Accepted(o)]
  /\ live' = [live EXCEPT ![o.side] = @ \cup {k}]
  /\ entries' = CountEntry(s)
  /\ nextEngId' = nextEngId + 1
  /\ asked' = [asked EXCEPT ![k] = o.qty]
  /\ acked' = acked \cup {k}
  /\ UNCHANGED <<book, bookSeen, nextExecId, staleBooks, ended, traded, closed>>

OnNew(s, cl, o) ==
  \/ RejectDuplicate(s, cl, o)
  \/ RejectAndBury(s, cl, o)
  \/ Accept(s, cl, o)

(* on_new leaving by an exception, after it reserved the counter node and, *)
(* on the accept path, possibly after the order entered orders_ (the live  *)
(* index insert failed).                                                   *)
OnNewThrows(s, cl, o) ==
  LET k == <<s, cl>> IN
  \E inserted \in BOOLEAN :
    /\ Verdict(s, cl, o) # "DupClOrdId"
    /\ inserted => Verdict(s, cl, o) = "Accept"
    /\ orders' = UndoInsert(
                   IF inserted THEN [orders EXCEPT ![k] = Accepted(o)] ELSE orders,
                   k, inserted)
    /\ entries' = UndoCounter(ReserveCounter(s), s, entries[s] = NoNode)
    /\ out' = {}
    /\ UNCHANGED <<live, book, bookSeen, nextEngId, nextExecId, staleBooks,
                   ended, historyVars>>

------------------------------------------------------------------------------
(* on_cancel of an unknown or terminal id: answered, nothing changed.      *)
RejectCancel(s, cl) ==
  LET st == orders[<<s, cl>>].st IN
  /\ st # "Live"
  /\ out' = {RejectMsg(<<s, cl>>, IF st = "Absent" THEN "UnknownClOrdId"
                                  ELSE "AlreadyTerminal")}
  /\ UNCHANGED <<engineVars, ended, historyVars>>

(* Mutant: cancels whatever is known, without looking at its state.        *)
CancelKnown(s, cl) ==
  LET k == <<s, cl>> IN
  /\ orders[k].st # "Absent"
  /\ out' = {CancelAckMsg(k)}
  /\ orders' = [orders EXCEPT ![k].st = "Cancelled"]
  /\ live' = [live EXCEPT ![orders[k].side] = @ \ {k}]
  /\ closed' = [closed EXCEPT ![k] = @ + 1]
  /\ UNCHANGED <<entries, book, bookSeen, nextEngId, nextExecId, staleBooks,
                 ended, asked, traded, acked>>

(* on_cancel of a live order.                                              *)
CancelLive(s, cl) ==
  LET k == <<s, cl>> IN
  /\ orders[k].st = "Live"
  /\ out' = {CancelAckMsg(k)}
  /\ orders' = [orders EXCEPT ![k].st = "Cancelled"]
  /\ live' = [live EXCEPT ![orders[k].side] = @ \ {k}]
  /\ closed' = [closed EXCEPT ![k] = @ + 1]
  /\ UNCHANGED <<entries, book, bookSeen, nextEngId, nextExecId, staleBooks,
                 ended, asked, traded, acked>>

OnCancel(s, cl) == RejectCancel(s, cl) \/ CancelLive(s, cl)

------------------------------------------------------------------------------
(* The sweep of on_book: the orders of the live indexes that meet b, and   *)
(* the position of each in the walk, bids before asks and then key order.  *)
Hit(b) == {k \in live["Bid"] : Crosses("Bid", ToRawPx(orders[k].px), b)}
     \cup {k \in live["Ask"] : Crosses("Ask", ToRawPx(orders[k].px), b)}

KeyLess(j, k) == j[1] < k[1] \/ (j[1] = k[1] /\ j[2] < k[2])
SweptBefore(j, k) ==
  \/ orders[j].side = "Bid" /\ orders[k].side = "Ask"
  \/ orders[j].side = orders[k].side /\ KeyLess(j, k)

FillQty(k, b) == Least(orders[k].leaves, OppQty(orders[k].side, b))
LeavesAfter(k, b) == orders[k].leaves - FillQty(k, b)
ExecId(k, b) == nextExecId + Cardinality({j \in Hit(b) : SweptBefore(j, k)})

FillMsg(k, b) ==
  [type |-> "Fill", key |-> k, eng |-> orders[k].eng,
   px |-> ToRawPx(orders[k].px), qty |-> FillQty(k, b),
   leaves |-> LeavesAfter(k, b), exec |-> ExecId(k, b)]

(* Mutant: a redelivered book passes the guard.                            *)
IsStaleIfOlder(b) == bookSeen /\ b.seq < book.seq

(* The md_seq guard: only a first book or a newer one is evaluated.        *)
IsStale(b) == bookSeen /\ b.seq <= book.seq

(* on_book of a redelivered or rewound book.                               *)
IgnoreStaleBook(b) ==
  /\ IsStale(b)
  /\ staleBooks < MaxStale
  /\ staleBooks' = staleBooks + 1
  /\ out' = {}
  /\ UNCHANGED <<orders, live, entries, book, bookSeen, nextEngId, nextExecId,
                 ended, historyVars>>

(* Mutant: a completed order stays Live.                                   *)
ApplyFillKeepsState(k, b) == [orders[k] EXCEPT !.leaves = LeavesAfter(k, b)]

(* The commit of a staged fill: a completed order turns terminal.          *)
ApplyFill(k, b) ==
  [orders[k] EXCEPT !.leaves = LeavesAfter(k, b),
                    !.st = IF LeavesAfter(k, b) = 0 THEN "Filled" ELSE @]

(* on_book of a new book: the whole batch of fills, then the commit.       *)
SweepBook(b) ==
  LET hit == Hit(b)
      done == {k \in hit : LeavesAfter(k, b) = 0}
  IN
  /\ ~IsStale(b)
  /\ out' = {FillMsg(k, b) : k \in hit}
  /\ bookSeen' = TRUE
  /\ book' = b
  /\ nextExecId' = nextExecId + Cardinality(hit)
  /\ orders' = [k \in Keys |-> IF k \in hit THEN ApplyFill(k, b) ELSE orders[k]]
  /\ live' = [side \in Sides |-> live[side] \ done]
  /\ traded' = [k \in Keys |-> IF k \in hit THEN traded[k] + FillQty(k, b)
                               ELSE traded[k]]
  /\ closed' = [k \in Keys |-> IF k \in done THEN closed[k] + 1 ELSE closed[k]]
  /\ UNCHANGED <<entries, nextEngId, staleBooks, ended, asked, acked>>

OnBook(b) == IgnoreStaleBook(b) \/ SweepBook(b)

------------------------------------------------------------------------------
(* end_session: acknowledge the session's live orders, then reap its index *)
(* entries, its orders and its counter.                                    *)
EndSession(s) ==
  LET liveOf == {k \in SessionRange(Keys, s) : orders[k].st = "Live"} IN
  /\ out' = {CancelAckMsg(k) : k \in liveOf}
  /\ live' = [side \in Sides |-> live[side] \ SessionRange(live[side], s)]
  /\ orders' = [k \in Keys |-> IF k[1] = s THEN NoOrder ELSE orders[k]]
  /\ entries' = [entries EXCEPT ![s] = NoNode]
  /\ ended' = ended \cup {s}
  /\ closed' = [k \in Keys |-> IF k \in liveOf THEN closed[k] + 1 ELSE closed[k]]
  /\ UNCHANGED <<book, bookSeen, nextEngId, nextExecId, staleBooks, asked,
                 traded, acked>>

(* on_cancel, on_book and end_session build their whole batch before they  *)
(* touch the engine: when an allocation of the batch fails, the call       *)
(* returns nothing and has changed nothing.                                *)
StagingThrows ==
  /\ out' = {}
  /\ UNCHANGED <<engineVars, ended, historyVars>>

------------------------------------------------------------------------------
EmptyBook == [bidPx |-> 0, bidQty |-> 0, askPx |-> 0, askQty |-> 0, seq |-> 0]

Init ==
  /\ orders = [k \in Keys |-> NoOrder]
  /\ live = [side \in Sides |-> {}]
  /\ entries = [s \in Sessions |-> NoNode]
  /\ book = EmptyBook
  /\ bookSeen = FALSE
  /\ nextEngId = 1
  /\ nextExecId = 1
  /\ staleBooks = 0
  /\ out = {}
  /\ ended = {}
  /\ asked = [k \in Keys |-> 0]
  /\ traded = [k \in Keys |-> 0]
  /\ acked = {}
  /\ closed = [k \in Keys |-> 0]

BookOf(t, seq) == [bidPx |-> t.bidPx, bidQty |-> t.bidQty, askPx |-> t.askPx,
                   askQty |-> t.askQty, seq |-> seq]

Next ==
  \/ \E s \in Sessions \ ended, cl \in ClIds, o \in Offers : OnNew(s, cl, o)
  \/ \E s \in Sessions \ ended, cl \in ClIds, o \in Offers : OnNewThrows(s, cl, o)
  \/ \E s \in Sessions \ ended, cl \in ClIds : OnCancel(s, cl)
  \/ \E t \in Tops, seq \in MdSeqs : OnBook(BookOf(t, seq))
  \/ \E s \in Sessions \ ended : EndSession(s)
  \/ StagingThrows

Spec == Init /\ [][Next]_vars

------------------------------------------------------------------------------
OrderRecords == [st : {"Absent", "Live"} \cup Terminal, side : Sides, px : Int,
                 leaves : Nat, eng : Nat]
BookRecords == [bidPx : Int, bidQty : Int, askPx : Int, askQty : Int, seq : Nat]

(* Every variable of the engine has its type.                              *)
TypeOK ==
  /\ orders \in [Keys -> OrderRecords]
  /\ live \in [Sides -> SUBSET Keys]
  /\ entries \in [Sessions -> Nat \cup {NoNode}]
  /\ book \in BookRecords
  /\ bookSeen \in BOOLEAN
  /\ nextEngId \in Nat \ {0}
  /\ nextExecId \in Nat \ {0}
  /\ staleBooks \in 0 .. MaxStale
  /\ ended \in SUBSET Sessions
  /\ asked \in [Keys -> Nat]
  /\ traded \in [Keys -> Nat]
  /\ acked \in SUBSET Keys
  /\ closed \in [Keys -> Nat]

(* The two views of an order never diverge: live_bids_ and live_asks_ hold *)
(* exactly the orders of orders_ that are Live on that side, whatever      *)
(* sequence of accepts, cancels, fills, session ends and failed            *)
(* allocations came before.                                                *)
LiveIndexExact ==
  \A side \in Sides :
    live[side] = {k \in Keys : orders[k].st = "Live" /\ orders[k].side = side}

(* No session ever has more than max_live_orders resting orders, counted   *)
(* in the authoritative map rather than in the index the check reads.      *)
LiveCapHeld ==
  \A s \in Sessions :
    Cardinality({k \in SessionRange(Keys, s) : orders[k].st = "Live"})
      <= MaxLiveOrders

(* entries_by_session_ counts exactly the ids retained for the session     *)
(* (tombstones included), and has no node for a session that retains none: *)
(* the retention cap the server closes on is never early or late.          *)
EntriesExact ==
  \A s \in Sessions :
    LET kept == {k \in SessionRange(Keys, s) : orders[k].st # "Absent"} IN
    entries[s] = IF kept = {} THEN NoNode ELSE Cardinality(kept)

(* The order map, the live indexes and the counters agree in every state,  *)
(* an allocation that fails half way through a commit included, and the    *)
(* caps read from them hold of the orders themselves.                      *)
WellFormed == TypeOK /\ LiveIndexExact /\ LiveCapHeld /\ EntriesExact

(* Quantity is conserved: what an accepted order asked for is what it has  *)
(* traded plus what it leaves; an order is Live exactly while something is *)
(* left to trade and Filled exactly when nothing is.                       *)
QuantityConserved ==
  \A k \in Keys :
    /\ orders[k].st \in {"Live", "Filled", "Cancelled"}
         => asked[k] = traded[k] + orders[k].leaves
    /\ orders[k].st = "Live" => orders[k].leaves > 0
    /\ orders[k].st = "Filled" => orders[k].leaves = 0
    /\ orders[k].st = "Rejected" => traded[k] = 0

(* An accepted order gets exactly one terminal report in its life (a       *)
(* CancelAck, or the fill that completes it, or the CancelAck of its       *)
(* session's end), never none and never two, even where a call throws.     *)
TerminalReportOnce ==
  \A k \in Keys :
    closed[k] = IF k \in acked /\ orders[k].st # "Live" THEN 1 ELSE 0

(* Terminal states are absorbing: a terminal order never changes again     *)
(* while its session lives; it disappears only with the whole session.     *)
TerminalAbsorbing ==
  [][ \A k \in Keys :
        orders[k].st \in Terminal =>
          \/ orders'[k] = orders[k]
          \/ k[1] \in ended' \ ended
             /\ \A j \in SessionRange(Keys, k[1]) : orders'[j] = NoOrder ]_vars

(* A book is evaluated at most once: an order trades only in a step that   *)
(* installs a first or a strictly newer book, and never more than that     *)
(* book displays on the opposite side.                                     *)
OneSweepPerBook ==
  [][ \A k \in Keys :
        traded'[k] # traded[k] =>
          /\ bookSeen => book'.seq > book.seq
          /\ traded'[k] - traded[k] <= OppQty(orders[k].side, book')
          /\ orders[k].st = "Live" ]_vars

(* No step takes an order off its life: only a newer book trades it, only  *)
(* while it is Live, and nothing but the end of its session touches it     *)
(* once it is terminal (the guards of on_book, on_new and on_cancel).      *)
OrderLife == TerminalAbsorbing /\ OneSweepPerBook
------------------------------------------------------------------------------
(* What session s sees of the engine.                                      *)
ViewOf(s) ==
  [cl \in ClIds |-> LET st == orders[<<s, cl>>].st IN
                    IF st = "Absent" THEN "Free"
                    ELSE IF st = "Live" THEN "Live" ELSE "Done"]
BatchOf(s) == {<<m.type, m.key[2]>> : m \in {x \in out : x.key[1] = s}}

Contract(s) == INSTANCE EngineContract WITH
  Ids <- ClIds, MaxLive <- MaxLiveOrders,
  view <- ViewOf(s), batch <- BatchOf(s), over <- (s \in ended)

(* Whatever the other sessions and the book do, each session sees an       *)
(* engine that keeps the contract: one report per command and per fill,    *)
(* for the order it is about, and none after the session has ended.        *)
ImplementsContract ==
  /\ \A s \in Sessions : Contract(s)!Init
  /\ [][ \A s \in Sessions : Contract(s)!Next ]_vars
==============================================================================
