-------------------------- MODULE OrderEngineProofs --------------------------
(***************************************************************************)
(* Theorems about OrderEngine for every instrument, every set of sessions, *)
(* order ids, offers and books.  The inductive invariant is Inv: the type, *)
(* the agreement of the live index with the order map, conservation of     *)
(* quantity, the report history, and what ties the history to the map.     *)
(***************************************************************************)
EXTENDS OrderEngine, FiniteSetTheorems, TLAPS

(* What the history says of a key whose record says less: an absent key of *)
(* an open session has no history, a tombstone was never acknowledged, a   *)
(* resting or done order was, and an ended session keeps no order.         *)
HistoryTied ==
  \A k \in Keys :
    /\ k[1] \in ended => orders[k] = NoOrder
    /\ (orders[k].st = "Absent" /\ k[1] \notin ended)
         => k \notin acked /\ traded[k] = 0
    /\ orders[k].st = "Rejected" => k \notin acked
    /\ orders[k].st \in {"Live", "Filled", "Cancelled"} => k \in acked

(* An absent key has nothing but its absence.                              *)
BlankWhenAbsent == \A k \in Keys : orders[k].st = "Absent" => orders[k] = NoOrder

Inv ==
  /\ TypeOK
  /\ LiveIndexExact
  /\ QuantityConserved
  /\ TerminalReportOnce
  /\ HistoryTied
  /\ BlankWhenAbsent

------------------------------------------------------------------------------
(* Facts about the operators.                                              *)

(* There are finitely many order keys, so every set of keys has a size.    *)
LEMMA KeysFinite ==
  /\ IsFiniteSet(Keys)
  /\ \A S \in SUBSET Keys : IsFiniteSet(S) /\ Cardinality(S) \in Nat
<1>1. IsFiniteSet(Keys)
  BY SetsAssumption, FS_Product DEF Keys
<1>2. ASSUME NEW S \in SUBSET Keys
      PROVE  IsFiniteSet(S) /\ Cardinality(S) \in Nat
  BY <1>1, FS_Subset, FS_CardinalityType
<1>3. QED  BY <1>1, <1>2

(* A book built from a top of the feed and an md_seq is a book.            *)
LEMMA BookOfType ==
  ASSUME NEW t \in Tops, NEW seq \in MdSeqs
  PROVE  BookOf(t, seq) \in BookRecords
BY SetsAssumption DEF BookOf, BookRecords

(* What validate_order lets through has a real side and a quantity of at   *)
(* least one.                                                              *)
LEMMA ValidOffer ==
  ASSUME NEW o \in Offers, Validate(o) = "Valid"
  PROVE  /\ o.side \in Sides
         /\ o.px \in Int
         /\ o.qty \in Nat \ {0}
<1>1. o \in [sym : {Symbol} \cup {"other"}, side : WireSides, px : Int,
             qty : Int, postOnly : BOOLEAN]
  BY SetsAssumption
<1>2. /\ o.sym = Symbol /\ o.side \in Sides
      /\ ~(o.qty <= 0 \/ o.qty > MaxOrderQty)
  BY DEF Validate
<1>3. QED  BY <1>1, <1>2

(* An accepted offer becomes a well-formed live record.                    *)
LEMMA AcceptedType ==
  ASSUME TypeOK, NEW s \in Sessions, NEW cl \in ClIds, NEW o \in Offers,
         Verdict(s, cl, o) = "Accept"
  PROVE  /\ Accepted(o) \in OrderRecords
         /\ Accepted(o).st = "Live"
         /\ Accepted(o).side = o.side
         /\ Accepted(o).leaves = o.qty
         /\ o.side \in Sides
         /\ o.qty \in Nat \ {0}
         /\ orders[<<s, cl>>].st = "Absent"
<1>1. Validate(o) = "Valid" /\ orders[<<s, cl>>].st = "Absent"
  BY DEF Verdict, Validate
<1>2. /\ o.side \in Sides
      /\ o.px \in Int
      /\ o.qty \in Nat \ {0}
  BY <1>1, ValidOffer
<1>3. ToTicks(o.px) \in Int
  BY <1>2, InstrumentAssumption DEF ToTicks
<1>4. QED
  BY <1>1, <1>2, <1>3 DEF Accepted, OrderRecords, TypeOK

(* The orders a sweep hits are live keys of their own side, and what a     *)
(* fill takes is positive, bounded by the order and by the display.        *)
LEMMA HitFacts ==
  ASSUME TypeOK, LiveIndexExact, QuantityConserved, NEW b \in BookRecords
  PROVE  /\ Hit(b) \in SUBSET Keys
         /\ \A k \in Hit(b) :
              /\ k \in Keys
              /\ orders[k].st = "Live"
              /\ FillQty(k, b) \in Nat \ {0}
              /\ FillQty(k, b) <= OppQty(orders[k].side, b)
              /\ LeavesAfter(k, b) \in Nat
              /\ FillQty(k, b) + LeavesAfter(k, b) = orders[k].leaves
<1>1. Hit(b) \in SUBSET Keys
  BY DEF Hit, TypeOK, Sides
<1>2. ASSUME NEW k \in Hit(b)
      PROVE  /\ k \in Keys
             /\ orders[k].st = "Live"
             /\ OppQty(orders[k].side, b) \in Nat \ {0}
             /\ orders[k].leaves \in Nat \ {0}
  <2>1. k \in Keys
    BY <1>1
  <2>2. /\ orders[k].st = "Live"
        /\ OppQty(orders[k].side, b) > 0
    BY <2>1 DEF Hit, LiveIndexExact, Sides, Crosses
  <2>3. OppQty(orders[k].side, b) \in Int
    BY DEF OppQty, BookRecords
  <2>4. orders[k].leaves \in Nat /\ orders[k].leaves > 0
    BY <2>1, <2>2 DEF QuantityConserved, TypeOK, OrderRecords
  <2>5. QED  BY <2>1, <2>2, <2>3, <2>4
<1>3. QED
  BY <1>1, <1>2 DEF FillQty, LeavesAfter, Least

------------------------------------------------------------------------------
(* One lemma per action: the step preserves Inv.                           *)

(* The constructed engine satisfies the inductive invariant.               *)
LEMMA InitInv == Init => Inv
<1> SUFFICES ASSUME Init PROVE Inv
  OBVIOUS
<1>1. TypeOK
  <2>1. orders \in [Keys -> OrderRecords]
    BY DEF Init, NoOrder, Blank, OrderRecords, Sides
  <2>2. live \in [Sides -> SUBSET Keys] /\ entries \in [Sessions -> Nat \cup {NoNode}]
    BY DEF Init
  <2>3. book \in BookRecords
    BY DEF Init, EmptyBook, BookRecords
  <2>4. bookSeen \in BOOLEAN
    BY DEF Init
  <2>5. nextEngId \in Nat \ {0} /\ nextExecId \in Nat \ {0} /\ staleBooks \in 0 .. MaxStale
    BY SetsAssumption DEF Init
  <2>6. /\ ended \in SUBSET Sessions /\ acked \in SUBSET Keys
        /\ asked \in [Keys -> Nat] /\ traded \in [Keys -> Nat]
        /\ closed \in [Keys -> Nat]
    BY DEF Init
  <2>7. QED  BY <2>1, <2>2, <2>3, <2>4, <2>5, <2>6 DEF TypeOK
<1>2. LiveIndexExact
  BY DEF Init, LiveIndexExact, NoOrder, Blank, Sides
<1>3. QuantityConserved
  BY DEF Init, QuantityConserved, NoOrder, Blank
<1>4. TerminalReportOnce
  BY DEF Init, TerminalReportOnce
<1>5. HistoryTied
  BY DEF Init, HistoryTied, NoOrder, Blank
<1>6. BlankWhenAbsent
  BY DEF Init, BlankWhenAbsent
<1>7. QED  BY <1>1, <1>2, <1>3, <1>4, <1>5, <1>6 DEF Inv

(* on_new preserves the invariant when it rejects: a tombstone is counted. *)
LEMMA RejectAndBuryInv ==
  ASSUME Inv, NEW s \in Sessions \ ended, NEW cl \in ClIds, NEW o \in Offers,
         RejectAndBury(s, cl, o)
  PROVE  Inv'
<1> DEFINE k == <<s, cl>>
<1>0. k \in Keys /\ k[1] = s /\ orders[k].st = "Absent"
  BY DEF RejectAndBury, Verdict, Keys
<1>t. TypeOK  BY DEF Inv
<1>1. orders' = [orders EXCEPT ![k] = Tombstone]
  BY DEF RejectAndBury
<1>2. /\ orders'[k] = Tombstone
      /\ \A j \in Keys \ {k} : orders'[j] = orders[j]
  BY <1>0, <1>1, <1>t DEF TypeOK
<1> HIDE DEF k
<1>3. TypeOK'
  <2>1. orders' \in [Keys -> OrderRecords]
    BY <1>0, <1>1, <1>t DEF TypeOK, Tombstone, Blank, OrderRecords, Sides, Terminal
  <2>2. entries' \in [Sessions -> Nat \cup {NoNode}]
    BY <1>t DEF RejectAndBury, CountEntry, EntryCount, TypeOK, NoNode
  <2>3. QED
    BY <2>1, <2>2, <1>t DEF TypeOK, RejectAndBury, historyVars
<1>4. LiveIndexExact'
  BY <1>0, <1>2, <1>t DEF Inv, LiveIndexExact, RejectAndBury, Tombstone, Blank
<1>5. QuantityConserved'
  BY <1>0, <1>2 DEF Inv, QuantityConserved, HistoryTied, RejectAndBury, Tombstone,
     Blank, historyVars
<1>6. TerminalReportOnce'
  BY <1>0, <1>2 DEF Inv, TerminalReportOnce, RejectAndBury, Tombstone, Blank,
     historyVars
<1>7. HistoryTied'
  BY <1>0, <1>2 DEF Inv, HistoryTied, RejectAndBury, Tombstone, Blank, historyVars
<1>8. BlankWhenAbsent'
  BY <1>0, <1>2 DEF Inv, BlankWhenAbsent, Tombstone, Blank
<1>9. QED  BY <1>3, <1>4, <1>5, <1>6, <1>7, <1>8 DEF Inv

(* on_new preserves the invariant when it accepts: map, index and counter  *)
(* move together.                                                          *)
LEMMA AcceptInv ==
  ASSUME Inv, NEW s \in Sessions \ ended, NEW cl \in ClIds, NEW o \in Offers,
         Accept(s, cl, o)
  PROVE  Inv'
<1> DEFINE k == <<s, cl>>
<1>t. TypeOK  BY DEF Inv
<1>v. Verdict(s, cl, o) = "Accept"
  BY DEF Accept
<1>a. /\ Accepted(o) \in OrderRecords
      /\ Accepted(o).st = "Live"
      /\ Accepted(o).side = o.side
      /\ Accepted(o).leaves = o.qty
      /\ o.side \in Sides
      /\ o.qty \in Nat \ {0}
      /\ orders[k].st = "Absent"
  BY <1>t, <1>v, AcceptedType
<1>0. k \in Keys /\ k[1] = s /\ s \notin ended
  BY DEF Keys
<1>1. /\ orders' = [orders EXCEPT ![k] = Accepted(o)]
      /\ live' = [live EXCEPT ![o.side] = @ \cup {k}]
      /\ entries' = CountEntry(s)
      /\ nextEngId' = nextEngId + 1
      /\ asked' = [asked EXCEPT ![k] = o.qty]
      /\ acked' = acked \cup {k}
      /\ UNCHANGED <<book, bookSeen, nextExecId, staleBooks, ended, traded, closed>>
  BY DEF Accept
<1> HIDE DEF k
<1>2. /\ orders'[k] = Accepted(o)
      /\ \A j \in Keys \ {k} : orders'[j] = orders[j]
  BY <1>0, <1>1, <1>t DEF TypeOK
<1>3. TypeOK'
  <2>1. orders' \in [Keys -> OrderRecords]
    BY <1>0, <1>1, <1>a, <1>t DEF TypeOK
  <2>2. entries' \in [Sessions -> Nat \cup {NoNode}]
    BY <1>1, <1>t DEF CountEntry, EntryCount, TypeOK, NoNode
  <2>3. live' \in [Sides -> SUBSET Keys]
    BY <1>0, <1>1, <1>a, <1>t DEF TypeOK
  <2>4. asked' \in [Keys -> Nat] /\ acked' \in SUBSET Keys
    BY <1>0, <1>1, <1>a, <1>t DEF TypeOK
  <2>5. nextEngId' \in Nat \ {0}
    BY <1>1, <1>t DEF TypeOK
  <2>6. QED
    BY <2>1, <2>2, <2>3, <2>4, <2>5, <1>1, <1>t DEF TypeOK
<1>4. LiveIndexExact'
  <2> SUFFICES ASSUME NEW side \in Sides
               PROVE  live'[side] = {j \in Keys : orders'[j].st = "Live"
                                                  /\ orders'[j].side = side}
    BY DEF LiveIndexExact
  <2>1. live[side] = {j \in Keys : orders[j].st = "Live" /\ orders[j].side = side}
    BY DEF Inv, LiveIndexExact
  <2>2. live'[side] = IF side = o.side THEN live[side] \cup {k} ELSE live[side]
    BY <1>1, <1>a, <1>t DEF TypeOK
  <2>3. QED  BY <2>1, <2>2, <1>0, <1>2, <1>a
<1>5. QuantityConserved'
  <2>1. /\ asked'[k] = o.qty
        /\ \A j \in Keys \ {k} : asked'[j] = asked[j]
    BY <1>0, <1>1, <1>t DEF TypeOK
  <2>2. traded[k] = 0
    BY <1>0, <1>a DEF Inv, HistoryTied
  <2>3. QED
    BY <2>1, <2>2, <1>0, <1>1, <1>2, <1>a DEF Inv, QuantityConserved
<1>6. TerminalReportOnce'
  <2>1. closed[k] = 0
    BY <1>0, <1>a DEF Inv, HistoryTied, TerminalReportOnce
  <2>2. QED
    BY <2>1, <1>0, <1>1, <1>2, <1>a DEF Inv, TerminalReportOnce
<1>7. HistoryTied'
  BY <1>0, <1>1, <1>2, <1>a DEF Inv, HistoryTied
<1>8. BlankWhenAbsent'
  BY <1>0, <1>2, <1>a DEF Inv, BlankWhenAbsent
<1>9. QED  BY <1>3, <1>4, <1>5, <1>6, <1>7, <1>8 DEF Inv

(* A failed on_new leaves exactly the state it found: the order node and   *)
(* the counter node it had created are both gone.                          *)
LEMMA ThrowRestores ==
  ASSUME TypeOK, NEW s \in Sessions, NEW cl \in ClIds, NEW o \in Offers,
         orders[<<s, cl>>].st = "Absent" => orders[<<s, cl>>] = NoOrder,
         OnNewThrows(s, cl, o)
  PROVE  UNCHANGED <<engineVars, ended, historyVars>>
<1> DEFINE k == <<s, cl>>
<1>0. k \in Keys
  BY DEF Keys
<1>1. PICK inserted \in BOOLEAN :
        /\ Verdict(s, cl, o) # "DupClOrdId"
        /\ orders' = UndoInsert(
             IF inserted THEN [orders EXCEPT ![k] = Accepted(o)] ELSE orders,
             k, inserted)
        /\ entries' = UndoCounter(ReserveCounter(s), s, entries[s] = NoNode)
        /\ UNCHANGED <<live, book, bookSeen, nextEngId, nextExecId, staleBooks,
                       ended, historyVars>>
  BY DEF OnNewThrows
<1>2. orders[k] = NoOrder
  BY <1>1 DEF Verdict
<1> HIDE DEF k
<1>3. orders' = orders
  <2>1. CASE inserted
    <3>1. orders' = [[orders EXCEPT ![k] = Accepted(o)] EXCEPT ![k] = NoOrder]
      BY <1>1, <2>1 DEF UndoInsert
    <3>2. QED  BY <3>1, <1>0, <1>2 DEF TypeOK
  <2>2. CASE ~inserted
    BY <2>2, <1>1 DEF UndoInsert
  <2>3. QED  BY <2>1, <2>2
<1>4. entries' = entries
  <2>1. entries \in [Sessions -> Nat \cup {NoNode}]
    BY DEF TypeOK
  <2>2. QED
    BY <2>1, <1>1 DEF UndoCounter, ReserveCounter, EntryCount
<1>5. QED
  BY <1>1, <1>3, <1>4 DEF engineVars

(* on_cancel of a live order preserves the invariant.                      *)
LEMMA CancelLiveInv ==
  ASSUME Inv, NEW s \in Sessions \ ended, NEW cl \in ClIds, CancelLive(s, cl)
  PROVE  Inv'
<1> DEFINE k == <<s, cl>>
<1>t. TypeOK  BY DEF Inv
<1>0. k \in Keys /\ k[1] = s /\ orders[k].st = "Live" /\ orders[k] \in OrderRecords
  BY <1>t DEF Keys, CancelLive, TypeOK
<1>1. /\ orders' = [orders EXCEPT ![k].st = "Cancelled"]
      /\ live' = [live EXCEPT ![orders[k].side] = @ \ {k}]
      /\ closed' = [closed EXCEPT ![k] = @ + 1]
      /\ UNCHANGED <<entries, book, bookSeen, nextEngId, nextExecId, staleBooks,
                     ended, asked, traded, acked>>
  BY DEF CancelLive
<1> HIDE DEF k
<1>2. /\ orders'[k] = [orders[k] EXCEPT !.st = "Cancelled"]
      /\ \A j \in Keys \ {k} : orders'[j] = orders[j]
  BY <1>0, <1>1, <1>t DEF TypeOK
<1>3. /\ orders'[k] \in OrderRecords
      /\ orders'[k].st = "Cancelled"
      /\ orders'[k].side = orders[k].side
      /\ orders'[k].leaves = orders[k].leaves
  BY <1>0, <1>2 DEF OrderRecords, Terminal
<1>4. TypeOK'
  <2>1. orders' \in [Keys -> OrderRecords]
    BY <1>0, <1>1, <1>2, <1>3, <1>t DEF TypeOK
  <2>2. live' \in [Sides -> SUBSET Keys]
    BY <1>0, <1>1, <1>t DEF TypeOK, OrderRecords
  <2>3. closed' \in [Keys -> Nat]
    BY <1>0, <1>1, <1>t DEF TypeOK
  <2>4. QED  BY <2>1, <2>2, <2>3, <1>1, <1>t DEF TypeOK
<1>5. LiveIndexExact'
  <2> SUFFICES ASSUME NEW side \in Sides
               PROVE  live'[side] = {j \in Keys : orders'[j].st = "Live"
                                                  /\ orders'[j].side = side}
    BY DEF LiveIndexExact
  <2>1. live[side] = {j \in Keys : orders[j].st = "Live" /\ orders[j].side = side}
    BY DEF Inv, LiveIndexExact
  <2>2. live'[side] = IF side = orders[k].side THEN live[side] \ {k} ELSE live[side]
    BY <1>0, <1>1, <1>t DEF TypeOK, OrderRecords
  <2>3. ASSUME NEW j \in Keys
        PROVE  j \in live'[side] <=> (orders'[j].st = "Live" /\ orders'[j].side = side)
    <3>1. CASE j = k
      BY <3>1, <2>1, <2>2, <1>0, <1>3
    <3>2. CASE j # k
      BY <3>2, <2>1, <2>2, <1>2
    <3>3. QED  BY <3>1, <3>2
  <2>4. live'[side] \subseteq Keys
    BY <2>1, <2>2
  <2>5. QED  BY <2>3, <2>4
<1>6. QuantityConserved'
  BY <1>0, <1>1, <1>2, <1>3 DEF Inv, QuantityConserved
<1>7. TerminalReportOnce'
  <2>1. closed[k] = 0 /\ k \in acked
    BY <1>0 DEF Inv, HistoryTied, TerminalReportOnce
  <2>2. /\ closed'[k] = 1
        /\ \A j \in Keys \ {k} : closed'[j] = closed[j]
    BY <2>1, <1>0, <1>1, <1>t DEF TypeOK
  <2>3. QED
    BY <2>1, <2>2, <1>0, <1>1, <1>2, <1>3 DEF Inv, TerminalReportOnce
<1>8. HistoryTied'
  BY <1>0, <1>1, <1>2, <1>3 DEF Inv, HistoryTied
<1>9. BlankWhenAbsent'
  BY <1>0, <1>2, <1>3 DEF Inv, BlankWhenAbsent
<1>10. QED  BY <1>4, <1>5, <1>6, <1>7, <1>8, <1>9 DEF Inv

(* on_book preserves the invariant: a completed order leaves the index in  *)
(* the step that turns it Filled.                                          *)
LEMMA SweepBookInv ==
  ASSUME Inv, NEW b \in BookRecords, SweepBook(b)
  PROVE  Inv'
<1> DEFINE hit == Hit(b)
           done == {k \in hit : LeavesAfter(k, b) = 0}
<1>t. TypeOK  BY DEF Inv
<1>0. /\ hit \in SUBSET Keys
      /\ \A k \in hit :
           /\ k \in Keys
           /\ orders[k].st = "Live"
           /\ FillQty(k, b) \in Nat \ {0}
           /\ LeavesAfter(k, b) \in Nat
           /\ FillQty(k, b) + LeavesAfter(k, b) = orders[k].leaves
  BY HitFacts DEF Inv
<1>1. /\ bookSeen' = TRUE
      /\ book' = b
      /\ nextExecId' = nextExecId + Cardinality(hit)
      /\ orders' = [k \in Keys |-> IF k \in hit THEN ApplyFill(k, b) ELSE orders[k]]
      /\ live' = [side \in Sides |-> live[side] \ done]
      /\ traded' = [k \in Keys |-> IF k \in hit THEN traded[k] + FillQty(k, b)
                                   ELSE traded[k]]
      /\ closed' = [k \in Keys |-> IF k \in done THEN closed[k] + 1 ELSE closed[k]]
      /\ UNCHANGED <<entries, nextEngId, staleBooks, ended, asked, acked>>
  BY DEF SweepBook
<1>2. Cardinality(hit) \in Nat
  BY <1>0, KeysFinite
<1>3. ASSUME NEW k \in hit
      PROVE  /\ orders'[k] \in OrderRecords
             /\ orders'[k].st = IF k \in done THEN "Filled" ELSE "Live"
             /\ orders'[k].side = orders[k].side
             /\ orders'[k].leaves = LeavesAfter(k, b)
  <2>1. k \in Keys /\ orders[k] \in OrderRecords /\ orders[k].st = "Live"
        /\ LeavesAfter(k, b) \in Nat
    BY <1>0, <1>t DEF TypeOK
  <2>2. orders'[k] = ApplyFill(k, b)
    BY <2>1, <1>1
  <2>3. QED
    BY <2>1, <2>2 DEF ApplyFill, OrderRecords, Terminal
<1>4. \A k \in Keys \ hit : orders'[k] = orders[k]
  BY <1>1
<1> HIDE DEF hit, done
<1>d. done \in SUBSET hit /\ \A k \in hit : k \in done <=> LeavesAfter(k, b) = 0
  BY DEF done
<1>5. TypeOK'
  <2>1. orders' \in [Keys -> OrderRecords]
    BY <1>1, <1>3, <1>4, <1>t DEF TypeOK
  <2>2. live' \in [Sides -> SUBSET Keys]
    BY <1>1, <1>t DEF TypeOK
  <2>3. traded' \in [Keys -> Nat]
    BY <1>0, <1>1, <1>t DEF TypeOK
  <2>4. closed' \in [Keys -> Nat]
    BY <1>1, <1>t DEF TypeOK
  <2>5. nextExecId' \in Nat \ {0}
    BY <1>1, <1>2, <1>t DEF TypeOK
  <2>6. QED
    BY <2>1, <2>2, <2>3, <2>4, <2>5, <1>1, <1>t DEF TypeOK
<1>6. LiveIndexExact'
  <2> SUFFICES ASSUME NEW side \in Sides
               PROVE  live'[side] = {j \in Keys : orders'[j].st = "Live"
                                                  /\ orders'[j].side = side}
    BY DEF LiveIndexExact
  <2>1. live[side] = {j \in Keys : orders[j].st = "Live" /\ orders[j].side = side}
    BY DEF Inv, LiveIndexExact
  <2>2. live'[side] = live[side] \ done
    BY <1>1
  <2>3. QED  BY <2>1, <2>2, <1>0, <1>3, <1>4, <1>d
<1>7. QuantityConserved'
  <2> SUFFICES ASSUME NEW k \in Keys
               PROVE  /\ orders'[k].st \in {"Live", "Filled", "Cancelled"}
                           => asked'[k] = traded'[k] + orders'[k].leaves
                      /\ orders'[k].st = "Live" => orders'[k].leaves > 0
                      /\ orders'[k].st = "Filled" => orders'[k].leaves = 0
                      /\ orders'[k].st = "Rejected" => traded'[k] = 0
    BY DEF QuantityConserved
  <2>1. CASE k \in hit
    <3>1. asked[k] = traded[k] + orders[k].leaves
      BY <2>1, <1>0 DEF Inv, QuantityConserved
    <3>2. asked'[k] = asked[k] /\ traded'[k] = traded[k] + FillQty(k, b)
      BY <2>1, <1>1
    <3>3. traded[k] \in Nat
      BY <1>t DEF TypeOK
    <3>4. asked'[k] = traded'[k] + orders'[k].leaves
      BY <3>1, <3>2, <3>3, <2>1, <1>0, <1>3
    <3>5. QED  BY <3>4, <2>1, <1>0, <1>3, <1>d
  <2>2. CASE k \notin hit
    <3>1. orders'[k] = orders[k] /\ traded'[k] = traded[k] /\ asked'[k] = asked[k]
      BY <2>2, <1>1, <1>4
    <3>2. QED  BY <3>1 DEF Inv, QuantityConserved
  <2>3. QED  BY <2>1, <2>2
<1>8. TerminalReportOnce'
  <2> SUFFICES ASSUME NEW k \in Keys
               PROVE  closed'[k] = IF k \in acked' /\ orders'[k].st # "Live"
                                   THEN 1 ELSE 0
    BY DEF TerminalReportOnce
  <2>1. closed[k] = IF k \in acked /\ orders[k].st # "Live" THEN 1 ELSE 0
    BY DEF Inv, TerminalReportOnce
  <2>2. closed'[k] = IF k \in done THEN closed[k] + 1 ELSE closed[k]
    BY <1>1
  <2>3. CASE k \in hit
    <3>1. k \in acked /\ acked' = acked
      BY <2>3, <1>0, <1>1 DEF Inv, HistoryTied
    <3>2. QED  BY <3>1, <2>1, <2>2, <2>3, <1>0, <1>3
  <2>4. CASE k \notin hit
    BY <2>1, <2>2, <2>4, <1>1, <1>4, <1>d
  <2>5. QED  BY <2>3, <2>4
<1>9. HistoryTied'
  <2> SUFFICES ASSUME NEW k \in Keys
               PROVE  /\ k[1] \in ended' => orders'[k] = NoOrder
                      /\ (orders'[k].st = "Absent" /\ k[1] \notin ended')
                           => k \notin acked' /\ traded'[k] = 0
                      /\ orders'[k].st = "Rejected" => k \notin acked'
                      /\ orders'[k].st \in {"Live", "Filled", "Cancelled"}
                           => k \in acked'
    BY DEF HistoryTied
  <2>1. ended' = ended /\ acked' = acked
    BY <1>1
  <2>2. CASE k \in hit
    <3>1. k \in acked /\ k[1] \notin ended
      BY <2>2, <1>0 DEF Inv, HistoryTied, NoOrder, Blank
    <3>2. QED  BY <3>1, <2>1, <2>2, <1>3
  <2>3. CASE k \notin hit
    <3>1. orders'[k] = orders[k] /\ traded'[k] = traded[k]
      BY <2>3, <1>1, <1>4
    <3>2. QED  BY <3>1, <2>1 DEF Inv, HistoryTied
  <2>4. QED  BY <2>2, <2>3
<1>10. BlankWhenAbsent'
  BY <1>3, <1>4 DEF Inv, BlankWhenAbsent
<1>11. QED  BY <1>5, <1>6, <1>7, <1>8, <1>9, <1>10 DEF Inv

(* end_session preserves the invariant: map, indexes and counter lose the  *)
(* session together.                                                       *)
LEMMA EndSessionInv ==
  ASSUME Inv, NEW s \in Sessions \ ended, EndSession(s)
  PROVE  Inv'
<1> DEFINE liveOf == {k \in SessionRange(Keys, s) : orders[k].st = "Live"}
<1>t. TypeOK  BY DEF Inv
<1>1. /\ live' = [side \in Sides |-> live[side] \ SessionRange(live[side], s)]
      /\ orders' = [k \in Keys |-> IF k[1] = s THEN NoOrder ELSE orders[k]]
      /\ entries' = [entries EXCEPT ![s] = NoNode]
      /\ ended' = ended \cup {s}
      /\ closed' = [k \in Keys |-> IF k \in liveOf THEN closed[k] + 1 ELSE closed[k]]
      /\ UNCHANGED <<book, bookSeen, nextEngId, nextExecId, staleBooks, asked,
                     traded, acked>>
  BY DEF EndSession
<1>2. \A k \in Keys : k \in liveOf <=> (k[1] = s /\ orders[k].st = "Live")
  BY DEF SessionRange
<1> HIDE DEF liveOf
<1>3. NoOrder \in OrderRecords /\ NoOrder.st = "Absent"
  BY DEF NoOrder, Blank, OrderRecords, Sides
<1>4. TypeOK'
  <2>1. orders' \in [Keys -> OrderRecords]
    BY <1>1, <1>3, <1>t DEF TypeOK
  <2>2. live' \in [Sides -> SUBSET Keys]
    BY <1>1, <1>t DEF TypeOK
  <2>3. entries' \in [Sessions -> Nat \cup {NoNode}]
    BY <1>1, <1>t DEF TypeOK
  <2>4. closed' \in [Keys -> Nat]
    BY <1>1, <1>t DEF TypeOK
  <2>5. QED  BY <2>1, <2>2, <2>3, <2>4, <1>1, <1>t DEF TypeOK
<1>5. LiveIndexExact'
  <2> SUFFICES ASSUME NEW side \in Sides
               PROVE  live'[side] = {j \in Keys : orders'[j].st = "Live"
                                                  /\ orders'[j].side = side}
    BY DEF LiveIndexExact
  <2>1. live[side] = {j \in Keys : orders[j].st = "Live" /\ orders[j].side = side}
    BY DEF Inv, LiveIndexExact
  <2>2. live'[side] = {j \in live[side] : j[1] # s}
    BY <1>1 DEF SessionRange
  <2>3. QED  BY <2>1, <2>2, <1>1, <1>3
<1>6. QuantityConserved'
  BY <1>1, <1>3 DEF Inv, QuantityConserved
<1>7. TerminalReportOnce'
  <2> SUFFICES ASSUME NEW k \in Keys
               PROVE  closed'[k] = IF k \in acked' /\ orders'[k].st # "Live"
                                   THEN 1 ELSE 0
    BY DEF TerminalReportOnce
  <2>1. closed[k] = IF k \in acked /\ orders[k].st # "Live" THEN 1 ELSE 0
    BY DEF Inv, TerminalReportOnce
  <2>2. orders[k].st = "Live" => k \in acked
    BY DEF Inv, HistoryTied
  <2>3. QED  BY <2>1, <2>2, <1>1, <1>2, <1>3
<1>8. HistoryTied'
  <2> SUFFICES ASSUME NEW k \in Keys
               PROVE  /\ k[1] \in ended' => orders'[k] = NoOrder
                      /\ (orders'[k].st = "Absent" /\ k[1] \notin ended')
                           => k \notin acked' /\ traded'[k] = 0
                      /\ orders'[k].st = "Rejected" => k \notin acked'
                      /\ orders'[k].st \in {"Live", "Filled", "Cancelled"}
                           => k \in acked'
    BY DEF HistoryTied
  <2>1. QED  BY <1>1, <1>3 DEF Inv, HistoryTied
<1>9. BlankWhenAbsent'
  BY <1>1 DEF Inv, BlankWhenAbsent
<1>10. QED  BY <1>4, <1>5, <1>6, <1>7, <1>8, <1>9 DEF Inv

(* A step that changes neither the engine nor the history preserves Inv.   *)
LEMMA IdleInv ==
  ASSUME Inv, UNCHANGED <<engineVars, ended, historyVars>>
  PROVE  Inv'
BY DEF Inv, engineVars, historyVars, TypeOK, LiveIndexExact, QuantityConserved,
   TerminalReportOnce, HistoryTied, BlankWhenAbsent

------------------------------------------------------------------------------
(* Every call of the engine, and every call that throws, preserves the     *)
(* invariant.                                                              *)
LEMMA NextInv == Inv /\ [Next]_vars => Inv'
<1> SUFFICES ASSUME Inv, [Next]_vars PROVE Inv'
  OBVIOUS
<1>1. CASE \E s \in Sessions \ ended, cl \in ClIds, o \in Offers : OnNew(s, cl, o)
  <2>1. PICK s \in Sessions \ ended, cl \in ClIds, o \in Offers : OnNew(s, cl, o)
    BY <1>1
  <2>2. CASE RejectDuplicate(s, cl, o)
    BY <2>2, IdleInv DEF RejectDuplicate
  <2>3. CASE RejectAndBury(s, cl, o)
    BY <2>3, RejectAndBuryInv
  <2>4. CASE Accept(s, cl, o)
    BY <2>4, AcceptInv
  <2>5. QED  BY <2>1, <2>2, <2>3, <2>4 DEF OnNew
<1>2. CASE \E s \in Sessions \ ended, cl \in ClIds, o \in Offers : OnNewThrows(s, cl, o)
  <2>1. PICK s \in Sessions \ ended, cl \in ClIds, o \in Offers : OnNewThrows(s, cl, o)
    BY <1>2
  <2>2. orders[<<s, cl>>].st = "Absent" => orders[<<s, cl>>] = NoOrder
    BY DEF Inv, BlankWhenAbsent, Keys
  <2>3. QED  BY <2>1, <2>2, ThrowRestores, IdleInv DEF Inv
<1>3. CASE \E s \in Sessions \ ended, cl \in ClIds : OnCancel(s, cl)
  <2>1. PICK s \in Sessions \ ended, cl \in ClIds : OnCancel(s, cl)
    BY <1>3
  <2>2. CASE RejectCancel(s, cl)
    BY <2>2, IdleInv DEF RejectCancel
  <2>3. CASE CancelLive(s, cl)
    BY <2>3, CancelLiveInv
  <2>4. QED  BY <2>1, <2>2, <2>3 DEF OnCancel
<1>4. CASE \E t \in Tops, seq \in MdSeqs : OnBook(BookOf(t, seq))
  <2>1. PICK t \in Tops, seq \in MdSeqs : OnBook(BookOf(t, seq))
    BY <1>4
  <2>2. CASE IgnoreStaleBook(BookOf(t, seq))
    BY <2>2, SetsAssumption
    DEF Inv, IgnoreStaleBook, historyVars, TypeOK, LiveIndexExact, QuantityConserved,
        TerminalReportOnce, HistoryTied, BlankWhenAbsent
  <2>3. CASE SweepBook(BookOf(t, seq))
    BY <2>3, BookOfType, SweepBookInv
  <2>4. QED  BY <2>1, <2>2, <2>3 DEF OnBook
<1>5. CASE \E s \in Sessions \ ended : EndSession(s)
  BY <1>5, EndSessionInv
<1>6. CASE StagingThrows
  BY <1>6, IdleInv DEF StagingThrows
<1>7. CASE UNCHANGED vars
  BY <1>7, IdleInv DEF vars
<1>8. QED
  BY <1>1, <1>2, <1>3, <1>4, <1>5, <1>6, <1>7 DEF Next

(* The engine's inductive invariant holds in every reachable state.        *)
THEOREM InvHolds == Spec => []Inv
BY InitInv, NextInv, PTL DEF Spec

(* Type correctness of the engine, for every instrument and client.        *)
THEOREM TypeCorrect == Spec => []TypeOK
<1>1. Inv => TypeOK  BY DEF Inv
<1>2. QED  BY <1>1, InvHolds, PTL

(* The live index of engine.cpp agrees with the order map in every         *)
(* reachable state, throwing calls included.                               *)
THEOREM LiveIndexAgrees == Spec => []LiveIndexExact
<1>1. Inv => LiveIndexExact  BY DEF Inv
<1>2. QED  BY <1>1, InvHolds, PTL

(* Asked quantity is traded plus leaves, for every order at every time.    *)
THEOREM QuantityIsConserved == Spec => []QuantityConserved
<1>1. Inv => QuantityConserved  BY DEF Inv
<1>2. QED  BY <1>1, InvHolds, PTL

(* Every accepted order gets exactly one terminal report.                  *)
THEOREM OneTerminalReport == Spec => []TerminalReportOnce
<1>1. Inv => TerminalReportOnce  BY DEF Inv
<1>2. QED  BY <1>1, InvHolds, PTL

------------------------------------------------------------------------------
(* The caps: how many orders a session has live, and how many ids it has   *)
(* consumed.                                                               *)
LiveOf(s) == {k \in SessionRange(Keys, s) : orders[k].st = "Live"}
KeptOf(s) == {k \in SessionRange(Keys, s) : orders[k].st # "Absent"}

(* The count the cap check reads from the two indexes is the number of     *)
(* live orders in the map.                                                 *)
LEMMA LiveCountIsLive ==
  ASSUME Inv, NEW s \in Sessions
  PROVE  LiveCount(s) = Cardinality(LiveOf(s))
<1> DEFINE B == SessionRange(live["Bid"], s)
           A == SessionRange(live["Ask"], s)
<1>1. /\ B = {k \in Keys : k[1] = s /\ orders[k].st = "Live" /\ orders[k].side = "Bid"}
      /\ A = {k \in Keys : k[1] = s /\ orders[k].st = "Live" /\ orders[k].side = "Ask"}
  BY DEF Inv, LiveIndexExact, SessionRange, Sides
<1>2. B \cap A = {}
  BY <1>1
<1>3. B \cup A = LiveOf(s)
  BY <1>1 DEF Inv, TypeOK, OrderRecords, Sides, LiveOf, SessionRange
<1>4. /\ IsFiniteSet(B) /\ Cardinality(B) \in Nat
      /\ IsFiniteSet(A) /\ Cardinality(A) \in Nat
  BY <1>1, KeysFinite
<1>5. Cardinality(B \cap A) = 0
  BY <1>2, FS_EmptySet
<1> HIDE DEF A, B
<1>6. Cardinality(B \cup A) = Cardinality(B) + Cardinality(A)
  <2>1. Cardinality(B \cup A) = Cardinality(B) + Cardinality(A) - Cardinality(B \cap A)
    BY <1>4, FS_Union, Zenon
  <2>2. QED  BY <2>1, <1>4, <1>5
<1>7. QED  BY <1>3, <1>6 DEF LiveCount, A, B

(* Only an accept adds a live order to a session, only on_new adds a kept  *)
(* id, and only the session's end removes one.                             *)
LEMMA SetsOfStep ==
  ASSUME Inv, [Next]_vars, NEW r \in Sessions
  PROVE  /\ \/ LiveOf(r)' \subseteq LiveOf(r)
            \/ \E k \in Keys : /\ LiveOf(r)' = LiveOf(r) \cup {k}
                                /\ LiveCount(r) < MaxLiveOrders
         /\ \/ KeptOf(r)' = KeptOf(r) /\ entries'[r] = entries[r]
            \/ KeptOf(r)' = {} /\ entries'[r] = NoNode
            \/ \E k \in Keys : /\ k \notin KeptOf(r)
                                /\ KeptOf(r)' = KeptOf(r) \cup {k}
                                /\ entries'[r] = EntryCount(r) + 1
<1>t. TypeOK  BY DEF Inv
<1>i. ASSUME UNCHANGED <<engineVars, ended, historyVars>>
      PROVE  LiveOf(r)' = LiveOf(r) /\ KeptOf(r)' = KeptOf(r) /\ entries'[r] = entries[r]
  BY <1>i DEF LiveOf, KeptOf, engineVars
<1>1. CASE \E s \in Sessions \ ended, cl \in ClIds, o \in Offers : OnNew(s, cl, o)
  <2>1. PICK s \in Sessions \ ended, cl \in ClIds, o \in Offers : OnNew(s, cl, o)
    BY <1>1
  <2> DEFINE k == <<s, cl>>
  <2>k. k \in Keys /\ k[1] = s
    BY DEF Keys
  <2>2. CASE RejectDuplicate(s, cl, o)
    BY <2>2, <1>i DEF RejectDuplicate
  <2>3. ASSUME orders[k].st = "Absent",
               NEW rec, rec.st # "Absent",
               orders' = [orders EXCEPT ![k] = rec],
               entries' = CountEntry(s)
        PROVE  \/ KeptOf(r)' = KeptOf(r) /\ entries'[r] = entries[r]
               \/ \E j \in Keys : /\ j \notin KeptOf(r)
                                   /\ KeptOf(r)' = KeptOf(r) \cup {j}
                                   /\ entries'[r] = EntryCount(r) + 1
    <3> HIDE DEF k
    <3>1. orders'[k] = rec /\ \A j \in Keys \ {k} : orders'[j] = orders[j]
      BY <2>3, <2>k, <1>t DEF TypeOK
    <3>2. CASE r = s
      <4>1. k \notin KeptOf(r)
        BY <2>3 DEF KeptOf
      <4>2. KeptOf(r)' = KeptOf(r) \cup {k}
        BY <3>1, <3>2, <2>3, <2>k DEF KeptOf, SessionRange
      <4>3. entries'[r] = EntryCount(r) + 1
        BY <3>2, <2>3, <1>t DEF CountEntry, TypeOK
      <4>4. QED  BY <4>1, <4>2, <4>3, <2>k
    <3>3. CASE r # s
      <4>1. KeptOf(r)' = KeptOf(r)
        BY <3>1, <3>3, <2>k DEF KeptOf, SessionRange
      <4>2. entries'[r] = entries[r]
        BY <3>3, <2>3, <1>t DEF CountEntry, TypeOK
      <4>3. QED  BY <4>1, <4>2
    <3>4. QED  BY <3>2, <3>3
  <2>4. CASE RejectAndBury(s, cl, o)
    <3>1. orders[k].st = "Absent" /\ Tombstone.st = "Rejected"
      BY <2>4 DEF RejectAndBury, Verdict, Tombstone, Blank
    <3>2. orders' = [orders EXCEPT ![k] = Tombstone] /\ entries' = CountEntry(s)
      BY <2>4 DEF RejectAndBury
    <3> HIDE DEF k
    <3>3. orders'[k] = Tombstone /\ \A j \in Keys \ {k} : orders'[j] = orders[j]
      BY <3>2, <2>k, <1>t DEF TypeOK
    <3>4. LiveOf(r)' \subseteq LiveOf(r)
      BY <3>1, <3>3 DEF LiveOf, SessionRange
    <3>5. QED  BY <3>1, <3>2, <3>4, <2>3 DEF k
  <2>5. CASE Accept(s, cl, o)
    <3>1. orders[k].st = "Absent" /\ Accepted(o).st = "Live"
      BY <2>5, <1>t, AcceptedType DEF Accept
    <3>2. orders' = [orders EXCEPT ![k] = Accepted(o)] /\ entries' = CountEntry(s)
      BY <2>5 DEF Accept
    <3>c. LiveCount(s) < MaxLiveOrders
      <4>1. ~(LiveCount(s) >= MaxLiveOrders)
        BY <2>5 DEF Accept, Verdict, Validate
      <4>2. LiveCount(s) \in Nat
        BY LiveCountIsLive, KeysFinite DEF LiveOf, SessionRange
      <4>3. QED  BY <4>1, <4>2, InstrumentAssumption
    <3> HIDE DEF k
    <3>3. orders'[k] = Accepted(o) /\ \A j \in Keys \ {k} : orders'[j] = orders[j]
      BY <3>2, <2>k, <1>t DEF TypeOK
    <3>4. r # s => LiveOf(r)' \subseteq LiveOf(r)
      BY <3>3, <2>k DEF LiveOf, SessionRange
    <3>5. r = s => LiveOf(r)' = LiveOf(r) \cup {k}
      BY <3>1, <3>3, <2>k DEF LiveOf, SessionRange
    <3>6. QED  BY <3>1, <3>2, <3>4, <3>5, <3>c, <2>k, <2>3 DEF k
  <2>6. QED  BY <2>1, <2>2, <2>4, <2>5 DEF OnNew
<1>2. CASE \E s \in Sessions \ ended, cl \in ClIds, o \in Offers : OnNewThrows(s, cl, o)
  <2>1. PICK s \in Sessions \ ended, cl \in ClIds, o \in Offers : OnNewThrows(s, cl, o)
    BY <1>2
  <2>2. orders[<<s, cl>>].st = "Absent" => orders[<<s, cl>>] = NoOrder
    BY DEF Inv, BlankWhenAbsent, Keys
  <2>3. QED  BY <2>1, <2>2, <1>t, <1>i, ThrowRestores
<1>3. CASE \E s \in Sessions \ ended, cl \in ClIds : OnCancel(s, cl)
  <2>1. PICK s \in Sessions \ ended, cl \in ClIds : OnCancel(s, cl)
    BY <1>3
  <2> DEFINE k == <<s, cl>>
  <2>2. CASE RejectCancel(s, cl)
    BY <2>2, <1>i DEF RejectCancel
  <2>3. CASE CancelLive(s, cl)
    <3>0. k \in Keys /\ orders[k].st = "Live" /\ orders[k] \in OrderRecords
      BY <2>3, <1>t DEF CancelLive, Keys, TypeOK
    <3>1. orders' = [orders EXCEPT ![k].st = "Cancelled"] /\ entries' = entries
      BY <2>3 DEF CancelLive
    <3> HIDE DEF k
    <3>2. /\ orders'[k].st = "Cancelled"
          /\ \A j \in Keys \ {k} : orders'[j] = orders[j]
      BY <3>0, <3>1, <1>t DEF TypeOK, OrderRecords
    <3>3. LiveOf(r)' \subseteq LiveOf(r)
      BY <3>0, <3>2 DEF LiveOf, SessionRange
    <3>4. KeptOf(r)' = KeptOf(r)
      BY <3>0, <3>2 DEF KeptOf, SessionRange
    <3>5. QED  BY <3>1, <3>3, <3>4
  <2>4. QED  BY <2>1, <2>2, <2>3 DEF OnCancel
<1>4. CASE \E t \in Tops, seq \in MdSeqs : OnBook(BookOf(t, seq))
  <2>1. PICK t \in Tops, seq \in MdSeqs : OnBook(BookOf(t, seq))
    BY <1>4
  <2> DEFINE b == BookOf(t, seq)
  <2>2. CASE IgnoreStaleBook(b)
    BY <2>2 DEF IgnoreStaleBook, LiveOf, KeptOf
  <2>3. CASE SweepBook(b)
    <3>0. b \in BookRecords
      BY BookOfType
    <3> HIDE DEF b
    <3>1. /\ orders' = [k \in Keys |-> IF k \in Hit(b) THEN ApplyFill(k, b) ELSE orders[k]]
          /\ entries' = entries
      BY <2>3 DEF SweepBook
    <3>2. ASSUME NEW k \in Keys
          PROVE  /\ orders'[k].st = "Live" => orders[k].st = "Live"
                 /\ orders'[k].st = "Absent" <=> orders[k].st = "Absent"
      <4>1. CASE k \in Hit(b)
        <5>1. orders[k].st = "Live" /\ orders[k] \in OrderRecords
          BY <4>1, <3>0, <1>t, HitFacts DEF Inv, TypeOK
        <5>2. orders'[k] = ApplyFill(k, b)
          BY <4>1, <3>1
        <5>3. orders'[k].st \in {"Filled", "Live"}
          BY <5>1, <5>2 DEF ApplyFill, OrderRecords
        <5>4. QED  BY <5>1, <5>3
      <4>2. CASE k \notin Hit(b)
        BY <4>2, <3>1
      <4>3. QED  BY <4>1, <4>2
    <3>3. LiveOf(r)' \subseteq LiveOf(r) /\ KeptOf(r)' = KeptOf(r)
      BY <3>2 DEF LiveOf, KeptOf, SessionRange
    <3>4. QED  BY <3>1, <3>3
  <2>4. QED  BY <2>1, <2>2, <2>3 DEF OnBook
<1>5. CASE \E s \in Sessions \ ended : EndSession(s)
  <2>1. PICK s \in Sessions \ ended : EndSession(s)
    BY <1>5
  <2>2. /\ orders' = [k \in Keys |-> IF k[1] = s THEN NoOrder ELSE orders[k]]
        /\ entries' = [entries EXCEPT ![s] = NoNode]
    BY <2>1 DEF EndSession
  <2>3. LiveOf(r)' \subseteq LiveOf(r)
    BY <2>2 DEF LiveOf, SessionRange, NoOrder, Blank
  <2>4. CASE r = s
    BY <2>2, <2>3, <2>4, <1>t DEF KeptOf, SessionRange, NoOrder, Blank, TypeOK
  <2>5. CASE r # s
    BY <2>2, <2>3, <2>5, <1>t DEF KeptOf, SessionRange, TypeOK
  <2>6. QED  BY <2>4, <2>5
<1>6. CASE StagingThrows
  BY <1>6, <1>i DEF StagingThrows
<1>7. CASE UNCHANGED vars
  BY <1>7, <1>i DEF vars
<1>8. QED
  BY <1>1, <1>2, <1>3, <1>4, <1>5, <1>6, <1>7 DEF Next

(* No session ever has more than max_live_orders live orders.              *)
THEOREM LiveCapIsHeld == Spec => []LiveCapHeld
<1>1. Init => LiveCapHeld
  <2> SUFFICES ASSUME Init, NEW s \in Sessions
               PROVE  Cardinality(LiveOf(s)) <= MaxLiveOrders
    BY DEF LiveCapHeld, LiveOf
  <2>1. LiveOf(s) = {}
    BY DEF Init, LiveOf, SessionRange, NoOrder, Blank
  <2>2. QED  BY <2>1, FS_EmptySet, InstrumentAssumption
<1>2. Inv /\ LiveCapHeld /\ [Next]_vars => LiveCapHeld'
  <2> SUFFICES ASSUME Inv, LiveCapHeld, [Next]_vars, NEW s \in Sessions
               PROVE  Cardinality(LiveOf(s)') <= MaxLiveOrders
    BY DEF LiveCapHeld, LiveOf
  <2>1. Cardinality(LiveOf(s)) <= MaxLiveOrders
    BY DEF LiveCapHeld, LiveOf
  <2>2. /\ IsFiniteSet(LiveOf(s))
        /\ Cardinality(LiveOf(s)) \in Nat
    BY KeysFinite DEF LiveOf, SessionRange
  <2>3. CASE LiveOf(s)' \subseteq LiveOf(s)
    <3>1. Cardinality(LiveOf(s)') <= Cardinality(LiveOf(s))
          /\ Cardinality(LiveOf(s)') \in Nat
      BY <2>2, <2>3, FS_Subset, FS_CardinalityType
    <3>2. QED  BY <3>1, <2>1, <2>2, InstrumentAssumption
  <2>4. CASE \E k \in Keys : /\ LiveOf(s)' = LiveOf(s) \cup {k}
                             /\ LiveCount(s) < MaxLiveOrders
    <3>1. PICK k \in Keys : LiveOf(s)' = LiveOf(s) \cup {k}
      BY <2>4
    <3>2. Cardinality(LiveOf(s)) < MaxLiveOrders
      BY <2>4, LiveCountIsLive
    <3>3. Cardinality(LiveOf(s) \cup {k}) \in
            {Cardinality(LiveOf(s)), Cardinality(LiveOf(s)) + 1}
      BY <2>2, FS_AddElement
    <3>4. QED  BY <3>1, <3>2, <3>3, <2>2, InstrumentAssumption
  <2>5. QED  BY <2>3, <2>4, SetsOfStep
<1>3. QED  BY <1>1, <1>2, InvHolds, PTL DEF Spec

(* The per-session entry counter is the number of ids the session has      *)
(* consumed, in every reachable state.                                     *)
THEOREM EntriesAreExact == Spec => []EntriesExact
<1>d. EntriesExact = \A s \in Sessions :
        entries[s] = IF KeptOf(s) = {} THEN NoNode ELSE Cardinality(KeptOf(s))
  BY DEF EntriesExact, KeptOf
<1>1. Init => EntriesExact
  <2>1. ASSUME Init, NEW s \in Sessions PROVE KeptOf(s) = {} /\ entries[s] = NoNode
    BY <2>1 DEF Init, KeptOf, SessionRange, NoOrder, Blank
  <2>2. QED  BY <2>1 DEF EntriesExact, KeptOf
<1>2. Inv /\ EntriesExact /\ [Next]_vars => EntriesExact'
  <2> SUFFICES ASSUME Inv, EntriesExact, [Next]_vars, NEW s \in Sessions
               PROVE  entries'[s] = IF KeptOf(s)' = {} THEN NoNode
                                    ELSE Cardinality(KeptOf(s)')
    BY DEF EntriesExact, KeptOf
  <2>1. entries[s] = IF KeptOf(s) = {} THEN NoNode ELSE Cardinality(KeptOf(s))
    BY <1>d
  <2>2. IsFiniteSet(KeptOf(s)) /\ Cardinality(KeptOf(s)) \in Nat
    BY KeysFinite DEF KeptOf, SessionRange
  <2>3. EntryCount(s) = Cardinality(KeptOf(s))
    <3>1. CASE KeptOf(s) = {}
      BY <3>1, <2>1, FS_EmptySet DEF EntryCount
    <3>2. CASE KeptOf(s) # {}
      BY <3>2, <2>1, <2>2 DEF EntryCount, NoNode
    <3>3. QED  BY <3>1, <3>2
  <2>4. CASE KeptOf(s)' = KeptOf(s) /\ entries'[s] = entries[s]
    BY <2>1, <2>4
  <2>5. CASE KeptOf(s)' = {} /\ entries'[s] = NoNode
    BY <2>5
  <2>6. CASE \E k \in Keys : /\ k \notin KeptOf(s)
                             /\ KeptOf(s)' = KeptOf(s) \cup {k}
                             /\ entries'[s] = EntryCount(s) + 1
    <3>1. PICK k \in Keys : /\ k \notin KeptOf(s)
                            /\ KeptOf(s)' = KeptOf(s) \cup {k}
                            /\ entries'[s] = EntryCount(s) + 1
      BY <2>6
    <3>2. Cardinality(KeptOf(s) \cup {k}) = Cardinality(KeptOf(s)) + 1
      BY <3>1, <2>2, FS_AddElement
    <3>3. QED  BY <3>1, <3>2, <2>3
  <2>7. QED  BY <2>4, <2>5, <2>6, SetsOfStep
<1>3. QED  BY <1>1, <1>2, InvHolds, PTL DEF Spec

------------------------------------------------------------------------------
(* Action properties.                                                      *)

(* A terminal order never changes again while its session lives, whatever  *)
(* calls follow and whether or not they throw.                             *)
THEOREM TerminalIsAbsorbing == Spec => TerminalAbsorbing
<1> DEFINE Stays(k) ==
      \/ orders'[k] = orders[k]
      \/ k[1] \in ended' \ ended
         /\ \A j \in SessionRange(Keys, k[1]) : orders'[j] = NoOrder
<1>1. ASSUME Inv, Next, NEW k \in Keys, orders[k].st \in Terminal
      PROVE  Stays(k)
  <2>t. TypeOK  BY <1>1 DEF Inv
  <2>i. orders' = orders => Stays(k)
    OBVIOUS
  <2>1. ASSUME NEW s \in Sessions \ ended, NEW cl \in ClIds, NEW o \in Offers,
               OnNew(s, cl, o)
        PROVE  Stays(k)
    <3>1. CASE RejectDuplicate(s, cl, o)
      BY <3>1, <2>i DEF RejectDuplicate, engineVars
    <3>2. CASE RejectAndBury(s, cl, o)
      <4>1. orders[<<s, cl>>].st = "Absent" /\ orders' = [orders EXCEPT ![<<s, cl>>] = Tombstone]
        BY <3>2 DEF RejectAndBury, Verdict
      <4>2. k # <<s, cl>>
        BY <4>1, <1>1 DEF Terminal
      <4>3. QED  BY <4>1, <4>2, <2>t DEF TypeOK
    <3>3. CASE Accept(s, cl, o)
      <4>1. orders[<<s, cl>>].st = "Absent" /\ orders' = [orders EXCEPT ![<<s, cl>>] = Accepted(o)]
        BY <3>3, <2>t, AcceptedType DEF Accept
      <4>2. k # <<s, cl>>
        BY <4>1, <1>1 DEF Terminal
      <4>3. QED  BY <4>1, <4>2, <2>t DEF TypeOK
    <3>4. QED  BY <2>1, <3>1, <3>2, <3>3 DEF OnNew
  <2>2. ASSUME NEW s \in Sessions \ ended, NEW cl \in ClIds, NEW o \in Offers,
               OnNewThrows(s, cl, o)
        PROVE  Stays(k)
    <3>1. orders[<<s, cl>>].st = "Absent" => orders[<<s, cl>>] = NoOrder
      BY <1>1 DEF Inv, BlankWhenAbsent, Keys
    <3>2. QED  BY <2>2, <3>1, <2>t, <2>i, ThrowRestores DEF engineVars
  <2>3. ASSUME NEW s \in Sessions \ ended, NEW cl \in ClIds, OnCancel(s, cl)
        PROVE  Stays(k)
    <3>1. CASE RejectCancel(s, cl)
      BY <3>1, <2>i DEF RejectCancel, engineVars
    <3>2. CASE CancelLive(s, cl)
      <4>1. orders[<<s, cl>>].st = "Live" /\ orders' = [orders EXCEPT ![<<s, cl>>].st = "Cancelled"]
        BY <3>2 DEF CancelLive
      <4>2. k # <<s, cl>>
        BY <4>1, <1>1 DEF Terminal
      <4>3. QED  BY <4>1, <4>2, <2>t DEF TypeOK
    <3>3. QED  BY <2>3, <3>1, <3>2 DEF OnCancel
  <2>4. ASSUME NEW t \in Tops, NEW seq \in MdSeqs, OnBook(BookOf(t, seq))
        PROVE  Stays(k)
    <3> DEFINE b == BookOf(t, seq)
    <3>0. b \in BookRecords
      BY BookOfType
    <3> HIDE DEF b
    <3>1. CASE IgnoreStaleBook(b)
      BY <3>1, <2>i DEF IgnoreStaleBook
    <3>2. CASE SweepBook(b)
      <4>1. k \notin Hit(b)
        BY <3>0, <1>1, HitFacts DEF Inv, Terminal
      <4>2. orders'[k] = orders[k]
        BY <3>2, <4>1, <1>1 DEF SweepBook
      <4>3. QED  BY <4>2
    <3>3. QED  BY <2>4, <3>1, <3>2 DEF OnBook, b
  <2>5. ASSUME NEW s \in Sessions \ ended, EndSession(s)
        PROVE  Stays(k)
    <3>1. /\ orders' = [j \in Keys |-> IF j[1] = s THEN NoOrder ELSE orders[j]]
          /\ ended' = ended \cup {s}
      BY <2>5 DEF EndSession
    <3>2. CASE k[1] = s
      BY <3>1, <3>2 DEF SessionRange
    <3>3. CASE k[1] # s
      BY <3>1, <3>3, <1>1
    <3>4. QED  BY <3>2, <3>3
  <2>6. StagingThrows => Stays(k)
    BY <2>i DEF StagingThrows, engineVars
  <2>7. QED
    BY <1>1, <2>1, <2>2, <2>3, <2>4, <2>5, <2>6 DEF Next
<1>2. Inv /\ [Next]_vars =>
        [\A k \in Keys : orders[k].st \in Terminal => Stays(k)]_vars
  BY <1>1
<1>3. QED  BY <1>2, InvHolds, PTL DEF Spec, TerminalAbsorbing

(* An order trades only in the one evaluation of a first or newer book,    *)
(* and never more than that book displays.                                 *)
THEOREM SweepIsOncePerBook == Spec => OneSweepPerBook
<1> DEFINE Fair(k) ==
      traded'[k] # traded[k] =>
        /\ bookSeen => book'.seq > book.seq
        /\ traded'[k] - traded[k] <= OppQty(orders[k].side, book')
        /\ orders[k].st = "Live"
<1>1. ASSUME Inv, Next, NEW k \in Keys PROVE Fair(k)
  <2>1. ASSUME NEW t \in Tops, NEW seq \in MdSeqs, OnBook(BookOf(t, seq))
        PROVE  Fair(k)
    <3> DEFINE b == BookOf(t, seq)
    <3>0. b \in BookRecords /\ b.seq \in Nat
      BY BookOfType DEF BookRecords
    <3> HIDE DEF b
    <3>1. CASE IgnoreStaleBook(b)
      BY <3>1 DEF IgnoreStaleBook, historyVars
    <3>2. CASE SweepBook(b)
      <4>1. /\ traded'[k] = IF k \in Hit(b) THEN traded[k] + FillQty(k, b) ELSE traded[k]
            /\ book' = b
            /\ ~(bookSeen /\ b.seq <= book.seq)
        BY <3>2, <1>1 DEF SweepBook, IsStale
      <4>2. CASE k \in Hit(b)
        <5>1. /\ orders[k].st = "Live"
              /\ FillQty(k, b) \in Nat
              /\ FillQty(k, b) <= OppQty(orders[k].side, b)
          BY <4>2, <3>0, <1>1, HitFacts DEF Inv
        <5>2. traded[k] \in Nat /\ book.seq \in Nat
          BY <1>1 DEF Inv, TypeOK, BookRecords
        <5>3. traded'[k] - traded[k] = FillQty(k, b)
          BY <4>1, <4>2, <5>1, <5>2
        <5>4. bookSeen => book'.seq > book.seq
          BY <4>1, <5>2, <3>0
        <5>5. QED  BY <5>1, <5>3, <5>4, <4>1
      <4>3. CASE k \notin Hit(b)
        BY <4>1, <4>3
      <4>4. QED  BY <4>2, <4>3
    <3>3. QED  BY <2>1, <3>1, <3>2 DEF OnBook, b
  <2>2. traded' = traded => Fair(k)
    OBVIOUS
  <2>3. QED
    BY <1>1, <2>1, <2>2, ZenonT(60)
    DEF Next, OnNew, RejectDuplicate, RejectAndBury, Accept, OnNewThrows, OnCancel,
        RejectCancel, CancelLive, EndSession, StagingThrows, historyVars
<1>2. Inv /\ [Next]_vars => [\A k \in Keys : Fair(k)]_vars
  BY <1>1
<1>3. QED  BY <1>2, InvHolds, PTL DEF Spec, OneSweepPerBook

(* The order map, the live indexes and the counters of engine.cpp agree,   *)
(* and the caps hold, for every instrument and whatever throws.            *)
THEOREM ContainersAgree == Spec => []WellFormed
<1>1. TypeOK /\ LiveIndexExact /\ LiveCapHeld /\ EntriesExact => WellFormed
  BY DEF WellFormed
<1>2. QED
  BY <1>1, TypeCorrect, LiveIndexAgrees, LiveCapIsHeld, EntriesAreExact, PTL

(* Only a newer book trades an order, and only while it is Live; only the  *)
(* end of its session touches a terminal one (on_book, on_new, on_cancel). *)
THEOREM OrdersKeepTheirLife == Spec => OrderLife
BY TerminalIsAbsorbing, SweepIsOncePerBook DEF OrderLife
------------------------------------------------------------------------------
(* Refinement: what a session sees of a step is a step of its contract.    *)

(* How the contract names the state of an order.                           *)
Seen(st) == IF st = "Absent" THEN "Free" ELSE IF st = "Live" THEN "Live" ELSE "Done"

(* A step that leaves a session its orders leaves it its view.             *)
LEMMA SameView ==
  ASSUME NEW r \in Sessions,
         \A cl \in ClIds : Seen(orders'[<<r, cl>>].st) = Seen(orders[<<r, cl>>].st)
  PROVE  ViewOf(r)' = ViewOf(r)
BY DEF ViewOf, Seen

(* A step that changes one order of a session changes its view there.      *)
LEMMA OneSeen ==
  ASSUME NEW r \in Sessions, NEW c \in ClIds,
         \A cl \in ClIds \ {c} : orders'[<<r, cl>>] = orders[<<r, cl>>]
  PROVE  ViewOf(r)' = [ViewOf(r) EXCEPT ![c] = Seen(orders'[<<r, c>>].st)]
<1>1. /\ ViewOf(r) = [cl \in ClIds |-> Seen(orders[<<r, cl>>].st)]
      /\ ViewOf(r)' = [cl \in ClIds |-> Seen(orders'[<<r, cl>>].st)]
  BY DEF ViewOf, Seen
<1>2. \A st : Seen(st) \in {"Free", "Live", "Done"}
  BY DEF Seen
<1>3. PICK v, w, e : v = ViewOf(r) /\ w = ViewOf(r)' /\ e = Seen(orders'[<<r, c>>].st)
  OBVIOUS
<1>4. /\ v \in [ClIds -> {"Free", "Live", "Done"}] /\ w \in [ClIds -> {"Free", "Live", "Done"}]
      /\ w[c] = e /\ \A cl \in ClIds \ {c} : w[cl] = v[cl]
  BY <1>1, <1>2, <1>3
<1>5. w = [v EXCEPT ![c] = e]
  BY <1>4
<1>6. QED  BY <1>3, <1>5

(* A batch of one message is for the session of its key.                   *)
LEMMA OneReport ==
  ASSUME NEW r \in Sessions, NEW m, out' = {m}
  PROVE  BatchOf(r)' = IF m.key[1] = r THEN {<<m.type, m.key[2]>>} ELSE {}
BY DEF BatchOf

(* A call that changes nothing for a session and tells it nothing.         *)
LEMMA ToldNothing ==
  ASSUME NEW r \in Sessions, BatchOf(r)' = {}, ViewOf(r)' = ViewOf(r),
         (r \in ended') <=> (r \in ended)
  PROVE  Contract(r)!Next
BY DEF Contract!Nothing, Contract!Next

(* The contract counts as the engine does.                                 *)
LEMMA SameCount ==
  ASSUME NEW r \in Sessions, NEW S
  PROVE  Contract(r)!Cardinality(S) = Cardinality(S)
BY DEF Contract!Cardinality, Cardinality

(* The live ids a session sees are as many as its live orders.             *)
LEMMA LiveSeen ==
  ASSUME TypeOK, NEW r \in Sessions
  PROVE  Cardinality(Contract(r)!LiveIds(ViewOf(r))) = Cardinality(LiveOf(r))
<1> DEFINE S == Contract(r)!LiveIds(ViewOf(r))
<1> DEFINE f == [k \in LiveOf(r) |-> k[2]]
<1>1. S = {cl \in ClIds : orders[<<r, cl>>].st = "Live"}
  BY DEF Contract!LiveIds, ViewOf
<1>2. \A k : k \in LiveOf(r) <=> k \in Keys /\ k[1] = r /\ orders[k].st = "Live"
  BY DEF LiveOf, SessionRange
<1>3. \A k \in LiveOf(r) : k[2] \in S /\ k = <<r, k[2]>>
  BY <1>1, <1>2 DEF Keys
<1>4. \A cl \in S : <<r, cl>> \in LiveOf(r) /\ f[<<r, cl>>] = cl
  BY <1>1, <1>2 DEF Keys
<1>5. f \in Bijection(LiveOf(r), S)
  <2>1. f \in [LiveOf(r) -> S]
    BY <1>3
  <2>2. \A j, k \in LiveOf(r) : f[j] = f[k] => j = k
    BY <1>3
  <2>3. \A cl \in S : \E k \in LiveOf(r) : f[k] = cl
    BY <1>4
  <2>4. QED  BY <2>1, <2>2, <2>3 DEF Bijection, Injection, Surjection, IsInjective
<1>6. IsFiniteSet(LiveOf(r))
  BY KeysFinite, <1>2
<1>7. ExistsBijection(LiveOf(r), S)
  BY <1>5 DEF ExistsBijection
<1>8. QED  BY <1>6, <1>7, FS_Bijection

(* on_new, as the session that calls it sees it.                           *)
LEMMA NewSeen ==
  ASSUME Inv, NEW r \in Sessions \ ended, NEW cl \in ClIds, NEW o \in Offers,
         OnNew(r, cl, o)
  PROVE  Contract(r)!New(cl)
<1> DEFINE k == <<r, cl>>
<1> DEFINE x == [orders |-> ViewOf(r)', batch |-> BatchOf(r)']
<1>t. TypeOK  BY DEF Inv
<1>0. /\ k \in Keys /\ k[1] = r /\ k[2] = cl
      /\ ViewOf(r)[cl] = Seen(orders[k].st)
  BY DEF Keys, ViewOf, Seen
<1>e. ended' = ended
  BY DEF OnNew, RejectDuplicate, RejectAndBury, Accept
<1>x. x \in Contract(r)!NewOutcomes(ViewOf(r), cl)
  <2>1. CASE RejectDuplicate(r, cl, o)
    <3>1. orders' = orders /\ orders[k].st # "Absent" /\ out' = {RejectMsg(k, "DupClOrdId")}
      BY <2>1 DEF RejectDuplicate, engineVars, Verdict, Validate
    <3>2. ViewOf(r)' = ViewOf(r) /\ ViewOf(r)[cl] # "Free"
      BY <3>1, <1>0, SameView DEF Seen
    <3>3. BatchOf(r)' = {<<"Reject", cl>>}
      BY <3>1, <1>0, OneReport DEF RejectMsg
    <3>4. QED  BY <3>2, <3>3 DEF Contract!NewOutcomes, Contract!Outcome
  <2>2. CASE RejectAndBury(r, cl, o)
    <3>1. /\ orders' = [orders EXCEPT ![k] = Tombstone] /\ orders[k].st = "Absent"
          /\ out' = {RejectMsg(k, Verdict(r, cl, o))}
      BY <2>2 DEF RejectAndBury, Verdict
    <3>2. orders'[k].st = "Rejected" /\ \A j \in Keys \ {k} : orders'[j] = orders[j]
      BY <3>1, <1>0, <1>t DEF TypeOK, Tombstone, Blank
    <3>3. ViewOf(r)' = [ViewOf(r) EXCEPT ![cl] = "Done"] /\ ViewOf(r)[cl] = "Free"
      BY <3>1, <3>2, <1>0, <1>t, OneSeen DEF Seen, Keys
    <3>4. BatchOf(r)' = {<<"Reject", cl>>}
      BY <3>1, <1>0, OneReport DEF RejectMsg
    <3>5. QED  BY <3>3, <3>4 DEF Contract!NewOutcomes, Contract!Outcome
  <2>3. CASE Accept(r, cl, o)
    <3>1. /\ orders' = [orders EXCEPT ![k] = Accepted(o)] /\ orders[k].st = "Absent"
          /\ Accepted(o).st = "Live"
          /\ out' = {AckMsg(k, nextEngId)}
      BY <2>3, <1>t, AcceptedType DEF Accept
    <3>2. orders'[k].st = "Live" /\ \A j \in Keys \ {k} : orders'[j] = orders[j]
      BY <3>1, <1>0, <1>t DEF TypeOK
    <3>3. ViewOf(r)' = [ViewOf(r) EXCEPT ![cl] = "Live"] /\ ViewOf(r)[cl] = "Free"
      BY <3>1, <3>2, <1>0, <1>t, OneSeen DEF Seen, Keys
    <3>4. BatchOf(r)' = {<<"OrderAck", cl>>}
      BY <3>1, <1>0, OneReport DEF AckMsg
    <3>5. Cardinality(Contract(r)!LiveIds(ViewOf(r))) < MaxLiveOrders
      <4>1. ~(LiveCount(r) >= MaxLiveOrders)
        BY <2>3 DEF Accept, Verdict, Validate
      <4>2. LiveCount(r) = Cardinality(LiveOf(r)) /\ LiveCount(r) \in Nat
        BY LiveCountIsLive, KeysFinite DEF LiveOf, SessionRange
      <4>3. QED  BY <4>1, <4>2, <1>t, LiveSeen, InstrumentAssumption
    <3>6. x = Contract(r)!Outcome([ViewOf(r) EXCEPT ![cl] = "Live"], {<<"OrderAck", cl>>})
      BY <3>3, <3>4 DEF Contract!Outcome
    <3> HIDE DEF x
    <3>7. PICK y : y = Contract(r)!Outcome([ViewOf(r) EXCEPT ![cl] = "Live"], {<<"OrderAck", cl>>})
      OBVIOUS
    <3>8. y \in Contract(r)!NewOutcomes(ViewOf(r), cl)
      <4>1. y \in {z \in {Contract(r)!Outcome([ViewOf(r) EXCEPT ![cl] = "Live"], {<<"OrderAck", cl>>})} :
                     Contract(r)!Cardinality(Contract(r)!LiveIds(ViewOf(r))) < MaxLiveOrders}
        BY <3>5, <3>7, SameCount
      <4>2. ViewOf(r)[cl] = "Free"
        BY <3>3
      <4>3. QED  BY <4>1, <4>2 DEF Contract!NewOutcomes
    <3>9. QED  BY <3>6, <3>7, <3>8
  <2>4. QED  BY <2>1, <2>2, <2>3 DEF OnNew
<1>y. Contract(r)!Call(x)
  BY <1>e DEF Contract!Call
<1>z. QED  BY <1>x, <1>y DEF Contract!New

(* on_cancel, as the session that calls it sees it.                        *)
LEMMA CancelSeen ==
  ASSUME Inv, NEW r \in Sessions \ ended, NEW cl \in ClIds, OnCancel(r, cl)
  PROVE  Contract(r)!Cancel(cl)
<1> DEFINE k == <<r, cl>>
<1>t. TypeOK  BY DEF Inv
<1>0. /\ k \in Keys /\ k[1] = r /\ k[2] = cl
      /\ ViewOf(r)[cl] = Seen(orders[k].st)
  BY DEF Keys, ViewOf, Seen
<1>e. ended' = ended
  BY DEF OnCancel, RejectCancel, CancelLive
<1>x. /\ ViewOf(r)' = Contract(r)!CancelOutcome(ViewOf(r), cl).orders
      /\ BatchOf(r)' = Contract(r)!CancelOutcome(ViewOf(r), cl).batch
  <2>1. CASE RejectCancel(r, cl)
    <3>1. PICK code : out' = {RejectMsg(k, code)}
      BY <2>1 DEF RejectCancel
    <3>2. orders' = orders /\ orders[k].st # "Live"
      BY <2>1 DEF RejectCancel, engineVars
    <3>3. ViewOf(r)' = ViewOf(r) /\ ViewOf(r)[cl] # "Live"
      BY <3>2, <1>0, SameView DEF Seen
    <3>4. BatchOf(r)' = {<<"Reject", cl>>}
      BY <3>1, <1>0, OneReport DEF RejectMsg
    <3>5. QED  BY <3>3, <3>4 DEF Contract!CancelOutcome, Contract!Outcome
  <2>2. CASE CancelLive(r, cl)
    <3>1. /\ orders' = [orders EXCEPT ![k].st = "Cancelled"] /\ orders[k].st = "Live"
          /\ out' = {CancelAckMsg(k)}
      BY <2>2 DEF CancelLive
    <3>2. orders'[k].st = "Cancelled" /\ \A j \in Keys \ {k} : orders'[j] = orders[j]
      BY <3>1, <1>0, <1>t DEF TypeOK, OrderRecords
    <3>3. ViewOf(r)' = [ViewOf(r) EXCEPT ![cl] = "Done"] /\ ViewOf(r)[cl] = "Live"
      BY <3>1, <3>2, <1>0, <1>t, OneSeen DEF Seen, Keys
    <3>4. BatchOf(r)' = {<<"CancelAck", cl>>}
      BY <3>1, <1>0, OneReport DEF CancelAckMsg
    <3>5. QED  BY <3>3, <3>4 DEF Contract!CancelOutcome, Contract!Outcome
  <2>3. QED  BY <2>1, <2>2 DEF OnCancel
<1>z. QED  BY <1>x, <1>e DEF Contract!Cancel, Contract!Call

(* on_new and on_cancel of another session, as a session sees them.        *)
LEMMA OtherSeen ==
  ASSUME Inv, NEW r \in Sessions, NEW s \in Sessions \ ended, s # r, NEW cl \in ClIds,
         OnCancel(s, cl) \/ \E o \in Offers : OnNew(s, cl, o)
  PROVE  Contract(r)!Next
<1> DEFINE k == <<s, cl>>
<1>t. TypeOK  BY DEF Inv
<1>0. k \in Keys /\ k[1] = s /\ \A c \in ClIds : <<r, c>> \in Keys /\ <<r, c>> # k
  BY DEF Keys
<1>m. /\ \A code : RejectMsg(k, code).key = k
      /\ \A eng : AckMsg(k, eng).key = k
      /\ CancelAckMsg(k).key = k
  BY DEF RejectMsg, AckMsg, CancelAckMsg
<1>1. ended' = ended /\ \E m : out' = {m} /\ m.key = k
  <2>1. CASE OnCancel(s, cl)
    BY <2>1, <1>m DEF OnCancel, RejectCancel, CancelLive
  <2>2. ASSUME NEW o \in Offers, OnNew(s, cl, o)
        PROVE  ended' = ended /\ \E m : out' = {m} /\ m.key = k
    BY <2>2, <1>m DEF OnNew, RejectDuplicate, RejectAndBury, Accept
  <2>3. QED  BY <2>1, <2>2
<1>2. \A j \in Keys \ {k} : orders'[j] = orders[j]
  BY <1>t DEF OnNew, RejectDuplicate, RejectAndBury, Accept, OnCancel, RejectCancel,
              CancelLive, engineVars, TypeOK
<1> HIDE DEF k
<1>3. BatchOf(r)' = {}
  BY <1>0, <1>1, OneReport
<1>4. ViewOf(r)' = ViewOf(r)
  BY <1>0, <1>2, SameView
<1>5. QED  BY <1>1, <1>3, <1>4, ToldNothing
(* on_book, as a session sees it: it fills some of the session's live      *)
(* orders, and ends some of those.                                         *)
LEMMA BookSeen ==
  ASSUME Inv, NEW r \in Sessions, NEW b \in BookRecords, SweepBook(b)
  PROVE  Contract(r)!Next
<1> DEFINE hit == {cl \in ClIds : <<r, cl>> \in Hit(b)}
<1> DEFINE done == {cl \in hit : LeavesAfter(<<r, cl>>, b) = 0}
<1>t. TypeOK  BY DEF Inv
<1>0. /\ \A cl \in ClIds : <<r, cl>> \in Keys
      /\ ViewOf(r) = [cl \in ClIds |-> Seen(orders[<<r, cl>>].st)]
      /\ ViewOf(r)' = [cl \in ClIds |-> Seen(orders'[<<r, cl>>].st)]
  BY DEF Keys, ViewOf, Seen
<1>1. /\ orders' = [k \in Keys |-> IF k \in Hit(b) THEN ApplyFill(k, b) ELSE orders[k]]
      /\ out' = {FillMsg(k, b) : k \in Hit(b)}
      /\ ended' = ended
  BY DEF SweepBook
<1>2. \A k \in Hit(b) : /\ k \in Keys /\ orders[k].st = "Live" /\ orders[k] \in OrderRecords
                        /\ FillMsg(k, b).key = k /\ FillMsg(k, b).type = "Fill"
  BY <1>t, HitFacts DEF Inv, TypeOK, FillMsg
<1>3. \A k \in Hit(b) : ApplyFill(k, b).st = IF LeavesAfter(k, b) = 0 THEN "Filled" ELSE "Live"
  BY <1>2 DEF ApplyFill, OrderRecords
<1>4. BatchOf(r)' = {<<"Fill", cl>> : cl \in hit}
  <2>1. \A k \in Hit(b) : k[1] = r => k[2] \in hit
    BY <1>2 DEF Keys
  <2>2. BatchOf(r)' \subseteq {<<"Fill", cl>> : cl \in hit}
    <3> SUFFICES ASSUME NEW y \in BatchOf(r)' PROVE y \in {<<"Fill", cl>> : cl \in hit}
      OBVIOUS
    <3>1. PICK m \in out' : m.key[1] = r /\ y = <<m.type, m.key[2]>>
      BY DEF BatchOf
    <3>2. PICK k \in Hit(b) : m = FillMsg(k, b)
      BY <1>1, <3>1
    <3>3. k[1] = r /\ y = <<"Fill", k[2]>>
      BY <1>2, <3>1, <3>2
    <3> HIDE DEF hit
    <3>4. QED  BY <2>1, <3>3
  <2>3. ASSUME NEW cl \in hit PROVE <<"Fill", cl>> \in BatchOf(r)'
    <3>1. PICK k \in Hit(b) : k = <<r, cl>>
      OBVIOUS
    <3>2. PICK m : m = FillMsg(k, b)
      OBVIOUS
    <3>3. m \in out' /\ m.key = k /\ m.type = "Fill" /\ k[1] = r /\ k[2] = cl
      BY <1>1, <1>2, <3>1, <3>2
    <3> HIDE DEF hit
    <3>4. QED  BY <3>3 DEF BatchOf
  <2>4. QED  BY <2>2, <2>3
<1>5. ASSUME NEW cl \in ClIds
      PROVE  ViewOf(r)'[cl] = IF cl \in done THEN "Done" ELSE ViewOf(r)[cl]
  <2>1. PICK k \in Keys : k = <<r, cl>>
    BY <1>0
  <2>2. ViewOf(r)[cl] = Seen(orders[k].st) /\ ViewOf(r)'[cl] = Seen(orders'[k].st)
    BY <1>0, <2>1
  <2>3. CASE k \in Hit(b)
    <3>1. orders'[k].st = IF LeavesAfter(k, b) = 0 THEN "Filled" ELSE "Live"
      BY <1>1, <1>3, <2>3
    <3>2. cl \in done <=> LeavesAfter(k, b) = 0
      BY <2>1, <2>3
    <3>3. orders[k].st = "Live"
      BY <1>2, <2>3
    <3>4. QED  BY <2>2, <3>1, <3>2, <3>3 DEF Seen
  <2>4. CASE k \notin Hit(b)
    <3>1. orders'[k] = orders[k]
      BY <1>1, <2>4
    <3>2. QED  BY <2>1, <2>2, <2>4, <3>1
  <2>5. QED  BY <2>3, <2>4
<1>6. hit \subseteq Contract(r)!LiveIds(ViewOf(r)) /\ done \subseteq hit
  BY <1>0, <1>2 DEF Contract!LiveIds, Seen
<1>7. ViewOf(r)' = [cl \in ClIds |-> IF cl \in done THEN "Done" ELSE ViewOf(r)[cl]]
  BY <1>0, <1>5
<1> HIDE DEF hit, done
<1>8. CASE r \in ended
  <2>1. Contract(r)!LiveIds(ViewOf(r)) = {}
    BY <1>0, <1>8 DEF Contract!LiveIds, Inv, HistoryTied, NoOrder, Blank, Keys, Seen
  <2>2. hit = {} /\ done = {}
    BY <1>6, <2>1
  <2>3. BatchOf(r)' = {} /\ ViewOf(r)' = ViewOf(r)
    BY <1>0, <1>4, <1>7, <2>2
  <2>4. QED  BY <1>1, <2>3, ToldNothing
<1>9. CASE r \notin ended
  <2> DEFINE x == [orders |-> ViewOf(r)', batch |-> BatchOf(r)']
  <2>1. x = Contract(r)!BookOutcome(ViewOf(r), hit, done)
    BY <1>4, <1>7 DEF Contract!BookOutcome, Contract!Outcome
  <2>2. Contract(r)!Call(x)
    BY <1>1 DEF Contract!Call
  <2> HIDE DEF x
  <2>3. PICK p : p = <<hit, done>>
    OBVIOUS
  <2>4. x = Contract(r)!BookOutcome(ViewOf(r), p[1], p[2])
    BY <2>1, <2>3
  <2>5. p \in {q \in (SUBSET Contract(r)!LiveIds(ViewOf(r))) \X (SUBSET Contract(r)!LiveIds(ViewOf(r))) :
                 q[2] \subseteq q[1]}
    BY <1>6, <2>3
  <2>6. x \in Contract(r)!BookOutcomes(ViewOf(r))
    BY <2>4, <2>5 DEF Contract!BookOutcomes
  <2>7. Contract(r)!Book
    BY <1>9, <2>2, <2>6 DEF Contract!Book
  <2>8. QED  BY <2>7 DEF Contract!Next
<1>10. QED  BY <1>8, <1>9

(* end_session, as the session that ends and as the others see it.         *)
LEMMA EndSeen ==
  ASSUME Inv, NEW r \in Sessions, NEW s \in Sessions \ ended, EndSession(s)
  PROVE  Contract(r)!Next
<1> DEFINE liveOf == {k \in SessionRange(Keys, s) : orders[k].st = "Live"}
<1>0. /\ \A cl \in ClIds : <<r, cl>> \in Keys
      /\ ViewOf(r) = [cl \in ClIds |-> Seen(orders[<<r, cl>>].st)]
      /\ ViewOf(r)' = [cl \in ClIds |-> Seen(orders'[<<r, cl>>].st)]
  BY DEF Keys, ViewOf, Seen
<1>1. /\ out' = {CancelAckMsg(k) : k \in liveOf}
      /\ orders' = [k \in Keys |-> IF k[1] = s THEN NoOrder ELSE orders[k]]
      /\ ended' = ended \cup {s}
  BY DEF EndSession
<1>2. \A k : CancelAckMsg(k).key = k /\ CancelAckMsg(k).type = "CancelAck"
  BY DEF CancelAckMsg
<1>3. \A k \in liveOf : k \in Keys /\ k[1] = s /\ orders[k].st = "Live"
  BY DEF SessionRange
<1>4. CASE r # s
  <2>1. BatchOf(r)' = {}
    BY <1>1, <1>2, <1>3, <1>4 DEF BatchOf
  <2>2. \A cl \in ClIds : orders'[<<r, cl>>] = orders[<<r, cl>>]
    BY <1>0, <1>1, <1>4
  <2>3. QED  BY <1>1, <1>4, <2>1, <2>2, SameView, ToldNothing
<1>5. CASE r = s
  <2> DEFINE ids == Contract(r)!LiveIds(ViewOf(r))
  <2>1. ViewOf(r)' = Contract(r)!AllFree
    BY <1>0, <1>1, <1>5 DEF Contract!AllFree, NoOrder, Blank, Seen
  <2>2. ids = {cl \in ClIds : orders[<<r, cl>>].st = "Live"}
    BY <1>0 DEF Contract!LiveIds, Seen
  <2>3. BatchOf(r)' = {<<"CancelAck", cl>> : cl \in ids}
    <3>1. \A k \in liveOf : k[2] \in ids
      BY <1>3, <1>5, <2>2 DEF Keys
    <3>2. BatchOf(r)' \subseteq {<<"CancelAck", cl>> : cl \in ids}
      BY <1>1, <1>2, <3>1 DEF BatchOf
    <3>3. ASSUME NEW cl \in ids PROVE <<"CancelAck", cl>> \in BatchOf(r)'
      <4>1. PICK k : k = <<r, cl>>
        OBVIOUS
      <4>2. k \in liveOf /\ k[1] = r /\ k[2] = cl
        BY <1>0, <1>5, <2>2, <4>1 DEF SessionRange
      <4>3. PICK m : m = CancelAckMsg(k)
        OBVIOUS
      <4>4. m \in out' /\ m.key = k /\ m.type = "CancelAck"
        BY <1>1, <1>2, <4>2, <4>3
      <4> HIDE DEF ids, liveOf
      <4>5. QED  BY <4>2, <4>4 DEF BatchOf
    <3>4. QED  BY <3>2, <3>3
  <2>4. Contract(r)!End
    BY <1>1, <1>5, <2>1, <2>3 DEF Contract!End, Contract!EndOutcome, Contract!Outcome
  <2>5. QED  BY <2>4 DEF Contract!Next
<1>6. QED  BY <1>4, <1>5

(* Every step of the engine is a step of every session's contract.         *)
LEMMA StepSeen ==
  ASSUME Inv, Next, NEW r \in Sessions
  PROVE  Contract(r)!Next
<1>t. TypeOK  BY DEF Inv
<1>i. out' = {} /\ orders' = orders /\ ended' = ended => Contract(r)!Next
  <2> SUFFICES ASSUME out' = {}, orders' = orders, ended' = ended PROVE Contract(r)!Next
    OBVIOUS
  <2>1. BatchOf(r)' = {} /\ ViewOf(r)' = ViewOf(r)
    BY DEF BatchOf, ViewOf
  <2>2. QED  BY <2>1, ToldNothing
<1>1. ASSUME NEW s \in Sessions \ ended, NEW cl \in ClIds, NEW o \in Offers, OnNew(s, cl, o)
      PROVE  Contract(r)!Next
  <2>1. CASE r = s
    <3>1. r \in Sessions \ ended /\ OnNew(r, cl, o)
      BY <1>1, <2>1
    <3>2. Contract(r)!New(cl)
      BY <3>1, NewSeen
    <3>3. QED  BY <3>2 DEF Contract!Next
  <2>2. CASE r # s
    BY <1>1, <2>2, OtherSeen
  <2>3. QED  BY <2>1, <2>2
<1>2. ASSUME NEW s \in Sessions \ ended, NEW cl \in ClIds, NEW o \in Offers, OnNewThrows(s, cl, o)
      PROVE  Contract(r)!Next
  <2>1. orders[<<s, cl>>].st = "Absent" => orders[<<s, cl>>] = NoOrder
    BY DEF Inv, BlankWhenAbsent, Keys
  <2>2. orders' = orders /\ ended' = ended
    BY <1>2, <1>t, <2>1, ThrowRestores DEF engineVars
  <2>3. out' = {}
    BY <1>2 DEF OnNewThrows
  <2>4. QED  BY <1>i, <2>2, <2>3
<1>3. ASSUME NEW s \in Sessions \ ended, NEW cl \in ClIds, OnCancel(s, cl)
      PROVE  Contract(r)!Next
  <2>1. CASE r = s
    <3>1. r \in Sessions \ ended /\ OnCancel(r, cl)
      BY <1>3, <2>1
    <3>2. Contract(r)!Cancel(cl)
      BY <3>1, CancelSeen
    <3>3. QED  BY <3>2 DEF Contract!Next
  <2>2. CASE r # s
    BY <1>3, <2>2, OtherSeen
  <2>3. QED  BY <2>1, <2>2
<1>4. ASSUME NEW t \in Tops, NEW seq \in MdSeqs, OnBook(BookOf(t, seq))
      PROVE  Contract(r)!Next
  <2>1. PICK b \in BookRecords : OnBook(b)
    BY <1>4, BookOfType
  <2>2. CASE IgnoreStaleBook(b)
    BY <2>2, <1>i DEF IgnoreStaleBook
  <2>3. CASE SweepBook(b)
    BY <2>3, BookSeen
  <2>4. QED  BY <2>1, <2>2, <2>3 DEF OnBook
<1>5. ASSUME NEW s \in Sessions \ ended, EndSession(s) PROVE Contract(r)!Next
  BY <1>5, EndSeen
<1>6. StagingThrows => Contract(r)!Next
  BY <1>i DEF StagingThrows, engineVars
<1>7. QED
  BY <1>1, <1>2, <1>3, <1>4, <1>5, <1>6 DEF Next

(* The engine keeps EngineContract for each of its sessions, for every     *)
(* instrument and every set of sessions, ids, offers and books: whatever   *)
(* the others do and whatever throws, a call is answered as Session and    *)
(* ClientSession assume.                                                   *)
THEOREM EngineKeepsContract == Spec => ImplementsContract
<1>1. Init => \A s \in Sessions : Contract(s)!Init
  <2> SUFFICES ASSUME Init, NEW s \in Sessions PROVE Contract(s)!Init
    OBVIOUS
  <2>1. BatchOf(s) = {} /\ s \notin ended
    BY DEF Init, BatchOf
  <2>2. ViewOf(s) = Contract(s)!AllFree
    BY DEF Init, ViewOf, Keys, NoOrder, Blank, Contract!AllFree
  <2>3. QED  BY <2>1, <2>2 DEF Contract!Init
<1>2. Inv /\ [Next]_vars => [\A s \in Sessions : Contract(s)!Next]_vars
  BY StepSeen
<1>3. QED  BY <1>1, <1>2, InvHolds, PTL DEF Spec, ImplementsContract
==============================================================================
