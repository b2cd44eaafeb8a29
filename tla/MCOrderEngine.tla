---------------------------- MODULE MCOrderEngine ----------------------------
(* A small market for OrderEngine: two sessions with two order ids each, a *)
(* tick of 2 and a lot of 2, a live cap of one, and a book that can leave  *)
(* an order partly filled.                                                 *)
EXTENDS OrderEngine

Offer(sym, side, px, qty, postOnly) ==
  [sym |-> sym, side |-> side, px |-> px, qty |-> qty, postOnly |-> postOnly]

Top(bp, bq, ap, aq) == [bidPx |-> bp, bidQty |-> bq, askPx |-> ap, askQty |-> aq]

(* Good orders on both sides (a post-only bid of two lots, an ask of one), *)
(* and one for every check of validate_order, in its order.                *)
MCOffers ==
  {Offer("sym", "Bid", 10, 4, TRUE),
   Offer("sym", "Ask", 12, 2, FALSE),
   Offer("other", "Bid", 10, 2, FALSE),
   Offer("sym", "Other", 10, 2, FALSE),
   Offer("sym", "Bid", 11, 2, FALSE),
   Offer("sym", "Bid", 10, 3, FALSE),
   Offer("sym", "Ask", 10, 0, FALSE),
   Offer("sym", "Ask", 10, 6, FALSE),
   Offer("sym", "Bid", 22, 2, FALSE)}

(* An ask of 2 at the bids' price (it fills a bid in two books and makes a *)
(* post-only bid cross), and a bid that completes asks beside an ask side  *)
(* whose price of zero makes it absent.                                    *)
MCTops == {Top(8, 2, 10, 2), Top(12, 3, 0, 2)}

(* `out` never influences a later step.                                    *)
WithoutOut == <<engineVars, ended, historyVars>>
==============================================================================
