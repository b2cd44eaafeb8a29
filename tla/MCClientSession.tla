--------------------------- MODULE MCClientSession ---------------------------
(* Two feeds for ClientSession: one whose bid moves while its ask stays,   *)
(* so that one side is amended while the other rests, and one that locks.  *)
EXTENDS ClientSession

MovingBid == {<<1, 3>>, <<2, 3>>}
Locking == {<<1, 2>>, <<2, 2>>}
==============================================================================
