------------------------------ MODULE EngineView -----------------------------
(***************************************************************************)
(* The order engine as one session sees it: each client order id is Free,  *)
(* Live or Done (terminal and retained), and every call has a small set of *)
(* outcomes, each with the reports that go to the session.  EngineContract *)
(* turns this into a specification that OrderEngine implements; Session    *)
(* calls it.                                                               *)
(***************************************************************************)
EXTENDS Integers, FiniteSets

CONSTANTS
  Ids,      \* client order ids of the session
  MaxLive   \* Instrument::max_live_orders

ASSUME ViewAssumption == IsFiniteSet(Ids) /\ MaxLive \in Nat

AllFree == [id \in Ids |-> "Free"]
LiveIds(o) == {id \in Ids : o[id] = "Live"}
EntryCount(o) == Cardinality({id \in Ids : o[id] # "Free"})

Outcome(o, batch) == [orders |-> o, batch |-> batch]

(* on_new: a known id is refused and nothing changes; a fresh one is taken *)
(* if the live cap has room, or refused and kept as a tombstone.           *)
NewOutcomes(o, id) ==
  IF o[id] # "Free" THEN {Outcome(o, {<<"Reject", id>>})}
  ELSE {Outcome([o EXCEPT ![id] = "Done"], {<<"Reject", id>>})}
       \cup {x \in {Outcome([o EXCEPT ![id] = "Live"], {<<"OrderAck", id>>})} :
               Cardinality(LiveIds(o)) < MaxLive}

(* on_cancel: a live order ends, anything else is refused.                 *)
CancelOutcome(o, id) ==
  IF o[id] = "Live" THEN Outcome([o EXCEPT ![id] = "Done"], {<<"CancelAck", id>>})
  ELSE Outcome(o, {<<"Reject", id>>})

(* on_book: some live orders get one fill each, and some of those end.     *)
BookOutcome(o, hit, done) ==
  Outcome([id \in Ids |-> IF id \in done THEN "Done" ELSE o[id]],
          {<<"Fill", id>> : id \in hit})

BookOutcomes(o) ==
  {BookOutcome(o, p[1], p[2]) :
     p \in {q \in (SUBSET LiveIds(o)) \X (SUBSET LiveIds(o)) : q[2] \subseteq q[1]}}

(* end_session: every live order is acknowledged and every id is reaped.   *)
EndOutcome(o) == Outcome(AllFree, {<<"CancelAck", id>> : id \in LiveIds(o)})
==============================================================================
