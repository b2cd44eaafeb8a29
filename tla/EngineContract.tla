--------------------------- MODULE EngineContract ----------------------------
(***************************************************************************)
(* What the order engine promises a session: the calls of EngineView, each *)
(* possibly refused whole by an exception, until the session ends.         *)
(***************************************************************************)
EXTENDS EngineView

VARIABLES
  view,    \* Ids -> Free, Live or Done
  batch,   \* the reports of the last call that go to this session
  over     \* end_session has run

contractVars == <<view, batch, over>>

Call(x) == view' = x.orders /\ batch' = x.batch /\ UNCHANGED over

New(id) == ~over /\ \E x \in NewOutcomes(view, id) : Call(x)
Cancel(id) == ~over /\ Call(CancelOutcome(view, id))
Book == ~over /\ \E x \in BookOutcomes(view) : Call(x)

End ==
  /\ ~over
  /\ view' = EndOutcome(view).orders
  /\ batch' = EndOutcome(view).batch
  /\ over' = TRUE

(* A call of another session, or one that threw.                           *)
Nothing == batch' = {} /\ UNCHANGED <<view, over>>

Init == view = AllFree /\ batch = {} /\ over = FALSE
Next == (\E id \in Ids : New(id) \/ Cancel(id)) \/ Book \/ End \/ Nothing
Spec == Init /\ [][Next]_contractVars
==============================================================================
