---------------------------- MODULE ClientSession ----------------------------
(***************************************************************************)
(* The trading client against its engine: the Strategy, the SessionDriver  *)
(* that stamps and latches (python/mmclient/_session.py), the two tasks of *)
(* the naive adapter that share the socket (ws_naive.py), the reconnect    *)
(* policy (app.py), a pair of bounded FIFO wires, and the engine's side of *)
(* the session: EngineView for the orders and an outbox of reports and one *)
(* tick.                                                                   *)
(*                                                                         *)
(* What interleaves are the tasks at their awaits (the next frame, the     *)
(* lock around a batch, each send, the timer), the engine and the          *)
(* operator's stop.  The clock is a choice: a timer tick may find the last *)
(* book too old whenever there was one.                                    *)
(***************************************************************************)
EXTENDS Strategy

CONSTANTS
  Tops,      \* the <<bid, ask>> pairs of the feed
  MaxBooks,  \* bound of the model on the books the server publishes
  MaxLive,   \* Instrument::max_live_orders
  MaxAttempts,  \* MAX_ATTEMPTS of run_with_reconnect
  WireCap,   \* bound of the model on the frames either wire holds
  MaxSeq     \* the last sequence number the encoder takes (UINT64_MAX)

ASSUME ClientAssumption ==
  /\ Tops \subseteq (Nat \ {0}) \X (Nat \ {0})
  /\ MaxBooks \in Nat /\ MaxLive \in Nat
  /\ MaxAttempts \in Nat \ {0} /\ WireCap \in Nat \ {0}
  /\ MaxSeq \in Nat \ {0}

VARIABLES
  strat,     \* the Strategy
  driver,    \* SessionDriver: _out_seq, _epoch, _close
  task,      \* where the pump and the timer task are
  unsent,    \* the stamped frames a task has yet to send; it holds the lock
  hand,      \* the frame the pump took off the socket
  conn,      \* up, peerClosed or closed
  wire,      \* the code of the close frame this side put on the wire
  stop,      \* the operator's stop event
  main,      \* dialing, running (run_client), ended (it returned) or exited
  attempt,   \* attempts of run_with_reconnect
  ending,    \* what run_client returned or raised
  exit,      \* the exit of run_with_reconnect
  engine,    \* the engine's side of the session
  toEngine, toClient,  \* the wires
  mdSeq      \* next_md_seq_ of the server: books published to any session

clientVars == <<strat, driver, task, unsent, hand, wire, stop, main, attempt,
                ending, exit>>
peerVars == <<engine, toEngine, toClient, mdSeq>>
vars == <<clientVars, conn, peerVars>>

Tasks == {"pump", "timer"}
OrderIds == Sides \X (1 .. MaxBooks)
Orders == INSTANCE EngineView WITH Ids <- OrderIds

NoFrame == [type |-> "none"]
NoCode == 0
Normal == 1000
Protocol == 1002
Stale == 4000

------------------------------------------------------------------------------
(* SessionDriver._latch: the first intent wins.                                          *)
Latch(d, code) == IF d.close = NoCode THEN [d EXCEPT !.close = code] ELSE d

NewDriver == [outSeq |-> 0, epoch |-> 0, close |-> NoCode]

(* _note_stop: a stop becomes a close intent.                              *)
NoteStop(d, reason) ==
  CASE reason = "none" -> d
    [] reason = "stale" -> Latch(d, Stale)
    [] reason = "protocol" -> Latch(d, Protocol)

(* _dispatch and _stamp: the commands become frames with the connection's  *)
(* own sequence and epoch.  The encoder refuses a number past MaxSeq: that *)
(* frame and those behind it are dropped and the session is closed.        *)
Dispatch(d, r) ==
  LET room == IF d.outSeq < MaxSeq THEN MaxSeq - d.outSeq ELSE 0
      fit == IF Len(r.cmds) <= room THEN Len(r.cmds) ELSE room
      stopped == NoteStop(d, r.stop)
  IN [st |-> r.st,
      driver |-> IF fit = Len(r.cmds)
                 THEN [stopped EXCEPT !.outSeq = @ + fit]
                 ELSE Latch([stopped EXCEPT !.outSeq = @ + fit + 1], Protocol),
      frames |-> [i \in 1 .. fit |->
                    [type |-> r.cmds[i].type, id |-> r.cmds[i].id,
                     seq |-> d.outSeq + i, epoch |-> d.epoch]]]

(* on_bytes: silent once closing; the first message brings the epoch.  An  *)
(* engine of this repository sends nothing that does not decode.           *)
OnBytes(d, st, m) ==
  IF d.close # NoCode THEN [st |-> st, driver |-> d, frames |-> << >>]
  ELSE IF d.epoch = 0
       THEN Dispatch([d EXCEPT !.epoch = m.epoch],
                     OnReport(OnConnect(st, m.epoch), m))
  ELSE Dispatch(d, OnReport(st, m))

------------------------------------------------------------------------------
(* The adapter.  Mutant: the lock does not span stamping and sending.      *)
NoLock(t) == unsent[t] = << >>

(* Task t can enter the outbox lock, which spans stamping and sending.     *)
LockFree(t) == \A u \in Tasks : unsent[u] = << >>

Running == main = "running"

(* Mutant: the timer goes back to sleep with the intent latched.           *)
TimerSleepsOn(t, d) ==
  CASE t = "pump" -> IF d.close # NoCode THEN "done" ELSE "reading"
    [] t = "timer" -> "sleeping"

(* Where a task goes when its batch is out: a latched intent ends the pump *)
(* and makes the timer close the socket.                                   *)
BatchOut(t, d) ==
  CASE t = "pump" -> IF d.close # NoCode THEN "done" ELSE "reading"
    [] t = "timer" -> IF d.close # NoCode THEN "closing" ELSE "sleeping"

(* Task t runs the driver under the lock; x is what the driver answers.    *)
Drives(t, x) ==
  /\ LockFree(t)
  /\ strat' = x.st
  /\ driver' = x.driver
  /\ unsent' = [unsent EXCEPT ![t] = x.frames]
  /\ task' = [task EXCEPT ![t] = IF x.frames = << >> THEN BatchOut(t, x.driver)
                                 ELSE "sending"]
  /\ UNCHANGED <<conn, wire, stop, main, attempt, ending, exit, peerVars>>

(* _read_frames: the next frame, or the end of the connection.             *)
PumpTakes ==
  /\ Running /\ task["pump"] = "reading" /\ toClient # << >>
  /\ hand' = Head(toClient)
  /\ toClient' = Tail(toClient)
  /\ task' = [task EXCEPT !["pump"] = "holding"]
  /\ UNCHANGED <<strat, driver, unsent, conn, wire, stop, main, attempt, ending,
                 exit, engine, toEngine, mdSeq>>

PumpHandles ==
  /\ Running /\ task["pump"] = "holding"
  /\ \E x \in {OnBytes(driver, strat, hand)} : Drives("pump", x)
  /\ hand' = NoFrame

PumpEnds ==
  /\ Running /\ task["pump"] = "reading" /\ toClient = << >> /\ conn # "up"
  /\ task' = [task EXCEPT !["pump"] = "done"]
  /\ UNCHANGED <<strat, driver, unsent, hand, conn, wire, stop, main, attempt,
                 ending, exit, peerVars>>

(* _timer: a tick that finds the feed stale; any other changes nothing.    *)
TimerTick ==
  /\ Running /\ task["timer"] = "sleeping" /\ ~stop
  /\ strat.seenTob /\ ~strat.swept
  /\ Drives("timer", Dispatch(driver, OnTimer(strat, TRUE)))
  /\ UNCHANGED hand

(* _close: the code of the intent, or a normal close.                      *)
CloseCode == IF driver.close = NoCode THEN Normal ELSE driver.close
ClosesSocket ==
  /\ conn' = "closed"
  /\ wire' = IF conn = "up" THEN CloseCode ELSE wire

TimerCloses ==
  /\ Running /\ task["timer"] = "closing" /\ LockFree("timer")
  /\ ClosesSocket
  /\ task' = [task EXCEPT !["timer"] = "done"]
  /\ UNCHANGED <<strat, driver, unsent, hand, stop, main, attempt, ending, exit,
                 peerVars>>

(* _send_text: the frame goes out.                                         *)
SendFrame(t) ==
  /\ Running /\ unsent[t] # << >> /\ conn = "up" /\ Len(toEngine) < WireCap
  /\ toEngine' = Append(toEngine, Head(unsent[t]))
  /\ unsent' = [unsent EXCEPT ![t] = Tail(@)]
  /\ task' = [task EXCEPT ![t] = IF Len(unsent[t]) = 1 THEN BatchOut(t, driver)
                                 ELSE "sending"]
  /\ UNCHANGED <<strat, driver, hand, conn, wire, stop, main, attempt, ending,
                 exit, engine, toClient, mdSeq>>

(* _send_text: the engine does not read and the send times out, which is   *)
(* an OSError; or the connection is gone, which the pump takes for its end *)
(* and the timer does not.                                                 *)
SendFails(t) ==
  /\ Running /\ unsent[t] # << >>
  /\ conn # "up" \/ Len(toEngine) = WireCap
  /\ unsent' = [unsent EXCEPT ![t] = << >>]
  /\ task' = [task EXCEPT ![t] = IF conn = "up" THEN "OSError"
                                 ELSE IF t = "pump" THEN "done"
                                 ELSE "ConnectionClosed"]
  /\ UNCHANGED <<strat, driver, hand, conn, wire, stop, main, attempt, ending,
                 exit, peerVars>>

------------------------------------------------------------------------------
(* The engine's side of a new session; it retires an old one by itself.    *)
NewSession == [orders |-> Orders!AllFree, inSeq |-> 1, outSeq |-> 1,
               reports |-> << >>, tob |-> << >>, broken |-> FALSE]
SessionOver ==
  /\ engine' = NewSession /\ toEngine' = << >> /\ toClient' = << >>
  /\ UNCHANGED mdSeq

(* How the tasks that are over ended, and what they raised.                *)
TaskEnds == {task[t] : t \in Tasks}
Raised == {e \in {"OSError", "ConnectionClosed"} : e \in TaskEnds}

(* Mutant: the stop event is looked at before the intent.                  *)
EndingStopFirst(stopped) ==
  IF stopped THEN "Stopped"
  ELSE IF driver.close # NoCode THEN "Decided" ELSE "PeerGone"

(* _ending: a latched intent wins over the stop event.                     *)
Ending(stopped) ==
  IF driver.close # NoCode THEN "Decided"
  ELSE IF stopped THEN "Stopped" ELSE "PeerGone"

(* run_client ends when the stop event or a task does: what a finished     *)
(* task raised is raised, the tasks are cancelled, the strategy is told    *)
(* and the socket is closed.                                               *)
RunClientEnds ==
  \E stopped \in BOOLEAN :
    /\ Running
    /\ stopped => stop
    /\ stopped \/ "done" \in TaskEnds \/ Raised # {}
    /\ main' = "ended"
    /\ ending' \in IF Raised = {} THEN {Ending(stopped)} ELSE Raised
    /\ task' = [t \in Tasks |-> "cancelled"]
    /\ unsent' = [t \in Tasks |-> << >>]
    /\ hand' = NoFrame
    /\ strat' = OnDisconnect(strat)
    /\ ClosesSocket
    /\ SessionOver
    /\ UNCHANGED <<driver, stop, attempt, exit>>

Retryable == ending \in {"PeerGone", "OSError"}

(* run_with_reconnect: one retry, for what may be a blip.                  *)
Decide ==
  /\ main = "ended"
  /\ IF Retryable /\ attempt < MaxAttempts /\ ~stop
     THEN main' = "dialing" /\ UNCHANGED exit
     ELSE /\ main' = "exited"
          /\ exit' = IF ending \in {"ConnectionClosed", "Refused"} THEN "traceback"
                     ELSE IF Retryable THEN "1" ELSE "0"
  /\ UNCHANGED <<strat, driver, task, unsent, hand, conn, wire, stop, attempt,
                 ending, peerVars>>

(* connect, and run_client up to its wait; the n-th connection has epoch n.*)
Dial ==
  /\ main = "dialing"
  /\ main' = "running"
  /\ attempt' = attempt + 1
  /\ driver' = NewDriver
  /\ task' = [t \in Tasks |-> IF t = "pump" THEN "reading" ELSE "sleeping"]
  /\ conn' = "up" /\ wire' = NoCode
  /\ UNCHANGED <<strat, unsent, hand, stop, ending, exit, peerVars>>

(* connect fails: the transport does, or the server refuses the upgrade or *)
(* takes it without mm.v1, which is no OSError (connect,                   *)
(* _apply_tcp_nodelay, _assert_handshake).                                 *)
DialFails ==
  /\ main = "dialing"
  /\ main' = "ended" /\ ending' \in {"OSError", "Refused"}
  /\ attempt' = attempt + 1
  /\ UNCHANGED <<strat, driver, task, unsent, hand, conn, wire, stop, exit, peerVars>>

OperatorStops ==
  /\ ~stop /\ main # "exited"
  /\ stop' = TRUE
  /\ UNCHANGED <<strat, driver, task, unsent, hand, conn, wire, main, attempt,
                 ending, exit, peerVars>>

------------------------------------------------------------------------------
Serving == Running /\ conn = "up"

(* Messages wait for their envelope in the engine's outbox.                *)
Report(kind, id, leaves) ==
  [type |-> kind, id |-> id, leaves |-> leaves, seq |-> 0, epoch |-> 0]
Tick(md, top) ==
  [type |-> "Tob", md |-> md, bid |-> top[1], ask |-> top[2],
   symbol |-> "traded", seq |-> 0, epoch |-> 0]
Envelope(m) == [m EXCEPT !.seq = engine.outSeq, !.epoch = attempt]

(* The engine's session takes a command: anything but the expected         *)
(* sequence number under its own epoch is a broken session.                *)
EngineTakes ==
  /\ Serving /\ toEngine # << >>
  /\ LET c == Head(toEngine) IN
     /\ toEngine' = Tail(toEngine)
     /\ IF c.seq # engine.inSeq \/ c.epoch # attempt
        THEN engine' = [engine EXCEPT !.broken = TRUE] /\ conn' = "peerClosed"
        ELSE /\ \E x \in IF c.type = "NewOrder"
                         THEN Orders!NewOutcomes(engine.orders, c.id)
                         ELSE {Orders!CancelOutcome(engine.orders, c.id)} :
                  engine' = [engine EXCEPT
                    !.inSeq = @ + 1, !.orders = x.orders,
                    !.reports = Append(@, Report((CHOOSE r \in x.batch : TRUE)[1],
                                                 c.id, 0))]
             /\ UNCHANGED conn
  /\ UNCHANGED <<clientVars, toClient, mdSeq>>

(* The order in which a book sweeps the orders it hits: bids first.        *)
SweptBefore(a, b) ==
  \/ a[1] = "B" /\ b[1] = "S"
  \/ a[1] = b[1] /\ a[2] < b[2]
Sweeps(hit) ==
  {fills \in [1 .. Cardinality(hit) -> hit] :
     \A i, j \in 1 .. Cardinality(hit) : i < j => SweptBefore(fills[i], fills[j])}

(* A book: the fills it makes, and a tick that replaces a pending one.     *)
EngineBook ==
  /\ Serving /\ mdSeq < MaxBooks
  /\ mdSeq' = mdSeq + 1
  /\ \E top \in Tops, x \in Orders!BookOutcomes(engine.orders) :
       \E fills \in Sweeps({r[2] : r \in x.batch}) :
         LET leaves(id) == IF x.orders[id] = "Live" THEN 1 ELSE 0 IN
         engine' = [engine EXCEPT
           !.orders = x.orders,
           !.reports = @ \o [i \in 1 .. Len(fills) |->
                               Report("Fill", fills[i], leaves(fills[i]))],
           !.tob = <<Tick(mdSeq + 1, top)>>]
  /\ UNCHANGED <<clientVars, conn, toEngine, toClient>>

(* The engine writes: reports before the tick.                             *)
EngineWrites ==
  /\ Serving /\ Len(toClient) < WireCap
  /\ engine.reports # << >> \/ engine.tob # << >>
  /\ IF engine.reports # << >>
     THEN /\ toClient' = Append(toClient, Envelope(Head(engine.reports)))
          /\ engine' = [engine EXCEPT !.reports = Tail(@), !.outSeq = @ + 1]
     ELSE /\ toClient' = Append(toClient, Envelope(engine.tob[1]))
          /\ engine' = [engine EXCEPT !.tob = << >>, !.outSeq = @ + 1]
  /\ UNCHANGED <<clientVars, conn, toEngine, mdSeq>>

EngineCloses ==
  /\ Serving
  /\ conn' = "peerClosed"
  /\ UNCHANGED <<clientVars, peerVars>>

------------------------------------------------------------------------------
(* The configured symbol may be one the engine does not trade.             *)
Init ==
  /\ \E symbol \in {"traded", "foreign"} : strat = CleanSlate(0, symbol)
  /\ driver = NewDriver
  /\ task = [t \in Tasks |-> "cancelled"]
  /\ unsent = [t \in Tasks |-> << >>]
  /\ hand = NoFrame
  /\ conn = "closed" /\ wire = NoCode /\ stop = FALSE
  /\ main = "dialing" /\ attempt = 0 /\ ending = "none" /\ exit = "none"
  /\ engine = NewSession /\ toEngine = << >> /\ toClient = << >>
  /\ mdSeq = 0

Sends == \E t \in Tasks : SendFrame(t) \/ SendFails(t)

Next ==
  \/ PumpTakes \/ PumpHandles \/ PumpEnds
  \/ TimerTick \/ TimerCloses
  \/ Sends
  \/ RunClientEnds \/ Decide \/ Dial \/ DialFails \/ OperatorStops
  \/ EngineTakes \/ EngineBook \/ EngineWrites \/ EngineCloses

(* The client's tasks are scheduled and its bounded waits end.  Nothing is *)
(* assumed of the engine, the clock's verdict or the operator.             *)
Fairness ==
  /\ WF_vars(PumpHandles)
  /\ WF_vars(TimerCloses)
  /\ WF_vars(Sends)
  /\ WF_vars(RunClientEnds)
  /\ WF_vars(Decide)
  /\ WF_vars(Dial \/ DialFails)

Spec == Init /\ [][Next]_vars /\ Fairness

------------------------------------------------------------------------------
LiveAt(side) == {id \in OrderIds : engine.orders[id] = "Live" /\ SideOf(id) = side}

(* The two ends never accuse each other: every command arrives with the    *)
(* sequence number and the epoch the engine expects, whatever the two      *)
(* tasks and a reconnect do, unless a send timed out and left its batch    *)
(* unfinished; the counter never wraps past the encoder's domain into a    *)
(* number the engine has seen; and the client accuses nobody but where it  *)
(* ran out of numbers or trades a symbol the engine does not.              *)
WireDiscipline ==
  /\ engine.broken => "OSError" \in TaskEnds
  /\ (Running /\ driver.close = Protocol) =>
       (strat.symbol = "foreign" \/ driver.outSeq > MaxSeq)

(* However late the reports are, at most one order per side rests at the   *)
(* engine, amendments, refusals and fills in flight included.              *)
OneRestingPerSide == \A side \in Sides : Cardinality(LiveAt(side)) <= 1

(* The client's picture covers the engine's: as long as it quotes, every   *)
(* order that rests is one it knows.                                       *)
PictureComplete ==
  (Running /\ ~strat.stopped) =>
    \A id \in OrderIds : engine.orders[id] = "Live" => id \in KnownIds(strat)

(* No settled side lags the book: an order the client takes for live and   *)
(* current is at the price the freshest accepted book asks for, unless     *)
(* that book is locked.                                                    *)
FreshQuotes ==
  (Running /\ ~strat.stopped) =>
    \A side \in Sides :
      LET o == CurrentOrder(strat, side) IN
      (o.state = "Live" /\ ~Locked(strat)) => o.px = Desired(strat, side)

(* What run_client returns is what it told the peer: a session reported as *)
(* decided was closed with the verdict, one reported as stopped or as left *)
(* by the peer was not.                                                    *)
EndingMatchesWire ==
  main = "ended" =>
    /\ ending = "Decided" => wire \in {NoCode, driver.close} \ {Normal}
    /\ ending \in {"Stopped", "PeerGone"} => wire \in {NoCode, Normal}

(* A close intent ends the connection even if nothing ever arrives again,  *)
(* and the operator's stop ends the client.                                *)
ClientEnds ==
  /\ (Running /\ driver.close # NoCode) ~> ~Running
  /\ stop ~> (main = "exited")

(* A close the client chose is not retried.                                *)
VerdictIsFinal == main = "dialing" => driver.close = NoCode
==============================================================================
