----------------------------- MODULE TunedClient -----------------------------
(***************************************************************************)
(* The tuned adapter (python/mmclient/ws_picows.py) and the reconnect      *)
(* policy (app.py): the callbacks picows makes on the listener of each     *)
(* connection, the coroutine run_client with its stale timer, the closing  *)
(* handshake, its grace and the teardown, over the one Strategy that every *)
(* connection of a run shares.  The driver and the Strategy are reduced to *)
(* the close intent and to the connection whose session the Strategy is    *)
(* in; picows itself is external.                                          *)
(***************************************************************************)
EXTENDS Integers, Sequences, FiniteSets

CONSTANTS
  MaxAttempts,  \* MAX_ATTEMPTS of run_with_reconnect
  MaxMsg,       \* MAX_MSG_BYTES, in frames of one unit
  MaxFrames,    \* bound of the model on the data frames of the last connection
  MaxEarly      \* and on those of each connection before it

ASSUME TunedAssumption ==
  /\ MaxAttempts \in Nat \ {0}
  /\ MaxMsg \in Nat \ {0}
  /\ MaxFrames \in Nat
  /\ MaxEarly \in Nat

VARIABLES
  listener,  \* the _Listener of each connection, with its transport and driver
  log,       \* history: the data frames of conn that got as far as _on_data
  strat,     \* the connection whose session the Strategy is in, 0 for none
  conn,      \* the connection run_client drives; the attempts so far
  timer,     \* the timer task: armed, returned, cancelled or what it raised
  stop,      \* the operator's stop event
  main,      \* dialing, connected, waiting, grace, teardown, ended or exited
  stopped,   \* the stopper was among the tasks asyncio.wait returned
  raising,   \* what run_client is about to raise once its cleanup is over
  ending     \* what it returned or raised

vars == <<listener, log, strat, conn, timer, stop, main, stopped, raising, ending>>

Conns == 1 .. MaxAttempts

NoCode == 0
Normal == 1000
Away == 1001        \* stands for any code the peer may legally send
Protocol == 1002
BadPayload == 1007
TooBig == 1009
Internal == 1011
Stale == 4000
Verdicts == {Protocol, BadPayload, TooBig, Stale}

(* What run_with_reconnect tells apart of what a coroutine or a callback    *)
(* raises: an OSError, and any other, which ends the client.               *)
Raised == {"OSError", "RuntimeError"}

(* A listener before its first frame; fed counts the messages that drove   *)
(* the Strategy.                                                           *)
NewListener ==
  [dataEnded |-> FALSE, closeReceived |-> FALSE, finalized |-> FALSE,
   opened |-> FALSE, size |-> 0, error |-> "none", done |-> FALSE,
   peerClose |-> FALSE, intent |-> NoCode, closeSent |-> NoCode,
   parserError |-> FALSE, disconnected |-> FALSE, fed |-> 0]

------------------------------------------------------------------------------
(* finish, _latch and _close, each on the record of one listener.          *)
Finish(l) == [l EXCEPT !.dataEnded = TRUE, !.done = TRUE]

Latch(l, code) == IF l.intent = NoCode THEN [l EXCEPT !.intent = code] ELSE l

Close(l) ==
  IF l.closeSent # NoCode \/ l.disconnected THEN l
  ELSE [l EXCEPT !.closeSent = IF l.intent = NoCode THEN Normal ELSE l.intent]

DropFragments(l) == [l EXCEPT !.opened = FALSE, !.size = 0]

(* Mutant: the session is not ended by a framing verdict.                  *)
AbortWithoutFinish(l, code) == Close(Latch(DropFragments(l), code))

(* _abort: latch, close, end the session.                                  *)
Abort(l, code) == Finish(Close(Latch(DropFragments(l), code)))

(* finalize: only the first call reaches the Strategy.                     *)
Finalize(l) ==
  IF l.finalized THEN l
  ELSE Finish([l EXCEPT !.finalized = TRUE, !.peerClose = TRUE])

(* What finalize leaves of the Strategy: on_disconnect wipes whatever      *)
(* session it is in.                                                       *)
Wipes(l) == IF l.finalized THEN strat ELSE 0

------------------------------------------------------------------------------
(* What becomes of a message: not text, not decodable, or taken by the     *)
(* Strategy, which may give up on it ("gap": the Strategy's own verdict,   *)
(* or a command the encoder refuses), fail ("raises"), or answer with      *)
(* frames whose send fails, before ("lost") or after a verdict.            *)
Delivered == {"ok", "gap", "raises", "lost", "gaplost"}
Bodies == {"utf8", "junk"} \cup Delivered

(* A data frame: its opcode, whether it ends a message and what is in it.  *)
DataFrames ==
  {f \in [op : {"text", "cont"}, fin : BOOLEAN, body : Bodies] : f.fin \/ f.body = "ok"}

(* A callback raises: on_ws_frame keeps the exception and ends the data,   *)
(* and picows answers with 1011.                                           *)
Fails(l, kind) == [Finish(DropFragments(l)) EXCEPT !.error = kind, !.closeSent = Internal]

(* The message a final frame completes: on_bytes, the sends, and the close *)
(* of a driver that gave up.                                               *)
OnMessage(l, body) ==
  LET taken == [l EXCEPT !.fed = @ + 1] IN
  CASE body = "ok" -> taken
    [] body = "utf8" -> Finish(Close(Latch(l, BadPayload)))
    [] body = "junk" -> Finish(Close(Latch(l, Protocol)))
    [] body = "gap" -> Finish(Close(Latch(taken, Protocol)))
    [] body = "raises" -> Fails(taken, "RuntimeError")
    [] body = "lost" -> Fails(taken, "OSError")
    [] body = "gaplost" -> Fails(Latch(taken, Protocol), "OSError")

(* Mutant: a final continuation is taken for a message of its own.         *)
ReassembleOrphans(l, f) ==
  IF f.op # "cont" /\ l.opened THEN Abort(l, Protocol)
  ELSE IF f.fin /\ ~l.opened THEN OnMessage(l, f.body)
  ELSE IF l.size + 1 > MaxMsg THEN Abort(l, TooBig)
  ELSE IF f.fin THEN OnMessage(DropFragments(l), f.body)
  ELSE [l EXCEPT !.opened = TRUE, !.size = @ + 1]

(* _reassemble, then what _on_data does with a whole message.              *)
Reassemble(l, f) ==
  IF (f.op = "cont") # l.opened THEN Abort(l, Protocol)
  ELSE IF f.fin /\ ~l.opened THEN OnMessage(l, f.body)
  ELSE IF l.size + 1 > MaxMsg THEN Abort(l, TooBig)
  ELSE IF f.fin THEN OnMessage(DropFragments(l), f.body)
  ELSE [l EXCEPT !.opened = TRUE, !.size = @ + 1]

(* picows calls back while the transport of c is read: up to the           *)
(* disconnect that opens the teardown.                                     *)
Read(c) == main \in {"connected", "waiting", "grace"} /\ c = conn /\ ~listener[c].disconnected

OnlyListener(c, l) ==
  /\ listener' = [listener EXCEPT ![c] = l]
  /\ UNCHANGED <<conn, timer, stop, main, stopped, raising, ending>>

(* A text or continuation frame.                                           *)
OnData(c, f) ==
  LET l == listener[c]
      after == Reassemble(l, f)
  IN
  /\ Read(c)
  /\ Len(log) < IF c = MaxAttempts THEN MaxFrames ELSE MaxEarly
  /\ ~l.closeReceived /\ ~l.dataEnded /\ l.intent = NoCode
  /\ OnlyListener(c, after)
  /\ log' = Append(log, f)
  /\ strat' = IF after.fed > l.fed THEN c ELSE strat

(* A reserved bit, judged on every frame however the session stands; a     *)
(* binary frame while data still counts comes to the same.                 *)
OnIllegalFrame(c) ==
  LET l == listener[c] IN
  /\ Read(c) /\ ~l.closeReceived
  /\ OnlyListener(c, Abort(l, Protocol))
  /\ UNCHANGED <<log, strat>>

(* A ping whose pong cannot be sent; one that can changes nothing.         *)
PongFails(c) ==
  LET l == listener[c] IN
  /\ Read(c) /\ ~l.closeReceived
  /\ l.closeSent = NoCode
  /\ OnlyListener(c, Fails(l, "OSError"))
  /\ UNCHANGED <<log, strat>>

(* _on_peer_close: answer, with a code that may be sent.                   *)
OnPeerClose(c) ==
  LET l == DropFragments(listener[c]) IN
  /\ Read(c) /\ ~l.closeReceived
  /\ \E legal \in BOOLEAN :
       LET judged == IF legal THEN l ELSE Latch(l, Protocol)
           answered == IF l.closeSent # NoCode THEN judged
                       ELSE [judged EXCEPT !.closeSent = IF legal THEN Away ELSE Protocol]
       IN OnlyListener(c, Finish([answered EXCEPT !.closeReceived = TRUE, !.peerClose = TRUE]))
  /\ UNCHANGED <<log, strat>>

(* External: picows' parser refuses the peer's framing, closes and         *)
(* disconnects; the teardown hears of it.                                  *)
ParserRefuses(c) ==
  LET l == listener[c]
      closed == [l EXCEPT !.closeSent = IF @ = NoCode THEN Protocol ELSE @,
                          !.parserError = TRUE, !.disconnected = TRUE]
  IN
  /\ Read(c) /\ ~l.closeReceived
  /\ OnlyListener(c, Finalize(closed))
  /\ strat' = Wipes(l) /\ UNCHANGED log

(* on_ws_disconnected: the transport is gone.  For a connection run_client *)
(* has left the callback comes late.                                       *)
OnDisconnected(c) ==
  LET l == listener[c] IN
  /\ c <= conn /\ ~l.disconnected
  /\ OnlyListener(c, Finalize([l EXCEPT !.disconnected = TRUE]))
  /\ strat' = Wipes(l) /\ UNCHANGED log

------------------------------------------------------------------------------
(* run_client: ws_connect made the listener, so that frames may come       *)
(* before the coroutine goes on.                                           *)
Dial ==
  /\ main = "dialing"
  /\ conn' = conn + 1
  /\ main' = "connected"
  /\ log' = << >> /\ stopped' = FALSE /\ raising' = "none"
  /\ UNCHANGED <<listener, strat, timer, stop, ending>>

(* ws_connect fails: the transport does, or the server refuses the         *)
(* upgrade, which is no OSError.                                           *)
DialFails ==
  /\ main = "dialing"
  /\ conn' = conn + 1
  /\ listener' = [listener EXCEPT ![conn + 1].disconnected = TRUE]
  /\ log' = << >> /\ main' = "ended" /\ ending' \in Raised
  /\ UNCHANGED <<strat, timer, stop, stopped, raising>>

(* _apply_tcp_nodelay, outside the try: the socket was closed before the   *)
(* coroutine went on.  On an open one setsockopt does not fail.            *)
NodelayFails ==
  /\ main = "connected" /\ listener[conn].disconnected
  /\ main' = "ended" /\ ending' = "OSError"
  /\ UNCHANGED <<listener, log, strat, conn, timer, stop, stopped, raising>>

(* The head of the finally block: data off, then the close frame.          *)
Cleanup(l) == Close([l EXCEPT !.dataEnded = TRUE])

(* _assert_handshake: a server that did not take mm.v1 is closed as well.  *)
Handshake ==
  /\ main = "connected"
  /\ \/ main' = "waiting" /\ timer' = "armed" /\ UNCHANGED <<listener, raising>>
     \/ /\ main' = "grace" /\ raising' = "RuntimeError"
        /\ listener' = [listener EXCEPT ![conn] = Cleanup(@)]
        /\ UNCHANGED timer
  /\ UNCHANGED <<strat, log, conn, stop, stopped, ending>>

(* _timer: a tick that finds the feed stale, or another's verdict latched. *)
TimerTick ==
  LET l == listener[conn] IN
  /\ main = "waiting" /\ timer = "armed" /\ ~stop
  /\ strat = conn \/ l.intent # NoCode
  /\ listener' = [listener EXCEPT ![conn] = Finish(Close(Latch(l, Stale)))]
  /\ timer' = "returned"
  /\ UNCHANGED <<strat, log, conn, stop, main, stopped, raising, ending>>

(* The tick fails: in the Strategy, before there is a verdict, or, once    *)
(* on_timer has latched the stale one, in the codec or in a send.  picows  *)
(* drops what is sent behind a close frame or on a transport that is gone, *)
(* so only a send before that can fail.                                    *)
TimerRaises ==
  LET l == listener[conn] IN
  /\ main = "waiting" /\ timer = "armed" /\ ~stop
  /\ \/ timer' = "RuntimeError" /\ UNCHANGED listener
     \/ /\ strat = conn
        /\ timer' \in IF l.closeSent = NoCode /\ ~l.disconnected THEN Raised ELSE {"RuntimeError"}
        /\ listener' = [listener EXCEPT ![conn] = Latch(l, Stale)]
  /\ UNCHANGED <<log, strat, conn, stop, main, stopped, raising, ending>>

(* asyncio.wait returns: the session is over, the stop event is set or the *)
(* timer is done, and its exception is raised again.  The stopper need not *)
(* be done yet when another is.                                            *)
Resume ==
  LET l == listener[conn] IN
  /\ main = "waiting"
  /\ l.done \/ stop \/ timer \in {"returned"} \cup Raised
  /\ raising' = IF timer \in Raised THEN timer ELSE "none"
  /\ stopped' \in IF ~stop \/ timer \in Raised THEN {FALSE}
                  ELSE IF l.done THEN BOOLEAN ELSE {TRUE}
  /\ timer' = "cancelled"
  /\ listener' = [listener EXCEPT ![conn] = Cleanup(@)]
  /\ main' = "grace"
  /\ UNCHANGED <<strat, log, conn, stop, ending>>

(* await_peer_close: answered, or the grace is over; then disconnect().    *)
GraceEnds ==
  /\ main = "grace"
  /\ main' = "teardown"
  /\ UNCHANGED <<listener, strat, log, conn, timer, stop, stopped, raising, ending>>

(* Mutant: the stop flag is looked at before the intent.                   *)
EndingStopFirst(l) ==
  IF stopped THEN "Stopped" ELSE IF l.intent # NoCode THEN "Decided" ELSE "PeerGone"

(* _ending, after the teardown.                                            *)
Ending(l) ==
  IF l.intent # NoCode THEN "Decided" ELSE IF stopped THEN "Stopped" ELSE "PeerGone"

(* Mutant: finalize is left to picows' callback.                           *)
TeardownLeavesIt(l) == l

(* What _teardown leaves of the listener: finalized whatever picows does.  *)
TornDown(l) == Finalize(l)

(* _teardown: wait_disconnected returns, reports the parser's refusal,     *)
(* which is latched, or our own exception, which is raised; or it times    *)
(* out and the callback is still to come.                                  *)
Teardown ==
  LET l == listener[conn]
      heard == IF l.disconnected /\ l.parserError /\ l.error = "none" THEN Latch(l, Protocol) ELSE l
  IN
  /\ main = "teardown"
  /\ main' = "ended"
  /\ listener' = [listener EXCEPT ![conn] = TornDown(heard)]
  /\ strat' = IF TornDown(heard).finalized THEN Wipes(l) ELSE strat
  /\ ending' = IF l.disconnected /\ l.error # "none" THEN l.error
               ELSE IF raising # "none" THEN raising
               ELSE Ending(heard)
  /\ UNCHANGED <<log, conn, timer, stop, stopped, raising>>

(* run_with_reconnect.                                                     *)
Decide ==
  /\ main = "ended"
  /\ main' = IF ending \in {"PeerGone", "OSError"} /\ conn < MaxAttempts /\ ~stop
             THEN "dialing" ELSE "exited"
  /\ UNCHANGED <<listener, strat, log, conn, timer, stop, stopped, raising, ending>>

OperatorStops ==
  /\ ~stop /\ main # "exited"
  /\ stop' = TRUE
  /\ UNCHANGED <<listener, strat, log, conn, timer, main, stopped, raising, ending>>

------------------------------------------------------------------------------
Init ==
  /\ listener = [c \in Conns |-> NewListener] /\ log = << >>
  /\ strat = 0 /\ conn = 0
  /\ timer = "cancelled" /\ stop = FALSE
  /\ main = "dialing" /\ stopped = FALSE
  /\ raising = "none" /\ ending = "none"

Callbacks(c) ==
  \/ \E f \in DataFrames : OnData(c, f)
  \/ OnIllegalFrame(c) \/ PongFails(c) \/ OnPeerClose(c) \/ ParserRefuses(c) \/ OnDisconnected(c)

Next ==
  \/ \E c \in Conns : Callbacks(c)
  \/ Dial \/ DialFails \/ NodelayFails \/ Handshake \/ TimerTick \/ TimerRaises \/ Resume
  \/ GraceEnds \/ Teardown \/ Decide \/ OperatorStops

(* The event loop runs a coroutine that is ready, and its bounded waits    *)
(* end.  Nothing is assumed of the peer, the transport or the operator.    *)
Fairness ==
  /\ WF_vars(Dial \/ DialFails)
  /\ WF_vars(Handshake \/ NodelayFails)
  /\ WF_vars(Resume)
  /\ WF_vars(GraceEnds)
  /\ WF_vars(Teardown)
  /\ WF_vars(Decide)

Spec == Init /\ [][Next]_vars /\ Fairness

------------------------------------------------------------------------------
(* The connections of a run never meet in the Strategy: a connection       *)
(* enters only a Strategy that is in no session, a session is wiped only   *)
(* by its own connection's end, however late picows' disconnect callback   *)
(* of an older one comes (finalize in _teardown and on_ws_disconnected),   *)
(* and no message reaches it once a close frame has gone out or the stop   *)
(* has been acted upon (end_data before _close, the head of _dispatch).    *)
OneSessionDrives ==
  /\ [][strat' # strat =>
          \/ strat = 0
          \/ strat' = 0 /\ listener'[strat].finalized /\ ~listener[strat].finalized]_vars
  /\ [][\A c \in Conns : listener'[c].fed # listener[c].fed =>
          listener[c].closeSent = NoCode /\ main \in {"connected", "waiting"}]_vars

(* The frames 1 .. n of the log are messages in sequence: a continuation   *)
(* exactly where a message is open, and no message past the cap.           *)
InSequence(n) ==
  \A i \in 1 .. n :
    /\ (log[i].op = "cont") <=> (i > 1 /\ ~log[i - 1].fin)
    /\ \E j \in 1 .. i : i - j < MaxMsg /\ log[j].op = "text" /\ \A k \in j .. i - 1 : ~log[k].fin

(* The Strategy sees exactly the messages whose frames came in sequence    *)
(* and within the cap: an orphan continuation, interleaved messages or     *)
(* fragments past the cap are closed on, never delivered (_reassemble).    *)
ReassemblyExact ==
  conn > 0 =>
    /\ listener[conn].fed = Cardinality({i \in DOMAIN log :
         log[i].fin /\ log[i].body \in Delivered /\ InSequence(i)})
    /\ ~InSequence(Len(log)) => listener[conn].intent \in {Protocol, TooBig}

(* A verdict is not mistaken for a stop or for a peer that left: a session *)
(* this side closed with one is reported as decided unless run_client      *)
(* raises, and the client dials again behind a verdict only when what left *)
(* run_client is the OSError of a socket call, made after the verdict was  *)
(* latched or before the coroutine heard of it (_ending after the          *)
(* teardown, the policy of run_with_reconnect).                            *)
VerdictSurvives ==
  /\ main = "ended" /\ listener[conn].closeSent \in Verdicts => ending \in {"Decided"} \cup Raised
  /\ main = "dialing" /\ conn > 0 => listener[conn].intent = NoCode \/ ending = "OSError"

(* A verdict of either task and a failure of the timer end the wait, and   *)
(* the operator's stop ends the client although the peer neither answers   *)
(* nor disconnects.                                                        *)
TunedClientEnds ==
  /\ (main = "waiting" /\ (listener[conn].intent # NoCode \/ timer \in Raised)) ~> (main # "waiting")
  /\ stop ~> (main = "exited")
==============================================================================
