------------------------------- MODULE Session -------------------------------
(***************************************************************************)
(* One WebSocket session of the server (cpp/src/session.cpp, the close     *)
(* half in session_close.cpp, its queue in mm/outbox.hpp).                 *)
(*                                                                         *)
(* The session lives on the server's one event loop: what interleaves are  *)
(* the completions of its asynchronous operations (the read, the write,    *)
(* the closing handshake, the drain after an oversize message, the grace   *)
(* timer) with the calls the server makes on it (a book published, a close *)
(* asked for, the shutdown deadline).  A completion handler runs to its    *)
(* end, so it is one step; the handlers call one another, so they are      *)
(* functions from session to session, named after the methods.             *)
(*                                                                         *)
(* A report is its kind and its number, counted over all the reports the   *)
(* engine produced for the session.  A service time (svc_ns) is the number *)
(* of the OrderAck whose command it was measured on.  Encoding a message   *)
(* may fail (the codec's empty buffer): a handler encodes at most one,     *)
(* and `enc` says whether that one succeeds.                               *)
(***************************************************************************)
EXTENDS EngineView, Sequences

CONSTANTS
  ReportHwm,   \* Config::report_hwm
  MaxEntries,  \* the engine's per-session retention cap
  MaxReports,  \* bound of the model on the reports of a session
  MaxBooks     \* bound of the model on the books published

ASSUME SessionAssumption ==
  /\ ReportHwm \in Nat \ {0}
  /\ MaxEntries \in Nat \ {0}
  /\ MaxReports \in Nat
  /\ MaxBooks \in Nat

VARIABLES
  session,   \* the Session object, with the engine's orders of its epoch
  mdSeq,     \* next_md_seq_: books published so far
  stopping   \* stopping_

vars == <<session, mdSeq, stopping>>

NoTob == 0
Idle == [kind |-> "none"]

(* RFC 6455 close codes.  NoCode is close_code::none.                      *)
NoCode == 0
Normal == 1000
GoingAway == 1001
ProtocolError == 1002
Abnormal == 1006
BadPayload == 1007
PolicyError == 1008
TooBig == 1009
InternalError == 1011

NewSession ==
  [reports |-> << >>, tob |-> NoTob, breached |-> FALSE, conflated |-> 0,
   svc |-> << >>, outSeq |-> 1, inSeq |-> 1, writing |-> Idle,
   closing |-> FALSE, code |-> NoCode, drain |-> FALSE, frameSent |-> FALSE,
   retired |-> FALSE, tornDown |-> FALSE, recorded |-> NoCode,
   reading |-> TRUE, closeOp |-> "none", draining |-> FALSE, grace |-> FALSE,
   severed |-> FALSE, orders |-> AllFree,
   made |-> 0, sent |-> 0, ticks |-> 0, unencoded |-> FALSE]

------------------------------------------------------------------------------
(* retire_epoch: cancel-on-disconnect, once; the acks are discarded.       *)
RetireEpoch(s) ==
  IF s.retired THEN s
  ELSE [s EXCEPT !.orders = EndOutcome(s.orders).orders, !.retired = TRUE]

(* latch_close: the first intent keeps its code and its drain policy.      *)
LatchClose(s, code, drain) ==
  IF s.closing \/ s.tornDown THEN s
  ELSE RetireEpoch([s EXCEPT !.closing = TRUE, !.code = code, !.drain = drain])

(* Mutant: the handshake is not bounded.                                   *)
SendCloseFrameUntimed(s) ==
  IF s.frameSent \/ s.tornDown \/ s.writing # Idle THEN s
  ELSE [s EXCEPT !.frameSent = TRUE, !.closeOp = "handshake"]

(* send_close_frame: start the closing handshake and bound it.             *)
SendCloseFrame(s) ==
  IF s.frameSent \/ s.tornDown \/ s.writing # Idle THEN s
  ELSE [s EXCEPT !.frameSent = TRUE, !.closeOp = "handshake", !.grace = TRUE]

(* teardown: the session leaves the server's map with a recorded code.     *)
Teardown(s, code) ==
  IF s.tornDown THEN s
  ELSE [RetireEpoch(s) EXCEPT !.tornDown = TRUE, !.grace = FALSE,
                              !.severed = TRUE, !.recorded = code]

(* The code a teardown records: that of a close under way, or `other`.     *)
CodeOr(s, other) == IF s.closing THEN s.code ELSE other

------------------------------------------------------------------------------
(* Outbox: a message waiting to be stamped.                                *)
Message(kind, n) == [kind |-> kind, n |-> n, seq |-> 0, svc |-> 0]

(* pump, once a message was popped: stamp it, encode it and write it.  An  *)
(* empty encoding drops the message and closes the session.                *)
Stamp(s, m) ==
  [m EXCEPT !.seq = s.outSeq,
            !.svc = IF m.kind = "OrderAck" /\ s.svc # << >> THEN Head(s.svc) ELSE 0]

Stamped(s, m) ==
  [s EXCEPT !.outSeq = @ + 1,
            !.svc = IF m.kind = "OrderAck" /\ @ # << >> THEN Tail(@) ELSE @]

HandOver(s, m) ==
  [Stamped(s, m) EXCEPT !.writing = Stamp(s, m),
                        !.sent = IF m.kind = "Tob" THEN @ ELSE @ + 1,
                        !.ticks = IF m.kind = "Tob" THEN @ + 1 ELSE @]

Write(s, m, enc) ==
  IF enc THEN HandOver(s, m)
  ELSE SendCloseFrame(LatchClose([Stamped(s, m) EXCEPT !.unencoded = TRUE],
                                 InternalError, FALSE))

(* Outbox::pop: the oldest report, and the tick once no report is left.    *)
PopReport(s) == [s EXCEPT !.reports = Tail(@)]
PopTob(s) == [s EXCEPT !.tob = NoTob]

(* Mutant: the pump does not notice the close frame.                       *)
PumpPastClose(s, enc) ==
  IF s.writing # Idle \/ s.tornDown THEN s
  ELSE IF s.reports # << >>
       THEN Write(PopReport(s), Head(s.reports), enc)
  ELSE IF s.closing THEN SendCloseFrame(PopTob(s))
  ELSE IF s.tob # NoTob
       THEN Write(PopTob(s), Message("Tob", s.tob), enc)
  ELSE s

(* pump: at most one write in flight; reports before the tick; a closing   *)
(* session discards the tick and ends with the close frame.                *)
Pump(s, enc) ==
  IF s.writing # Idle \/ s.tornDown \/ s.frameSent THEN s
  ELSE IF s.closing /\ ~s.drain THEN SendCloseFrame(s)
  ELSE IF s.reports # << >>
       THEN Write(PopReport(s), Head(s.reports), enc)
  ELSE IF s.closing THEN SendCloseFrame(PopTob(s))
  ELSE IF s.tob # NoTob
       THEN Write(PopTob(s), Message("Tob", s.tob), enc)
  ELSE s

(* Mutant: no close drains.                                                *)
BeginCloseAtOnce(s, code, enc) ==
  IF s.closing \/ s.tornDown THEN s ELSE Pump(LatchClose(s, code, FALSE), enc)

(* begin_close: policy closes drain the queued reports, protocol closes    *)
(* do not.                                                                 *)
BeginClose(s, code, enc) ==
  IF s.closing \/ s.tornDown THEN s
  ELSE Pump(LatchClose(s, code, code \in {PolicyError, GoingAway}), enc)

(* check_policy_closes: the two limits a session may cross.                *)
CheckPolicyCloses(s, enc) ==
  IF ~s.closing /\ (s.breached \/ EntryCount(s.orders) >= MaxEntries)
  THEN BeginClose(s, PolicyError, enc)
  ELSE s

(* Mutant: a report past the mark is dropped.                              *)
PushReportOrDrop(s, kind) ==
  [s EXCEPT !.reports = IF Len(@) < ReportHwm
                        THEN Append(@, Message(kind, s.made + 1)) ELSE @,
            !.made = @ + 1]

(* Outbox::push_report.                                                    *)
PushReport(s, kind) ==
  LET queue == Append(s.reports, Message(kind, s.made + 1)) IN
  [s EXCEPT !.reports = queue, !.made = @ + 1,
            !.breached = @ \/ Len(queue) > ReportHwm]

(* Mutant: the mark is not looked at.                                      *)
EnqueueUnchecked(s, kind, enc) == PushReport(s, kind)

(* enqueue_report: the push and, in the same turn, the policy check.       *)
EnqueueReport(s, kind, enc) == CheckPolicyCloses(PushReport(s, kind), enc)

(* Outbox::push_tob: a slot of one, a newer tick replaces a pending one.   *)
PushTob(s, md) ==
  [s EXCEPT !.tob = md, !.conflated = IF s.tob = NoTob THEN @ ELSE @ + 1]

------------------------------------------------------------------------------
(* on_command, past the envelope checks: the engine's outcome x is applied *)
(* and its report queued, with a service time if it acknowledges an order. *)
ApplyOutcome(s, x, enc) ==
  LET kind == (CHOOSE r \in x.batch : TRUE)[1]
      timed == [s EXCEPT !.orders = x.orders,
                         !.svc = IF kind = "OrderAck" THEN Append(@, s.made + 1)
                                 ELSE @]
  IN EnqueueReport(timed, kind, enc)

(* The sequence number is consumed by a stale epoch too, but not by what   *)
(* is refused before the envelope is read.                                 *)
Consume(s) == [s EXCEPT !.inSeq = @ + 1]

DeliverReport(s, enc) == Pump(EnqueueReport(s, "Fill", enc), enc)

(* publish_book: deliver_report for each fill of the book.                 *)
DeliverFills(s, n, enc) ==
  LET after[i \in 0 .. n] == IF i = 0 THEN s ELSE DeliverReport(after[i - 1], enc)
  IN after[n]

(* deliver_tob.                                                            *)
DeliverTob(s, md, enc) == IF s.closing THEN s ELSE Pump(PushTob(s, md), enc)

------------------------------------------------------------------------------
(* The read completes.  A session that is closing reads and discards.      *)
CanRead == session.reading /\ ~session.tornDown
CanReadFrame ==
  CanRead /\ ~session.severed /\ ~session.closing /\ session.made < MaxReports

(* on_message: over the size cap or undecodable, answered with a Reject.   *)
ReadRefused ==
  \E enc \in BOOLEAN :
    /\ CanReadFrame
    /\ session' = Pump(EnqueueReport(session, "Reject", enc), enc)
    /\ UNCHANGED <<mdSeq, stopping>>

(* on_read of a binary frame, on_command of a sequence number that is not  *)
(* the expected one: close 1002.                                           *)
ReadBroken ==
  \E enc \in BOOLEAN :
    /\ CanReadFrame
    /\ session' = Pump(BeginClose(session, ProtocolError, enc), enc)
    /\ UNCHANGED <<mdSeq, stopping>>

(* on_command with another epoch: a Reject, and the session goes on.       *)
ReadStaleEpoch ==
  \E enc \in BOOLEAN :
    /\ CanReadFrame
    /\ session' = Pump(EnqueueReport(Consume(session), "Reject", enc), enc)
    /\ UNCHANGED <<mdSeq, stopping>>

ReadNewOrder(id) ==
  \E enc \in BOOLEAN, x \in NewOutcomes(session.orders, id) :
    /\ CanReadFrame
    /\ session' = Pump(ApplyOutcome(Consume(session), x, enc), enc)
    /\ UNCHANGED <<mdSeq, stopping>>

ReadCancel(id) ==
  \E enc \in BOOLEAN :
    /\ CanReadFrame
    /\ session' = Pump(ApplyOutcome(Consume(session),
                                    CancelOutcome(session.orders, id), enc), enc)
    /\ UNCHANGED <<mdSeq, stopping>>

(* A close with an empty body is a close 1000.                             *)
Normalised(peer) == IF peer = NoCode THEN Normal ELSE peer

(* error::closed: the peer's own close, or its answer to ours.             *)
ReadClosed ==
  \E peer \in {NoCode, GoingAway} :
    /\ CanRead /\ ~session.severed
    /\ session' = Teardown(session, CodeOr(session, Normalised(peer)))
    /\ UNCHANGED <<mdSeq, stopping>>

(* The idle timeout, under either of its spellings.                        *)
ReadTimeout ==
  /\ CanRead
  /\ session' = Teardown(session, CodeOr(session, GoingAway))
  /\ UNCHANGED <<mdSeq, stopping>>

(* Mutant: the intent is declared inline, without retiring the epoch.      *)
ReadTooBigInline ==
  /\ CanRead /\ ~session.severed
  /\ session' =
       IF session.closing THEN Teardown(session, session.code)
       ELSE [session EXCEPT
               !.closing = TRUE, !.code = TooBig,
               !.frameSent = TRUE, !.closeOp = "tooBig", !.reading = FALSE]
  /\ UNCHANGED <<mdSeq, stopping>>

(* message_too_big: a close of its own, with its own drain of the socket;  *)
(* if another close is under way, teardown.                                *)
ReadTooBig ==
  /\ CanRead /\ ~session.severed
  /\ session' =
       IF session.closing THEN Teardown(session, session.code)
       ELSE [LatchClose(session, TooBig, FALSE) EXCEPT
               !.frameSent = TRUE, !.closeOp = "tooBig", !.reading = FALSE]
  /\ UNCHANGED <<mdSeq, stopping>>

(* A protocol violation (Beast has sent 1007 or 1002), and any other error *)
(* of the transport; a severed transport ends the read this way.           *)
ReadError ==
  \E code \in {BadPayload, ProtocolError, Abnormal} :
    /\ CanRead
    /\ session.severed => code = Abnormal
    /\ session' = Teardown(session, CodeOr(session, code))
    /\ UNCHANGED <<mdSeq, stopping>>

------------------------------------------------------------------------------
(* on_write: the message is out and the next one may go.                   *)
WriteDone ==
  \E enc \in BOOLEAN :
    /\ session.writing # Idle
    /\ ~session.severed
    /\ session' = Pump([session EXCEPT !.writing = Idle], enc)
    /\ UNCHANGED <<mdSeq, stopping>>

(* on_write with an error, the idle timeout or any other.                  *)
WriteFailed ==
  \E code \in {GoingAway, Abnormal} :
    /\ session.writing # Idle
    /\ session' = Teardown([session EXCEPT !.writing = Idle], CodeOr(session, code))
    /\ UNCHANGED <<mdSeq, stopping>>

(* The closing handshake fails; when it succeeds the read sees `closed`.   *)
HandshakeFailed ==
  /\ session.closeOp = "handshake" /\ ~session.tornDown
  /\ session' = Teardown([session EXCEPT !.closeOp = "none"], session.code)
  /\ UNCHANGED <<mdSeq, stopping>>

(* The close after message_too_big ends: drain_transport arms the grace    *)
(* timer and reads the raw socket.                                         *)
DrainTransport ==
  /\ session.closeOp = "tooBig" /\ ~session.tornDown
  /\ session' = [session EXCEPT !.closeOp = "none", !.grace = TRUE, !.draining = TRUE]
  /\ UNCHANGED <<mdSeq, stopping>>

(* drain_read meets the end of the stream or a severed transport.          *)
DrainEnded ==
  /\ session.draining /\ ~session.tornDown
  /\ session' = Teardown([session EXCEPT !.draining = FALSE], session.code)
  /\ UNCHANGED <<mdSeq, stopping>>

(* The grace timer severs the transport.                                   *)
GraceExpires ==
  /\ session.grace /\ ~session.tornDown
  /\ session' = [session EXCEPT !.grace = FALSE, !.severed = TRUE]
  /\ UNCHANGED <<mdSeq, stopping>>

------------------------------------------------------------------------------
(* publish_book, as far as it concerns this session: the fills, then the   *)
(* tick.                                                                   *)
PublishBook ==
  \E enc \in BOOLEAN, x \in BookOutcomes(session.orders) :
    /\ ~session.tornDown /\ ~stopping
    /\ mdSeq < MaxBooks
    /\ session.made + Cardinality(x.batch) <= MaxReports
    /\ mdSeq' = mdSeq + 1
    /\ session' = DeliverTob(DeliverFills([session EXCEPT !.orders = x.orders],
                                          Cardinality(x.batch), enc),
                             mdSeq + 1, enc)
    /\ UNCHANGED stopping

(* The feed's drop event, which closes every session.                      *)
DropSessions ==
  \E enc \in BOOLEAN :
    /\ ~session.tornDown /\ ~stopping
    /\ session' = BeginClose(session, GoingAway, enc)
    /\ UNCHANGED <<mdSeq, stopping>>

(* begin_stop: the same close, and the shutdown deadline is armed.         *)
BeginStop ==
  \E enc \in BOOLEAN :
    /\ ~session.tornDown /\ ~stopping
    /\ stopping' = TRUE
    /\ session' = BeginClose(session, GoingAway, enc)
    /\ UNCHANGED mdSeq

(* The shutdown deadline severs the transport of a session still there.    *)
ShutdownDeadline ==
  /\ stopping /\ ~session.tornDown /\ ~session.severed
  /\ session' = [session EXCEPT !.severed = TRUE]
  /\ UNCHANGED <<mdSeq, stopping>>

------------------------------------------------------------------------------
Init ==
  /\ session = NewSession
  /\ mdSeq = 0
  /\ stopping = FALSE

ReadFrame ==
  \/ ReadRefused
  \/ ReadBroken
  \/ ReadStaleEpoch
  \/ \E id \in Ids : ReadNewOrder(id)
  \/ \E id \in Ids : ReadCancel(id)

ReadFails == ReadTimeout \/ ReadError

Next ==
  \/ ReadFrame
  \/ ReadClosed
  \/ ReadTooBig
  \/ ReadFails
  \/ WriteDone
  \/ WriteFailed
  \/ HandshakeFailed
  \/ DrainTransport
  \/ DrainEnded
  \/ GraceExpires
  \/ PublishBook
  \/ DropSessions
  \/ BeginStop
  \/ ShutdownDeadline

(* The timers fire; the close of a failed stream completes; an operation   *)
(* on a severed transport completes with an error.  Nothing is assumed of  *)
(* the peer: it may never read, never answer and never leave.              *)
Fairness ==
  /\ WF_vars(GraceExpires)
  /\ WF_vars(ShutdownDeadline)
  /\ WF_vars(DrainTransport)
  /\ WF_vars(session.severed /\ ReadFails)
  /\ WF_vars(session.severed /\ WriteFailed)
  /\ WF_vars(session.severed /\ DrainEnded)

Spec == Init /\ [][Next]_vars /\ Fairness

------------------------------------------------------------------------------
Kinds == {"OrderAck", "Fill", "CancelAck", "Reject"}

(* What was handed over is an initial part of the reports produced, the    *)
(* queue is the rest, and only a report that could not be encoded is       *)
(* missing, from a session that is then closing.  The envelope sequence on *)
(* the wire has no gap, although an unencodable message spends a number.   *)
ReportsNeverLost ==
  LET queued == Len(session.reports) IN
  /\ \A i \in 1 .. queued : session.reports[i].n = session.made - queued + i
  /\ session.made - (session.sent + queued)
       \in IF session.unencoded THEN {0, 1} ELSE {0}
  /\ session.writing.kind \in Kinds => session.writing.n = session.sent
  /\ session.unencoded => session.closing
  /\ session.writing # Idle => session.writing.seq = session.sent + session.ticks

(* Every OrderAck carries the service time of its own command, and the     *)
(* times waiting are those of the acknowledgements waiting, in order.      *)
SvcPairs ==
  /\ {session.svc[i] : i \in DOMAIN session.svc} =
       {session.reports[i].n :
          i \in {j \in DOMAIN session.reports : session.reports[j].kind = "OrderAck"}}
  /\ \A i, j \in DOMAIN session.svc : i < j => session.svc[i] < session.svc[j]
  /\ session.writing.kind = "OrderAck" => session.writing.svc = session.writing.n

(* A policy close (1008, 1001) drains: its close frame goes out only after *)
(* every report produced for the session has been handed to the socket.    *)
PolicyCloseDrains ==
  (session.frameSent /\ session.code \in {PolicyError, GoingAway}
     /\ ~session.unencoded) =>
    session.sent = session.made /\ session.reports = << >>

(* No order of a session that is leaving rests in the engine: the epoch is *)
(* retired at close intent, on every path there is to it.                  *)
RetiredAtIntent ==
  (session.closing \/ session.tornDown) => LiveIds(session.orders) = {}

(* The report queue is bounded although push_report never refuses: the     *)
(* session closes in the turn that crosses the mark, so at most the rest   *)
(* of one book's fills follow.                                             *)
ReportQueueBounded ==
  \/ Len(session.reports) <= ReportHwm + 1
  \/ Len(session.reports) <= ReportHwm + MaxLive

(* Every tick published to an open session is on the wire, conflated or    *)
(* pending, and a pending one is the newest there is.                      *)
TicksAccounted ==
  /\ ~(session.closing \/ session.tornDown) =>
       session.ticks + session.conflated
         + (IF session.tob = NoTob THEN 0 ELSE 1) = mdSeq
  /\ ~session.closing /\ session.tob # NoTob => session.tob = mdSeq

(* Nothing the session produced is dropped, duplicated, reordered or       *)
(* paired with another's time between the engine and the socket (Outbox,   *)
(* pump): reports are on the wire or queued, ticks also conflated.         *)
MessagesAccounted == ReportsNeverLost /\ TicksAccounted /\ SvcPairs

(* A close is decided once and ends the conversation: no message is handed *)
(* to the socket behind the close frame, the first intent keeps its code   *)
(* whatever other reason to close follows, and the record of a session     *)
(* that was closing is that code (latch_close, pump, teardown).            *)
CloseIsFinal ==
  [][ /\ session.frameSent =>
           /\ session'.sent = session.sent
           /\ session'.ticks = session.ticks
      /\ session.closing => session'.code = session.code
      /\ (session'.tornDown /\ ~session.tornDown) =>
           /\ session'.recorded # NoCode
           /\ session.closing => session'.recorded = session.code
      /\ session.tornDown => session'.recorded = session.recorded ]_vars

(* No peer can hold a session whose close frame is queued, nor a server    *)
(* that stops, whether or not it reads what the session has to write.      *)
CloseConverges == (session.frameSent \/ stopping) ~> session.tornDown
==============================================================================
