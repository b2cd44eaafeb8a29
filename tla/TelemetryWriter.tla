--------------------------- MODULE TelemetryWriter ---------------------------
(***************************************************************************)
(* The telemetry path of one run: the owner thread (cpp/src/server.cpp)    *)
(* pushes records into the ring, and the writer thread (mm/telemetry.hpp)  *)
(* drains them to a file.  The run ends in finalize(), reached by a stop   *)
(* or by an exception that left the event loop; it publishes the final     *)
(* snapshot, joins the writer and decides telemetry_ok_.                   *)
(*                                                                         *)
(* The ring is SpscQueue, which SpscRing implements.  The file takes whole *)
(* lines; a flush may fail at any time, leaving part of its batch on file, *)
(* and a stream that failed stays failed.  A wait that is bounded by a     *)
(* deadline may always run into it.                                        *)
(***************************************************************************)
EXTENDS SpscQueue, Integers

CONSTANTS
  MaxEvents,   \* bound of the model on the records pushed while running
  MaxDropped   \* bound of the model on dropped_

ASSUME BoundsAssumption == MaxEvents \in Nat /\ MaxDropped \in Nat

VARIABLES
  owner,    \* where the owner thread is
  snapOk,   \* both records of the final snapshot were published so far
  ok,       \* telemetry_ok_
  faulted,  \* an exception left the event loop
  gaveUp,   \* publish_pending_fault ended on its deadline
  stop,     \* stop_
  writer,   \* where the writer thread is
  budget,   \* records left in the batch of drain()
  final,    \* the batch is the last one
  wrote,    \* this batch put a line into the stream
  failed,   \* output_failed_
  lost,     \* lost_lines_
  bad,      \* out_.fail()
  buffer,   \* lines in the stream and not yet flushed
  file,     \* lines on file
  marker,   \* the close marker on file, or NoMarker
  taken,    \* history: every record the ring took
  popped,   \* history: how many of them were drained
  atLatch   \* history: how many were drained when output_failed_ was set

ownerVars == <<owner, snapOk, ok, faulted, gaveUp, stop>>
streamVars == <<bad, buffer, file, marker>>
writerVars == <<writer, budget, final, wrote, failed, lost, popped, atLatch>>
vars == <<queueVars, ownerVars, streamVars, writerVars, taken>>

NoMarker == [pendingLeft |-> -1, streamOk |-> FALSE]
Event(n) == [kind |-> "event", n |-> n]
Fault == [kind |-> "fault", n |-> 0]
Totals == [kind |-> "totals", n |-> 0]
Watermarks == [kind |-> "watermarks", n |-> 0]

------------------------------------------------------------------------------
(* try_push of r by the owner, and whether it succeeded.                   *)
TryPush(r, success) ==
  \/ success /\ Push(r) /\ taken' = Append(taken, r)
  \/ ~success /\ dropped < MaxDropped /\ Drop /\ UNCHANGED taken

(* emit_event and push_snapshot while the loop runs: fire and forget.      *)
Emit ==
  \E success \in BOOLEAN :
    /\ owner = "running"
    /\ Len(taken) < MaxEvents
    /\ TryPush(Event(Len(taken)), success)
    /\ UNCHANGED <<ownerVars, streamVars, writerVars>>

(* The loop was stopped and finalize is reached; a stop that could not     *)
(* hand the signals back has made the run not ok (begin_stop).             *)
LoopEnds ==
  /\ owner = "running"
  /\ owner' = "totals"
  /\ ok' \in BOOLEAN
  /\ UNCHANGED <<queueVars, snapOk, faulted, gaveUp, stop, streamVars,
                 writerVars, taken>>

(* An exception leaves the loop: the fault record is offered once, and     *)
(* held if the ring stays full; the run is not ok.                         *)
LoopThrows ==
  \E success \in BOOLEAN :
    /\ owner = "running"
    /\ TryPush(Fault, success)
    /\ owner' = IF success THEN "totals" ELSE "fault"
    /\ ok' = FALSE
    /\ faulted' = TRUE
    /\ UNCHANGED <<snapOk, gaveUp, stop, streamVars, writerVars>>

(* Mutant: the held fault is forgotten.                                    *)
ForgetFault ==
  /\ owner = "fault"
  /\ owner' = "totals"
  /\ UNCHANGED <<queueVars, snapOk, ok, faulted, gaveUp, stop, streamVars,
                 writerVars, taken>>

(* publish_pending_fault: offered again until it is taken or the longer    *)
(* deadline passes.                                                        *)
OfferFault ==
  \E success, again \in BOOLEAN :
    /\ owner = "fault"
    /\ TryPush(Fault, success)
    /\ owner' = IF ~success /\ again THEN "fault" ELSE "totals"
    /\ gaveUp' = (~success /\ ~again)
    /\ UNCHANGED <<snapOk, ok, faulted, stop, streamVars, writerVars>>

(* push_final_snapshot: both records, whatever becomes of the first.       *)
PublishTotals ==
  \E success \in BOOLEAN :
    /\ owner = "totals"
    /\ TryPush(Totals, success)
    /\ owner' = "watermarks"
    /\ snapOk' = success
    /\ UNCHANGED <<ok, faulted, gaveUp, stop, streamVars, writerVars>>

PublishWatermarks ==
  \E success \in BOOLEAN :
    /\ owner = "watermarks"
    /\ TryPush(Watermarks, success)
    /\ owner' = "stop"
    /\ snapOk' = (success /\ snapOk)
    /\ UNCHANGED <<ok, faulted, gaveUp, stop, streamVars, writerVars>>

(* stop_and_join: the flag, then the join.                                 *)
RequestStop ==
  /\ owner = "stop"
  /\ stop' = TRUE
  /\ owner' = "join"
  /\ UNCHANGED <<queueVars, snapOk, ok, faulted, gaveUp, streamVars, writerVars,
                 taken>>

(* Mutant: the health is read before the writer has been joined.           *)
JudgeUnjoined ==
  /\ owner = "join"
  /\ ok' = (snapOk /\ ~failed /\ ok)
  /\ owner' = "done"
  /\ UNCHANGED <<queueVars, snapOk, faulted, gaveUp, stop, streamVars,
                 writerVars, taken>>

(* finalize, after the join: the health of the run.                        *)
Judge ==
  /\ owner = "join"
  /\ writer = "exited"
  /\ ok' = (snapOk /\ ~failed /\ ok)
  /\ owner' = "done"
  /\ UNCHANGED <<queueVars, snapOk, faulted, gaveUp, stop, streamVars,
                 writerVars, taken>>

------------------------------------------------------------------------------
(* drain: the records pending now are the batch.                           *)
DrainBegin ==
  /\ writer = "entry"
  /\ budget' = Len(queue)
  /\ wrote' = FALSE
  /\ writer' = "drain"
  /\ UNCHANGED <<queueVars, ownerVars, streamVars, final, failed, lost, popped,
                 atLatch, taken>>

(* drain, the sink latched dead: count the record and go on.               *)
DrainLost ==
  /\ writer = "drain" /\ budget > 0
  /\ failed
  /\ Pop
  /\ lost' = lost + 1
  /\ popped' = popped + 1
  /\ budget' = budget - 1
  /\ UNCHANGED <<ownerVars, streamVars, writer, final, wrote, failed, atLatch,
                 taken>>

(* drain: one line into the stream, which takes nothing once it failed.    *)
DrainLine ==
  /\ writer = "drain" /\ budget > 0
  /\ ~failed
  /\ Pop
  /\ buffer' = IF bad THEN buffer ELSE Append(buffer, Head(queue))
  /\ popped' = popped + 1
  /\ budget' = budget - 1
  /\ wrote' = TRUE
  /\ UNCHANGED <<ownerVars, bad, file, marker, writer, final, failed, lost,
                 atLatch, taken>>

(* Mutant: the error of a failed flush is cleared before it is looked at.  *)
FlushRetries(lines) ==
  \/ file' = file \o lines /\ UNCHANGED bad
  \/ UNCHANGED <<file, bad>>

(* The stream is flushed: the whole buffer, or a part of it and a failure. *)
Flush(lines) ==
  \/ bad /\ UNCHANGED <<bad, file>>
  \/ ~bad /\ file' = file \o lines /\ UNCHANGED bad
  \/ /\ ~bad /\ bad' = TRUE
     /\ \E n \in 0 .. Len(lines) : file' = file \o SubSeq(lines, 1, n)

(* The latch: set at the first failure seen, never cleared.                *)
Latch ==
  /\ failed' = (failed \/ bad')
  /\ atLatch' = IF ~failed /\ bad' THEN popped ELSE atLatch

(* drain: the flush that ends a batch, and the check of the stream.        *)
DrainEnd ==
  /\ writer = "drain" /\ budget = 0
  /\ IF wrote THEN Flush(buffer) ELSE UNCHANGED <<bad, file>>
  /\ buffer' = << >>
  /\ Latch
  /\ writer' = IF final THEN "close" ELSE "decide"
  /\ UNCHANGED <<queueVars, ownerVars, marker, budget, final, wrote, lost,
                 popped, taken>>

(* run, under the mutex: stop, go on at once, or wait.                     *)
Decide ==
  /\ writer = "decide"
  /\ writer' = IF stop \/ queue # << >> THEN "entry" ELSE "wait"
  /\ final' = stop
  /\ UNCHANGED <<queueVars, ownerVars, streamVars, budget, wrote, failed, lost,
                 popped, atLatch, taken>>

(* Mutant: the wait is for records, not for the stop flag or the poll.     *)
WakeOnRecords ==
  /\ writer = "wait"
  /\ queue # << >>
  /\ writer' = "entry"
  /\ final' = stop
  /\ UNCHANGED <<queueVars, ownerVars, streamVars, budget, wrote, failed, lost,
                 popped, atLatch, taken>>

(* run: notified of the stop, or the poll interval is over.                *)
Wake ==
  /\ writer = "wait"
  /\ writer' = "entry"
  /\ final' = stop
  /\ UNCHANGED <<queueVars, ownerVars, streamVars, budget, wrote, failed, lost,
                 popped, atLatch, taken>>

(* run: the close marker, its flush and the last check of the stream.      *)
Close ==
  /\ writer = "close"
  /\ \/ bad /\ UNCHANGED <<bad, marker>>
     \/ ~bad /\ bad' = TRUE /\ UNCHANGED marker
     \/ /\ ~bad /\ UNCHANGED bad
        /\ marker' = [pendingLeft |-> Len(queue), streamOk |-> ~failed]
  /\ Latch
  /\ writer' = "exited"
  /\ UNCHANGED <<queueVars, ownerVars, buffer, file, budget, final, wrote, lost,
                 popped, taken>>

------------------------------------------------------------------------------
(* The constructor: the open marker's own flush is checked before the      *)
(* thread exists, so a writer born onto a dead sink starts latched.        *)
OpenedOn(dead) == failed = dead /\ bad = dead

Init ==
  /\ queue = << >> /\ dropped = 0
  /\ owner = "running"
  /\ snapOk = TRUE /\ ok = TRUE /\ faulted = FALSE /\ gaveUp = FALSE
  /\ stop = FALSE
  /\ writer = "entry"
  /\ budget = 0 /\ final = FALSE /\ wrote = FALSE /\ lost = 0
  /\ \E dead \in BOOLEAN : OpenedOn(dead)
  /\ buffer = << >> /\ file = << >> /\ marker = NoMarker
  /\ taken = << >> /\ popped = 0 /\ atLatch = 0

OwnerStep ==
  \/ OfferFault
  \/ PublishTotals
  \/ PublishWatermarks
  \/ RequestStop
  \/ Judge

WriterStep ==
  \/ DrainBegin
  \/ DrainLost
  \/ DrainLine
  \/ DrainEnd
  \/ Decide
  \/ Wake
  \/ Close

Finished == owner = "done" /\ UNCHANGED vars

Next == Emit \/ LoopEnds \/ LoopThrows \/ OwnerStep \/ WriterStep \/ Finished

(* Both threads are scheduled; the loop need not end.                      *)
Spec == Init /\ [][Next]_vars /\ WF_vars(OwnerStep) /\ WF_vars(WriterStep)

------------------------------------------------------------------------------
AllRecords ==
  {Event(n) : n \in 0 .. MaxEvents} \cup {Fault, Totals, Watermarks}

(* telemetry_ok() is worth believing: a run that reports it has every      *)
(* record the ring took on file, in order, ending in the whole final       *)
(* snapshot, and a close marker that says that nothing is left.            *)
HealthyMeansComplete ==
  (owner = "done" /\ ok) =>
    /\ file = taken
    /\ Len(file) >= 2
    /\ SubSeq(file, Len(file) - 1, Len(file)) = <<Totals, Watermarks>>
    /\ marker = [pendingLeft |-> 0, streamOk |-> TRUE]

(* What a reader of a crashed run finds has no hole and no stray line: at  *)
(* every moment the file is an initial part of what the ring took, and     *)
(* lost_lines_ is exactly the records drained since the latch was set, all *)
(* of them on a sink that was dead from the start (drain, the constructor).*)
FileAccounted ==
  /\ Len(file) <= Len(taken) /\ file = SubSeq(taken, 1, Len(file))
  /\ lost = IF failed THEN popped - atLatch ELSE 0
  /\ (bad /\ writer = "decide") => failed
  /\ (bad /\ popped = 0) => failed

(* A run that ended in an exception is never reported healthy, and unless  *)
(* the sink died or never drained, its file shows the fault ahead of the   *)
(* final snapshot.                                                         *)
CrashIsOnFile ==
  (owner = "done" /\ faulted) =>
    /\ ~ok
    /\ (~failed /\ ~gaveUp) =>
         \E i \in 1 .. Len(file) :
           /\ file[i] = Fault
           /\ \A j \in 1 .. Len(file) : file[j] \in {Totals, Watermarks} => i < j

(* A dead file never backs the ring up (a full ring gets room again), and  *)
(* the shutdown ends: the join returns (drain, run, stop_and_join).        *)
WriterProgress ==
  /\ (Len(queue) = Capacity) ~> (Len(queue) < Capacity)
  /\ (owner # "running") ~> (owner = "done")
==============================================================================
