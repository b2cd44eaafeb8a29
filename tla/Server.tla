------------------------------- MODULE Server --------------------------------
(***************************************************************************)
(* The life of the server's connections and of the server itself           *)
(* (cpp/src/server_accept.cpp, cpp/src/server.cpp): the acceptor, the      *)
(* upgrades in flight, admission, the session map, the replay of the feed, *)
(* stop and finalize.  All of it runs on one event loop; a step is a       *)
(* handler.                                                                *)
(*                                                                         *)
(* A session is open, then closing, then torn down; what happens inside is *)
(* the module Session, whose CloseConverges is what the                    *)
(* fairness of TornDown after the deadline stands for.                     *)
(***************************************************************************)
EXTENDS Integers, FiniteSets, FeedScript

CONSTANTS
  Conns,        \* connections the peers may make, one attempt each
  MaxSessions,  \* Config::max_sessions
  Files,        \* the feed files the server may be started with, as lines
  MaxBooks      \* bound of the model on the books a looping feed publishes

ASSUME ServerAssumption ==
  /\ IsFiniteSet(Conns) /\ MaxSessions \in Nat \ {0}
  /\ \A f \in Files : f \in Seq(Events \cup {Bad})
  /\ MaxBooks \in Nat

VARIABLES
  phase,      \* where each connection is
  feed,       \* feed_, and whether it loops
  feedIndex,  \* feed_index_
  feedTimer,  \* feed_timer_: armed, queued (its handler is, as a stop cancels
              \* it) or off
  mdSeq,      \* next_md_seq_
  acceptor,   \* the accept operation: armed, backoff or retired
  stopping,   \* stopping_
  finalized,  \* finalized_
  deadline,   \* shutdown_deadline_ has fired
  loop,       \* io_.run(): running, returned or threw; or the feed was refused
  finals      \* history: how often finalize() did its work

vars == <<phase, feed, feedIndex, feedTimer, mdSeq, acceptor, stopping, finalized,
          deadline, loop, finals>>
feedVars == <<feed, feedIndex, feedTimer, mdSeq>>

(* upgrades_: a PendingUpgrade lives while a handler holds it, which is    *)
(* through the handshake and until a refusal is written.                   *)
Upgrading == {"reading", "refused", "handshaking"}
Upgrades == {c \in Conns : phase[c] \in Upgrading}
LiveUpgrades == Cardinality(Upgrades)

(* sessions_.                                                              *)
SessionsIn(p) == {c \in Conns : p[c] \in {"open", "closing"}}
Sessions == SessionsIn(phase)

Running == loop = "running"

(* finalize: once.                                                         *)
Finalize == finalized' = TRUE /\ finals' = IF finalized THEN finals ELSE finals + 1
NoFinalize == UNCHANGED <<finalized, finals>>

------------------------------------------------------------------------------
(* The accept tier of max_sessions.                                        *)
AcceptAdmits == LiveUpgrades < MaxSessions

(* accept_next: a connection past the bound, or one that meets a stopping  *)
(* server, is closed; the acceptor is armed again in every case.           *)
Accept(c) ==
  /\ Running /\ acceptor = "armed"
  /\ phase[c] = "new"
  /\ phase' = [phase EXCEPT ![c] = IF ~stopping /\ AcceptAdmits THEN "reading"
                                   ELSE "gone"]
  /\ UNCHANGED <<feedVars, acceptor, stopping, deadline, loop>>
  /\ NoFinalize

(* accept_next with an error: transient unless the server stops.           *)
AcceptFails ==
  /\ Running /\ acceptor = "armed"
  /\ acceptor' = IF stopping THEN "retired" ELSE "backoff"
  /\ UNCHANGED <<phase, feedVars, stopping, deadline, loop>>
  /\ NoFinalize

(* The backoff timer; begin_stop cancels it.                               *)
AcceptRetry ==
  /\ Running /\ acceptor = "backoff"
  /\ acceptor' = IF stopping THEN "retired" ELSE "armed"
  /\ UNCHANGED <<phase, feedVars, stopping, deadline, loop>>
  /\ NoFinalize

------------------------------------------------------------------------------
Moves(c, to) ==
  /\ phase' = [phase EXCEPT ![c] = to]
  /\ UNCHANGED <<feedVars, acceptor, stopping, deadline, loop>>
  /\ NoFinalize

(* on_upgrade_request: the read failed, ran into its timeout or was        *)
(* aborted by a stop.                                                      *)
UpgradeReadFails(c) == Running /\ phase[c] = "reading" /\ Moves(c, "gone")

(* on_upgrade_request: no mm.v1 (400) or a browser origin (403).           *)
UpgradeUnfit(c) ==
  Running /\ phase[c] = "reading" /\ Moves(c, IF stopping THEN "gone" ELSE "refused")

(* Mutant: the upgrade tier looks at the sessions alone.                   *)
LoadOfSessions == Cardinality(Sessions)

(* The upgrade tier of max_sessions counts the request itself.             *)
Load == Cardinality(Sessions) + LiveUpgrades

(* on_upgrade_request: a fit request, past the bound (503) or accepted.    *)
UpgradeFit(c) ==
  /\ Running /\ phase[c] = "reading"
  /\ Moves(c, IF stopping THEN "gone"
              ELSE IF Load > MaxSessions THEN "refused" ELSE "handshaking")

RefusalWritten(c) == Running /\ phase[c] = "refused" /\ Moves(c, "gone")

(* Mutant: the stop is not looked at again after the handshake.            *)
HandshakeDoneLate(c) == Running /\ phase[c] = "handshaking" /\ Moves(c, "open")

(* The handshake completes: a session, unless a stop landed in between.    *)
HandshakeDone(c) ==
  Running /\ phase[c] = "handshaking" /\ Moves(c, IF stopping THEN "gone" ELSE "open")

HandshakeFails(c) == Running /\ phase[c] = "handshaking" /\ Moves(c, "gone")

------------------------------------------------------------------------------
(* A session declares its close.                                           *)
SessionCloses(c) == Running /\ phase[c] = "open" /\ Moves(c, "closing")

(* session_closed: the session leaves the map, and the last one to leave a *)
(* stopping server finalizes it.                                           *)
TornDown(c) ==
  /\ Running /\ c \in Sessions
  /\ phase' = [phase EXCEPT ![c] = "gone"]
  /\ IF stopping /\ SessionsIn(phase') = {} THEN Finalize ELSE NoFinalize
  /\ UNCHANGED <<feedVars, acceptor, stopping, deadline, loop>>

CloseAll == [c \in Conns |-> IF phase[c] = "open" THEN "closing" ELSE phase[c]]

(* Mutant: a stop with no session waits for a teardown that never comes.   *)
StopWorkWaits ==
  /\ stopping' = TRUE
  /\ phase' = CloseAll
  /\ NoFinalize

(* begin_stop: the acceptor is closed and the upgrades are aborted, which  *)
(* completes their operations with an error; without sessions the server   *)
(* is finalized at once.                                                   *)
StopWork ==
  /\ stopping' = TRUE
  /\ phase' = CloseAll
  /\ IF Sessions = {} THEN Finalize ELSE NoFinalize

(* begin_stop by a signal or stop().  The feed timer it cancels may have   *)
(* expired already: its handler then still runs, and without an error.     *)
BeginStop ==
  /\ Running /\ ~stopping
  /\ StopWork
  /\ feedTimer' \in IF feedTimer = "armed" THEN {"off", "queued"} ELSE {feedTimer}
  /\ UNCHANGED <<feed, feedIndex, mdSeq, acceptor, deadline, loop>>

------------------------------------------------------------------------------
Exhausted == feedIndex >= Len(feed.events)

(* Looping is the driver's decision.                                       *)
Wraps == Exhausted /\ feed.loop

(* on_feed_event, past its guard: the script is over, or its next event is *)
(* applied and the timer armed again unless that event is the end.         *)
Replay ==
  LET at == (IF Wraps THEN 0 ELSE feedIndex) + 1
      event == feed.events[at]
  IN
  \/ /\ Exhausted /\ ~Wraps
     /\ StopWork
     /\ feedTimer' = "off"
     /\ UNCHANGED <<feedIndex, mdSeq>>
  \/ /\ ~Exhausted \/ Wraps
     /\ feedIndex' = at
     /\ feedTimer' = IF event = "end" THEN "off" ELSE "armed"
     /\ IF event = "end" THEN StopWork ELSE NoFinalize /\ UNCHANGED stopping
     /\ event = "drop" => phase' = CloseAll
     /\ event \in {"set", "halt"} => UNCHANGED phase
     /\ event = "set" => mdSeq < MaxBooks
     /\ mdSeq' = IF event = "set" THEN mdSeq + 1 ELSE mdSeq

(* Mutant: the handler does not look at the stop.                          *)
OnFeedEventLate ==
  /\ Running /\ feedTimer # "off"
  /\ Replay
  /\ UNCHANGED <<feed, acceptor, deadline, loop>>

(* The feed timer's handler.                                               *)
OnFeedEvent ==
  /\ Running /\ feedTimer # "off"
  /\ \/ ~stopping /\ Replay
     \/ stopping /\ feedTimer' = "off" /\ NoFinalize
        /\ UNCHANGED <<phase, feedIndex, mdSeq, stopping>>
  /\ UNCHANGED <<feed, acceptor, deadline, loop>>

(* The shutdown deadline severs every transport that is left.              *)
Deadline ==
  /\ Running /\ stopping /\ ~finalized /\ ~deadline
  /\ deadline' = TRUE
  /\ UNCHANGED <<phase, feedVars, acceptor, stopping, loop>>
  /\ NoFinalize

(* Nothing is left to do: io_.run() returns.                               *)
LoopReturns ==
  /\ Running /\ finalized
  /\ Upgrades = {} /\ Sessions = {} /\ acceptor = "retired" /\ feedTimer = "off"
  /\ loop' = "returned"
  /\ UNCHANGED <<phase, feedVars, acceptor, stopping, deadline>>
  /\ NoFinalize

(* A handler throws out of io_.run(): run() finalizes what is there.       *)
LoopThrows ==
  /\ Running
  /\ loop' = "threw"
  /\ stopping' = TRUE
  /\ Finalize
  /\ UNCHANGED <<phase, feedVars, acceptor, deadline>>

------------------------------------------------------------------------------
Init ==
  /\ phase = [c \in Conns |-> "new"]
  /\ \E f \in Files, readError, looping \in BOOLEAN :
       feed = [events |-> load_feed_stream(f, readError), loop |-> looping]
  /\ feedIndex = 0 /\ feedTimer = "armed" /\ mdSeq = 0
  /\ acceptor = "armed"
  /\ stopping = FALSE /\ finalized = FALSE /\ deadline = FALSE
  /\ loop = IF feed.events = << >> THEN "refused" ELSE "running"
  /\ finals = 0

UpgradeEnds(c) == UpgradeReadFails(c) \/ RefusalWritten(c) \/ HandshakeFails(c)

Next ==
  \/ \E c \in Conns :
       \/ Accept(c)
       \/ UpgradeReadFails(c)
       \/ UpgradeUnfit(c)
       \/ UpgradeFit(c)
       \/ RefusalWritten(c)
       \/ HandshakeDone(c)
       \/ HandshakeFails(c)
       \/ SessionCloses(c)
       \/ TornDown(c)
  \/ AcceptFails
  \/ AcceptRetry
  \/ OnFeedEvent
  \/ BeginStop
  \/ Deadline
  \/ LoopReturns
  \/ LoopThrows

(* A closed acceptor and an aborted upgrade complete with an error; the    *)
(* timers fire; a session whose transport is severed is torn down; the     *)
(* loop returns when it has nothing to do.  Nothing is assumed of peers.   *)
Fairness ==
  /\ WF_vars(stopping /\ AcceptFails)
  /\ WF_vars(AcceptRetry)
  /\ \A c \in Conns : WF_vars(stopping /\ UpgradeEnds(c))
  /\ WF_vars(OnFeedEvent)
  /\ WF_vars(Deadline)
  /\ \A c \in Conns : WF_vars(deadline /\ TornDown(c))
  /\ WF_vars(LoopReturns)

Spec == Init /\ [][Next]_vars /\ Fairness

------------------------------------------------------------------------------
(* Admission holds across the two tiers and the handshakes between them:   *)
(* never more sessions than max_sessions and never more upgrades, so that  *)
(* the descriptors are at most twice as many.                              *)
AdmissionHolds ==
  /\ Cardinality(Sessions) <= MaxSessions
  /\ LiveUpgrades <= MaxSessions

(* finalize() runs once, and on a run that did not throw it runs when the  *)
(* last session is gone and none can come.                                 *)
FinalizedOnceAtTheEnd ==
  /\ finals = IF finalized THEN 1 ELSE 0
  /\ finalized => stopping
  /\ (finalized /\ loop # "threw") => Sessions = {}

(* The number of the first n events that publish a book.                   *)
SetsIn(n) == Cardinality({i \in 1 .. n : feed.events[i] = "set"})

(* The books published are the file's, each in its place and in every lap, *)
(* and none is published once the server stops, although the timer's       *)
(* handler may be queued already (on_feed_event, publish_book).            *)
ReplayFollowsScript ==
  /\ [](SetsIn(Len(feed.events)) > 0 =>
          (mdSeq - SetsIn(feedIndex)) % SetsIn(Len(feed.events)) = 0)
  /\ [][mdSeq' # mdSeq => ~stopping]_vars

(* A transient accept failure never retires the listener of a server that  *)
(* is not stopped (accept_next and its backoff); a script that is not      *)
(* looped, or that has an end, stops the server (on_feed_event); and a     *)
(* stop ends the run whatever the peers do (begin_stop, the deadline).     *)
ServerProgress ==
  /\ (Running /\ acceptor # "armed") ~> (acceptor = "armed" \/ stopping)
  /\ (Running /\ (~feed.loop \/ \E i \in DOMAIN feed.events : feed.events[i] = "end")) ~> stopping
  /\ stopping ~> (loop # "running")
==============================================================================
