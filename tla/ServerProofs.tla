---------------------------- MODULE ServerProofs -----------------------------
(***************************************************************************)
(* The server, for every number of connections, every bound and every feed *)
(* file: admission holds, finalize runs once and last, and the replay      *)
(* publishes the script's books in their places.                           *)
(***************************************************************************)
EXTENDS Server, FiniteSetTheorems, SequenceTheorems, TLAPS

Phases ==
  {"new", "reading", "refused", "handshaking", "open", "closing", "gone"}

TypeOK ==
  /\ phase \in [Conns -> Phases]
  /\ feed \in [events : Seq(Events), loop : BOOLEAN]
  /\ feedIndex \in 0 .. Len(feed.events)
  /\ mdSeq \in Nat /\ finals \in Nat
  /\ stopping \in BOOLEAN /\ finalized \in BOOLEAN
  /\ Running => feed.events # << >>

(* The connections that are sessions or will be without being asked again. *)
AdmittedIn(p) == {c \in Conns : p[c] \in {"handshaking", "open", "closing"}}
Admitted == AdmittedIn(phase)

(* A session is admitted when its upgrade is, a handshake earlier.         *)
AdmissionInv ==
  /\ Cardinality(Admitted) <= MaxSessions
  /\ LiveUpgrades <= MaxSessions

(* The books published are those of whole laps and of the current one.     *)
ReplayInv ==
  SetsIn(Len(feed.events)) > 0 =>
    (mdSeq - SetsIn(feedIndex)) % SetsIn(Len(feed.events)) = 0

Inv == TypeOK /\ AdmissionInv /\ FinalizedOnceAtTheEnd /\ ReplayInv

------------------------------------------------------------------------------
(* What load_feed_stream returns is a script.                              *)
LEMMA LoadType ==
  ASSUME NEW f \in Files, NEW readError \in BOOLEAN
  PROVE  load_feed_stream(f, readError) \in Seq(Events)
<1>1. f \in Seq(Events \cup {Bad})
  BY ServerAssumption
<1>2. CASE load_feed_stream(f, readError) = << >>
  BY <1>2
<1>3. CASE load_feed_stream(f, readError) # << >>
  <2>1. /\ load_feed_stream(f, readError) = f
        /\ \A k \in 1 .. Len(f) : f[k] # Bad
    BY <1>3 DEF load_feed_stream
  <2>2. \A k \in 1 .. Len(f) : f[k] \in Events
    BY <1>1, <2>1
  <2>3. QED  BY <1>1, <2>1, <2>2
<1>4. QED  BY <1>2, <1>3

(* The three sets of connections are finite and counted.                   *)
LEMMA SetsFinite ==
  /\ IsFiniteSet(Admitted) /\ IsFiniteSet(Upgrades) /\ IsFiniteSet(Sessions)
  /\ Cardinality(Admitted) \in Nat /\ LiveUpgrades \in Nat
  /\ Cardinality(Sessions) \in Nat
<1>1. Admitted \subseteq Conns /\ Upgrades \subseteq Conns /\ Sessions \subseteq Conns
  BY DEF Admitted, AdmittedIn, Upgrades, Sessions, SessionsIn
<1>2. IsFiniteSet(Admitted) /\ IsFiniteSet(Upgrades) /\ IsFiniteSet(Sessions)
  BY <1>1, FS_Subset, ServerAssumption
<1>3. QED  BY <1>2, FS_CardinalityType DEF LiveUpgrades

(* A step that admits nobody keeps the bounds.                             *)
LEMMA Shrinks ==
  ASSUME AdmissionInv, Admitted' \subseteq Admitted, Upgrades' \subseteq Upgrades
  PROVE  AdmissionInv'
<1>1. /\ Cardinality(Admitted') <= Cardinality(Admitted)
      /\ Cardinality(Upgrades') <= Cardinality(Upgrades)
      /\ Cardinality(Admitted') \in Nat /\ Cardinality(Upgrades') \in Nat
  BY SetsFinite, FS_Subset, FS_CardinalityType
<1>2. QED
  BY <1>1, SetsFinite, ServerAssumption DEF AdmissionInv, LiveUpgrades

(* One more connection, in no set before, is one more counted.             *)
LEMMA OneMore ==
  ASSUME NEW S, NEW T, NEW x, IsFiniteSet(S), T \subseteq S \cup {x}
  PROVE  /\ Cardinality(T) <= Cardinality(S) + 1
         /\ Cardinality(T) \in Nat /\ Cardinality(S) \in Nat
<1>1. /\ IsFiniteSet(S \cup {x})
      /\ Cardinality(S \cup {x}) <= Cardinality(S) + 1
      /\ Cardinality(S) \in Nat
  BY FS_AddElement, FS_CardinalityType
<1>2. Cardinality(T) <= Cardinality(S \cup {x}) /\ IsFiniteSet(T)
  BY <1>1, FS_Subset
<1>3. QED  BY <1>1, <1>2, FS_CardinalityType

------------------------------------------------------------------------------
(* The number of set events among the first n, step by step.               *)
LEMMA SetsInStep ==
  ASSUME feed \in [events : Seq(Events), loop : BOOLEAN]
  PROVE  /\ SetsIn(0) = 0
         /\ \A n \in Nat : SetsIn(n) \in Nat
         /\ \A n \in Nat : SetsIn(n + 1) =
              IF feed.events[n + 1] = "set" THEN SetsIn(n) + 1 ELSE SetsIn(n)
<1> DEFINE S(n) == {i \in 1 .. n : feed.events[i] = "set"}
<1>1. \A n \in Nat : IsFiniteSet(S(n))
  <2> SUFFICES ASSUME NEW n \in Nat PROVE IsFiniteSet(S(n))
    OBVIOUS
  <2>1. IsFiniteSet(1 .. n)  BY FS_Interval
  <2>2. QED  BY <2>1, FS_Subset
<1>2. SetsIn(0) = 0
  <2>1. S(0) = {}  OBVIOUS
  <2>2. QED  BY <2>1, FS_EmptySet DEF SetsIn
<1>3. \A n \in Nat : SetsIn(n) \in Nat
  BY <1>1, FS_CardinalityType DEF SetsIn
<1>4. ASSUME NEW n \in Nat
      PROVE  SetsIn(n + 1) = IF feed.events[n + 1] = "set" THEN SetsIn(n) + 1 ELSE SetsIn(n)
  <2>1. CASE feed.events[n + 1] = "set"
    <3>1. S(n + 1) = S(n) \cup {n + 1} /\ n + 1 \notin S(n)
      BY <2>1
    <3>2. Cardinality(S(n + 1)) = Cardinality(S(n)) + 1
      BY <3>1, <1>1, FS_AddElement
    <3>3. QED  BY <2>1, <3>2 DEF SetsIn
  <2>2. CASE feed.events[n + 1] # "set"
    <3>1. S(n + 1) = S(n)
      BY <2>2
    <3>2. QED  BY <2>2, <3>1 DEF SetsIn
  <2>3. QED  BY <2>1, <2>2
<1>5. QED  BY <1>2, <1>3, <1>4

(* A lap more does not change a remainder.                                 *)
LEMMA LapMore ==
  ASSUME NEW a \in Int, NEW n \in Nat \ {0}
  PROVE  (a + n) % n = a % n
<1> DEFINE q == a \div n
           s == (a + n) \div n
           u == a % n
           v == (a + n) % n
<1>1. /\ q \in Int /\ s \in Int /\ u \in 0 .. n - 1 /\ v \in 0 .. n - 1
      /\ a = n * q + u /\ a + n = n * s + v
  OBVIOUS
<1> HIDE DEF q, s, u, v
<1>2. u - v = n * (s - q - 1)
  BY <1>1
<1>3. ~(s - q - 1 >= 1)
  <2>1. ASSUME s - q - 1 >= 1 PROVE n * (s - q - 1) >= n
    BY <2>1, <1>1
  <2>2. QED  BY <2>1, <1>1, <1>2
<1>4. ~(s - q - 1 <= -1)
  <2>1. ASSUME s - q - 1 <= -1 PROVE n * (s - q - 1) <= -n
    BY <2>1, <1>1
  <2>2. QED  BY <2>1, <1>1, <1>2
<1>5. s - q - 1 = 0
  BY <1>1, <1>3, <1>4
<1>6. u = v
  BY <1>1, <1>2, <1>5
<1>7. QED  BY <1>6 DEF u, v

------------------------------------------------------------------------------
(* The invariant holds when the server is constructed.                     *)
LEMMA InitInv == Init => Inv
<1> SUFFICES ASSUME Init PROVE Inv
  OBVIOUS
<1>1. PICK f \in Files, readError \in BOOLEAN, looping \in BOOLEAN :
        feed = [events |-> load_feed_stream(f, readError), loop |-> looping]
  BY DEF Init
<1>2. feed \in [events : Seq(Events), loop : BOOLEAN]
  BY <1>1, LoadType
<1>3. TypeOK
  <2>1. phase \in [Conns -> Phases]
    BY DEF Init, Phases
  <2>2. Running => feed.events # << >>
    BY DEF Init, Running
  <2>3. Len(feed.events) \in Nat
    BY <1>2
  <2>4. /\ feedIndex = 0 /\ mdSeq = 0 /\ finals = 0
        /\ stopping \in BOOLEAN /\ finalized \in BOOLEAN
    BY DEF Init
  <2>5. QED  BY <1>2, <2>1, <2>2, <2>3, <2>4 DEF TypeOK
<1>4. Admitted = {} /\ Upgrades = {} /\ Sessions = {}
  BY DEF Init, Admitted, AdmittedIn, Upgrades, Upgrading, Sessions, SessionsIn
<1>5. AdmissionInv /\ FinalizedOnceAtTheEnd
  BY <1>4, FS_EmptySet, ServerAssumption
     DEF AdmissionInv, FinalizedOnceAtTheEnd, LiveUpgrades, Init
<1>6. ReplayInv
  <2>1. SetsIn(feedIndex) = 0 /\ mdSeq = 0 /\ SetsIn(Len(feed.events)) \in Nat
    BY <1>2, SetsInStep DEF Init
  <2>2. QED  BY <2>1 DEF ReplayInv
<1>7. QED  BY <1>3, <1>5, <1>6 DEF Inv

------------------------------------------------------------------------------
(* The event that Replay applies, if the script is not over.               *)
At == (IF Wraps THEN 0 ELSE feedIndex) + 1

(* What a feed event does: it stops the server, or it goes on and at most  *)
(* drops the sessions.                                                     *)
LEMMA ReplayDoes ==
  ASSUME TypeOK, Running, Replay
  PROVE  /\ \/ StopWork
            \/ NoFinalize /\ UNCHANGED stopping /\ phase' \in {phase, CloseAll}
         /\ \/ UNCHANGED <<feedIndex, mdSeq>>
            \/ /\ At \in 1 .. Len(feed.events) /\ feedIndex' = At
               /\ mdSeq' = IF feed.events[At] = "set" THEN mdSeq + 1 ELSE mdSeq
               /\ Wraps => feedIndex = Len(feed.events)
<1> USE DEF At
<1>1. /\ feed.events \in Seq(Events) /\ Len(feed.events) \in Nat /\ feed.events # << >>
      /\ feedIndex \in 0 .. Len(feed.events)
  BY DEF TypeOK
<1>2. CASE Exhausted /\ ~Wraps
  BY <1>2, <1>1 DEF Replay
<1>3. CASE ~Exhausted \/ Wraps
  <2>1. At \in 1 .. Len(feed.events) /\ (Wraps => feedIndex = Len(feed.events))
    BY <1>1, <1>3 DEF Exhausted, Wraps
  <2>2. feed.events[At] \in {"set", "halt", "drop", "end"}
    BY <1>1, <2>1 DEF Events
  <2>3. /\ feedIndex' = At
        /\ mdSeq' = IF feed.events[At] = "set" THEN mdSeq + 1 ELSE mdSeq
    BY <1>3, <2>1 DEF Replay
  <2>4. CASE feed.events[At] = "end"
    BY <1>3, <2>4, <2>1, <2>3 DEF Replay
  <2>5. CASE feed.events[At] = "drop"
    BY <1>3, <2>5, <2>1, <2>3 DEF Replay
  <2>6. CASE feed.events[At] \in {"set", "halt"}
    BY <1>3, <2>6, <2>1, <2>3 DEF Replay
  <2>7. QED  BY <2>2, <2>4, <2>5, <2>6
<1>4. QED  BY <1>2, <1>3

(* The step of a connection: its phase changes and little else.            *)
LEMMA MovesDoes ==
  ASSUME TypeOK, NEW c \in Conns, NEW to \in Phases, Moves(c, to)
  PROVE  TypeOK' /\ phase' = [phase EXCEPT ![c] = to]
BY DEF Moves, TypeOK, NoFinalize, feedVars, Running

(* Closing every session is typed.                                         *)
LEMMA CloseAllType == TypeOK => CloseAll \in [Conns -> Phases]
BY DEF TypeOK, CloseAll, Phases

(* finalize keeps its flag and its count typed.                            *)
LEMMA FinalizeType ==
  ASSUME TypeOK, Finalize \/ NoFinalize
  PROVE  finalized' \in BOOLEAN /\ finals' \in Nat
<1>1. finals \in Nat /\ finals + 1 \in Nat /\ finalized \in BOOLEAN
  BY DEF TypeOK
<1>2. CASE Finalize
  <2>1. finals' = finals \/ finals' = finals + 1
    BY <1>2 DEF Finalize
  <2>2. QED  BY <1>1, <1>2, <2>1 DEF Finalize
<1>3. CASE NoFinalize
  BY <1>1, <1>3 DEF NoFinalize
<1>4. QED  BY <1>2, <1>3

(* begin_stop's work is typed.                                             *)
LEMMA StopWorkType ==
  ASSUME TypeOK, StopWork
  PROVE  /\ phase' = CloseAll /\ phase' \in [Conns -> Phases]
         /\ stopping' \in BOOLEAN /\ finalized' \in BOOLEAN /\ finals' \in Nat
<1>1. phase' = CloseAll /\ phase' \in [Conns -> Phases]
  BY CloseAllType DEF StopWork
<1>2. finalized' \in BOOLEAN /\ finals' \in Nat
  BY FinalizeType DEF StopWork
<1>3. QED  BY <1>1, <1>2 DEF StopWork

(* Every step keeps the types.                                             *)
LEMMA NextType == TypeOK /\ [Next]_vars => TypeOK'
<1> SUFFICES ASSUME TypeOK, [Next]_vars PROVE TypeOK'
  OBVIOUS
<1>1. ASSUME NEW c \in Conns, Accept(c) PROVE TypeOK'
  BY <1>1 DEF Accept, TypeOK, Phases, NoFinalize, feedVars, Running
<1>2. ASSUME NEW c \in Conns,
             \/ UpgradeReadFails(c) \/ UpgradeUnfit(c) \/ UpgradeFit(c)
             \/ RefusalWritten(c) \/ HandshakeDone(c) \/ HandshakeFails(c)
             \/ SessionCloses(c)
      PROVE TypeOK'
  <2>1. PICK to \in Phases : Moves(c, to)
    BY <1>2 DEF UpgradeReadFails, UpgradeUnfit, UpgradeFit, RefusalWritten,
       HandshakeDone, HandshakeFails, SessionCloses, Phases
  <2>2. QED  BY <2>1, MovesDoes
<1>3. ASSUME NEW c \in Conns, TornDown(c) PROVE TypeOK'
  <2>1. finalized' \in BOOLEAN /\ finals' \in Nat
    BY <1>3, FinalizeType DEF TornDown
  <2>2. QED  BY <1>3, <2>1 DEF TornDown, TypeOK, Phases, feedVars, Running
<1>4. CASE AcceptFails \/ AcceptRetry \/ Deadline
  BY <1>4 DEF AcceptFails, AcceptRetry, Deadline, TypeOK, NoFinalize, feedVars, Running
<1>5. CASE OnFeedEvent
  <2>1. feed' = feed /\ loop' = loop
    BY <1>5 DEF OnFeedEvent
  <2>2. CASE stopping
    BY <1>5, <2>2, <2>1 DEF OnFeedEvent, TypeOK, NoFinalize, Running
  <2>3. CASE ~stopping
    <3>1. Running /\ Replay
      BY <1>5, <2>3 DEF OnFeedEvent
    <3>2. /\ phase' \in [Conns -> Phases] /\ stopping' \in BOOLEAN
          /\ finalized' \in BOOLEAN /\ finals' \in Nat
      BY <3>1, ReplayDoes, StopWorkType, CloseAllType DEF TypeOK, NoFinalize
    <3>3. feedIndex' \in 0 .. Len(feed.events) /\ mdSeq' \in Nat
      BY <3>1, ReplayDoes DEF TypeOK
    <3>4. QED  BY <2>1, <3>2, <3>3 DEF TypeOK, Running
  <2>4. QED  BY <2>2, <2>3
<1>6. CASE BeginStop
  BY <1>6, StopWorkType DEF BeginStop, TypeOK, Running
<1>7. CASE LoopReturns \/ LoopThrows
  <2>1. finalized' \in BOOLEAN /\ finals' \in Nat
    BY <1>7, FinalizeType DEF LoopReturns, LoopThrows
  <2>2. stopping' \in BOOLEAN
    BY <1>7 DEF LoopReturns, LoopThrows, TypeOK
  <2>3. loop' # "running"
    BY <1>7 DEF LoopReturns, LoopThrows
  <2>4. QED
    BY <1>7, <2>1, <2>2, <2>3 DEF LoopReturns, LoopThrows, TypeOK, feedVars, Running
<1>8. CASE UNCHANGED vars
  BY <1>8 DEF vars, TypeOK, Running
<1>9. QED
  BY <1>1, <1>2, <1>3, <1>4, <1>5, <1>6, <1>7, <1>8 DEF Next

------------------------------------------------------------------------------
(* Closing every session admits nobody.                                    *)
LEMMA CloseAllAdmits ==
  ASSUME TypeOK, phase' \in {phase, CloseAll}
  PROVE  Admitted' \subseteq Admitted /\ Upgrades' \subseteq Upgrades /\ Sessions' = Sessions
BY DEF TypeOK, CloseAll, Admitted, AdmittedIn, Upgrades, Upgrading, Sessions, SessionsIn

(* A connection that leaves, is refused, closes or ends its handshake      *)
(* admits nobody.                                                          *)
LEMMA MoveAdmits ==
  ASSUME TypeOK, NEW c \in Conns, NEW to \in Phases,
         phase' = [phase EXCEPT ![c] = to],
         to # "new",
         \/ to = "gone"
         \/ to \in {"open", "closing"} /\ phase[c] \in {"handshaking", "open"}
         \/ to = "refused" /\ phase[c] = "reading"
  PROVE  Admitted' \subseteq Admitted /\ Upgrades' \subseteq Upgrades
BY DEF TypeOK, Admitted, AdmittedIn, Upgrades, Upgrading

(* An accepted connection is one more upgrade, below the bound.            *)
LEMMA AcceptAdmission ==
  ASSUME TypeOK, AdmissionInv, NEW c \in Conns, Accept(c)
  PROVE  AdmissionInv'
<1>1. CASE ~stopping /\ AcceptAdmits
  <2>1. phase' = [phase EXCEPT ![c] = "reading"] /\ phase[c] = "new"
    BY <1>1 DEF Accept
  <2>2. Admitted' = Admitted /\ Upgrades' \subseteq Upgrades \cup {c}
    BY <2>1 DEF TypeOK, Admitted, AdmittedIn, Upgrades, Upgrading
  <2>3. Cardinality(Upgrades') <= Cardinality(Upgrades) + 1 /\ Cardinality(Upgrades') \in Nat
    BY <2>2, SetsFinite, OneMore
  <2>4. Cardinality(Upgrades) < MaxSessions
    BY <1>1 DEF AcceptAdmits, LiveUpgrades
  <2>5. QED
    BY <2>2, <2>3, <2>4, SetsFinite, ServerAssumption DEF AdmissionInv, LiveUpgrades
<1>2. CASE ~(~stopping /\ AcceptAdmits)
  <2>1. phase' = [phase EXCEPT ![c] = "gone"]
    BY <1>2 DEF Accept
  <2>2. QED  BY <2>1, MoveAdmits, Shrinks DEF Phases
<1>3. QED  BY <1>1, <1>2

(* A fit request is admitted only when the sessions and all the upgrades,  *)
(* itself among them, are within the bound.                                *)
LEMMA UpgradeFitAdmission ==
  ASSUME TypeOK, AdmissionInv, NEW c \in Conns, UpgradeFit(c)
  PROVE  AdmissionInv'
<1>1. phase[c] = "reading"
  BY DEF UpgradeFit
<1>2. CASE stopping \/ Load > MaxSessions
  <2>1. \/ phase' = [phase EXCEPT ![c] = "gone"]
        \/ phase' = [phase EXCEPT ![c] = "refused"]
    BY <1>2 DEF UpgradeFit, Moves
  <2>2. QED  BY <1>1, <2>1, MoveAdmits, Shrinks DEF Phases
<1>3. CASE ~stopping /\ ~(Load > MaxSessions)
  <2>1. phase' = [phase EXCEPT ![c] = "handshaking"]
    BY <1>3 DEF UpgradeFit, Moves
  <2>2. Admitted' \subseteq Sessions \cup Upgrades /\ Upgrades' = Upgrades
    BY <1>1, <2>1 DEF TypeOK, Admitted, AdmittedIn, Upgrades, Upgrading, Sessions, SessionsIn
  <2>3. /\ IsFiniteSet(Sessions \cup Upgrades)
        /\ Cardinality(Sessions \cup Upgrades) <= Cardinality(Sessions) + Cardinality(Upgrades)
    <3>1. Sessions \cap Upgrades \subseteq Sessions
      OBVIOUS
    <3>2. Cardinality(Sessions \cap Upgrades) \in Nat
      BY <3>1, SetsFinite, FS_Subset, FS_CardinalityType
    <3>3. /\ IsFiniteSet(Sessions \cup Upgrades)
          /\ Cardinality(Sessions \cup Upgrades)
               = Cardinality(Sessions) + Cardinality(Upgrades) - Cardinality(Sessions \cap Upgrades)
      BY SetsFinite, FS_Union
    <3>4. Cardinality(Sessions) \in Nat /\ Cardinality(Upgrades) \in Nat
      BY SetsFinite DEF LiveUpgrades
    <3>5. QED  BY <3>2, <3>3, <3>4
  <2>4. /\ Cardinality(Admitted') <= Cardinality(Sessions \cup Upgrades)
        /\ Cardinality(Admitted') \in Nat /\ Cardinality(Sessions \cup Upgrades) \in Nat
    BY <2>2, <2>3, FS_Subset, FS_CardinalityType
  <2>5. Cardinality(Sessions) + Cardinality(Upgrades) <= MaxSessions
    BY <1>3, SetsFinite, ServerAssumption DEF Load, LiveUpgrades
  <2>6. QED
    BY <2>2, <2>3, <2>4, <2>5, SetsFinite, ServerAssumption DEF AdmissionInv, LiveUpgrades
<1>4. QED  BY <1>2, <1>3

(* Every step keeps admission.                                             *)
LEMMA NextAdmission == TypeOK /\ AdmissionInv /\ [Next]_vars => AdmissionInv'
<1> SUFFICES ASSUME TypeOK, AdmissionInv, [Next]_vars PROVE AdmissionInv'
  OBVIOUS
<1>1. ASSUME NEW c \in Conns, Accept(c) PROVE AdmissionInv'
  BY <1>1, AcceptAdmission
<1>2. ASSUME NEW c \in Conns, UpgradeFit(c) PROVE AdmissionInv'
  BY <1>2, UpgradeFitAdmission
<1>3. ASSUME NEW c \in Conns,
             \/ UpgradeReadFails(c) \/ UpgradeUnfit(c) \/ RefusalWritten(c)
             \/ HandshakeDone(c) \/ HandshakeFails(c) \/ SessionCloses(c) \/ TornDown(c)
      PROVE AdmissionInv'
  <2>1. PICK to \in Phases :
          /\ phase' = [phase EXCEPT ![c] = to] /\ to # "new"
          /\ \/ to = "gone"
             \/ to \in {"open", "closing"} /\ phase[c] \in {"handshaking", "open"}
             \/ to = "refused" /\ phase[c] = "reading"
    BY <1>3 DEF UpgradeReadFails, UpgradeUnfit, RefusalWritten, HandshakeDone,
       HandshakeFails, SessionCloses, TornDown, Moves, Phases
  <2>2. QED  BY <2>1, MoveAdmits, Shrinks
<1>4. CASE \/ AcceptFails \/ AcceptRetry \/ Deadline \/ LoopReturns \/ LoopThrows
           \/ UNCHANGED vars
  <2>1. phase' = phase
    BY <1>4 DEF AcceptFails, AcceptRetry, Deadline, LoopReturns, LoopThrows, vars
  <2>2. QED  BY <2>1, CloseAllAdmits, Shrinks
<1>5. CASE OnFeedEvent
  <2>1. phase' \in {phase, CloseAll}
    BY <1>5, ReplayDoes DEF OnFeedEvent, StopWork
  <2>2. QED  BY <2>1, CloseAllAdmits, Shrinks
<1>6. CASE BeginStop
  <2>1. phase' \in {phase, CloseAll}
    BY <1>6 DEF BeginStop, StopWork
  <2>2. QED  BY <2>1, CloseAllAdmits, Shrinks
<1>7. QED
  BY <1>1, <1>2, <1>3, <1>4, <1>5, <1>6 DEF Next

------------------------------------------------------------------------------
(* A stop finalizes a server without sessions, once.                       *)
LEMMA StopWorkFinal ==
  ASSUME TypeOK, FinalizedOnceAtTheEnd, ~stopping, StopWork, UNCHANGED loop
  PROVE  FinalizedOnceAtTheEnd'
<1>1. Sessions' = Sessions
  BY StopWorkType, CloseAllAdmits
<1>2. ~finalized /\ finals = 0 /\ stopping'
  BY DEF FinalizedOnceAtTheEnd, TypeOK, StopWork
<1>3. CASE Sessions = {}
  <2>1. finalized' /\ finals' = 1
    BY <1>2, <1>3 DEF StopWork, Finalize
  <2>2. QED  BY <1>1, <1>2, <1>3, <2>1 DEF FinalizedOnceAtTheEnd
<1>4. CASE Sessions # {}
  <2>1. ~finalized' /\ finals' = 0
    BY <1>2, <1>4 DEF StopWork, NoFinalize
  <2>2. QED  BY <1>2, <2>1 DEF FinalizedOnceAtTheEnd
<1>5. QED  BY <1>3, <1>4

(* A step that neither finalizes nor opens a session keeps it.             *)
LEMMA QuietFinal ==
  ASSUME FinalizedOnceAtTheEnd, NoFinalize, stopping' = stopping, loop' \in {loop, "returned"},
         loop # "threw", Sessions' \subseteq Sessions \/ ~stopping
  PROVE  FinalizedOnceAtTheEnd'
BY DEF FinalizedOnceAtTheEnd, NoFinalize

(* Every step keeps finalize once and last.                                *)
LEMMA NextFinal == TypeOK /\ FinalizedOnceAtTheEnd /\ [Next]_vars => FinalizedOnceAtTheEnd'
<1> SUFFICES ASSUME TypeOK, FinalizedOnceAtTheEnd, [Next]_vars PROVE FinalizedOnceAtTheEnd'
  OBVIOUS
<1>1. ASSUME NEW c \in Conns,
             \/ Accept(c) \/ UpgradeReadFails(c) \/ UpgradeUnfit(c) \/ UpgradeFit(c)
             \/ RefusalWritten(c) \/ HandshakeDone(c) \/ HandshakeFails(c) \/ SessionCloses(c)
      PROVE FinalizedOnceAtTheEnd'
  <2>1. NoFinalize /\ stopping' = stopping /\ loop' = loop /\ loop # "threw"
    BY <1>1 DEF Accept, UpgradeReadFails, UpgradeUnfit, UpgradeFit, RefusalWritten,
       HandshakeDone, HandshakeFails, SessionCloses, Moves, Running
  <2>2. ASSUME stopping PROVE Sessions' \subseteq Sessions
    <3>1. PICK to \in {"gone", "refused", "closing"} :
            phase' = [phase EXCEPT ![c] = to] /\ (to = "closing" => phase[c] = "open")
      BY <1>1, <2>2 DEF Accept, UpgradeReadFails, UpgradeUnfit, UpgradeFit, RefusalWritten,
         HandshakeDone, HandshakeFails, SessionCloses, Moves
    <3>2. QED  BY <3>1 DEF TypeOK, Sessions, SessionsIn
  <2>3. QED  BY <2>1, <2>2, QuietFinal
<1>2. ASSUME NEW c \in Conns, TornDown(c) PROVE FinalizedOnceAtTheEnd'
  <2>1. /\ phase' = [phase EXCEPT ![c] = "gone"] /\ loop' = loop /\ stopping' = stopping
        /\ c \in Sessions /\ loop # "threw"
    BY <1>2 DEF TornDown, Running
  <2>2. Sessions' \subseteq Sessions /\ Sessions' = SessionsIn(phase')
    BY <2>1 DEF TypeOK, Sessions, SessionsIn
  <2>3. CASE stopping /\ SessionsIn(phase') = {}
    <3>1. Finalize /\ ~finalized /\ finals = 0
      BY <1>2, <2>1, <2>3 DEF TornDown, FinalizedOnceAtTheEnd
    <3>2. finalized' /\ finals' = 1
      BY <3>1 DEF Finalize
    <3>3. QED  BY <2>1, <2>2, <2>3, <3>2 DEF FinalizedOnceAtTheEnd
  <2>4. CASE ~(stopping /\ SessionsIn(phase') = {})
    <3>1. NoFinalize
      BY <1>2, <2>4 DEF TornDown
    <3>2. QED  BY <2>1, <2>2, <3>1, QuietFinal
  <2>5. QED  BY <2>3, <2>4
<1>3. CASE AcceptFails \/ AcceptRetry \/ Deadline \/ LoopReturns
  <2>1. /\ NoFinalize /\ stopping' = stopping /\ loop' \in {loop, "returned"} /\ loop # "threw"
        /\ phase' = phase
    BY <1>3 DEF AcceptFails, AcceptRetry, Deadline, LoopReturns, Running
  <2>2. QED  BY <2>1, CloseAllAdmits, QuietFinal
<1>4. CASE OnFeedEvent
  <2>1. loop' = loop /\ loop # "threw" /\ Running
    BY <1>4 DEF OnFeedEvent, Running
  <2>2. CASE stopping
    <3>1. NoFinalize /\ stopping' = stopping /\ phase' = phase
      BY <1>4, <2>2 DEF OnFeedEvent
    <3>2. QED  BY <2>1, <3>1, CloseAllAdmits, QuietFinal
  <2>3. CASE ~stopping
    <3>1. Replay
      BY <1>4, <2>3 DEF OnFeedEvent
    <3>2. CASE StopWork
      BY <2>1, <2>3, <3>2, StopWorkFinal
    <3>3. CASE NoFinalize /\ UNCHANGED stopping /\ phase' \in {phase, CloseAll}
      BY <2>1, <3>3, CloseAllAdmits, QuietFinal
    <3>4. QED  BY <2>1, <3>1, <3>2, <3>3, ReplayDoes
  <2>4. QED  BY <2>2, <2>3
<1>5. CASE BeginStop
  <2>1. ~stopping /\ StopWork /\ UNCHANGED loop
    BY <1>5 DEF BeginStop
  <2>2. QED  BY <2>1, StopWorkFinal
<1>6. CASE LoopThrows
  <2>1. stopping' /\ finalized' /\ loop' = "threw" /\ finals' = IF finalized THEN finals ELSE finals + 1
    BY <1>6 DEF LoopThrows, Finalize
  <2>2. finals' = 1
    BY <2>1 DEF FinalizedOnceAtTheEnd
  <2>3. QED  BY <2>1, <2>2 DEF FinalizedOnceAtTheEnd
<1>7. CASE UNCHANGED vars
  BY <1>7 DEF vars, FinalizedOnceAtTheEnd, Sessions
<1>8. QED
  BY <1>1, <1>2, <1>3, <1>4, <1>5, <1>6, <1>7 DEF Next

------------------------------------------------------------------------------
(* Every step keeps the replay in its place: an event is counted on both   *)
(* sides, and the wrap takes a whole lap off the one of them.              *)
LEMMA NextReplay == TypeOK /\ ReplayInv /\ [Next]_vars => ReplayInv'
<1> SUFFICES ASSUME TypeOK, ReplayInv, [Next]_vars PROVE ReplayInv'
  OBVIOUS
<1> DEFINE N == SetsIn(Len(feed.events))
<1>1. /\ feed \in [events : Seq(Events), loop : BOOLEAN] /\ Len(feed.events) \in Nat
      /\ feedIndex \in Nat /\ mdSeq \in Nat
  BY DEF TypeOK
<1>2. N \in Nat /\ SetsIn(feedIndex) \in Nat
  BY <1>1, SetsInStep
<1>3. feed' = feed
  BY DEF Next, Accept, UpgradeReadFails, UpgradeUnfit, UpgradeFit, RefusalWritten,
     HandshakeDone, HandshakeFails, SessionCloses, Moves, TornDown, AcceptFails,
     AcceptRetry, OnFeedEvent, BeginStop, Deadline, LoopReturns, LoopThrows, feedVars, vars
<1>4. CASE UNCHANGED <<feedIndex, mdSeq>>
  BY <1>3, <1>4 DEF ReplayInv, SetsIn
<1>5. CASE OnFeedEvent /\ ~UNCHANGED <<feedIndex, mdSeq>>
  <2>1. Running /\ Replay
    BY <1>5 DEF OnFeedEvent
  <2>2. /\ At \in 1 .. Len(feed.events) /\ feedIndex' = At
        /\ mdSeq' = IF feed.events[At] = "set" THEN mdSeq + 1 ELSE mdSeq
        /\ Wraps => feedIndex = Len(feed.events)
    BY <1>5, <2>1, ReplayDoes
  <2> DEFINE b == At - 1
  <2>3. b \in Nat /\ At = b + 1 /\ b = IF Wraps THEN 0 ELSE feedIndex
    BY <1>1 DEF At
  <2>4. SetsIn(At) = IF feed.events[At] = "set" THEN SetsIn(b) + 1 ELSE SetsIn(b)
    BY <1>1, <2>3, SetsInStep
  <2>5. SetsIn(b) \in Nat
    BY <1>1, <2>3, SetsInStep
  <2>6. mdSeq' - SetsIn(At) = mdSeq - SetsIn(b)
    BY <1>1, <2>2, <2>4, <2>5
  <2>7. ASSUME N > 0 PROVE (mdSeq - SetsIn(b)) % N = 0
    <3>1. (mdSeq - SetsIn(feedIndex)) % N = 0
      BY <2>7 DEF ReplayInv
    <3>2. CASE ~Wraps
      BY <3>1, <3>2, <2>3
    <3>3. CASE Wraps
      <4>1. SetsIn(b) = 0 /\ SetsIn(feedIndex) = N
        BY <3>3, <1>1, <2>2, <2>3, SetsInStep
      <4>2. mdSeq - N \in Int /\ (mdSeq - N) + N = mdSeq - SetsIn(b)
        BY <1>1, <1>2, <4>1
      <4>3. ((mdSeq - N) + N) % N = (mdSeq - N) % N
        BY <1>1, <1>2, <2>7, LapMore
      <4>4. QED  BY <3>1, <4>1, <4>2, <4>3
    <3>4. QED  BY <3>2, <3>3
  <2>8. /\ SetsIn(Len(feed.events))' = N
        /\ SetsIn(feedIndex)' = SetsIn(At)
    BY <1>3, <2>2 DEF SetsIn
  <2>9. QED  BY <2>6, <2>7, <2>8 DEF ReplayInv
<1>6. QED
  BY <1>4, <1>5 DEF Next, Accept, UpgradeReadFails, UpgradeUnfit, UpgradeFit, RefusalWritten,
     HandshakeDone, HandshakeFails, SessionCloses, Moves, TornDown, AcceptFails,
     AcceptRetry, BeginStop, Deadline, LoopReturns, LoopThrows, feedVars, vars

------------------------------------------------------------------------------
(* Sessions are among the admitted.                                        *)
LEMMA AdmissionFollows == AdmissionInv => AdmissionHolds
<1> SUFFICES ASSUME AdmissionInv PROVE AdmissionHolds
  OBVIOUS
<1>1. Sessions \subseteq Admitted
  BY DEF Sessions, SessionsIn, Admitted, AdmittedIn
<1>2. Cardinality(Sessions) <= Cardinality(Admitted)
  BY <1>1, SetsFinite, FS_Subset
<1>3. QED
  BY <1>2, SetsFinite, ServerAssumption DEF AdmissionInv, AdmissionHolds

(* The inductive invariant holds of every reachable state of the server.   *)
LEMMA InvHolds == Spec => []Inv
<1>1. Inv /\ [Next]_vars => Inv'
  BY NextType, NextAdmission, NextFinal, NextReplay DEF Inv
<1>2. QED  BY <1>1, InitInv, PTL DEF Spec

(* Never more sessions than max_sessions and never more upgrades in        *)
(* flight, for every number of peers and every order of accepts,           *)
(* handshakes, refusals and closes (accept_next, on_upgrade_request).      *)
THEOREM AdmissionIsHeld == Spec => []AdmissionHolds
<1>1. Inv => AdmissionHolds
  BY AdmissionFollows DEF Inv
<1>2. QED  BY <1>1, InvHolds, PTL

(* finalize() does its work at most once, only on a stopping server, and   *)
(* on a run that did not throw only when no session is left.               *)
THEOREM FinalizeIsOnceAndLast == Spec => []FinalizedOnceAtTheEnd
<1>1. Inv => FinalizedOnceAtTheEnd
  BY DEF Inv
<1>2. QED  BY <1>1, InvHolds, PTL

(* The replay of every feed file, looped or not, publishes its books in    *)
(* their places, and none once the server stops (on_feed_event).           *)
THEOREM ReplayIsTheScript == Spec => ReplayFollowsScript
<1>1. Inv => ReplayInv
  BY DEF Inv
<1>2. Inv /\ [Next]_vars => [mdSeq' # mdSeq => ~stopping]_vars
  BY DEF Next, Accept, UpgradeReadFails, UpgradeUnfit, UpgradeFit, RefusalWritten,
     HandshakeDone, HandshakeFails, SessionCloses, Moves, TornDown, AcceptFails,
     AcceptRetry, OnFeedEvent, BeginStop, Deadline, LoopReturns, LoopThrows, feedVars, vars
<1>3. Spec => []ReplayInv
  BY <1>1, InvHolds, PTL
<1>4. Spec => [][mdSeq' # mdSeq => ~stopping]_vars
  BY <1>2, InvHolds, PTL DEF Spec
<1>5. QED  BY <1>3, <1>4 DEF ReplayFollowsScript, ReplayInv
==============================================================================
