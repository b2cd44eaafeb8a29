----------------------- MODULE TelemetryWriterProofs -----------------------
(***************************************************************************)
(* The telemetry path, for every capacity of the ring and every number of  *)
(* records: the file is an initial part of what the ring took, a healthy   *)
(* run has all of it on file, and a crash shows ahead of the snapshot.     *)
(***************************************************************************)
EXTENDS TelemetryWriter, SequenceTheorems, TLAPS

Rec == {Event(n) : n \in Nat} \cup {Fault, Totals, Watermarks}
Snapshot == {Totals, Watermarks}

TypeOK ==
  /\ queue \in Seq(Rec) /\ taken \in Seq(Rec) /\ buffer \in Seq(Rec) /\ file \in Seq(Rec)
  /\ dropped \in Nat /\ popped \in Nat /\ budget \in Nat /\ lost \in Nat /\ atLatch \in Nat
  /\ snapOk \in BOOLEAN /\ ok \in BOOLEAN /\ faulted \in BOOLEAN /\ gaveUp \in BOOLEAN
  /\ stop \in BOOLEAN /\ final \in BOOLEAN /\ wrote \in BOOLEAN /\ failed \in BOOLEAN
  /\ bad \in BOOLEAN
  /\ owner \in {"running", "fault", "totals", "watermarks", "stop", "join", "done"}
  /\ writer \in {"entry", "drain", "decide", "wait", "close", "exited"}

(* The part s of t that follows its first n records.                       *)
Agrees(s, t, n) ==
  /\ n + Len(s) <= Len(t)
  /\ \A i \in 1 .. Len(s) : s[i] = t[n + i]

(* The ring holds what it took and was not drained.                        *)
QueueInv == popped + Len(queue) = Len(taken) /\ Agrees(queue, taken, popped)

(* The file, and while the stream is good the buffer after it, hold what   *)
(* was drained; the latch is exactly the failure of the stream.            *)
FileInv ==
  /\ Agrees(file, taken, 0) /\ Len(file) <= popped
  /\ ~bad => Len(file) + Len(buffer) = popped /\ Agrees(buffer, taken, Len(file))
  /\ bad = failed
  /\ atLatch <= popped
  /\ lost = IF failed THEN popped - atLatch ELSE 0

(* The last batch is drained to the end, since the owner has stopped       *)
(* pushing, and a batch leaves nothing unflushed.                          *)
WriterInv ==
  /\ final => stop
  /\ writer \in {"close", "exited"} => final /\ queue = << >>
  /\ final /\ writer = "drain" => budget = Len(queue)
  /\ writer # "drain" \/ ~wrote => buffer = << >>
  /\ writer = "exited" /\ ~failed => marker = [pendingLeft |-> 0, streamOk |-> TRUE]

(* The final snapshot is the end of what the ring took.                    *)
OwnerInv ==
  /\ stop <=> owner \in {"join", "done"}
  /\ owner = "done" => writer = "exited" /\ (ok => snapOk /\ ~failed)
  /\ owner = "watermarks" /\ snapOk => Len(taken) >= 1 /\ taken[Len(taken)] = Totals
  /\ owner \in {"stop", "join", "done"} /\ snapOk =>
       Len(taken) >= 2 /\ taken[Len(taken) - 1] = Totals /\ taken[Len(taken)] = Watermarks

FaultFirst(s) ==
  \E i \in 1 .. Len(s) : s[i] = Fault /\ \A j \in 1 .. Len(s) : s[j] \in Snapshot => i < j

(* A fault is taken before the snapshot, or was given up.                  *)
FaultInv ==
  /\ faulted => ~ok
  /\ owner = "running" => ~faulted
  /\ owner \in {"running", "fault", "totals"} => \A i \in 1 .. Len(taken) : taken[i] \notin Snapshot
  /\ faulted /\ ~gaveUp /\ owner \notin {"running", "fault"} => FaultFirst(taken)

Inv == TypeOK /\ QueueInv /\ FileInv /\ WriterInv /\ OwnerInv /\ FaultInv
------------------------------------------------------------------------------
(* The kinds of record are told apart.                                     *)
LEMMA KindFacts ==
  /\ \A n \in Nat : Event(n) \in Rec /\ Event(n) \notin Snapshot
  /\ Fault \in Rec /\ Totals \in Rec /\ Watermarks \in Rec
  /\ Fault \notin Snapshot /\ Totals \in Snapshot /\ Watermarks \in Snapshot
<1>1. \A n \in Nat : Event(n) # Totals /\ Event(n) # Watermarks
  BY DEF Event, Totals, Watermarks
<1>2. Fault # Totals /\ Fault # Watermarks
  BY DEF Fault, Totals, Watermarks
<1>3. QED  BY <1>1, <1>2 DEF Rec, Snapshot

(* More is taken: what agreed goes on to, and may take the record too.     *)
LEMMA AgreesGrows ==
  ASSUME NEW s \in Seq(Rec), NEW t \in Seq(Rec), NEW n \in Nat, NEW r \in Rec, Agrees(s, t, n)
  PROVE  /\ Agrees(s, Append(t, r), n)
         /\ n + Len(s) = Len(t) => Agrees(Append(s, r), Append(t, r), n)
<1>1. Len(s) \in Nat /\ Len(t) \in Nat
  OBVIOUS
<1>2. /\ Append(t, r) \in Seq(Rec) /\ Len(Append(t, r)) = Len(t) + 1
      /\ \A i \in 1 .. Len(t) : Append(t, r)[i] = t[i]
      /\ Append(t, r)[Len(t) + 1] = r
      /\ Append(s, r) \in Seq(Rec) /\ Len(Append(s, r)) = Len(s) + 1
      /\ \A i \in 1 .. Len(s) : Append(s, r)[i] = s[i]
      /\ Append(s, r)[Len(s) + 1] = r
  OBVIOUS
<1>3. \A i \in 1 .. Len(s) : n + i \in 1 .. Len(t) /\ Append(t, r)[n + i] = s[i]
  BY <1>1, <1>2 DEF Agrees
<1>4. Agrees(s, Append(t, r), n)
  BY <1>1, <1>2, <1>3 DEF Agrees
<1>5. ASSUME n + Len(s) = Len(t) PROVE Agrees(Append(s, r), Append(t, r), n)
  <2>1. n + (Len(s) + 1) = Len(t) + 1
    BY <1>1, <1>5
  <2>2. \A i \in 1 .. Len(s) + 1 : i \in 1 .. Len(s) \/ i = Len(s) + 1
    BY <1>1
  <2>3. \A i \in 1 .. Len(s) + 1 : Append(s, r)[i] = Append(t, r)[n + i]
    BY <1>2, <1>3, <2>1, <2>2
  <2>4. n + Len(Append(s, r)) <= Len(Append(t, r)) /\ 1 .. Len(Append(s, r)) = 1 .. Len(s) + 1
    BY <1>1, <1>2, <2>1
  <2>5. QED  BY <2>3, <2>4 DEF Agrees
<1>6. QED  BY <1>4, <1>5

(* The oldest record leaves the front of one and joins the end of another. *)
LEMMA AgreesMoves ==
  ASSUME NEW q \in Seq(Rec), NEW b \in Seq(Rec), NEW t \in Seq(Rec), NEW m \in Nat, NEW n \in Nat,
         q # << >>, Agrees(q, t, n)
  PROVE  /\ Agrees(Tail(q), t, n + 1) /\ Head(q) \in Rec
         /\ Agrees(b, t, m) /\ m + Len(b) = n => Agrees(Append(b, Head(q)), t, m)
<1>1. Len(q) \in Nat \ {0} /\ Len(b) \in Nat /\ Len(t) \in Nat
  OBVIOUS
<1>2. /\ Head(q) = q[1] /\ Head(q) \in Rec /\ Tail(q) \in Seq(Rec)
      /\ Len(Tail(q)) = Len(q) - 1 /\ \A i \in 1 .. Len(q) - 1 : Tail(q)[i] = q[i + 1]
  BY <1>1
<1>3. \A i \in 1 .. Len(q) - 1 : i + 1 \in 1 .. Len(q) /\ n + (i + 1) = (n + 1) + i
  BY <1>1
<1>4. Agrees(Tail(q), t, n + 1)
  BY <1>1, <1>2, <1>3 DEF Agrees
<1>5. ASSUME Agrees(b, t, m), m + Len(b) = n PROVE Agrees(Append(b, Head(q)), t, m)
  <2>1. /\ Len(Append(b, Head(q))) = Len(b) + 1
        /\ \A i \in 1 .. Len(b) : Append(b, Head(q))[i] = b[i]
        /\ Append(b, Head(q))[Len(b) + 1] = Head(q)
    BY <1>2
  <2>2. Head(q) = t[n + 1] /\ n + 1 <= Len(t) /\ n + 1 = m + (Len(b) + 1)
    BY <1>1, <1>2, <1>5 DEF Agrees
  <2>3. \A i \in 1 .. Len(b) + 1 : i \in 1 .. Len(b) \/ i = Len(b) + 1
    BY <1>1
  <2>4. QED  BY <1>1, <1>5, <2>1, <2>2, <2>3 DEF Agrees
<1>6. QED  BY <1>2, <1>4, <1>5

(* A flush appends the buffer, or a part of it.                            *)
Flushed(f, b, n) == f \o SubSeq(b, 1, n)

(* What was flushed still agrees.                                          *)
LEMMA AgreesFlushed ==
  ASSUME NEW f \in Seq(Rec), NEW b \in Seq(Rec), NEW t \in Seq(Rec),
         Agrees(f, t, 0), Agrees(b, t, Len(f)), NEW n \in 0 .. Len(b),
         NEW g, g = Flushed(f, b, n)
  PROVE  g \in Seq(Rec) /\ Len(g) = Len(f) + n /\ Agrees(g, t, 0)
<1>1. Len(f) \in Nat /\ Len(b) \in Nat /\ Len(t) \in Nat /\ n \in Nat
  OBVIOUS
<1>2. /\ SubSeq(b, 1, n) \in Seq(Rec) /\ Len(SubSeq(b, 1, n)) = n
      /\ \A i \in 1 .. n : SubSeq(b, 1, n)[i] = b[i]
  BY <1>1
<1>3. /\ g \in Seq(Rec) /\ Len(g) = Len(f) + n
      /\ \A i \in 1 .. Len(f) : g[i] = f[i]
      /\ \A i \in Len(f) + 1 .. Len(f) + n : g[i] = SubSeq(b, 1, n)[i - Len(f)]
  BY <1>1, <1>2 DEF Flushed
<1>4. \A i \in 1 .. Len(f) : g[i] = t[0 + i]
  BY <1>1, <1>3 DEF Agrees
<1>5. \A i \in Len(f) + 1 .. Len(f) + n : g[i] = t[0 + i]
  <2> SUFFICES ASSUME NEW i \in Len(f) + 1 .. Len(f) + n PROVE g[i] = t[0 + i]
    OBVIOUS
  <2>1. i - Len(f) \in 1 .. n /\ i - Len(f) \in 1 .. Len(b) /\ Len(f) + (i - Len(f)) = 0 + i
    BY <1>1
  <2>2. b[i - Len(f)] = t[Len(f) + (i - Len(f))]
    BY <2>1 DEF Agrees
  <2>3. QED  BY <1>2, <1>3, <2>1, <2>2
<1>6. \A i \in 1 .. Len(f) + n : i \in 1 .. Len(f) \/ i \in Len(f) + 1 .. Len(f) + n
  BY <1>1
<1>7. Len(f) + n <= Len(t)
  BY <1>1 DEF Agrees
<1>8. QED  BY <1>1, <1>3, <1>4, <1>5, <1>6, <1>7 DEF Agrees

(* A fault ahead of the snapshot stays ahead of it.                        *)
LEMMA FaultStays ==
  ASSUME NEW s \in Seq(Rec), NEW r \in Rec, NEW u, u = Append(s, r)
  PROVE  /\ FaultFirst(s) => FaultFirst(u)
         /\ r = Fault /\ (\A i \in 1 .. Len(s) : s[i] \notin Snapshot) => FaultFirst(u)
         /\ r \notin Snapshot /\ (\A i \in 1 .. Len(s) : s[i] \notin Snapshot) =>
              \A i \in 1 .. Len(u) : u[i] \notin Snapshot
<1>1. /\ Len(s) \in Nat /\ Len(u) = Len(s) + 1 /\ u[Len(s) + 1] = r
      /\ \A i \in 1 .. Len(s) : u[i] = s[i]
  OBVIOUS
<1>2. \A i \in 1 .. Len(s) + 1 : i \in 1 .. Len(s) \/ i = Len(s) + 1
  BY <1>1
<1>3. ASSUME FaultFirst(s) PROVE FaultFirst(u)
  <2>1. PICK i \in 1 .. Len(s) : s[i] = Fault /\ \A j \in 1 .. Len(s) : s[j] \in Snapshot => i < j
    BY <1>3 DEF FaultFirst
  <2>2. i \in 1 .. Len(u) /\ u[i] = Fault /\ i < Len(s) + 1
    BY <1>1, <2>1
  <2>3. QED  BY <1>1, <1>2, <2>1, <2>2 DEF FaultFirst
<1>4. ASSUME r \notin Snapshot, \A i \in 1 .. Len(s) : s[i] \notin Snapshot
      PROVE  \A i \in 1 .. Len(u) : u[i] \notin Snapshot
  BY <1>1, <1>2, <1>4
<1>5. ASSUME r = Fault, \A i \in 1 .. Len(s) : s[i] \notin Snapshot PROVE FaultFirst(u)
  <2>1. Len(s) + 1 \in 1 .. Len(u)
    BY <1>1
  <2>2. QED  BY <1>1, <1>4, <1>5, <2>1, KindFacts DEF FaultFirst
<1>6. QED  BY <1>3, <1>4, <1>5

------------------------------------------------------------------------------
(* A push of the owner, taken or dropped, keeps the two threads' records   *)
(* together.                                                               *)
LEMMA PushKeeps ==
  ASSUME TypeOK, QueueInv, FileInv, NEW r \in Rec, NEW success \in BOOLEAN, TryPush(r, success),
         UNCHANGED <<streamVars, writerVars>>
  PROVE  /\ queue' \in Seq(Rec) /\ taken' \in Seq(Rec) /\ dropped' \in Nat
         /\ QueueInv' /\ FileInv'
         /\ success => taken' = Append(taken, r)
         /\ ~success => taken' = taken
<1>1. UNCHANGED <<bad, buffer, file, failed, lost, popped, atLatch>>
  BY DEF streamVars, writerVars
<1>2. /\ queue \in Seq(Rec) /\ taken \in Seq(Rec) /\ buffer \in Seq(Rec) /\ file \in Seq(Rec)
      /\ popped \in Nat /\ dropped \in Nat
  BY DEF TypeOK
<1>3. CASE success
  <2>1. queue' = Append(queue, r) /\ taken' = Append(taken, r) /\ dropped' = dropped
    BY <1>3 DEF TryPush, Push
  <2>2. QueueInv'
    <3>a. Len(Append(queue, r)) = Len(queue) + 1 /\ Len(Append(taken, r)) = Len(taken) + 1
      BY <1>2
    <3>b. Len(queue) \in Nat /\ Len(taken) \in Nat /\ popped + Len(queue) = Len(taken)
      BY <1>2 DEF QueueInv
    <3>1. popped + Len(Append(queue, r)) = Len(Append(taken, r))
      BY <1>2, <3>a, <3>b
    <3>2. Agrees(Append(queue, r), Append(taken, r), popped)
      BY <1>2, AgreesGrows DEF QueueInv
    <3>3. QED  BY <1>1, <2>1, <3>1, <3>2 DEF QueueInv
  <2>3. FileInv'
    <3>1. Agrees(file, Append(taken, r), 0)
      BY <1>2, AgreesGrows DEF FileInv
    <3>2. ~bad => Agrees(buffer, Append(taken, r), Len(file))
      BY <1>2, AgreesGrows DEF FileInv
    <3>3. QED  BY <1>1, <2>1, <3>1, <3>2 DEF FileInv
  <2>4. QED  BY <1>2, <1>3, <2>1, <2>2, <2>3
<1>4. CASE ~success
  <2>1. queue' = queue /\ taken' = taken /\ dropped' = dropped + 1
    BY <1>4 DEF TryPush, Drop
  <2>2. QED  BY <1>1, <1>2, <1>4, <2>1 DEF QueueInv, FileInv
<1>5. QED  BY <1>3, <1>4

(* While the owner pushes no batch is the last one.                        *)
LEMMA WriterUnaware ==
  ASSUME WriterInv, OwnerInv, owner \notin {"join", "done"}, stop' = stop,
         UNCHANGED <<streamVars, writerVars>>
  PROVE  WriterInv'
<1>1. ~stop /\ ~final /\ ~final' /\ writer \notin {"close", "exited"}
  BY DEF WriterInv, OwnerInv, writerVars
<1>2. UNCHANGED <<writer, wrote, buffer>>
  BY DEF streamVars, writerVars
<1>3. QED  BY <1>1, <1>2 DEF WriterInv

(* A record emitted while the loop runs.                                   *)
LEMMA EmitInv == ASSUME Inv, Emit PROVE Inv'
<1>1. TypeOK /\ QueueInv /\ FileInv /\ WriterInv /\ OwnerInv /\ FaultInv
  BY DEF Inv
<1>2. PICK success \in BOOLEAN : /\ owner = "running" /\ TryPush(Event(Len(taken)), success)
                                 /\ UNCHANGED <<ownerVars, streamVars, writerVars>>
  BY DEF Emit
<1>3. Event(Len(taken)) \in Rec /\ Event(Len(taken)) \notin Snapshot
  <2>1. Len(taken) \in Nat
    BY <1>1 DEF TypeOK
  <2>2. QED  BY <2>1, KindFacts
<1>4. /\ queue' \in Seq(Rec) /\ taken' \in Seq(Rec) /\ dropped' \in Nat
      /\ QueueInv' /\ FileInv'
      /\ success => taken' = Append(taken, Event(Len(taken)))
      /\ ~success => taken' = taken
  BY <1>1, <1>2, <1>3, PushKeeps
<1>5. UNCHANGED <<owner, snapOk, ok, faulted, gaveUp, stop>>
  BY <1>2 DEF ownerVars
<1>6. TypeOK'
  BY <1>1, <1>2, <1>4, <1>5 DEF TypeOK, streamVars, writerVars
<1>7. WriterInv'
  BY <1>1, <1>2, <1>5, WriterUnaware
<1>8. OwnerInv'
  BY <1>1, <1>2, <1>5 DEF OwnerInv
<1>9. FaultInv'
  <2>1. \A i \in 1 .. Len(taken) : taken[i] \notin Snapshot
    BY <1>1, <1>2 DEF FaultInv
  <2>2. \A i \in 1 .. Len(taken') : taken'[i] \notin Snapshot
    BY <1>1, <1>3, <1>4, <2>1, FaultStays DEF TypeOK
  <2>3. QED  BY <1>1, <1>2, <1>5, <2>2 DEF FaultInv
<1>10. QED  BY <1>4, <1>6, <1>7, <1>8, <1>9 DEF Inv

(* The fault record: offered once as the loop throws, then again and again.*)
LEMMA FaultOffered == ASSUME Inv, LoopThrows \/ OfferFault PROVE Inv'
<1>1. TypeOK /\ QueueInv /\ FileInv /\ WriterInv /\ OwnerInv /\ FaultInv
  BY DEF Inv
<1>2. PICK success \in BOOLEAN :
        /\ owner \in {"running", "fault"} /\ TryPush(Fault, success)
        /\ owner' \in {"fault", "totals"} /\ gaveUp' \in BOOLEAN
        /\ owner' = "fault" \/ success \/ gaveUp'
        /\ UNCHANGED <<snapOk, stop, streamVars, writerVars>>
        /\ (owner = "running" /\ ok' = FALSE /\ faulted' = TRUE)
           \/ (owner = "fault" /\ UNCHANGED <<ok, faulted>>)
  <2>1. CASE LoopThrows
    BY <1>1, <2>1 DEF LoopThrows, TypeOK
  <2>2. CASE OfferFault
    BY <1>1, <2>2 DEF OfferFault
  <2>3. QED  BY <2>1, <2>2
<1>3. /\ queue' \in Seq(Rec) /\ taken' \in Seq(Rec) /\ dropped' \in Nat
      /\ QueueInv' /\ FileInv'
      /\ success => taken' = Append(taken, Fault)
      /\ ~success => taken' = taken
  BY <1>1, <1>2, KindFacts, PushKeeps
<1>4. TypeOK'
  BY <1>1, <1>2, <1>3, ZenonT(60) DEF TypeOK, streamVars, writerVars
<1>5. WriterInv'
  BY <1>1, <1>2, WriterUnaware
<1>6. OwnerInv'
  BY <1>1, <1>2 DEF OwnerInv
<1>7. FaultInv'
  <2>1. \A i \in 1 .. Len(taken) : taken[i] \notin Snapshot
    BY <1>1, <1>2 DEF FaultInv
  <2>2. /\ \A i \in 1 .. Len(taken') : taken'[i] \notin Snapshot
        /\ success => FaultFirst(taken')
    BY <1>1, <1>3, <2>1, FaultStays, KindFacts DEF TypeOK
  <2>3. faulted' => ~ok'
    BY <1>1, <1>2 DEF FaultInv
  <2>4. QED  BY <1>2, <2>2, <2>3 DEF FaultInv
<1>8. QED  BY <1>3, <1>4, <1>5, <1>6, <1>7 DEF Inv

(* The final snapshot.                                                     *)
LEMMA SnapshotPushed == ASSUME Inv, PublishTotals \/ PublishWatermarks PROVE Inv'
<1>1. TypeOK /\ QueueInv /\ FileInv /\ WriterInv /\ OwnerInv /\ FaultInv
  BY DEF Inv
<1>2. PICK success \in BOOLEAN, r \in Snapshot :
        /\ TryPush(r, success) /\ snapOk' \in BOOLEAN
        /\ \/ r = Totals /\ owner = "totals" /\ owner' = "watermarks" /\ snapOk' = success
           \/ r = Watermarks /\ owner = "watermarks" /\ owner' = "stop" /\ snapOk' = (success /\ snapOk)
        /\ UNCHANGED <<ok, faulted, gaveUp, stop, streamVars, writerVars>>
  <2>1. CASE PublishTotals
    BY <2>1, KindFacts DEF PublishTotals
  <2>2. CASE PublishWatermarks
    BY <1>1, <2>2, KindFacts DEF PublishWatermarks, TypeOK
  <2>3. QED  BY <2>1, <2>2
<1>3. /\ queue' \in Seq(Rec) /\ taken' \in Seq(Rec) /\ dropped' \in Nat
      /\ QueueInv' /\ FileInv'
      /\ success => taken' = Append(taken, r)
      /\ ~success => taken' = taken
  <2>1. r \in Rec
    BY KindFacts DEF Snapshot
  <2>2. QED  BY <1>1, <1>2, <2>1, PushKeeps
<1>4. TypeOK'
  BY <1>1, <1>2, <1>3 DEF TypeOK, streamVars, writerVars
<1>5. WriterInv'
  BY <1>1, <1>2, WriterUnaware
<1>6. taken \in Seq(Rec) /\ r \in Rec
  BY <1>1, KindFacts DEF TypeOK, Snapshot
<1>7. OwnerInv'
  <2>1. (stop <=> owner \in {"join", "done"})'
    BY <1>1, <1>2 DEF OwnerInv
  <2>2. CASE ~snapOk'
    BY <1>2, <2>1, <2>2 DEF OwnerInv
  <2>3. CASE snapOk' /\ r = Totals /\ owner' = "watermarks"
    <3>1. taken' = Append(taken, Totals)
      BY <1>2, <1>3, <2>3
    <3>2. Len(taken') >= 1 /\ taken'[Len(taken')] = Totals
      BY <1>6, <2>3, <3>1
    <3>3. QED  BY <2>1, <2>3, <3>2 DEF OwnerInv
  <2>4. CASE snapOk' /\ r = Watermarks /\ owner = "watermarks" /\ owner' = "stop"
    <3>1. taken' = Append(taken, Watermarks) /\ snapOk
      <4>1. CASE r = Totals /\ owner = "totals"
        BY <2>4, <4>1
      <4>2. CASE snapOk' = (success /\ snapOk)
        BY <1>3, <2>4, <4>2
      <4>3. QED  BY <1>2, <4>1, <4>2
    <3>2. Len(taken) >= 1 /\ taken[Len(taken)] = Totals
      BY <1>1, <2>4, <3>1 DEF OwnerInv
    <3>3. /\ Len(taken') >= 2 /\ taken'[Len(taken') - 1] = Totals
          /\ taken'[Len(taken')] = Watermarks
      BY <1>6, <2>4, <3>1, <3>2
    <3>4. QED  BY <2>1, <2>4, <3>3 DEF OwnerInv
  <2>5. QED  BY <1>2, <2>2, <2>3, <2>4
<1>8. FaultInv'
  <2>1. faulted /\ ~gaveUp => FaultFirst(taken)
    BY <1>1, <1>2 DEF FaultInv
  <2>2. FaultFirst(taken) => FaultFirst(taken')
    BY <1>3, <1>6, FaultStays
  <2>3. QED  BY <1>1, <1>2, <2>1, <2>2 DEF FaultInv
<1>9. QED  BY <1>3, <1>4, <1>5, <1>7, <1>8 DEF Inv

(* The owner's other steps: the loop ends, the stop, and the judgement     *)
(* after the join.                                                         *)
LEMMA OwnerMoves == ASSUME Inv, LoopEnds \/ RequestStop \/ Judge PROVE Inv'
<1>1. TypeOK /\ QueueInv /\ FileInv /\ WriterInv /\ OwnerInv /\ FaultInv
  BY DEF Inv
<1>2. UNCHANGED <<queue, dropped, taken, bad, buffer, file, marker, writer, budget, final, wrote,
                  failed, lost, popped, atLatch, snapOk, faulted, gaveUp>>
  BY DEF LoopEnds, RequestStop, Judge, queueVars, streamVars, writerVars
<1>3. QueueInv' /\ FileInv'
  BY <1>1, <1>2 DEF QueueInv, FileInv
<1>4. CASE LoopEnds
  <2>1. owner = "running" /\ owner' = "totals" /\ ok' \in BOOLEAN /\ UNCHANGED stop
    BY <1>4 DEF LoopEnds
  <2>2. TypeOK' /\ WriterInv'
    BY <1>1, <1>2, <2>1 DEF TypeOK, WriterInv
  <2>3. OwnerInv' /\ FaultInv'
    BY <1>1, <1>2, <2>1 DEF OwnerInv, FaultInv
  <2>4. QED  BY <1>3, <2>2, <2>3 DEF Inv
<1>5. CASE RequestStop
  <2>1. owner = "stop" /\ owner' = "join" /\ stop' = TRUE /\ ok' = ok
    BY <1>5 DEF RequestStop
  <2>2. TypeOK' /\ WriterInv'
    BY <1>1, <1>2, <2>1 DEF TypeOK, WriterInv
  <2>3. OwnerInv' /\ FaultInv'
    BY <1>1, <1>2, <2>1 DEF OwnerInv, FaultInv
  <2>4. QED  BY <1>3, <2>2, <2>3 DEF Inv
<1>6. CASE Judge
  <2>1. /\ owner = "join" /\ owner' = "done" /\ stop' = stop /\ writer = "exited"
        /\ ok' = (snapOk /\ ~failed /\ ok)
    BY <1>6 DEF Judge
  <2>2. ok' \in BOOLEAN /\ (ok' => snapOk /\ ~failed /\ ok)
    BY <1>1, <2>1 DEF TypeOK
  <2>3. TypeOK' /\ WriterInv'
    BY <1>1, <1>2, <2>1, <2>2 DEF TypeOK, WriterInv
  <2>4. OwnerInv' /\ FaultInv'
    BY <1>1, <1>2, <2>1, <2>2 DEF OwnerInv, FaultInv
  <2>5. QED  BY <1>3, <2>3, <2>4 DEF Inv
<1>7. QED  BY <1>4, <1>5, <1>6

------------------------------------------------------------------------------
(* The writer begins a batch, or looks whether to go on.                   *)
LEMMA WriterMoves == ASSUME Inv, DrainBegin \/ Decide \/ Wake PROVE Inv'
<1>1. TypeOK /\ QueueInv /\ FileInv /\ WriterInv /\ OwnerInv /\ FaultInv
  BY DEF Inv
<1>2. UNCHANGED <<queue, dropped, taken, owner, snapOk, ok, faulted, gaveUp, stop, bad, buffer,
                  file, marker, failed, lost, popped, atLatch>>
  BY DEF DrainBegin, Decide, Wake, queueVars, ownerVars, streamVars
<1>3. QueueInv' /\ FileInv' /\ FaultInv'
  BY <1>1, <1>2 DEF QueueInv, FileInv, FaultInv
<1>4. /\ writer \in {"entry", "decide", "wait"} /\ writer' \in {"entry", "drain", "wait"}
      /\ budget' \in Nat /\ final' \in BOOLEAN /\ wrote' \in BOOLEAN
      /\ final' => stop
      /\ writer' = "drain" => budget' = Len(queue)
  <2>1. Len(queue) \in Nat
    BY <1>1 DEF TypeOK
  <2>2. CASE DrainBegin
    BY <1>1, <2>1, <2>2 DEF DrainBegin, TypeOK, WriterInv
  <2>3. CASE Decide
    BY <1>1, <2>3 DEF Decide, TypeOK
  <2>4. CASE Wake
    BY <1>1, <2>4 DEF Wake, TypeOK
  <2>5. QED  BY <2>2, <2>3, <2>4
<1>5. TypeOK'
  BY <1>1, <1>2, <1>4 DEF TypeOK
<1>6. WriterInv'
  BY <1>1, <1>2, <1>4 DEF WriterInv
<1>7. OwnerInv'
  BY <1>1, <1>2, <1>4 DEF OwnerInv
<1>8. QED  BY <1>3, <1>5, <1>6, <1>7 DEF Inv

(* One record is drained.                                                  *)
LEMMA RecordDrained == ASSUME Inv, DrainLost \/ DrainLine PROVE Inv'
<1>1. TypeOK /\ QueueInv /\ FileInv /\ WriterInv /\ OwnerInv /\ FaultInv
  BY DEF Inv
<1>2. /\ UNCHANGED <<dropped, taken, owner, snapOk, ok, faulted, gaveUp, stop, bad, file, marker,
                     writer, final, failed, atLatch>>
      /\ writer = "drain" /\ budget > 0 /\ queue # << >> /\ queue' = Tail(queue)
      /\ popped' = popped + 1 /\ budget' = budget - 1
      /\ \/ failed /\ lost' = lost + 1 /\ buffer' = buffer /\ wrote' = wrote
         \/ /\ ~failed /\ lost' = lost /\ wrote' = TRUE
            /\ buffer' = IF bad THEN buffer ELSE Append(buffer, Head(queue))
  BY DEF DrainLost, DrainLine, Pop, ownerVars, streamVars
<1>3. /\ queue \in Seq(Rec) /\ taken \in Seq(Rec) /\ buffer \in Seq(Rec) /\ file \in Seq(Rec)
      /\ popped \in Nat /\ budget \in Nat /\ lost \in Nat /\ atLatch \in Nat
      /\ failed \in BOOLEAN /\ bad = failed
  BY <1>1 DEF TypeOK, FileInv
<1>4. Len(queue) \in Nat /\ Len(queue') = Len(queue) - 1 /\ queue' \in Seq(Rec)
  BY <1>2, <1>3
<1>5. /\ Agrees(queue', taken, popped + 1) /\ Head(queue) \in Rec
      /\ ~bad => Agrees(Append(buffer, Head(queue)), taken, Len(file))
  <2>1. Len(file) \in Nat /\ Agrees(queue, taken, popped)
        /\ (~bad => Agrees(buffer, taken, Len(file)) /\ Len(file) + Len(buffer) = popped)
    BY <1>1, <1>3 DEF QueueInv, FileInv
  <2>2. QED  BY <1>2, <1>3, <2>1, AgreesMoves
<1>6. /\ buffer' \in Seq(Rec) /\ lost' \in Nat /\ budget' \in Nat /\ popped' \in Nat
      /\ wrote' \in BOOLEAN
      /\ ~bad => buffer' = Append(buffer, Head(queue)) /\ Len(buffer') = Len(buffer) + 1
  <2>1. lost' \in Nat /\ budget' \in Nat /\ popped' \in Nat /\ wrote' \in BOOLEAN
    <3>1. budget' \in Nat /\ popped' \in Nat
      BY <1>2, <1>3
    <3>2. lost' \in Nat
      BY <1>2, <1>3
    <3>3. wrote' \in BOOLEAN
      BY <1>1, <1>2 DEF TypeOK
    <3>4. QED  BY <3>1, <3>2, <3>3
  <2>2. CASE failed
    BY <1>2, <1>3, <2>1, <2>2
  <2>3. CASE ~failed
    <3>1. buffer' = Append(buffer, Head(queue))
      BY <1>2, <1>3, <2>3
    <3>2. PICK r \in Rec : r = Head(queue)
      BY <1>5
    <3>3. Append(buffer, r) \in Seq(Rec) /\ Len(Append(buffer, r)) = Len(buffer) + 1
      BY <1>3
    <3>4. QED  BY <1>3, <2>1, <3>1, <3>2, <3>3
  <2>4. QED  BY <1>3, <2>2, <2>3
<1>7. TypeOK'
  BY <1>1, <1>2, <1>4, <1>6 DEF TypeOK
<1>8. QueueInv'
  BY <1>1, <1>2, <1>3, <1>4, <1>5 DEF QueueInv
<1>9. FileInv'
  <2>1. Agrees(file, taken, 0) /\ Len(file) <= popped + 1 /\ atLatch <= popped + 1
    BY <1>1, <1>3 DEF FileInv
  <2>2. ~bad => Len(file) + Len(buffer') = popped + 1 /\ Agrees(buffer', taken, Len(file))
    <3>1. ~bad => Len(file) + Len(buffer) = popped
      BY <1>1 DEF FileInv
    <3>2. Len(file) \in Nat /\ Len(buffer) \in Nat
      BY <1>3
    <3>3. ASSUME ~bad PROVE Agrees(buffer', taken, Len(file)) /\ Len(buffer') = Len(buffer) + 1
      BY <1>5, <1>6, <3>3
    <3>4. ASSUME ~bad PROVE Len(file) + Len(buffer') = popped + 1
      <4>1. Len(file) + Len(buffer) = popped /\ Len(buffer') = Len(buffer) + 1
        BY <3>1, <3>3, <3>4
      <4>2. QED  BY <3>2, <4>1
    <3>5. QED  BY <3>3, <3>4
  <2>3. lost' = IF failed THEN (popped + 1) - atLatch ELSE 0
    BY <1>1, <1>2, <1>3 DEF FileInv
  <2>4. QED  BY <1>2, <1>3, <2>1, <2>2, <2>3 DEF FileInv
<1>10. WriterInv'
  <2>1. final => budget' = Len(queue')
    BY <1>1, <1>2, <1>3, <1>4 DEF WriterInv
  <2>2. ~wrote' => buffer' = << >>
    BY <1>1, <1>2 DEF WriterInv
  <2>3. QED  BY <1>1, <1>2, <2>1, <2>2 DEF WriterInv
<1>11. OwnerInv' /\ FaultInv'
  BY <1>1, <1>2 DEF OwnerInv, FaultInv
<1>12. QED  BY <1>7, <1>8, <1>9, <1>10, <1>11 DEF Inv

(* The end of a batch: its flush, and the latch.                           *)
LEMMA BatchEnds == ASSUME Inv, DrainEnd PROVE Inv'
<1>1. TypeOK /\ QueueInv /\ FileInv /\ WriterInv /\ OwnerInv /\ FaultInv
  BY DEF Inv
<1>2. /\ UNCHANGED <<queue, dropped, taken, owner, snapOk, ok, faulted, gaveUp, stop, marker, budget,
                     final, wrote, lost, popped>>
      /\ writer = "drain" /\ budget = 0 /\ buffer' = << >>
      /\ writer' = IF final THEN "close" ELSE "decide"
      /\ failed' = (failed \/ bad') /\ atLatch' = IF ~failed /\ bad' THEN popped ELSE atLatch
  BY DEF DrainEnd, Latch, queueVars, ownerVars
<1>3. /\ queue \in Seq(Rec) /\ taken \in Seq(Rec) /\ buffer \in Seq(Rec) /\ file \in Seq(Rec)
      /\ popped \in Nat /\ lost \in Nat /\ atLatch \in Nat
      /\ failed \in BOOLEAN /\ bad = failed /\ final \in BOOLEAN
      /\ Len(file) \in Nat /\ Len(buffer) \in Nat
  BY <1>1 DEF TypeOK, FileInv
<1>4. /\ bad' \in BOOLEAN /\ (bad => bad')
      /\ file' \in Seq(Rec) /\ Agrees(file', taken, 0) /\ Len(file') <= popped
      /\ ~bad' => Len(file') = popped
  <2>1. CASE ~wrote
    <3>1. file' = file /\ bad' = bad /\ buffer = << >>
      BY <1>1, <2>1 DEF DrainEnd, WriterInv
    <3>2. Len(buffer) = 0
      BY <3>1
    <3>3. QED  BY <1>1, <1>3, <3>1, <3>2 DEF FileInv
  <2>2. CASE wrote /\ bad
    <3>1. file' = file /\ bad' = bad
      BY <2>2 DEF DrainEnd, Flush
    <3>2. QED  BY <1>1, <1>3, <2>2, <3>1 DEF FileInv
  <2>3. CASE wrote /\ ~bad
    <3>1. /\ Agrees(file, taken, 0) /\ Agrees(buffer, taken, Len(file))
          /\ Len(file) + Len(buffer) = popped
      BY <1>1, <2>3 DEF FileInv
    <3>2. \/ file' = file \o buffer /\ bad' = bad
          \/ bad' = TRUE /\ \E n \in 0 .. Len(buffer) : file' = file \o SubSeq(buffer, 1, n)
      BY <2>3, SMTT(60) DEF DrainEnd, Flush
    <3>3. PICK n \in 0 .. Len(buffer) :
            /\ file' = file \o SubSeq(buffer, 1, n)
            /\ (n = Len(buffer) /\ bad' = bad) \/ bad' = TRUE
      <4>1. SubSeq(buffer, 1, Len(buffer)) = buffer /\ Len(buffer) \in 0 .. Len(buffer)
        BY <1>3
      <4>2. QED  BY <3>2, <4>1
    <3>4. PICK g : g = Flushed(file, buffer, n)
      OBVIOUS
    <3>5. g \in Seq(Rec) /\ Len(g) = Len(file) + n /\ Agrees(g, taken, 0)
      BY <1>3, <3>1, <3>4, AgreesFlushed
    <3>6. file' = g
      BY <3>3, <3>4 DEF Flushed
    <3>7. Len(g) <= popped /\ (n = Len(buffer) => Len(g) = popped)
      <4>1. Len(g) = Len(file) + n /\ Len(file) + Len(buffer) = popped
        BY <3>1, <3>5
      <4>2. Len(file) \in Nat /\ Len(buffer) \in Nat /\ n \in Nat /\ n <= Len(buffer)
        BY <1>3
      <4>3. QED  BY <4>1, <4>2
    <3>8. bad' \in BOOLEAN /\ (~bad' => n = Len(buffer))
      BY <1>3, <3>3
    <3>9. QED  BY <2>3, <3>5, <3>6, <3>7, <3>8
  <2>4. QED  BY <1>1, <2>1, <2>2, <2>3 DEF TypeOK
<1>5. failed' = bad' /\ failed' \in BOOLEAN /\ atLatch' \in Nat /\ atLatch' <= popped
      /\ lost = IF failed' THEN popped - atLatch' ELSE 0
  <2>1. failed' = bad' /\ failed' \in BOOLEAN
    BY <1>2, <1>3, <1>4
  <2>2. CASE failed
    BY <1>1, <1>2, <1>3, <1>4, <2>1, <2>2 DEF FileInv
  <2>3. CASE ~failed /\ bad'
    <3>1. failed' /\ atLatch' = popped /\ lost = 0
      BY <1>1, <1>2, <2>1, <2>3 DEF FileInv
    <3>2. QED  BY <1>3, <2>1, <3>1
  <2>4. CASE ~failed /\ ~bad'
    BY <1>1, <1>2, <1>3, <2>1, <2>4 DEF FileInv
  <2>5. QED  BY <1>3, <1>4, <2>2, <2>3, <2>4
<1>6. TypeOK'
  <2>1. << >> \in Seq(Rec)
    OBVIOUS
  <2>2. QED  BY <1>1, <1>2, <1>3, <1>4, <1>5, <2>1 DEF TypeOK
<1>7. QueueInv' /\ OwnerInv' /\ FaultInv'
  <2>1. owner # "done"
    BY <1>1, <1>2 DEF OwnerInv
  <2>2. QED  BY <1>1, <1>2, <2>1 DEF QueueInv, OwnerInv, FaultInv
<1>8. FileInv'
  <2>1. ASSUME ~bad' PROVE Len(file') + Len(<< >>) = popped /\ Agrees(<< >>, taken, Len(file'))
    <3>1. Len(file') = popped /\ popped <= Len(taken)
      BY <1>1, <1>3, <1>4, <2>1 DEF QueueInv
    <3>2. QED  BY <1>3, <3>1 DEF Agrees
  <2>2. QED  BY <1>2, <1>4, <1>5, <2>1 DEF FileInv
<1>9. WriterInv'
  <2>1. final => queue = << >>
    BY <1>1, <1>2, <1>3 DEF WriterInv
  <2>2. QED  BY <1>1, <1>2, <2>1 DEF WriterInv
<1>10. QED  BY <1>6, <1>7, <1>8, <1>9 DEF Inv

(* The close marker, and the last look at the stream.                      *)
LEMMA CloseInv == ASSUME Inv, Close PROVE Inv'
<1>1. TypeOK /\ QueueInv /\ FileInv /\ WriterInv /\ OwnerInv /\ FaultInv
  BY DEF Inv
<1>2. /\ UNCHANGED <<queue, dropped, taken, owner, snapOk, ok, faulted, gaveUp, stop, buffer, file,
                     budget, final, wrote, lost, popped>>
      /\ writer = "close" /\ writer' = "exited"
      /\ failed' = (failed \/ bad') /\ atLatch' = IF ~failed /\ bad' THEN popped ELSE atLatch
      /\ \/ bad /\ bad' = bad
         \/ ~bad /\ bad' = TRUE
         \/ ~bad /\ bad' = bad /\ marker' = [pendingLeft |-> Len(queue), streamOk |-> ~failed]
  BY DEF Close, Latch, queueVars, ownerVars
<1>3. /\ popped \in Nat /\ lost \in Nat /\ atLatch \in Nat
      /\ failed \in BOOLEAN /\ bad = failed /\ queue = << >>
  BY <1>1, <1>2 DEF TypeOK, FileInv, WriterInv
<1>4. bad' \in BOOLEAN /\ (bad => bad') /\ failed' = bad'
  BY <1>2, <1>3
<1>5. atLatch' \in Nat /\ atLatch' <= popped /\ lost = IF failed' THEN popped - atLatch' ELSE 0
  <2>1. CASE failed
    BY <1>1, <1>2, <1>3, <1>4, <2>1 DEF FileInv
  <2>2. CASE ~failed /\ bad'
    BY <1>1, <1>2, <1>3, <1>4, <2>2 DEF FileInv
  <2>3. CASE ~failed /\ ~bad'
    BY <1>1, <1>2, <1>3, <1>4, <2>3 DEF FileInv
  <2>4. QED  BY <1>3, <1>4, <2>1, <2>2, <2>3
<1>6. TypeOK'
  BY <1>1, <1>2, <1>4, <1>5 DEF TypeOK
<1>7. QueueInv' /\ OwnerInv' /\ FaultInv'
  <2>1. owner # "done"
    BY <1>1, <1>2 DEF OwnerInv
  <2>2. QED  BY <1>1, <1>2, <2>1 DEF QueueInv, OwnerInv, FaultInv
<1>8. FileInv'
  BY <1>1, <1>2, <1>3, <1>4, <1>5 DEF FileInv
<1>9. WriterInv'
  <2>1. ~failed' => marker' = [pendingLeft |-> 0, streamOk |-> TRUE]
    <3>1. SUFFICES ASSUME ~failed' PROVE marker' = [pendingLeft |-> 0, streamOk |-> TRUE]
      OBVIOUS
    <3>2. ~failed /\ ~bad /\ ~bad'
      BY <1>3, <1>4, <3>1
    <3>3. marker' = [pendingLeft |-> Len(queue), streamOk |-> ~failed]
      BY <1>2, <3>2
    <3>4. Len(queue) = 0 /\ (~failed) = TRUE
      BY <1>3, <3>2
    <3>5. QED  BY <3>3, <3>4
  <2>2. QED  BY <1>1, <1>2, <2>1 DEF WriterInv
<1>10. QED  BY <1>6, <1>7, <1>8, <1>9 DEF Inv

------------------------------------------------------------------------------
(* The invariant holds at the start, whether or not the sink is dead.      *)
LEMMA InitInv == Init => Inv
<1> SUFFICES ASSUME Init PROVE Inv
  OBVIOUS
<1>1. << >> \in Seq(Rec) /\ Len(<< >>) = 0 /\ \A t \in Seq(Rec) : Agrees(<< >>, t, 0)
  BY DEF Agrees
<1>2. bad \in BOOLEAN /\ bad = failed
  BY DEF Init, OpenedOn
<1>3. TypeOK
  BY <1>1, <1>2 DEF Init, TypeOK
<1>4. QueueInv /\ FileInv
  <2>1. /\ queue = << >> /\ taken = << >> /\ file = << >> /\ buffer = << >>
        /\ popped = 0 /\ lost = 0 /\ atLatch = 0
    BY DEF Init
  <2>2. Len(queue) = 0 /\ Len(taken) = 0 /\ Len(file) = 0 /\ Len(buffer) = 0
    BY <1>1, <2>1
  <2>3. Agrees(queue, taken, 0) /\ Agrees(file, taken, 0) /\ Agrees(buffer, taken, 0)
    BY <1>1, <2>1
  <2>4. QED  BY <1>2, <2>1, <2>2, <2>3 DEF QueueInv, FileInv
<1>5. WriterInv /\ OwnerInv /\ FaultInv
  BY DEF Init, WriterInv, OwnerInv, FaultInv
<1>6. QED  BY <1>3, <1>4, <1>5 DEF Inv

(* Every step of either thread keeps it.                                   *)
LEMMA NextInv == Inv /\ [Next]_vars => Inv'
<1> SUFFICES ASSUME Inv, [Next]_vars PROVE Inv'
  OBVIOUS
<1>1. CASE UNCHANGED vars
  <2>1. TypeOK' /\ QueueInv' /\ FileInv'
    BY <1>1 DEF vars, queueVars, ownerVars, streamVars, writerVars, Inv, TypeOK, QueueInv, FileInv
  <2>2. WriterInv' /\ OwnerInv' /\ FaultInv'
    BY <1>1 DEF vars, queueVars, ownerVars, streamVars, writerVars, Inv, WriterInv, OwnerInv, FaultInv
  <2>3. QED  BY <2>1, <2>2 DEF Inv
<1>2. CASE Emit \/ LoopThrows \/ OfferFault \/ PublishTotals \/ PublishWatermarks
  BY <1>2, EmitInv, FaultOffered, SnapshotPushed
<1>3. CASE LoopEnds \/ RequestStop \/ Judge
  BY <1>3, OwnerMoves
<1>4. CASE WriterStep
  BY <1>4, WriterMoves, RecordDrained, BatchEnds, CloseInv DEF WriterStep
<1>5. CASE Finished
  BY <1>1, <1>5 DEF Finished
<1>6. QED  BY <1>1, <1>2, <1>3, <1>4, <1>5 DEF Next, OwnerStep

(* So it holds always.                                                     *)
LEMMA Invariance == Spec => []Inv
<1>1. QED  BY InitInv, NextInv, PTL DEF Spec

(* At the end of a run whose sink did not fail, all that was taken is on   *)
(* file.                                                                   *)
LEMMA AllOnFile == ASSUME Inv, owner = "done", ~failed PROVE file = taken
<1>1. TypeOK /\ QueueInv /\ FileInv /\ WriterInv /\ OwnerInv
  BY DEF Inv
<1>2. writer = "exited" /\ buffer = << >> /\ queue = << >> /\ ~bad
  BY <1>1 DEF OwnerInv, WriterInv, FileInv
<1>3. /\ file \in Seq(Rec) /\ taken \in Seq(Rec) /\ popped \in Nat
      /\ Len(buffer) = 0 /\ Len(queue) = 0
  BY <1>1, <1>2 DEF TypeOK
<1>4. Len(file) = Len(taken) /\ \A i \in 1 .. Len(file) : file[i] = taken[i]
  BY <1>1, <1>2, <1>3 DEF QueueInv, FileInv, Agrees
<1>5. QED  BY <1>3, <1>4

(* At every moment the file is an initial part of what the ring took, and  *)
(* lost_lines_ counts what was drained since the latch (drain).            *)
THEOREM FileIsAccounted == Spec => []FileAccounted
<1>1. Inv => FileAccounted
  <2> SUFFICES ASSUME Inv PROVE FileAccounted
    OBVIOUS
  <2>1. /\ file \in Seq(Rec) /\ taken \in Seq(Rec) /\ bad = failed /\ Agrees(file, taken, 0)
        /\ lost = IF failed THEN popped - atLatch ELSE 0
    BY DEF Inv, TypeOK, FileInv
  <2>2. Len(file) <= Len(taken) /\ \A i \in 1 .. Len(file) : file[i] = taken[i]
    BY <2>1 DEF Agrees
  <2>3. file = SubSeq(taken, 1, Len(file))
    BY <2>1, <2>2
  <2>4. QED  BY <2>1, <2>2, <2>3 DEF FileAccounted
<1>2. QED  BY <1>1, Invariance, PTL

(* telemetry_ok() is worth believing, for every ring and every load: all   *)
(* that was taken is on file, the final snapshot last (finalize).          *)
THEOREM HealthyIsComplete == Spec => []HealthyMeansComplete
<1>1. Inv => HealthyMeansComplete
  <2> SUFFICES ASSUME Inv, owner = "done", ok PROVE
        /\ file = taken /\ Len(file) >= 2
        /\ SubSeq(file, Len(file) - 1, Len(file)) = <<Totals, Watermarks>>
        /\ marker = [pendingLeft |-> 0, streamOk |-> TRUE]
    BY DEF HealthyMeansComplete
  <2>1. snapOk /\ ~failed /\ writer = "exited" /\ marker = [pendingLeft |-> 0, streamOk |-> TRUE]
    BY DEF Inv, OwnerInv, WriterInv
  <2>2. file = taken
    BY <2>1, AllOnFile
  <2>3. /\ file \in Seq(Rec) /\ Len(file) >= 2
        /\ file[Len(file) - 1] = Totals /\ file[Len(file)] = Watermarks
    BY <2>1, <2>2 DEF Inv, TypeOK, OwnerInv
  <2>4. SubSeq(file, Len(file) - 1, Len(file)) = <<Totals, Watermarks>>
    <3>1. PICK m \in Nat : m = Len(file) - 1
      BY <2>3
    <3>2. Len(file) = m + 1 /\ m >= 1 /\ file[m] = Totals /\ file[m + 1] = Watermarks
      BY <2>3, <3>1
    <3>3. /\ SubSeq(file, m, m + 1) \in Seq(Rec) /\ Len(SubSeq(file, m, m + 1)) = 2
          /\ SubSeq(file, m, m + 1)[1] = file[m] /\ SubSeq(file, m, m + 1)[2] = file[m + 1]
      BY <2>3, <3>1, <3>2
    <3>4. ASSUME NEW t \in Seq(Rec), Len(t) = 2, t[1] = Totals, t[2] = Watermarks
          PROVE  t = <<Totals, Watermarks>>
      <4>1. <<Totals, Watermarks>> \in Seq(Rec) /\ Len(<<Totals, Watermarks>>) = 2
        BY KindFacts
      <4>2. \A i \in 1 .. 2 : t[i] = <<Totals, Watermarks>>[i]
        BY <3>4
      <4>3. QED  BY <3>4, <4>1, <4>2, SeqEqual
    <3>5. SubSeq(file, m, m + 1) = <<Totals, Watermarks>>
      BY <3>2, <3>3, <3>4
    <3>6. QED  BY <3>1, <3>2, <3>5
  <2>5. QED  BY <2>1, <2>2, <2>3, <2>4
<1>2. QED  BY <1>1, Invariance, PTL

(* A run that ended in an exception is never healthy, and unless the sink  *)
(* died or the fault was given up its file shows the fault ahead of the    *)
(* final snapshot (publish_pending_fault, push_final_snapshot).            *)
THEOREM CrashesAreOnFile == Spec => []CrashIsOnFile
<1>1. Inv => CrashIsOnFile
  <2> SUFFICES ASSUME Inv, owner = "done", faulted
               PROVE  ~ok /\ ((~failed /\ ~gaveUp) => FaultFirst(file))
    BY DEF CrashIsOnFile, FaultFirst, Snapshot
  <2>1. ~ok /\ (~gaveUp => FaultFirst(taken))
    BY DEF Inv, FaultInv
  <2>2. ~failed => file = taken
    BY AllOnFile
  <2>3. QED  BY <2>1, <2>2
<1>2. QED  BY <1>1, Invariance, PTL
=============================================================================
