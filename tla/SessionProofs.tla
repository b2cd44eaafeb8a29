---------------------------- MODULE SessionProofs ----------------------------
(***************************************************************************)
(* One session of the server, for every set of order ids, every limit and  *)
(* every number of reports and books: nothing it produced is lost,         *)
(* reordered or mispaired, a policy close drains, no order of a leaving    *)
(* session rests, the report queue is bounded, and a close is final.       *)
(*                                                                         *)
(* The methods of a session are functions from session to session that     *)
(* call one another, so the proof follows the calls: what each primitive   *)
(* assignment does to the fields, what pump, begin_close and               *)
(* enqueue_report keep, and then one step per handler.                     *)
(***************************************************************************)
EXTENDS Session, FiniteSetTheorems, SequenceTheorems, WellFoundedInduction, TLAPS

Msg == [kind : Kinds \cup {"Tob"}, n : Nat, seq : Nat, svc : Nat]

OrderMap == [Ids -> {"Free", "Live", "Done"}]

Rec ==
  [reports : Seq(Msg), tob : Nat, breached : BOOLEAN, conflated : Nat,
   svc : Seq(Nat), outSeq : Nat, inSeq : Nat, writing : {Idle} \cup Msg,
   closing : BOOLEAN, code : Nat, drain : BOOLEAN, frameSent : BOOLEAN,
   retired : BOOLEAN, tornDown : BOOLEAN, recorded : Nat,
   reading : BOOLEAN, closeOp : {"none", "handshake", "tooBig"}, draining : BOOLEAN,
   grace : BOOLEAN, severed : BOOLEAN, orders : OrderMap,
   made : Nat, sent : Nat, ticks : Nat, unencoded : BOOLEAN]

(* The fields of the outbox and the wire, and those of the close.          *)
SameQueue(s, t) ==
  /\ t.reports = s.reports /\ t.made = s.made /\ t.breached = s.breached
  /\ t.tob = s.tob /\ t.conflated = s.conflated

SameWire(s, t) ==
  /\ t.svc = s.svc /\ t.outSeq = s.outSeq /\ t.writing = s.writing
  /\ t.sent = s.sent /\ t.ticks = s.ticks /\ t.unencoded = s.unencoded

SameIntent(s, t) ==
  /\ t.closing = s.closing /\ t.code = s.code /\ t.drain = s.drain
  /\ t.retired = s.retired /\ t.orders = s.orders

SameEnd(s, t) ==
  /\ t.frameSent = s.frameSent /\ t.tornDown = s.tornDown /\ t.recorded = s.recorded
  /\ t.closeOp = s.closeOp /\ t.draining = s.draining

------------------------------------------------------------------------------
(* What the assignments of each method do to the fields.                   *)

(* Cancel-on-disconnect.                                                   *)
LEMMA RetireDoes ==
  ASSUME NEW s \in Rec, NEW t, t = RetireEpoch(s)
  PROVE  /\ t \in Rec /\ SameQueue(s, t) /\ SameWire(s, t) /\ SameEnd(s, t)
         /\ t.closing = s.closing /\ t.code = s.code /\ t.drain = s.drain
         /\ t.retired = TRUE
         /\ s.retired = TRUE => t.orders = s.orders
         /\ s.retired = FALSE => t.orders = AllFree
<1>1. AllFree \in OrderMap
  BY DEF AllFree, OrderMap
<1>2. EndOutcome(s.orders).orders = AllFree
  BY DEF EndOutcome, Outcome
<1>3. CASE s.retired = TRUE
  BY <1>3 DEF RetireEpoch, SameQueue, SameWire, SameEnd
<1>4. CASE s.retired = FALSE
  <2>1. t = [s EXCEPT !.orders = AllFree, !.retired = TRUE]
    BY <1>2, <1>4 DEF RetireEpoch
  <2>2. t \in Rec
    BY <1>1, <2>1, ZenonT(40) DEF Rec
  <2>3. SameQueue(s, t) /\ SameWire(s, t) /\ SameEnd(s, t)
    BY <2>1 DEF Rec, SameQueue, SameWire, SameEnd
  <2>4. t.closing = s.closing /\ t.code = s.code /\ t.drain = s.drain /\ t.retired = TRUE /\ t.orders = AllFree
    BY <2>1 DEF Rec
  <2>5. QED  BY <1>4, <2>2, <2>3, <2>4
<1>5. s.retired \in BOOLEAN
  BY DEF Rec
<1>6. QED  BY <1>3, <1>4, <1>5

Latched(s, code, drain, t) ==
  /\ t \in Rec /\ SameQueue(s, t) /\ SameWire(s, t) /\ SameEnd(s, t)
  /\ t.closing = TRUE /\ t.code = code /\ t.drain = drain
  /\ t.retired = TRUE /\ t.orders = AllFree

(* The first intent to close.                                              *)
LEMMA LatchDoes ==
  ASSUME NEW s \in Rec, s.closing = FALSE, s.tornDown = FALSE, s.retired = FALSE,
         NEW code \in Nat, NEW drain \in BOOLEAN, NEW t, t = LatchClose(s, code, drain)
  PROVE  Latched(s, code, drain, t)
<1>1. PICK u : u = [s EXCEPT !.closing = TRUE, !.code = code, !.drain = drain]
  OBVIOUS
<1>2. /\ u \in Rec /\ SameQueue(s, u) /\ SameWire(s, u) /\ SameEnd(s, u)
      /\ u.closing = TRUE /\ u.code = code /\ u.drain = drain /\ u.retired = FALSE
  BY <1>1 DEF Rec, SameQueue, SameWire, SameEnd
<1>3. t = RetireEpoch(u)
  BY <1>1 DEF LatchClose
<1>4. /\ t \in Rec /\ SameQueue(u, t) /\ SameWire(u, t) /\ SameEnd(u, t)
      /\ t.closing = u.closing /\ t.code = u.code /\ t.drain = u.drain
      /\ t.retired = TRUE /\ t.orders = AllFree
  BY <1>2, <1>3, RetireDoes
<1>5. SameQueue(s, t) /\ SameWire(s, t) /\ SameEnd(s, t)
  BY <1>2, <1>4 DEF SameQueue, SameWire, SameEnd
<1>6. QED  BY <1>2, <1>4, <1>5 DEF Latched

(* The close frame goes out.                                               *)
LEMMA FrameDoes ==
  ASSUME NEW s \in Rec, s.frameSent = FALSE, s.tornDown = FALSE, s.writing = Idle,
         NEW t, t = SendCloseFrame(s)
  PROVE  /\ t \in Rec /\ SameQueue(s, t) /\ SameWire(s, t) /\ SameIntent(s, t)
         /\ t.frameSent = TRUE /\ t.tornDown = s.tornDown /\ t.recorded = s.recorded
<1>1. t = [s EXCEPT !.frameSent = TRUE, !.closeOp = "handshake", !.grace = TRUE]
  BY DEF SendCloseFrame
<1>2. t \in Rec
  BY <1>1, ZenonT(40) DEF Rec
<1>3. SameQueue(s, t) /\ SameWire(s, t) /\ SameIntent(s, t)
  BY <1>1 DEF Rec, SameQueue, SameWire, SameIntent
<1>4. t.frameSent = TRUE /\ t.tornDown = s.tornDown /\ t.recorded = s.recorded
  BY <1>1 DEF Rec
<1>5. QED  BY <1>2, <1>3, <1>4

Torn(s, code, t) ==
  /\ t \in Rec /\ SameQueue(s, t) /\ SameWire(s, t)
  /\ t.closing = s.closing /\ t.code = s.code /\ t.drain = s.drain
  /\ t.frameSent = s.frameSent /\ t.tornDown = TRUE /\ t.recorded = code
  /\ t.closeOp = s.closeOp /\ t.draining = s.draining
  /\ t.retired = TRUE
  /\ s.retired = TRUE => t.orders = s.orders
  /\ s.retired = FALSE => t.orders = AllFree

(* The session leaves.                                                     *)
LEMMA TeardownDoes ==
  ASSUME NEW s \in Rec, s.tornDown = FALSE, NEW code \in Nat, NEW t, t = Teardown(s, code)
  PROVE  Torn(s, code, t)
<1>1. PICK u : u = RetireEpoch(s)
  OBVIOUS
<1>2. /\ u \in Rec /\ SameQueue(s, u) /\ SameWire(s, u) /\ SameEnd(s, u)
      /\ u.closing = s.closing /\ u.code = s.code /\ u.drain = s.drain
      /\ u.retired = TRUE
      /\ s.retired = TRUE => u.orders = s.orders
      /\ s.retired = FALSE => u.orders = AllFree
  BY <1>1, RetireDoes
<1>3. t = [u EXCEPT !.tornDown = TRUE, !.grace = FALSE, !.severed = TRUE, !.recorded = code]
  BY <1>1 DEF Teardown
<1>4. /\ t \in Rec /\ SameQueue(u, t) /\ SameWire(u, t) /\ SameIntent(u, t)
      /\ t.frameSent = u.frameSent /\ t.tornDown = TRUE /\ t.recorded = code
      /\ t.closeOp = u.closeOp /\ t.draining = u.draining
  <2>0. u \in Rec
    BY <1>2
  <2>1. t \in Rec
    BY <2>0, <1>3, ZenonT(40) DEF Rec
  <2>2. SameQueue(u, t) /\ SameWire(u, t) /\ SameIntent(u, t)
    BY <1>2, <1>3 DEF Rec, SameQueue, SameWire, SameIntent
  <2>3. /\ t.frameSent = u.frameSent /\ t.tornDown = TRUE /\ t.recorded = code
        /\ t.closeOp = u.closeOp /\ t.draining = u.draining
    BY <1>2, <1>3 DEF Rec
  <2>4. QED  BY <2>1, <2>2, <2>3
<1>5. SameQueue(s, t) /\ SameWire(s, t)
  BY <1>2, <1>4 DEF SameQueue, SameWire
<1>6. QED  BY <1>2, <1>4, <1>5 DEF SameIntent, SameEnd, Torn

(* A message is stamped and handed to the socket.                          *)
LEMMA HandOverDoes ==
  ASSUME NEW s \in Rec, NEW m \in Msg, NEW t, t = HandOver(s, m)
  PROVE  /\ t \in Rec /\ SameQueue(s, t) /\ SameIntent(s, t) /\ SameEnd(s, t)
         /\ t.unencoded = s.unencoded /\ t.outSeq = s.outSeq + 1
         /\ t.writing \in Msg /\ t.writing.kind = m.kind /\ t.writing.n = m.n
         /\ t.writing.seq = s.outSeq
         /\ m.kind = "OrderAck" /\ s.svc # << >> => t.svc = Tail(s.svc) /\ t.writing.svc = Head(s.svc)
         /\ m.kind # "OrderAck" => t.svc = s.svc
         /\ m.kind = "Tob" => t.sent = s.sent /\ t.ticks = s.ticks + 1
         /\ m.kind # "Tob" => t.sent = s.sent + 1 /\ t.ticks = s.ticks
<1>1. /\ s.outSeq \in Nat /\ s.sent \in Nat /\ s.ticks \in Nat /\ s.svc \in Seq(Nat)
  BY DEF Rec
<1>2. PICK v : v = IF m.kind = "OrderAck" /\ s.svc # << >> THEN Tail(s.svc) ELSE s.svc
  OBVIOUS
<1>3. PICK h : h = IF m.kind = "OrderAck" /\ s.svc # << >> THEN Head(s.svc) ELSE 0
  OBVIOUS
<1>4. v \in Seq(Nat) /\ h \in Nat
  BY <1>1, <1>2, <1>3
<1>5. PICK o \in Nat : o = s.outSeq + 1
  BY <1>1
<1>6. PICK a \in Nat : a = IF m.kind = "Tob" THEN s.sent ELSE s.sent + 1
  BY <1>1
<1>7. PICK b \in Nat : b = IF m.kind = "Tob" THEN s.ticks + 1 ELSE s.ticks
  BY <1>1
<1>8. PICK w : w = [m EXCEPT !.seq = s.outSeq, !.svc = h]
  OBVIOUS
<1>9. w \in Msg /\ w.kind = m.kind /\ w.n = m.n /\ w.seq = s.outSeq /\ w.svc = h
  BY <1>1, <1>4, <1>8 DEF Msg
<1>10. PICK u : u = [s EXCEPT !.outSeq = o, !.svc = v]
  OBVIOUS
<1>11. u \in Rec
  BY <1>4, <1>10 DEF Rec
<1>12. /\ SameQueue(s, u) /\ SameIntent(s, u) /\ SameEnd(s, u) /\ u.unencoded = s.unencoded
       /\ u.outSeq = o /\ u.svc = v /\ u.sent = s.sent /\ u.ticks = s.ticks
  BY <1>10 DEF Rec, SameQueue, SameIntent, SameEnd
<1>13. t = [u EXCEPT !.writing = w, !.sent = a, !.ticks = b]
  <2>1. Stamp(s, m) = w
    BY <1>3, <1>8 DEF Stamp
  <2>2. Stamped(s, m) = u
    BY <1>2, <1>5, <1>10 DEF Stamped
  <2>3. t = [u EXCEPT !.writing = w, !.sent = IF m.kind = "Tob" THEN u.sent ELSE u.sent + 1,
                      !.ticks = IF m.kind = "Tob" THEN u.ticks + 1 ELSE u.ticks]
    BY <2>1, <2>2 DEF HandOver
  <2>4. QED  BY <1>6, <1>7, <1>12, <2>3
<1>14. t \in Rec
  BY <1>9, <1>11, <1>13, ZenonT(40) DEF Rec
<1>15. /\ SameQueue(u, t) /\ SameIntent(u, t) /\ SameEnd(u, t) /\ t.unencoded = u.unencoded
       /\ t.outSeq = u.outSeq /\ t.svc = u.svc
  BY <1>11, <1>13 DEF Rec, SameQueue, SameIntent, SameEnd
<1>16. t.writing = w /\ t.sent = a /\ t.ticks = b
  BY <1>11, <1>13 DEF Rec
<1>17. SameQueue(s, t) /\ SameIntent(s, t) /\ SameEnd(s, t)
  BY <1>12, <1>15 DEF SameQueue, SameIntent, SameEnd
<1>18. t.unencoded = s.unencoded /\ t.outSeq = s.outSeq + 1 /\ t.svc = v
  BY <1>5, <1>12, <1>15
<1>19. QED  BY <1>2, <1>3, <1>6, <1>7, <1>9, <1>14, <1>16, <1>17, <1>18

Spoilt(s, m) == [Stamped(s, m) EXCEPT !.unencoded = TRUE]

(* A message that cannot be encoded spends a number and its time.          *)
LEMMA SpoiltDoes ==
  ASSUME NEW s \in Rec, NEW m \in Msg, NEW t, t = Spoilt(s, m)
  PROVE  /\ t \in Rec /\ SameQueue(s, t) /\ SameIntent(s, t) /\ SameEnd(s, t)
         /\ t.unencoded = TRUE /\ t.writing = s.writing /\ t.sent = s.sent /\ t.ticks = s.ticks
         /\ m.kind = "OrderAck" /\ s.svc # << >> => t.svc = Tail(s.svc)
         /\ m.kind # "OrderAck" => t.svc = s.svc
<1>1. s.outSeq \in Nat /\ s.svc \in Seq(Nat)
  BY DEF Rec
<1>2. PICK v : v = IF m.kind = "OrderAck" /\ s.svc # << >> THEN Tail(s.svc) ELSE s.svc
  OBVIOUS
<1>3. v \in Seq(Nat)
  BY <1>1, <1>2
<1>4. PICK o \in Nat : o = s.outSeq + 1
  BY <1>1
<1>5. PICK u : u = [s EXCEPT !.outSeq = o, !.svc = v]
  OBVIOUS
<1>6. u \in Rec
  BY <1>3, <1>5 DEF Rec
<1>7. /\ SameQueue(s, u) /\ SameIntent(s, u) /\ SameEnd(s, u)
      /\ u.svc = v /\ u.sent = s.sent /\ u.ticks = s.ticks /\ u.writing = s.writing
  BY <1>5 DEF Rec, SameQueue, SameIntent, SameEnd
<1>8. t = [u EXCEPT !.unencoded = TRUE]
  <2>1. Stamped(s, m) = u
    BY <1>2, <1>4, <1>5 DEF Stamped
  <2>2. QED  BY <2>1 DEF Spoilt
<1>9. t \in Rec
  BY <1>6, <1>8, ZenonT(40) DEF Rec
<1>10. /\ SameQueue(u, t) /\ SameIntent(u, t) /\ SameEnd(u, t) /\ t.unencoded = TRUE
       /\ t.svc = u.svc /\ t.sent = u.sent /\ t.ticks = u.ticks /\ t.writing = u.writing
  BY <1>6, <1>8 DEF Rec, SameQueue, SameIntent, SameEnd
<1>11. SameQueue(s, t) /\ SameIntent(s, t) /\ SameEnd(s, t)
  BY <1>7, <1>10 DEF SameQueue, SameIntent, SameEnd
<1>12. QED  BY <1>2, <1>7, <1>9, <1>10, <1>11

(* The oldest report or the pending tick leaves the outbox.                *)
LEMMA PopDoes ==
  ASSUME NEW s \in Rec
  PROVE  /\ \A t : t = PopReport(s) /\ s.reports # << >> =>
              /\ t \in Rec /\ SameWire(s, t) /\ SameIntent(s, t) /\ SameEnd(s, t)
              /\ t.reports = Tail(s.reports) /\ t.made = s.made /\ t.breached = s.breached
              /\ t.tob = s.tob /\ t.conflated = s.conflated
         /\ \A t : t = PopTob(s) =>
              /\ t \in Rec /\ SameWire(s, t) /\ SameIntent(s, t) /\ SameEnd(s, t)
              /\ t.reports = s.reports /\ t.made = s.made /\ t.breached = s.breached
              /\ t.tob = NoTob /\ t.conflated = s.conflated
<1>1. ASSUME NEW t, t = PopReport(s), s.reports # << >>
      PROVE  /\ t \in Rec /\ SameWire(s, t) /\ SameIntent(s, t) /\ SameEnd(s, t)
             /\ t.reports = Tail(s.reports) /\ t.made = s.made /\ t.breached = s.breached
             /\ t.tob = s.tob /\ t.conflated = s.conflated
  <2>1. PICK q \in Seq(Msg) : q = Tail(s.reports)
    <3>1. PICK p \in Seq(Msg) : p = s.reports
      BY DEF Rec
    <3>2. PICK q : q = Tail(p)
      OBVIOUS
    <3>3. q \in Seq(Msg)
      BY <1>1, <3>1, <3>2
    <3>4. QED  BY <3>1, <3>2, <3>3
  <2>2. t = [s EXCEPT !.reports = q]
    BY <1>1, <2>1 DEF PopReport
  <2>3. t \in Rec
    BY <2>2 DEF Rec
  <2>4. SameWire(s, t) /\ SameIntent(s, t) /\ SameEnd(s, t)
    BY <2>2 DEF Rec, SameWire, SameIntent, SameEnd
  <2>5. /\ t.reports = q /\ t.made = s.made /\ t.breached = s.breached
        /\ t.tob = s.tob /\ t.conflated = s.conflated
    BY <2>2 DEF Rec
  <2>6. QED  BY <2>1, <2>3, <2>4, <2>5
<1>2. ASSUME NEW t, t = PopTob(s)
      PROVE  /\ t \in Rec /\ SameWire(s, t) /\ SameIntent(s, t) /\ SameEnd(s, t)
             /\ t.reports = s.reports /\ t.made = s.made /\ t.breached = s.breached
             /\ t.tob = NoTob /\ t.conflated = s.conflated
  <2>1. NoTob \in Nat
    BY DEF NoTob
  <2>2. t = [s EXCEPT !.tob = NoTob]
    BY <1>2 DEF PopTob
  <2>3. t \in Rec
    BY <2>1, <2>2 DEF Rec
  <2>4. SameWire(s, t) /\ SameIntent(s, t) /\ SameEnd(s, t)
    BY <2>2 DEF Rec, SameWire, SameIntent, SameEnd
  <2>5. /\ t.reports = s.reports /\ t.made = s.made /\ t.breached = s.breached
        /\ t.tob = NoTob /\ t.conflated = s.conflated
    BY <2>2 DEF Rec
  <2>6. QED  BY <2>3, <2>4, <2>5
<1>3. QED  BY <1>1, <1>2

(* A report is queued, and counted against the mark.                       *)
LEMMA PushDoes ==
  ASSUME NEW s \in Rec, NEW kind \in Kinds, NEW t, t = PushReport(s, kind)
  PROVE  /\ t \in Rec /\ SameWire(s, t) /\ SameIntent(s, t) /\ SameEnd(s, t)
         /\ t.reports = Append(s.reports, Message(kind, s.made + 1)) /\ t.made = s.made + 1
         /\ Len(s.reports) + 1 > ReportHwm => t.breached = TRUE
         /\ t.tob = s.tob /\ t.conflated = s.conflated
<1>1. s.reports \in Seq(Msg) /\ s.made \in Nat /\ s.breached \in BOOLEAN
  BY DEF Rec
<1>2. PICK n \in Nat : n = s.made + 1
  BY <1>1
<1>3. Message(kind, n) \in Msg
  BY DEF Message, Msg
<1>4. PICK q \in Seq(Msg) : q = Append(s.reports, Message(kind, n)) /\ Len(q) = Len(s.reports) + 1
  <2>1. PICK p \in Seq(Msg) : p = s.reports
    BY <1>1
  <2>2. PICK m \in Msg : m = Message(kind, n)
    BY <1>3
  <2>3. PICK q : q = Append(p, m)
    OBVIOUS
  <2>4. q \in Seq(Msg) /\ Len(q) = Len(p) + 1
    BY <2>3
  <2>5. QED  BY <2>1, <2>2, <2>3, <2>4
<1>5. PICK b \in BOOLEAN : b = (s.breached \/ Len(q) > ReportHwm)
  BY <1>1
<1>6. t = [s EXCEPT !.reports = q, !.made = n, !.breached = b]
  BY <1>2, <1>4, <1>5 DEF PushReport
<1>7. t \in Rec
  BY <1>6, ZenonT(40) DEF Rec
<1>8. SameWire(s, t) /\ SameIntent(s, t) /\ SameEnd(s, t)
  BY <1>6 DEF Rec, SameWire, SameIntent, SameEnd
<1>9. t.reports = q /\ t.made = n /\ t.breached = b /\ t.tob = s.tob /\ t.conflated = s.conflated
  BY <1>6 DEF Rec
<1>10. Len(s.reports) + 1 > ReportHwm => b = TRUE
  BY <1>4, <1>5
<1>11. QED  BY <1>2, <1>4, <1>7, <1>8, <1>9, <1>10

------------------------------------------------------------------------------
(* The invariant of a session, kept by every method.                       *)

(* Reports and sequence numbers.  Nothing is stamped once a message could  *)
(* not be encoded, so until then the numbers used are those on the wire.   *)
Accounted(s) ==
  LET queued == Len(s.reports) IN
  /\ \A i \in 1 .. queued : s.reports[i].kind \in Kinds /\ s.reports[i].n = s.made - queued + i
  /\ s.unencoded = FALSE => s.made = s.sent + queued /\ s.outSeq = s.sent + s.ticks + 1
  /\ s.unencoded = TRUE => s.made - (s.sent + queued) \in {0, 1}
  /\ s.writing.kind \in Kinds => s.writing.n = s.sent
  /\ s.writing # Idle => s.writing.seq = s.sent + s.ticks

(* Service times.                                                          *)
Paired(s) ==
  /\ \A i \in 1 .. Len(s.svc) : \E j \in 1 .. Len(s.reports) :
       s.reports[j].kind = "OrderAck" /\ s.reports[j].n = s.svc[i]
  /\ \A j \in 1 .. Len(s.reports) :
       s.reports[j].kind = "OrderAck" => \E i \in 1 .. Len(s.svc) : s.svc[i] = s.reports[j].n
  /\ \A i, j \in 1 .. Len(s.svc) : i < j => s.svc[i] < s.svc[j]
  /\ s.writing.kind = "OrderAck" => s.writing.svc = s.writing.n

(* The close: which flag implies which, and what the close frame waits for.*)
Closes(s) ==
  /\ s.closeOp # "none" \/ s.draining = TRUE => s.frameSent = TRUE
  /\ s.frameSent = TRUE => s.closing = TRUE
  /\ s.unencoded = TRUE => s.frameSent = TRUE
  /\ s.retired = TRUE <=> (s.closing = TRUE \/ s.tornDown = TRUE)
  /\ s.retired = TRUE => s.orders = AllFree
  /\ s.closing = TRUE => s.code # NoCode
  /\ s.closing = TRUE /\ s.code \in {PolicyError, GoingAway} => s.drain = TRUE
  /\ s.frameSent = TRUE /\ s.unencoded = FALSE /\ s.drain = TRUE => s.sent = s.made /\ s.reports = << >>
  /\ Cardinality(LiveIds(s.orders)) <= MaxLive

Sound(s) == s \in Rec /\ Accounted(s) /\ Paired(s) /\ Closes(s)

(* Ticks, after md books.                                                  *)
Ticks(s, md) ==
  /\ s.closing = FALSE /\ s.tornDown = FALSE =>
       s.ticks + s.conflated + (IF s.tob = NoTob THEN 0 ELSE 1) = md
  /\ s.closing = FALSE /\ s.tob # NoTob => s.tob = md

(* What no method but teardown undoes.                                     *)
Follows(s, t) ==
  /\ s.frameSent = TRUE => t.frameSent = TRUE /\ t.sent = s.sent /\ t.ticks = s.ticks
  /\ s.closing = TRUE => t.closing = TRUE /\ t.code = s.code
  /\ t.tornDown = s.tornDown /\ t.recorded = s.recorded

(* What a method that queues nothing and tears nothing down keeps.         *)
Keeps(s, t) ==
  /\ Sound(t) /\ Follows(s, t) /\ Len(t.reports) <= Len(s.reports)
  /\ \A md \in Nat : Ticks(s, md) => Ticks(t, md)

(* A pump finds nothing to do; and, while reports are being delivered, the *)
(* close frame waits for them unless one could not be encoded.             *)
Busy(s) == s.tornDown = TRUE \/ s.frameSent = TRUE \/ s.writing # Idle

Delivering(s) ==
  /\ s.frameSent = TRUE => s.unencoded = TRUE
  /\ s.closing = TRUE => s.drain = TRUE \/ s.frameSent = TRUE

(* A session kept is a session followed, also in two calls.                *)
LEMMA KeepsTwice ==
  ASSUME NEW s, NEW t, NEW u, s \in Rec, Keeps(s, t), Keeps(t, u)
  PROVE  Keeps(s, u)
<1>1. Len(s.reports) \in Nat /\ Len(t.reports) \in Nat /\ Len(u.reports) \in Nat
  <2>1. \A x \in Rec : Len(x.reports) \in Nat
    BY DEF Rec
  <2>2. QED  BY <2>1 DEF Keeps, Sound
<1>2. Len(u.reports) <= Len(s.reports)
  BY <1>1 DEF Keeps
<1>3. Follows(s, u)
  BY DEF Keeps, Follows
<1>4. QED  BY <1>2, <1>3 DEF Keeps

(* The flags are Booleans, the counters numbers.                           *)
LEMMA Fields ==
  ASSUME NEW s \in Rec
  PROVE  /\ s.closing \in BOOLEAN /\ s.drain \in BOOLEAN /\ s.frameSent \in BOOLEAN
         /\ s.retired \in BOOLEAN /\ s.tornDown \in BOOLEAN /\ s.unencoded \in BOOLEAN
         /\ s.reports \in Seq(Msg) /\ Len(s.reports) \in Nat /\ s.svc \in Seq(Nat) /\ Len(s.svc) \in Nat
         /\ s.made \in Nat /\ s.sent \in Nat /\ s.ticks \in Nat /\ s.outSeq \in Nat
         /\ s.tob \in Nat /\ s.conflated \in Nat /\ s.code \in Nat /\ s.recorded \in Nat
         /\ s.orders \in OrderMap
<1>1. /\ s.closing \in BOOLEAN /\ s.drain \in BOOLEAN /\ s.frameSent \in BOOLEAN
      /\ s.retired \in BOOLEAN /\ s.tornDown \in BOOLEAN /\ s.unencoded \in BOOLEAN
      /\ s.made \in Nat /\ s.sent \in Nat /\ s.ticks \in Nat /\ s.outSeq \in Nat
      /\ s.tob \in Nat /\ s.conflated \in Nat /\ s.code \in Nat /\ s.recorded \in Nat
      /\ s.orders \in OrderMap
  BY DEF Rec
<1>2. s.reports \in Seq(Msg) /\ Len(s.reports) \in Nat /\ s.svc \in Seq(Nat) /\ Len(s.svc) \in Nat
  BY DEF Rec
<1>3. QED  BY <1>1, <1>2

------------------------------------------------------------------------------
FailedWrite(s, m) == SendCloseFrame(LatchClose(Spoilt(s, m), InternalError, FALSE))

Failed(u, m, t) ==
  /\ t \in Rec /\ SameQueue(u, t) /\ t.unencoded = TRUE /\ t.writing = Idle
  /\ t.sent = u.sent /\ t.ticks = u.ticks
  /\ m.kind = "OrderAck" /\ u.svc # << >> => t.svc = Tail(u.svc)
  /\ m.kind # "OrderAck" => t.svc = u.svc
  /\ t.closing = TRUE /\ t.retired = TRUE /\ t.frameSent = TRUE
  /\ t.tornDown = FALSE /\ t.recorded = u.recorded
  /\ u.closing = TRUE => t.code = u.code /\ t.drain = u.drain /\ t.orders = u.orders
  /\ u.closing = FALSE => t.code = InternalError /\ t.orders = AllFree

(* An encoding that fails closes the session.                              *)
LEMMA FailedWriteDoes ==
  ASSUME NEW u \in Rec, NEW m \in Msg, u.writing = Idle, u.frameSent = FALSE, u.tornDown = FALSE,
         u.closing = FALSE => u.retired = FALSE, u.closing = TRUE => u.retired = TRUE,
         NEW t, t = FailedWrite(u, m)
  PROVE  Failed(u, m, t)
<1>1. PICK v : v = Spoilt(u, m)
  OBVIOUS
<1>2. PICK w : w = LatchClose(v, InternalError, FALSE)
  OBVIOUS
<1>3. t = SendCloseFrame(w)
  BY <1>1, <1>2 DEF FailedWrite
<1>4. /\ v \in Rec /\ SameQueue(u, v) /\ SameIntent(u, v) /\ SameEnd(u, v)
      /\ v.unencoded = TRUE /\ v.writing = u.writing /\ v.sent = u.sent /\ v.ticks = u.ticks
      /\ m.kind = "OrderAck" /\ u.svc # << >> => v.svc = Tail(u.svc)
      /\ m.kind # "OrderAck" => v.svc = u.svc
  BY <1>1, SpoiltDoes
<1>5. /\ w \in Rec /\ SameQueue(v, w) /\ SameWire(v, w) /\ SameEnd(v, w)
      /\ w.closing = TRUE /\ w.retired = TRUE
      /\ u.closing = TRUE => w.code = u.code /\ w.drain = u.drain /\ w.orders = u.orders
      /\ u.closing = FALSE => w.code = InternalError /\ w.orders = AllFree
  <2>1. CASE u.closing = TRUE
    <3>1. w = v
      BY <1>2, <1>4, <2>1 DEF LatchClose, SameIntent
    <3>2. QED  BY <1>4, <2>1, <3>1 DEF SameQueue, SameWire, SameEnd, SameIntent
  <2>2. CASE u.closing = FALSE
    <3>1. v.closing = FALSE /\ v.tornDown = FALSE /\ v.retired = FALSE
      BY <1>4, <2>2 DEF SameIntent, SameEnd
    <3>2. InternalError \in Nat
      BY DEF InternalError
    <3>3. PICK no \in BOOLEAN : no = FALSE
      OBVIOUS
    <3>4. v \in Rec /\ w = LatchClose(v, InternalError, no)
      BY <1>2, <1>4, <3>3
    <3>5. /\ w \in Rec /\ SameQueue(v, w) /\ SameWire(v, w) /\ SameEnd(v, w)
          /\ w.closing = TRUE /\ w.code = InternalError /\ w.retired = TRUE /\ w.orders = AllFree
      <4>1. Latched(v, InternalError, no, w)
        BY <3>1, <3>2, <3>3, <3>4, LatchDoes
      <4>2. QED  BY <4>1 DEF Latched
    <3>6. QED  BY <2>2, <3>5
  <2>3. QED  BY <2>1, <2>2, Fields
<1>6. w.frameSent = FALSE /\ w.tornDown = FALSE /\ w.writing = Idle
  BY <1>4, <1>5 DEF SameEnd, SameWire
<1>7. /\ t \in Rec /\ SameQueue(w, t) /\ SameWire(w, t) /\ SameIntent(w, t)
      /\ t.frameSent = TRUE /\ t.tornDown = w.tornDown /\ t.recorded = w.recorded
  BY <1>3, <1>5, <1>6, FrameDoes
<1>8. SameQueue(u, t)
  BY <1>4, <1>5, <1>7 DEF SameQueue
<1>9. /\ t.unencoded = TRUE /\ t.writing = Idle /\ t.sent = u.sent /\ t.ticks = u.ticks /\ t.svc = v.svc
  BY <1>4, <1>5, <1>7 DEF SameWire
<1>10. t.closing = TRUE /\ t.retired = TRUE /\ t.code = w.code /\ t.drain = w.drain /\ t.orders = w.orders
  BY <1>5, <1>7 DEF SameIntent
<1>11. t.tornDown = FALSE /\ t.recorded = u.recorded
  BY <1>4, <1>5, <1>7 DEF SameEnd
<1>12. QED  BY <1>4, <1>5, <1>7, <1>8, <1>9, <1>10, <1>11 DEF Failed

QueuePaired(t) ==
  /\ \A i \in 1 .. Len(t.svc) : \E j \in 1 .. Len(t.reports) :
       t.reports[j].kind = "OrderAck" /\ t.reports[j].n = t.svc[i]
  /\ \A j \in 1 .. Len(t.reports) :
       t.reports[j].kind = "OrderAck" => \E i \in 1 .. Len(t.svc) : t.svc[i] = t.reports[j].n
  /\ \A i, j \in 1 .. Len(t.svc) : i < j => t.svc[i] < t.svc[j]

(* The oldest report leaves the queue with its own service time.           *)
LEMMA PoppedPaired ==
  ASSUME NEW s \in Rec, Accounted(s), Paired(s), s.reports # << >>, NEW t \in Rec,
         t.reports = Tail(s.reports),
         Head(s.reports).kind = "OrderAck" /\ s.svc # << >> => t.svc = Tail(s.svc),
         Head(s.reports).kind # "OrderAck" => t.svc = s.svc
  PROVE  /\ Head(s.reports).kind = "OrderAck" => s.svc # << >> /\ Head(s.svc) = Head(s.reports).n
         /\ QueuePaired(t)
<1>1. PICK q \in Seq(Msg) : q = s.reports
  BY Fields
<1>2. PICK v \in Seq(Nat) : v = s.svc
  BY Fields
<1>3. PICK made \in Nat : made = s.made
  BY Fields
<1>4. /\ \A i \in 1 .. Len(q) : q[i].n = made - Len(q) + i
      /\ \A i \in 1 .. Len(v) : \E j \in 1 .. Len(q) : q[j].kind = "OrderAck" /\ q[j].n = v[i]
      /\ \A j \in 1 .. Len(q) : q[j].kind = "OrderAck" => \E i \in 1 .. Len(v) : v[i] = q[j].n
      /\ \A i, j \in 1 .. Len(v) : i < j => v[i] < v[j]
  BY <1>1, <1>2, <1>3 DEF Accounted, Paired
<1>5. PICK r \in Seq(Msg) : r = t.reports
  BY Fields
<1>6. /\ q # << >> /\ Len(q) \in Nat \ {0} /\ Head(q) = q[1] /\ Len(r) = Len(q) - 1 /\ Len(v) \in Nat
      /\ \A i \in 1 .. Len(r) : r[i] = q[i + 1] /\ i + 1 \in 1 .. Len(q)
      /\ 1 \in 1 .. Len(q)
  BY <1>1, <1>2, <1>5
<1>7. \A j \in 1 .. Len(q) : j = 1 \/ (j - 1 \in 1 .. Len(r) /\ r[j - 1] = q[j])
  <2>1. \A j \in 1 .. Len(q) : j = 1 \/ (j - 1 \in 1 .. Len(r) /\ (j - 1) + 1 = j)
    BY <1>6
  <2>2. QED  BY <1>6, <2>1
<1>8. \A j \in 1 .. Len(q) : q[j].n \in Int /\ q[j].n >= q[1].n /\ (q[j].n = q[1].n => j = 1)
  <2>1. SUFFICES ASSUME NEW j \in 1 .. Len(q) PROVE q[j].n \in Int /\ q[j].n >= q[1].n /\ (q[j].n = q[1].n => j = 1)
    OBVIOUS
  <2>2. q[j].n = made - Len(q) + j /\ q[1].n = made - Len(q) + 1
    BY <1>4, <1>6
  <2>3. QED  BY <1>6, <2>2
<1>9. CASE q[1].kind = "OrderAck"
  <2>1. PICK i \in 1 .. Len(v) : v[i] = q[1].n
    BY <1>4, <1>6, <1>9
  <2>2. v # << >> /\ 1 \in 1 .. Len(v) /\ Head(v) = v[1]
    BY <1>6, <2>1
  <2>3. v[1] = q[1].n
    <3>1. v[1] >= q[1].n /\ v[1] \in Nat /\ v[i] \in Nat
      <4>1. PICK j \in 1 .. Len(q) : q[j].n = v[1]
        BY <1>4, <2>2
      <4>2. QED  BY <1>8, <2>2, <4>1
    <3>2. i = 1 \/ 1 < i
      BY <1>6, <2>1
    <3>3. i = 1 \/ v[1] < v[i]
      BY <1>4, <2>2, <3>2
    <3>4. QED  BY <2>1, <3>1, <3>3
  <2>4. PICK w \in Seq(Nat) : w = t.svc
    BY Fields
  <2>5. /\ w = Tail(v) /\ Len(w) = Len(v) - 1 /\ \A k \in 1 .. Len(w) : w[k] = v[k + 1] /\ k + 1 \in 1 .. Len(v)
    <3>1. w = Tail(v)
      BY <1>1, <1>2, <1>6, <1>9, <2>2, <2>4
    <3>2. QED  BY <2>2, <3>1
  <2>6. \A k \in 1 .. Len(w) : \E j \in 1 .. Len(r) : r[j].kind = "OrderAck" /\ r[j].n = w[k]
    <3>1. SUFFICES ASSUME NEW k \in 1 .. Len(w) PROVE \E j \in 1 .. Len(r) : r[j].kind = "OrderAck" /\ r[j].n = w[k]
      OBVIOUS
    <3>2. PICK j \in 1 .. Len(q) : q[j].kind = "OrderAck" /\ q[j].n = v[k + 1]
      BY <1>4, <2>5
    <3>3. v[1] < v[k + 1]
      <4>1. 1 < k + 1 /\ k + 1 \in 1 .. Len(v)
        BY <2>5
      <4>2. QED  BY <1>4, <2>2, <4>1
    <3>4. v[1] \in Nat /\ v[k + 1] \in Nat
      BY <2>2, <2>5
    <3>5. j # 1
      BY <2>3, <3>2, <3>3, <3>4
    <3>6. j - 1 \in 1 .. Len(r) /\ r[j - 1] = q[j]
      BY <1>7, <3>5
    <3>7. w[k] = v[k + 1]
      BY <2>5
    <3>8. QED  BY <3>2, <3>6, <3>7
  <2>7. \A j \in 1 .. Len(r) : r[j].kind = "OrderAck" => \E k \in 1 .. Len(w) : w[k] = r[j].n
    <3>1. SUFFICES ASSUME NEW j \in 1 .. Len(r), r[j].kind = "OrderAck" PROVE \E k \in 1 .. Len(w) : w[k] = r[j].n
      OBVIOUS
    <3>2. r[j] = q[j + 1] /\ j + 1 \in 1 .. Len(q) /\ j + 1 # 1
      BY <1>6
    <3>3. PICK k \in 1 .. Len(v) : v[k] = q[j + 1].n
      BY <1>4, <3>1, <3>2
    <3>4. k # 1
      BY <1>8, <2>3, <3>2, <3>3
    <3>5. k - 1 \in 1 .. Len(w) /\ (k - 1) + 1 = k
      BY <1>6, <2>5, <3>4
    <3>6. w[k - 1] = v[k]
      BY <2>5, <3>5
    <3>7. QED  BY <3>2, <3>3, <3>5, <3>6
  <2>8. \A k, j \in 1 .. Len(w) : k < j => w[k] < w[j]
    <3>1. SUFFICES ASSUME NEW k \in 1 .. Len(w), NEW j \in 1 .. Len(w), k < j PROVE w[k] < w[j]
      OBVIOUS
    <3>2. k + 1 \in 1 .. Len(v) /\ j + 1 \in 1 .. Len(v) /\ k + 1 < j + 1 /\ w[k] = v[k + 1] /\ w[j] = v[j + 1]
      BY <2>5, <3>1
    <3>3. QED  BY <1>4, <3>2
  <2>9. QueuePaired(t)
    <3>1. t.svc = w /\ t.reports = r
      BY <1>5, <2>4
    <3>2. QED  BY <2>6, <2>7, <2>8, <3>1, Zenon DEF QueuePaired
  <2>10. QED  BY <1>1, <1>2, <1>6, <2>2, <2>3, <2>9
<1>10. CASE q[1].kind # "OrderAck"
  <2>1. t.svc = v
    BY <1>1, <1>2, <1>6, <1>10
  <2>2. \A k \in 1 .. Len(v) : \E j \in 1 .. Len(r) : r[j].kind = "OrderAck" /\ r[j].n = v[k]
    <3>1. SUFFICES ASSUME NEW k \in 1 .. Len(v) PROVE \E j \in 1 .. Len(r) : r[j].kind = "OrderAck" /\ r[j].n = v[k]
      OBVIOUS
    <3>2. PICK j \in 1 .. Len(q) : q[j].kind = "OrderAck" /\ q[j].n = v[k]
      BY <1>4
    <3>3. j - 1 \in 1 .. Len(r) /\ r[j - 1] = q[j]
      BY <1>7, <1>10, <3>2
    <3>4. QED  BY <3>2, <3>3
  <2>3. \A j \in 1 .. Len(r) : r[j].kind = "OrderAck" => \E k \in 1 .. Len(v) : v[k] = r[j].n
    <3>1. SUFFICES ASSUME NEW j \in 1 .. Len(r), r[j].kind = "OrderAck" PROVE \E k \in 1 .. Len(v) : v[k] = r[j].n
      OBVIOUS
    <3>2. r[j] = q[j + 1] /\ j + 1 \in 1 .. Len(q)
      BY <1>6
    <3>3. PICK k \in 1 .. Len(v) : v[k] = q[j + 1].n
      BY <1>4, <3>1, <3>2
    <3>4. QED  BY <3>2, <3>3
  <2>4. QueuePaired(t)
    <3>1. t.svc = v /\ t.reports = r
      BY <1>5, <2>1
    <3>2. QED  BY <1>4, <2>2, <2>3, <3>1, Zenon DEF QueuePaired
  <2>5. QED  BY <1>1, <1>6, <1>10, <2>4
<1>11. QED  BY <1>9, <1>10

(* A retired epoch has no live order.                                      *)
LEMMA NoneLive == LiveIds(AllFree) = {} /\ Cardinality(LiveIds(AllFree)) <= MaxLive
<1>1. LiveIds(AllFree) = {}
  BY DEF LiveIds, AllFree
<1>2. QED  BY <1>1, FS_EmptySet, ViewAssumption

(* Pairing is about the queue, its times and the message in flight.        *)
LEMMA StillPaired ==
  ASSUME NEW s, NEW t, Paired(s), t.reports = s.reports, t.svc = s.svc,
         t.writing.kind = "OrderAck" => t.writing.svc = t.writing.n
  PROVE  Paired(t)
<1>1. PICK q : q = s.reports
  OBVIOUS
<1>2. PICK v : v = s.svc
  OBVIOUS
<1>3. /\ \A i \in 1 .. Len(v) : \E j \in 1 .. Len(q) : q[j].kind = "OrderAck" /\ q[j].n = v[i]
      /\ \A j \in 1 .. Len(q) : q[j].kind = "OrderAck" => \E i \in 1 .. Len(v) : v[i] = q[j].n
      /\ \A i, j \in 1 .. Len(v) : i < j => v[i] < v[j]
  BY <1>1, <1>2, Zenon DEF Paired
<1>4. t.reports = q /\ t.svc = v
  BY <1>1, <1>2
<1>5. QED  BY <1>3, <1>4, Zenon DEF Paired

(* The close frame goes out once nothing is left to drain.                 *)
LEMMA FrameKeeps ==
  ASSUME NEW s, Sound(s), s.closing = TRUE, s.frameSent = FALSE, s.tornDown = FALSE,
         s.writing = Idle, s.drain = TRUE => s.reports = << >>, NEW t, t = SendCloseFrame(s)
  PROVE  Keeps(s, t)
<1>1. s \in Rec /\ Accounted(s) /\ Paired(s) /\ Closes(s)
  BY DEF Sound
<1>2. /\ t \in Rec /\ SameQueue(s, t) /\ SameWire(s, t) /\ SameIntent(s, t)
      /\ t.frameSent = TRUE /\ t.tornDown = s.tornDown /\ t.recorded = s.recorded
  BY <1>1, FrameDoes
<1>3. Accounted(t)
  BY <1>1, <1>2 DEF Accounted, SameQueue, SameWire
<1>4. Paired(t)
  <2>1. t.reports = s.reports /\ t.svc = s.svc /\ t.writing = s.writing
    BY <1>2 DEF SameQueue, SameWire
  <2>2. s.writing.kind = "OrderAck" => s.writing.svc = s.writing.n
    BY <1>1 DEF Paired
  <2>3. QED  BY <1>1, <2>1, <2>2, StillPaired
<1>5. Closes(t)
  <2>1. s.unencoded = FALSE
    BY <1>1, Fields DEF Closes
  <2>2. s.reports = << >> => s.made = s.sent
    <3>1. ASSUME s.reports = << >> PROVE s.made = s.sent
      <4>1. Len(s.reports) = 0
        BY <3>1
      <4>2. s.made \in Nat /\ s.sent \in Nat
        BY <1>1, Fields
      <4>3. QED  BY <1>1, <2>1, <4>1, <4>2 DEF Accounted
    <3>2. QED  BY <3>1
  <2>3. t.closing = TRUE /\ t.code = s.code /\ t.drain = s.drain /\ t.retired = s.retired /\ t.orders = s.orders
    BY <1>2 DEF SameIntent
  <2>4. t.sent = s.sent /\ t.made = s.made /\ t.reports = s.reports /\ t.unencoded = s.unencoded
    BY <1>2 DEF SameQueue, SameWire
  <2>5. QED  BY <1>1, <1>2, <2>1, <2>2, <2>3, <2>4 DEF Closes
<1>6. Follows(s, t) /\ Len(t.reports) <= Len(s.reports)
  <2>1. Len(s.reports) \in Nat
    BY <1>1, Fields
  <2>2. QED  BY <1>2, <2>1 DEF Follows, SameQueue, SameIntent
<1>7. \A md \in Nat : Ticks(s, md) => Ticks(t, md)
  BY <1>2 DEF Ticks, SameIntent
<1>8. QED  BY <1>2, <1>3, <1>4, <1>5, <1>6, <1>7 DEF Keeps, Sound

(* A closing session discards the tick.                                    *)
LEMMA DiscardKeeps ==
  ASSUME NEW s, Sound(s), s.closing = TRUE, NEW t, t = PopTob(s)
  PROVE  /\ Keeps(s, t) /\ SameIntent(s, t) /\ SameEnd(s, t)
         /\ t.writing = s.writing /\ t.reports = s.reports
<1>1. s \in Rec /\ Accounted(s) /\ Paired(s) /\ Closes(s)
  BY DEF Sound
<1>2. /\ t \in Rec /\ SameWire(s, t) /\ SameIntent(s, t) /\ SameEnd(s, t)
      /\ t.reports = s.reports /\ t.made = s.made
  BY <1>1, PopDoes
<1>3. Accounted(t)
  BY <1>1, <1>2 DEF Accounted, SameWire
<1>4. Paired(t)
  <2>1. t.reports = s.reports /\ t.svc = s.svc /\ t.writing = s.writing
    BY <1>2 DEF SameWire
  <2>2. s.writing.kind = "OrderAck" => s.writing.svc = s.writing.n
    BY <1>1 DEF Paired
  <2>3. QED  BY <1>1, <2>1, <2>2, StillPaired
<1>5. Closes(t)
  BY <1>1, <1>2 DEF Closes, SameWire, SameIntent, SameEnd
<1>6. Follows(s, t) /\ Len(t.reports) <= Len(s.reports)
  <2>1. Len(s.reports) \in Nat
    BY <1>1, Fields
  <2>2. QED  BY <1>2, <2>1 DEF Follows, SameWire, SameIntent, SameEnd
<1>7. \A md \in Nat : Ticks(s, md) => Ticks(t, md)
  BY <1>2 DEF Ticks, SameIntent
<1>8. t.writing = s.writing
  BY <1>2 DEF SameWire
<1>9. QED  BY <1>2, <1>3, <1>4, <1>5, <1>6, <1>7, <1>8 DEF Keeps, Sound

(* The oldest report is written, or closes the session.                    *)
LEMMA WriteReportKeeps ==
  ASSUME NEW s, Sound(s), s.frameSent = FALSE, s.tornDown = FALSE, s.writing = Idle,
         s.reports # << >>, NEW enc \in BOOLEAN,
         NEW t, t = Write(PopReport(s), Head(s.reports), enc)
  PROVE  Keeps(s, t) /\ (Delivering(s) => Delivering(t)) /\ Busy(t)
<1>1. s \in Rec /\ Accounted(s) /\ Paired(s) /\ Closes(s)
  BY DEF Sound
<1>2. PICK u : u = PopReport(s)
  OBVIOUS
<1>3. PICK m : m = Head(s.reports)
  OBVIOUS
<1>4. /\ u \in Rec /\ SameWire(s, u) /\ SameIntent(s, u) /\ SameEnd(s, u)
      /\ u.reports = Tail(s.reports) /\ u.made = s.made
      /\ u.tob = s.tob /\ u.conflated = s.conflated
  BY <1>1, <1>2, PopDoes
<1>5. PICK q \in Seq(Msg) : q = s.reports
  BY <1>1, Fields
<1>6. PICK r \in Seq(Msg) : r = u.reports
  BY <1>4, Fields
<1>7. /\ Len(q) \in Nat \ {0} /\ m = q[1] /\ m \in Msg /\ Len(r) = Len(q) - 1 /\ Len(r) \in Nat
      /\ \A i \in 1 .. Len(r) : r[i] = q[i + 1] /\ i + 1 \in 1 .. Len(q)
      /\ 1 \in 1 .. Len(q)
  BY <1>3, <1>4, <1>5, <1>6
<1>8. s.unencoded = FALSE
  BY <1>1, Fields DEF Closes
<1>9. /\ s.made \in Nat /\ s.sent \in Nat /\ s.ticks \in Nat /\ s.outSeq \in Nat
      /\ s.made = s.sent + Len(q) /\ s.outSeq = s.sent + s.ticks + 1
      /\ \A i \in 1 .. Len(q) : q[i].kind \in Kinds /\ q[i].n = s.made - Len(q) + i
  BY <1>1, <1>5, <1>8, Fields DEF Accounted
<1>10. m.kind \in Kinds /\ m.kind # "Tob" /\ m.n = s.sent + 1
  <2>1. q[1].kind \in Kinds /\ q[1].n = s.made - Len(q) + 1
    BY <1>7, <1>9
  <2>2. m.kind # "Tob"
    BY <1>7, <2>1 DEF Kinds
  <2>3. QED  BY <1>7, <1>9, <2>1, <2>2
<1>11. \A i \in 1 .. Len(r) : r[i].kind \in Kinds /\ r[i].n = s.made - Len(r) + i
  <2>1. SUFFICES ASSUME NEW i \in 1 .. Len(r) PROVE r[i].kind \in Kinds /\ r[i].n = s.made - Len(r) + i
    OBVIOUS
  <2>2. r[i] = q[i + 1] /\ q[i + 1].kind \in Kinds /\ q[i + 1].n = s.made - Len(q) + (i + 1)
    BY <1>7, <1>9
  <2>3. Len(r) = Len(q) - 1 /\ Len(q) \in Nat /\ s.made \in Nat /\ i \in Nat
    BY <1>7, <1>9
  <2>4. \A a, b, c \in Nat : a - b + (c + 1) = a - (b - 1) + c
    OBVIOUS
  <2>5. r[i].n = s.made - Len(r) + i
    <3>1. r[i].n = s.made - Len(q) + (i + 1)
      BY <2>2
    <3>2. s.made - Len(q) + (i + 1) = s.made - (Len(q) - 1) + i
      BY <2>3, <2>4
    <3>3. QED  BY <2>3, <3>1, <3>2
  <2>6. QED  BY <2>2, <2>5
<1>12. /\ u.writing = Idle /\ u.frameSent = FALSE /\ u.tornDown = FALSE
       /\ u.closing = FALSE => u.retired = FALSE
       /\ u.closing = TRUE => u.retired = TRUE
  <2>1. s.closing = FALSE => s.retired = FALSE
    BY <1>1, Fields DEF Closes
  <2>2. s.closing = TRUE => s.retired = TRUE
    BY <1>1 DEF Closes
  <2>3. QED  BY <1>4, <2>1, <2>2 DEF SameWire, SameIntent, SameEnd
<1>13. CASE enc = TRUE
  <2>1. t = HandOver(u, m)
    BY <1>2, <1>3, <1>13 DEF Write
  <2>2. /\ t \in Rec /\ SameQueue(u, t) /\ SameIntent(u, t) /\ SameEnd(u, t)
        /\ t.unencoded = u.unencoded /\ t.outSeq = u.outSeq + 1
        /\ t.writing \in Msg /\ t.writing.kind = m.kind /\ t.writing.n = m.n
        /\ t.writing.seq = u.outSeq
        /\ m.kind = "OrderAck" /\ u.svc # << >> => t.svc = Tail(u.svc) /\ t.writing.svc = Head(u.svc)
        /\ m.kind # "OrderAck" => t.svc = u.svc
        /\ t.sent = u.sent + 1 /\ t.ticks = u.ticks
    BY <1>4, <1>7, <1>10, <2>1, HandOverDoes
  <2>3. /\ t.reports = r /\ t.made = s.made /\ t.unencoded = FALSE /\ t.outSeq = s.outSeq + 1
        /\ t.sent = s.sent + 1 /\ t.ticks = s.ticks /\ t.tob = s.tob /\ t.conflated = s.conflated
        /\ t.writing.seq = s.outSeq /\ t.writing.n = m.n
    BY <1>4, <1>6, <1>8, <2>2 DEF SameQueue, SameWire
  <2>4. /\ SameIntent(s, t) /\ SameEnd(s, t)
    BY <1>4, <2>2 DEF SameIntent, SameEnd
  <2>5. Accounted(t)
    <3>1. t.made = t.sent + Len(r) /\ t.outSeq = t.sent + t.ticks + 1
      <4>1. Len(r) = Len(q) - 1 /\ Len(q) \in Nat
        BY <1>7
      <4>2. s.made = s.sent + Len(q) /\ s.outSeq = s.sent + s.ticks + 1 /\ s.sent \in Nat /\ s.ticks \in Nat
        BY <1>9
      <4>3. /\ \A a, b \in Nat : a + b = (a + 1) + (b - 1)
            /\ \A a, b \in Nat : (a + b + 1) + 1 = (a + 1) + b + 1
        OBVIOUS
      <4>4. t.made = t.sent + Len(r)
        BY <2>3, <4>1, <4>2, <4>3
      <4>5. t.outSeq = t.sent + t.ticks + 1
        BY <2>3, <4>2, <4>3
      <4>6. QED  BY <4>4, <4>5
    <3>2. t.writing.n = t.sent /\ t.writing.seq = t.sent + t.ticks
      BY <1>9, <1>10, <2>3
    <3>3. QED  BY <1>11, <2>3, <3>1, <3>2 DEF Accounted
  <2>6. Paired(t)
    <3>1. /\ m.kind = "OrderAck" /\ s.svc # << >> => t.svc = Tail(s.svc) /\ t.writing.svc = Head(s.svc)
          /\ m.kind # "OrderAck" => t.svc = s.svc
      BY <1>4, <2>2 DEF SameWire
    <3>2. t.reports = Tail(s.reports)
      BY <1>4, <1>6, <2>3
    <3>3. (m.kind = "OrderAck" => s.svc # << >> /\ Head(s.svc) = m.n) /\ QueuePaired(t)
      BY <1>1, <1>3, <2>2, <3>1, <3>2, PoppedPaired
    <3>4. t.writing.kind = "OrderAck" => t.writing.svc = t.writing.n
      BY <2>2, <3>1, <3>3
    <3>5. QED  BY <3>3, <3>4, Zenon DEF Paired, QueuePaired
  <2>7. Closes(t)
    BY <1>1, <1>8, <2>3, <2>4 DEF Closes, SameIntent, SameEnd
  <2>8. Follows(s, t) /\ Len(t.reports) <= Len(s.reports)
    BY <1>5, <1>7, <2>3, <2>4 DEF Follows, SameIntent, SameEnd
  <2>9. \A md \in Nat : Ticks(s, md) => Ticks(t, md)
    BY <2>3, <2>4 DEF Ticks, SameIntent, SameEnd
  <2>10. Busy(t)
    BY <2>2 DEF Busy, Msg, Idle, Kinds
  <2>11. Delivering(s) => Delivering(t)
    BY <2>4 DEF Delivering, SameIntent, SameEnd
  <2>12. QED  BY <2>2, <2>5, <2>6, <2>7, <2>8, <2>9, <2>10, <2>11 DEF Keeps, Sound
<1>14. CASE enc = FALSE
  <2>1. t = FailedWrite(u, m)
    BY <1>2, <1>3, <1>14 DEF Write, FailedWrite, Spoilt
  <2>2. /\ t \in Rec /\ SameQueue(u, t) /\ t.unencoded = TRUE /\ t.writing = Idle
        /\ t.sent = u.sent /\ t.ticks = u.ticks
        /\ m.kind = "OrderAck" /\ u.svc # << >> => t.svc = Tail(u.svc)
        /\ m.kind # "OrderAck" => t.svc = u.svc
        /\ t.closing = TRUE /\ t.retired = TRUE /\ t.frameSent = TRUE
        /\ t.tornDown = FALSE /\ t.recorded = u.recorded
        /\ u.closing = TRUE => t.code = u.code /\ t.drain = u.drain /\ t.orders = u.orders
        /\ u.closing = FALSE => t.code = InternalError /\ t.orders = AllFree
    <3>1. u \in Rec /\ m \in Msg
      BY <1>4, <1>7
    <3>2. Failed(u, m, t)
      BY <1>12, <2>1, <3>1, FailedWriteDoes
    <3>3. QED  BY <3>2 DEF Failed
  <2>3. t.reports = r /\ t.made = s.made /\ t.sent = s.sent
    BY <1>4, <1>6, <2>2 DEF SameQueue, SameWire
  <2>4. Accounted(t)
    <3>1. t.made - (t.sent + Len(r)) = 1
      BY <1>7, <1>9, <2>3
    <3>2. Idle.kind \notin Kinds
      BY DEF Idle, Kinds
    <3>3. QED  BY <1>11, <2>2, <2>3, <3>1, <3>2 DEF Accounted
  <2>5. Paired(t)
    <3>1. /\ m.kind = "OrderAck" /\ s.svc # << >> => t.svc = Tail(s.svc)
          /\ m.kind # "OrderAck" => t.svc = s.svc
      BY <1>4, <2>2 DEF SameWire
    <3>2. t.reports = Tail(s.reports)
      BY <1>4, <1>6, <2>3
    <3>3. QueuePaired(t)
      BY <1>1, <1>3, <2>2, <3>1, <3>2, PoppedPaired
    <3>4. Idle.kind # "OrderAck"
      BY DEF Idle
    <3>5. t.writing.kind # "OrderAck"
      BY <2>2, <3>4
    <3>6. QED  BY <3>3, <3>5, Zenon DEF Paired, QueuePaired
  <2>6. Closes(t) /\ (s.closing = TRUE => t.code = s.code)
    <3>1. CASE s.closing = TRUE
      <4>1. t.code = s.code /\ t.drain = s.drain /\ t.orders = s.orders
        BY <1>4, <2>2, <3>1 DEF SameIntent
      <4>2. QED  BY <1>1, <2>2, <3>1, <4>1 DEF Closes
    <3>2. CASE s.closing = FALSE
      <4>1. t.code = InternalError /\ t.orders = AllFree
        BY <1>4, <2>2, <3>2 DEF SameIntent
      <4>2. InternalError # NoCode /\ InternalError \notin {PolicyError, GoingAway}
        BY DEF InternalError, NoCode, PolicyError, GoingAway
      <4>3. QED  BY <2>2, <3>2, <4>1, <4>2, NoneLive DEF Closes
    <3>3. QED  BY <1>1, <3>1, <3>2, Fields
  <2>7. Follows(s, t) /\ Len(t.reports) <= Len(s.reports)
    <3>1. t.tornDown = s.tornDown /\ t.recorded = s.recorded
      BY <1>4, <2>2 DEF SameEnd
    <3>2. Len(t.reports) <= Len(s.reports)
      BY <1>5, <1>7, <2>3
    <3>3. QED  BY <2>2, <2>6, <3>1, <3>2 DEF Follows
  <2>8. \A md \in Nat : Ticks(t, md)
    BY <2>2 DEF Ticks
  <2>9. Busy(t) /\ Delivering(t)
    BY <2>2 DEF Busy, Delivering
  <2>10. QED  BY <2>2, <2>4, <2>5, <2>6, <2>7, <2>8, <2>9 DEF Keeps, Sound
<1>15. QED  BY <1>13, <1>14

(* The pending tick is written, or closes the session.                     *)
LEMMA WriteTobKeeps ==
  ASSUME NEW s, Sound(s), s.frameSent = FALSE, s.tornDown = FALSE, s.writing = Idle,
         s.closing = FALSE, s.tob # NoTob, NEW enc \in BOOLEAN,
         NEW t, t = Write(PopTob(s), Message("Tob", s.tob), enc)
  PROVE  Keeps(s, t)
<1>1. s \in Rec /\ Accounted(s) /\ Paired(s) /\ Closes(s)
  BY DEF Sound
<1>2. PICK u : u = PopTob(s)
  OBVIOUS
<1>3. PICK m : m = Message("Tob", s.tob)
  OBVIOUS
<1>4. m \in Msg /\ m.kind = "Tob" /\ m.kind # "OrderAck" /\ m.kind \notin Kinds
  <2>1. PICK n \in Nat : n = s.tob
    BY <1>1, Fields
  <2>2. m = [kind |-> "Tob", n |-> n, seq |-> 0, svc |-> 0]
    BY <1>3, <2>1 DEF Message
  <2>3. QED  BY <2>2 DEF Msg, Kinds
<1>5. /\ u \in Rec /\ SameWire(s, u) /\ SameIntent(s, u) /\ SameEnd(s, u)
      /\ u.reports = s.reports /\ u.made = s.made
      /\ u.tob = NoTob /\ u.conflated = s.conflated
  BY <1>1, <1>2, PopDoes
<1>6. /\ u.writing = Idle /\ u.frameSent = FALSE /\ u.tornDown = FALSE
      /\ u.closing = FALSE /\ u.retired = FALSE
  <2>1. s.retired = FALSE
    BY <1>1, Fields DEF Closes
  <2>2. QED  BY <1>5, <2>1 DEF SameWire, SameIntent, SameEnd
<1>7. s.unencoded = FALSE
  BY <1>1, Fields DEF Closes
<1>8. PICK q \in Seq(Msg) : q = s.reports
  BY <1>1, Fields
<1>9. /\ s.made \in Nat /\ s.sent \in Nat /\ s.ticks \in Nat /\ s.outSeq \in Nat /\ Len(q) \in Nat
      /\ s.made = s.sent + Len(q) /\ s.outSeq = s.sent + s.ticks + 1
      /\ \A i \in 1 .. Len(q) : q[i].kind \in Kinds /\ q[i].n = s.made - Len(q) + i
  BY <1>1, <1>7, <1>8, Fields DEF Accounted
<1>10. CASE enc = TRUE
  <2>1. t = HandOver(u, m)
    BY <1>2, <1>3, <1>10 DEF Write
  <2>2. /\ t \in Rec /\ SameQueue(u, t) /\ SameIntent(u, t) /\ SameEnd(u, t)
        /\ t.unencoded = u.unencoded /\ t.outSeq = u.outSeq + 1
        /\ t.writing \in Msg /\ t.writing.kind = "Tob" /\ t.writing.seq = u.outSeq
        /\ t.svc = u.svc /\ t.sent = u.sent /\ t.ticks = u.ticks + 1
    BY <1>4, <1>5, <2>1, HandOverDoes
  <2>3. /\ t.reports = q /\ t.made = s.made /\ t.unencoded = FALSE /\ t.outSeq = s.outSeq + 1
        /\ t.sent = s.sent /\ t.ticks = s.ticks + 1 /\ t.tob = NoTob /\ t.conflated = s.conflated
        /\ t.writing.seq = s.outSeq /\ t.svc = s.svc
    BY <1>5, <1>7, <1>8, <2>2 DEF SameQueue, SameWire
  <2>4. SameIntent(s, t) /\ SameEnd(s, t)
    BY <1>5, <2>2 DEF SameIntent, SameEnd
  <2>5. Accounted(t)
    <3>1. PICK a \in Nat, b \in Nat : a = s.sent /\ b = s.ticks
      BY <1>9
    <3>2. t.outSeq = t.sent + t.ticks + 1 /\ t.writing.seq = t.sent + t.ticks
      <4>1. t.sent = a /\ t.ticks = b + 1 /\ s.outSeq = a + b + 1
        BY <1>9, <2>3, <3>1
      <4>2. t.outSeq = (a + b + 1) + 1 /\ t.writing.seq = a + b + 1
        BY <2>3, <4>1
      <4>3. QED  BY <4>1, <4>2
    <3>3. t.writing.kind \notin Kinds
      BY <1>4, <2>2
    <3>4. \A i \in 1 .. Len(t.reports) :
            t.reports[i].kind \in Kinds /\ t.reports[i].n = t.made - Len(t.reports) + i
      BY <1>9, <2>3
    <3>5. t.made = t.sent + Len(t.reports) /\ t.unencoded = FALSE
      BY <1>9, <2>3
    <3>6. QED  BY <3>2, <3>3, <3>4, <3>5 DEF Accounted
  <2>6. Paired(t)
    <3>1. t.reports = s.reports /\ t.svc = s.svc /\ t.writing.kind # "OrderAck"
      BY <1>8, <2>2, <2>3
    <3>2. QED  BY <1>1, <3>1, StillPaired
  <2>7. Closes(t)
    <3>1. t.unencoded = FALSE /\ t.frameSent = FALSE
      BY <2>3, <2>4 DEF SameEnd
    <3>2. QED  BY <1>1, <2>4, <3>1 DEF Closes, SameIntent, SameEnd
  <2>8. Follows(s, t) /\ Len(t.reports) <= Len(s.reports)
    BY <1>8, <1>9, <2>3, <2>4 DEF Follows, SameIntent, SameEnd
  <2>9. \A md \in Nat : Ticks(s, md) => Ticks(t, md)
    <3>1. SUFFICES ASSUME NEW md \in Nat, Ticks(s, md) PROVE Ticks(t, md)
      OBVIOUS
    <3>2. s.ticks + s.conflated + 1 = md
      BY <3>1 DEF Ticks
    <3>3. s.conflated \in Nat
      BY <1>1, Fields
    <3>4. \A a, b \in Nat : (a + 1) + b + 0 = a + b + 1
      OBVIOUS
    <3>5. t.ticks + t.conflated + 0 = md
      BY <1>9, <2>3, <3>2, <3>3, <3>4
    <3>6. QED  BY <2>3, <3>5 DEF Ticks
  <2>10. QED  BY <2>2, <2>5, <2>6, <2>7, <2>8, <2>9 DEF Keeps, Sound
<1>11. CASE enc = FALSE
  <2>1. t = FailedWrite(u, m)
    BY <1>2, <1>3, <1>11 DEF Write, FailedWrite, Spoilt
  <2>2. /\ t \in Rec /\ SameQueue(u, t) /\ t.unencoded = TRUE /\ t.writing = Idle
        /\ t.sent = u.sent /\ t.ticks = u.ticks /\ t.svc = u.svc
        /\ t.closing = TRUE /\ t.retired = TRUE /\ t.frameSent = TRUE
        /\ t.tornDown = FALSE /\ t.recorded = u.recorded
        /\ t.code = InternalError /\ t.orders = AllFree
    <3>1. u \in Rec /\ m \in Msg
      BY <1>4, <1>5
    <3>2. Failed(u, m, t)
      BY <1>6, <2>1, <3>1, FailedWriteDoes
    <3>3. QED  BY <1>4, <1>6, <3>2 DEF Failed
  <2>3. t.reports = q /\ t.made = s.made /\ t.sent = s.sent /\ t.svc = s.svc
    BY <1>5, <1>8, <2>2 DEF SameQueue, SameWire
  <2>4. Accounted(t)
    <3>1. t.made - (t.sent + Len(q)) = 0
      BY <1>9, <2>3
    <3>2. t.writing = Idle /\ t.writing.kind \notin Kinds /\ t.unencoded = TRUE
      BY <2>2 DEF Idle, Kinds
    <3>3. \A i \in 1 .. Len(t.reports) :
            t.reports[i].kind \in Kinds /\ t.reports[i].n = t.made - Len(t.reports) + i
      BY <1>9, <2>3
    <3>4. t.made - (t.sent + Len(t.reports)) \in {0, 1}
      BY <2>3, <3>1
    <3>5. QED  BY <3>2, <3>3, <3>4 DEF Accounted
  <2>5. Paired(t)
    <3>1. Idle.kind # "OrderAck"
      BY DEF Idle
    <3>2. t.reports = s.reports /\ t.svc = s.svc /\ t.writing.kind # "OrderAck"
      BY <1>8, <2>2, <2>3, <3>1
    <3>3. QED  BY <1>1, <3>2, StillPaired
  <2>6. Closes(t)
    <3>1. InternalError # NoCode /\ InternalError \notin {PolicyError, GoingAway}
      BY DEF InternalError, NoCode, PolicyError, GoingAway
    <3>2. QED  BY <2>2, <3>1, NoneLive DEF Closes
  <2>7. Follows(s, t) /\ Len(t.reports) <= Len(s.reports)
    <3>1. t.tornDown = s.tornDown /\ t.recorded = s.recorded
      BY <1>5, <2>2 DEF SameEnd
    <3>2. QED  BY <1>8, <1>9, <2>2, <2>3, <3>1 DEF Follows
  <2>8. \A md \in Nat : Ticks(t, md)
    BY <2>2 DEF Ticks
  <2>9. QED  BY <2>2, <2>4, <2>5, <2>6, <2>7, <2>8 DEF Keeps, Sound
<1>12. QED  BY <1>10, <1>11

(* A handler that changes nothing.                                         *)
LEMMA SelfKeeps ==
  ASSUME NEW s, Sound(s)
  PROVE  Keeps(s, s)
<1>1. s \in Rec
  BY DEF Sound
<1>2. Len(s.reports) \in Nat
  BY <1>1, Fields
<1>3. QED  BY <1>2 DEF Keeps, Follows

(* What a pump guarantees.  A pump that finds a report to write sends the  *)
(* close frame only if that report cannot be encoded.                      *)
Pumped(s, t) ==
  /\ Keeps(s, t)
  /\ (s.reports # << >> \/ Busy(s)) /\ Delivering(s) => Delivering(t) /\ Busy(t)

(* pump.                                                                   *)
LEMMA PumpKeeps ==
  ASSUME NEW s, Sound(s), NEW enc \in BOOLEAN, NEW t, t = Pump(s, enc)
  PROVE  Pumped(s, t)
<1>1. s \in Rec
  BY DEF Sound
<1>2. s.closing \in BOOLEAN /\ s.drain \in BOOLEAN /\ s.frameSent \in BOOLEAN /\ s.tornDown \in BOOLEAN
  BY <1>1, Fields
<1>3. Keeps(s, s)
  BY SelfKeeps
<1>4. CASE Busy(s)
  <2>1. t = s
    BY <1>4 DEF Pump, Busy
  <2>2. QED  BY <1>3, <1>4, <2>1 DEF Pumped
<1>5. CASE ~Busy(s)
  <2>0. s.writing = Idle /\ s.tornDown = FALSE /\ s.frameSent = FALSE
    BY <1>2, <1>5 DEF Busy
  <2>1. CASE s.closing = TRUE /\ s.drain = FALSE
    <3>1. t = SendCloseFrame(s)
      BY <2>0, <2>1 DEF Pump
    <3>2. Keeps(s, t)
      BY <2>0, <2>1, <3>1, FrameKeeps
    <3>3. ~Delivering(s)
      BY <2>0, <2>1 DEF Delivering
    <3>4. QED  BY <3>2, <3>3 DEF Pumped
  <2>2. CASE (s.closing = TRUE => s.drain = TRUE) /\ s.reports # << >>
    <3>1. t = Write(PopReport(s), Head(s.reports), enc)
      BY <1>2, <2>0, <2>2 DEF Pump
    <3>2. Keeps(s, t) /\ (Delivering(s) => Delivering(t)) /\ Busy(t)
      BY <2>0, <2>2, <3>1, WriteReportKeeps
    <3>3. QED  BY <3>2 DEF Pumped
  <2>3. CASE s.closing = TRUE /\ s.drain = TRUE /\ s.reports = << >>
    <3>1. PICK u : u = PopTob(s)
      OBVIOUS
    <3>2. t = SendCloseFrame(u)
      BY <2>0, <2>3, <3>1 DEF Pump
    <3>3. /\ Keeps(s, u) /\ SameIntent(s, u) /\ SameEnd(s, u)
          /\ u.writing = s.writing /\ u.reports = s.reports
      BY <2>3, <3>1, DiscardKeeps
    <3>4. /\ u.closing = TRUE /\ u.frameSent = FALSE /\ u.tornDown = FALSE
          /\ u.writing = Idle /\ u.reports = << >> /\ Sound(u)
      BY <2>0, <2>3, <3>3 DEF SameIntent, SameEnd, Keeps
    <3>5. Keeps(u, t)
      BY <3>2, <3>4, FrameKeeps
    <3>6. Keeps(s, t)
      BY <1>1, <3>3, <3>5, KeepsTwice
    <3>7. QED  BY <1>5, <2>3, <3>6 DEF Pumped
  <2>4. CASE s.closing = FALSE /\ s.reports = << >> /\ s.tob # NoTob
    <3>1. t = Write(PopTob(s), Message("Tob", s.tob), enc)
      BY <2>0, <2>4 DEF Pump
    <3>2. Keeps(s, t)
      BY <2>0, <2>4, <3>1, WriteTobKeeps
    <3>3. QED  BY <1>5, <2>4, <3>2 DEF Pumped
  <2>5. CASE s.closing = FALSE /\ s.reports = << >> /\ s.tob = NoTob
    <3>1. t = s
      BY <2>0, <2>5 DEF Pump
    <3>2. QED  BY <1>3, <1>5, <2>5, <3>1 DEF Pumped
  <2>6. QED  BY <1>2, <2>1, <2>2, <2>3, <2>4, <2>5
<1>6. QED  BY <1>4, <1>5

------------------------------------------------------------------------------
(* The close intent.                                                       *)
Intended(s, code, drain, t) ==
  /\ Keeps(s, t) /\ SameEnd(s, t) /\ t.reports = s.reports
  /\ t.closing = TRUE /\ t.code = code /\ t.drain = drain

(* latch_close, for a code that is one, draining if the policy says so.    *)
LEMMA LatchKeeps ==
  ASSUME NEW s, Sound(s), s.closing = FALSE, s.tornDown = FALSE,
         NEW code \in Nat, code # NoCode, NEW drain \in BOOLEAN,
         code \in {PolicyError, GoingAway} => drain = TRUE,
         NEW t, t = LatchClose(s, code, drain)
  PROVE  Intended(s, code, drain, t)
<1>1. s \in Rec /\ Accounted(s) /\ Paired(s) /\ Closes(s)
  BY DEF Sound
<1>2. s.retired = FALSE /\ s.frameSent = FALSE /\ s.unencoded = FALSE
  BY <1>1, Fields DEF Closes
<1>3. /\ t \in Rec /\ SameQueue(s, t) /\ SameWire(s, t) /\ SameEnd(s, t)
      /\ t.closing = TRUE /\ t.code = code /\ t.drain = drain
      /\ t.retired = TRUE /\ t.orders = AllFree
  <2>1. Latched(s, code, drain, t)
    BY <1>1, <1>2, LatchDoes
  <2>2. QED  BY <2>1 DEF Latched
<1>4. Accounted(t)
  BY <1>1, <1>3 DEF Accounted, SameQueue, SameWire
<1>5. Paired(t)
  <2>1. t.reports = s.reports /\ t.svc = s.svc /\ t.writing = s.writing
    BY <1>3 DEF SameQueue, SameWire
  <2>2. s.writing.kind = "OrderAck" => s.writing.svc = s.writing.n
    BY <1>1 DEF Paired
  <2>3. QED  BY <1>1, <2>1, <2>2, StillPaired
<1>6. Closes(t)
  <2>1. /\ t.frameSent = FALSE /\ t.unencoded = FALSE /\ t.tornDown = FALSE
        /\ t.closeOp = s.closeOp /\ t.draining = s.draining
    BY <1>2, <1>3 DEF SameEnd, SameWire
  <2>2. QED  BY <1>1, <1>2, <1>3, <2>1, NoneLive DEF Closes
<1>7. t.reports = s.reports /\ Len(t.reports) <= Len(s.reports)
  <2>1. Len(s.reports) \in Nat
    BY <1>1, Fields
  <2>2. QED  BY <1>3, <2>1 DEF SameQueue
<1>8. Follows(s, t)
  BY <1>2, <1>3 DEF Follows, SameEnd
<1>9. \A md \in Nat : Ticks(t, md)
  BY <1>3 DEF Ticks
<1>10. QED  BY <1>3, <1>4, <1>5, <1>6, <1>7, <1>8, <1>9 DEF Keeps, Sound, Intended

Begun(s, code, t) ==
  /\ Keeps(s, t) /\ t.closing = TRUE
  /\ code \in {PolicyError, GoingAway} /\ s.reports # << >> => Delivering(t) /\ Busy(t)

(* begin_close of an open session.                                         *)
LEMMA BeginCloseKeeps ==
  ASSUME NEW s, Sound(s), s.closing = FALSE, s.tornDown = FALSE, NEW enc \in BOOLEAN,
         NEW code \in Nat, code # NoCode, NEW t, t = BeginClose(s, code, enc)
  PROVE  Begun(s, code, t)
<1>1. PICK drain \in BOOLEAN : drain = (code \in {PolicyError, GoingAway})
  <2>1. PICK P : P = {PolicyError, GoingAway}
    OBVIOUS
  <2>2. (code \in P) \in BOOLEAN
    OBVIOUS
  <2>3. QED  BY <2>1, <2>2, Zenon
<1>2. PICK u : u = LatchClose(s, code, drain)
  OBVIOUS
<1>3. t = Pump(u, enc)
  BY <1>1, <1>2 DEF BeginClose
<1>4. Intended(s, code, drain, u)
  BY <1>1, <1>2, LatchKeeps
<1>5. Sound(u) /\ Keeps(s, u) /\ u.closing = TRUE /\ u.drain = drain /\ u.reports = s.reports
  BY <1>4 DEF Intended, Keeps
<1>6. Pumped(u, t)
  BY <1>3, <1>5, PumpKeeps
<1>7. s \in Rec /\ Keeps(u, t)
  BY <1>6 DEF Pumped, Sound
<1>8. Keeps(s, t)
  BY <1>5, <1>7, KeepsTwice
<1>9. t.closing = TRUE
  BY <1>5, <1>7 DEF Keeps, Follows
<1>10. ASSUME code \in {PolicyError, GoingAway}, s.reports # << >>
       PROVE  Delivering(t) /\ Busy(t)
  <2>1. u.frameSent = FALSE
    <3>1. s.frameSent = FALSE
      <4>1. s \in Rec
        BY DEF Sound
      <4>2. QED  BY <4>1, Fields DEF Sound, Closes
    <3>2. QED  BY <1>4, <3>1 DEF Intended, SameEnd
  <2>2. Delivering(u)
    BY <1>1, <1>5, <1>10, <2>1 DEF Delivering
  <2>3. QED  BY <1>5, <1>6, <1>10, <2>2 DEF Pumped
<1>11. QED  BY <1>8, <1>9, <1>10 DEF Begun

------------------------------------------------------------------------------
(* A report on its way into the queue: the engine's orders and, with an    *)
(* acknowledgement, the service time are already in v.                     *)
Timed(s, kind, v) ==
  /\ v \in Rec /\ SameQueue(s, v) /\ SameEnd(s, v)
  /\ v.outSeq = s.outSeq /\ v.writing = s.writing /\ v.sent = s.sent
  /\ v.ticks = s.ticks /\ v.unencoded = s.unencoded
  /\ v.closing = s.closing /\ v.code = s.code /\ v.drain = s.drain /\ v.retired = s.retired
  /\ kind = "OrderAck" => v.svc = Append(s.svc, s.made + 1)
  /\ kind # "OrderAck" => v.svc = s.svc
  /\ s.retired = TRUE => v.orders = AllFree
  /\ Cardinality(LiveIds(v.orders)) <= MaxLive

(* A report waiting to be stamped.                                         *)
LEMMA MessageDoes ==
  ASSUME NEW kind \in Kinds, NEW n \in Nat, NEW m, m = Message(kind, n)
  PROVE  m \in Msg /\ m.kind = kind /\ m.n = n
BY DEF Message, Msg

(* The queue and its times stay paired when both grow.                     *)
LEMMA PushedPaired ==
  ASSUME NEW s, s \in Rec, Accounted(s), Paired(s), NEW kind \in Kinds, NEW t,
         t.reports = Append(s.reports, Message(kind, s.made + 1)),
         kind = "OrderAck" => t.svc = Append(s.svc, s.made + 1),
         kind # "OrderAck" => t.svc = s.svc, t.writing = s.writing
  PROVE  Paired(t)
<1>1. PICK q \in Seq(Msg) : q = s.reports
  BY Fields
<1>2. PICK v \in Seq(Nat) : v = s.svc
  BY Fields
<1>3. PICK made \in Nat : made = s.made
  BY Fields
<1>4. /\ \A i \in 1 .. Len(q) : q[i].n = made - Len(q) + i
      /\ \A i \in 1 .. Len(v) : \E j \in 1 .. Len(q) : q[j].kind = "OrderAck" /\ q[j].n = v[i]
      /\ \A j \in 1 .. Len(q) : q[j].kind = "OrderAck" => \E i \in 1 .. Len(v) : v[i] = q[j].n
      /\ \A i, j \in 1 .. Len(v) : i < j => v[i] < v[j]
  BY <1>1, <1>2, <1>3 DEF Accounted, Paired
<1>5. PICK n \in Nat : n = made + 1
  BY <1>3
<1>6. PICK m \in Msg : m = Message(kind, n) /\ m.kind = kind /\ m.n = n
  <2>1. PICK m : m = Message(kind, n)
    OBVIOUS
  <2>2. m \in Msg /\ m.kind = kind /\ m.n = n
    BY <2>1, MessageDoes
  <2>3. QED  BY <2>1, <2>2
<1>7. PICK r : r = Append(q, m)
  OBVIOUS
<1>8. /\ r \in Seq(Msg) /\ Len(r) = Len(q) + 1 /\ Len(q) \in Nat /\ Len(v) \in Nat
      /\ \A i \in 1 .. Len(q) : r[i] = q[i]
      /\ r[Len(q) + 1] = m
  BY <1>7
<1>9. /\ \A i \in 1 .. Len(q) : i \in 1 .. Len(r)
      /\ Len(q) + 1 \in 1 .. Len(r)
      /\ \A i \in 1 .. Len(r) : i \in 1 .. Len(q) \/ i = Len(q) + 1
  BY <1>8
<1>10. t.reports = r /\ (kind = "OrderAck" => t.svc = Append(v, n)) /\ (kind # "OrderAck" => t.svc = v)
  BY <1>1, <1>2, <1>3, <1>5, <1>6, <1>7
<1>11. t.writing.kind = "OrderAck" => t.writing.svc = t.writing.n
  BY DEF Paired
<1>12. CASE kind = "OrderAck"
  <2>1. PICK w : w = Append(v, n)
    OBVIOUS
  <2>2. /\ w \in Seq(Nat) /\ Len(w) = Len(v) + 1 /\ w[Len(v) + 1] = n
        /\ \A i \in 1 .. Len(v) : w[i] = v[i]
    BY <2>1
  <2>3. /\ \A i \in 1 .. Len(v) : i \in 1 .. Len(w)
        /\ Len(v) + 1 \in 1 .. Len(w)
        /\ \A i \in 1 .. Len(w) : i \in 1 .. Len(v) \/ i = Len(v) + 1
    BY <1>8, <2>2
  <2>4. \A i \in 1 .. Len(w) : \E j \in 1 .. Len(r) : r[j].kind = "OrderAck" /\ r[j].n = w[i]
    <3>1. SUFFICES ASSUME NEW i \in 1 .. Len(w) PROVE \E j \in 1 .. Len(r) : r[j].kind = "OrderAck" /\ r[j].n = w[i]
      OBVIOUS
    <3>2. CASE i \in 1 .. Len(v)
      <4>1. PICK j \in 1 .. Len(q) : q[j].kind = "OrderAck" /\ q[j].n = v[i]
        BY <1>4, <3>2
      <4>2. QED  BY <1>8, <1>9, <2>2, <3>2, <4>1
    <3>3. CASE i = Len(v) + 1
      BY <1>6, <1>8, <1>9, <1>12, <2>2, <3>3
    <3>4. QED  BY <2>3, <3>2, <3>3
  <2>5. \A j \in 1 .. Len(r) : r[j].kind = "OrderAck" => \E i \in 1 .. Len(w) : w[i] = r[j].n
    <3>1. SUFFICES ASSUME NEW j \in 1 .. Len(r), r[j].kind = "OrderAck" PROVE \E i \in 1 .. Len(w) : w[i] = r[j].n
      OBVIOUS
    <3>2. CASE j \in 1 .. Len(q)
      <4>1. PICK i \in 1 .. Len(v) : v[i] = q[j].n
        BY <1>4, <1>8, <3>1, <3>2
      <4>2. QED  BY <1>8, <2>2, <2>3, <3>2, <4>1
    <3>3. CASE j = Len(q) + 1
      BY <1>6, <1>8, <2>2, <2>3, <3>3
    <3>4. QED  BY <1>9, <3>2, <3>3
  <2>6. \A i, j \in 1 .. Len(w) : i < j => w[i] < w[j]
    <3>1. SUFFICES ASSUME NEW i \in 1 .. Len(w), NEW j \in 1 .. Len(w), i < j PROVE w[i] < w[j]
      OBVIOUS
    <3>2. i \in 1 .. Len(v)
      BY <1>8, <2>2, <3>1
    <3>3. CASE j \in 1 .. Len(v)
      BY <1>4, <2>2, <3>1, <3>2, <3>3
    <3>4. CASE j = Len(v) + 1
      <4>1. PICK k \in 1 .. Len(q) : q[k].n = v[i]
        BY <1>4, <3>2
      <4>2. v[i] = made - Len(q) + k
        BY <1>4, <4>1
      <4>3. v[i] < n
        BY <1>5, <1>8, <4>2
      <4>4. QED  BY <2>2, <3>2, <3>4, <4>3
    <3>5. QED  BY <2>3, <3>3, <3>4
  <2>7. t.svc = w /\ t.reports = r
    BY <1>10, <1>12, <2>1
  <2>8. QED  BY <1>11, <2>4, <2>5, <2>6, <2>7, Zenon DEF Paired
<1>13. CASE kind # "OrderAck"
  <2>1. \A i \in 1 .. Len(v) : \E j \in 1 .. Len(r) : r[j].kind = "OrderAck" /\ r[j].n = v[i]
    <3>1. SUFFICES ASSUME NEW i \in 1 .. Len(v) PROVE \E j \in 1 .. Len(r) : r[j].kind = "OrderAck" /\ r[j].n = v[i]
      OBVIOUS
    <3>2. PICK j \in 1 .. Len(q) : q[j].kind = "OrderAck" /\ q[j].n = v[i]
      BY <1>4
    <3>3. QED  BY <1>8, <1>9, <3>2
  <2>2. \A j \in 1 .. Len(r) : r[j].kind = "OrderAck" => \E i \in 1 .. Len(v) : v[i] = r[j].n
    <3>1. SUFFICES ASSUME NEW j \in 1 .. Len(r), r[j].kind = "OrderAck" PROVE \E i \in 1 .. Len(v) : v[i] = r[j].n
      OBVIOUS
    <3>2. j \in 1 .. Len(q)
      BY <1>6, <1>8, <1>9, <1>13, <3>1
    <3>3. QED  BY <1>4, <1>8, <3>1, <3>2
  <2>3. t.svc = v /\ t.reports = r
    BY <1>10, <1>13
  <2>4. QED  BY <1>4, <1>11, <2>1, <2>2, <2>3, Zenon DEF Paired
<1>14. QED  BY <1>12, <1>13

Pushed(s, t) ==
  /\ Sound(t) /\ Follows(s, t) /\ Delivering(t)
  /\ t.reports # << >> /\ Len(t.reports) = Len(s.reports) + 1
  /\ Len(t.reports) > ReportHwm => t.breached = TRUE
  /\ t.closing = s.closing
  /\ \A md \in Nat : Ticks(s, md) => Ticks(t, md)

(* push_report.                                                            *)
LEMMA PushKeeps ==
  ASSUME NEW s, Sound(s), Delivering(s), NEW kind \in Kinds, NEW v, Timed(s, kind, v),
         NEW t, t = PushReport(v, kind)
  PROVE  Pushed(s, t)
<1>1. s \in Rec /\ Accounted(s) /\ Paired(s) /\ Closes(s)
  BY DEF Sound
<1>2. v \in Rec
  BY DEF Timed
<1>3. /\ t \in Rec /\ SameWire(v, t) /\ SameIntent(v, t) /\ SameEnd(v, t)
      /\ t.reports = Append(v.reports, Message(kind, v.made + 1)) /\ t.made = v.made + 1
      /\ Len(v.reports) + 1 > ReportHwm => t.breached = TRUE
      /\ t.tob = v.tob /\ t.conflated = v.conflated
  BY <1>2, PushDoes
<1>4. /\ SameEnd(s, t)
      /\ t.outSeq = s.outSeq /\ t.writing = s.writing /\ t.sent = s.sent
      /\ t.ticks = s.ticks /\ t.unencoded = s.unencoded
  BY <1>3 DEF Timed, SameEnd, SameWire
<1>5. /\ t.closing = s.closing /\ t.code = s.code /\ t.drain = s.drain /\ t.retired = s.retired
      /\ t.orders = v.orders
  BY <1>3 DEF Timed, SameIntent
<1>6. /\ t.reports = Append(s.reports, Message(kind, s.made + 1)) /\ t.made = s.made + 1
      /\ t.tob = s.tob /\ t.conflated = s.conflated
      /\ Len(s.reports) + 1 > ReportHwm => t.breached = TRUE
  BY <1>3 DEF Timed, SameQueue
<1>7. PICK q \in Seq(Msg) : q = s.reports
  BY <1>1, Fields
<1>8. PICK n \in Nat : n = s.made
  BY <1>1, Fields
<1>9. PICK m \in Msg : m = Message(kind, n + 1) /\ m.kind = kind /\ m.n = n + 1
  <2>1. PICK k \in Nat : k = n + 1
    BY <1>8
  <2>2. PICK m : m = Message(kind, k)
    OBVIOUS
  <2>3. m \in Msg /\ m.kind = kind /\ m.n = k
    BY <2>2, MessageDoes
  <2>4. QED  BY <2>1, <2>2, <2>3
<1>10. PICK r : r = Append(q, m)
  OBVIOUS
<1>11. /\ r \in Seq(Msg) /\ Len(r) = Len(q) + 1 /\ Len(q) \in Nat /\ r # << >>
       /\ \A i \in 1 .. Len(q) : r[i] = q[i]
       /\ r[Len(q) + 1] = m
  BY <1>10
<1>12. t.reports = r
  BY <1>6, <1>7, <1>8, <1>9, <1>10
<1>13. Accounted(t)
  <2>1. /\ \A i \in 1 .. Len(q) : q[i].kind \in Kinds /\ q[i].n = n - Len(q) + i
        /\ s.unencoded = FALSE => n = s.sent + Len(q) /\ s.outSeq = s.sent + s.ticks + 1
        /\ s.unencoded = TRUE => n - (s.sent + Len(q)) \in {0, 1}
        /\ s.writing.kind \in Kinds => s.writing.n = s.sent
        /\ s.writing # Idle => s.writing.seq = s.sent + s.ticks
    BY <1>1, <1>7, <1>8 DEF Accounted
  <2>2. PICK a \in Nat : a = s.sent
    BY <1>1, Fields
  <2>3. t.made = n + 1 /\ t.sent = a
    BY <1>4, <1>6, <1>8, <2>2
  <2>4. \A i \in 1 .. Len(r) : r[i].kind \in Kinds /\ r[i].n = n + 1 - Len(r) + i
    <3>1. SUFFICES ASSUME NEW i \in 1 .. Len(r) PROVE r[i].kind \in Kinds /\ r[i].n = n + 1 - Len(r) + i
      OBVIOUS
    <3>2. CASE i \in 1 .. Len(q)
      <4>1. r[i].kind \in Kinds /\ r[i].n = n - Len(q) + i
        BY <1>11, <2>1, <3>2
      <4>2. QED  BY <1>11, <4>1
    <3>3. CASE i = Len(q) + 1
      BY <1>9, <1>11, <3>3
    <3>4. QED  BY <1>11, <3>2, <3>3
  <2>5. s.unencoded = FALSE => n + 1 = a + Len(r)
    <3>1. \A b, c \in Nat : b + c + 1 = b + (c + 1)
      OBVIOUS
    <3>2. s.unencoded = FALSE => n = a + Len(q)
      BY <2>1, <2>2
    <3>3. a + Len(q) + 1 = a + (Len(q) + 1)
      BY <1>11, <3>1
    <3>4. QED  BY <1>11, <3>2, <3>3
  <2>6. s.unencoded = TRUE => (n + 1) - (a + Len(r)) \in {0, 1}
    BY <1>11, <2>1, <2>2
  <2>7. QED  BY <1>4, <1>12, <2>1, <2>3, <2>4, <2>5, <2>6 DEF Accounted
<1>14. Paired(t)
  <2>1. /\ kind = "OrderAck" => t.svc = Append(s.svc, s.made + 1)
        /\ kind # "OrderAck" => t.svc = s.svc
    BY <1>3 DEF Timed, SameWire
  <2>2. QED  BY <1>1, <1>4, <1>6, <2>1, PushedPaired
<1>15. Delivering(t)
  BY <1>4, <1>5 DEF Delivering, SameEnd
<1>16. Closes(t)
  <2>1. t.frameSent = TRUE => t.unencoded = TRUE
    BY <1>15 DEF Delivering
  <2>2. t.retired = TRUE => t.orders = AllFree
    BY <1>5 DEF Timed
  <2>3. Cardinality(LiveIds(t.orders)) <= MaxLive
    BY <1>5 DEF Timed
  <2>4. /\ t.frameSent = s.frameSent /\ t.tornDown = s.tornDown
        /\ t.closeOp = s.closeOp /\ t.draining = s.draining
    BY <1>4 DEF SameEnd
  <2>5. t.unencoded = TRUE => ~(t.unencoded = FALSE)
    OBVIOUS
  <2>6. QED  BY <1>1, <1>4, <1>5, <2>1, <2>2, <2>3, <2>4, <2>5 DEF Closes
<1>17. Follows(s, t)
  BY <1>4, <1>5 DEF Follows, SameEnd
<1>18. \A md \in Nat : Ticks(s, md) => Ticks(t, md)
  BY <1>4, <1>5, <1>6 DEF Ticks, SameEnd
<1>19. Len(t.reports) = Len(s.reports) + 1 /\ (Len(t.reports) > ReportHwm => t.breached = TRUE)
  BY <1>6, <1>7, <1>11, <1>12
<1>20. QED  BY <1>3, <1>5, <1>11, <1>12, <1>13, <1>14, <1>15, <1>16, <1>17, <1>18, <1>19 DEF Pushed, Sound

(* What queueing a report does: the session goes on within the mark, or    *)
(* closes in the same turn, and its close frame waits for the queue.       *)
Enqueued(s, t) ==
  /\ Sound(t) /\ Follows(s, t) /\ Delivering(t)
  /\ t.reports # << >> \/ Busy(t)
  /\ Len(t.reports) <= Len(s.reports) + 1
  /\ t.closing = TRUE \/ Len(t.reports) <= ReportHwm
  /\ \A md \in Nat : Ticks(s, md) => Ticks(t, md)

(* enqueue_report.                                                         *)
LEMMA EnqueueKeeps ==
  ASSUME NEW s, Sound(s), Delivering(s), s.tornDown = FALSE, NEW kind \in Kinds,
         NEW v, Timed(s, kind, v), NEW enc \in BOOLEAN, NEW t, t = EnqueueReport(v, kind, enc)
  PROVE  Enqueued(s, t)
<1>1. PICK u : u = PushReport(v, kind)
  OBVIOUS
<1>2. t = CheckPolicyCloses(u, enc)
  BY <1>1 DEF EnqueueReport
<1>3. Pushed(s, u)
  BY <1>1, PushKeeps
<1>4. /\ Sound(u) /\ Follows(s, u) /\ Delivering(u) /\ u.reports # << >>
      /\ Len(u.reports) = Len(s.reports) + 1
      /\ Len(u.reports) > ReportHwm => u.breached = TRUE
      /\ \A md \in Nat : Ticks(s, md) => Ticks(u, md)
  BY <1>3 DEF Pushed
<1>5. s \in Rec /\ u \in Rec
  BY <1>4 DEF Sound
<1>6. Len(s.reports) \in Nat /\ Len(u.reports) \in Nat /\ u.closing \in BOOLEAN /\ u.tornDown = FALSE
  BY <1>4, <1>5, Fields DEF Follows
<1>7. CASE u.closing = FALSE /\ (u.breached \/ EntryCount(u.orders) >= MaxEntries)
  <2>1. t = BeginClose(u, PolicyError, enc)
    BY <1>2, <1>7 DEF CheckPolicyCloses
  <2>2. PolicyError \in Nat /\ PolicyError # NoCode /\ PolicyError \in {PolicyError, GoingAway}
    BY DEF PolicyError, NoCode
  <2>3. Begun(u, PolicyError, t)
    <3>1. PICK code \in Nat : code = PolicyError
      BY <2>2
    <3>2. t = BeginClose(u, code, enc) /\ code # NoCode
      BY <2>1, <2>2, <3>1
    <3>3. Begun(u, code, t)
      BY <1>4, <1>6, <1>7, <3>1, <3>2, BeginCloseKeeps
    <3>4. QED  BY <3>1, <3>3
  <2>4. Keeps(u, t) /\ t.closing = TRUE /\ Delivering(t) /\ Busy(t)
    BY <1>4, <2>2, <2>3 DEF Begun
  <2>5. Sound(t) /\ Follows(u, t) /\ Len(t.reports) <= Len(u.reports)
    BY <2>4 DEF Keeps
  <2>6. \A md \in Nat : Ticks(s, md) => Ticks(t, md)
    BY <1>4, <2>4 DEF Keeps
  <2>7. Follows(s, t)
    BY <1>4, <2>5 DEF Follows
  <2>8. t \in Rec
    BY <2>5 DEF Sound
  <2>9. Len(t.reports) <= Len(s.reports) + 1
    BY <1>4, <1>6, <2>5, <2>8, Fields
  <2>10. QED  BY <2>4, <2>5, <2>6, <2>7, <2>9 DEF Enqueued
<1>8. CASE ~(u.closing = FALSE /\ (u.breached \/ EntryCount(u.orders) >= MaxEntries))
  <2>1. t = u
    BY <1>2, <1>6, <1>8 DEF CheckPolicyCloses
  <2>2. u.closing = TRUE \/ Len(u.reports) <= ReportHwm
    <3>1. CASE u.closing = FALSE
      <4>1. ~(Len(u.reports) > ReportHwm)
        BY <1>4, <1>8, <3>1
      <4>2. QED  BY <1>6, <4>1, SessionAssumption
    <3>2. QED  BY <1>6, <3>1
  <2>3. Len(u.reports) <= Len(s.reports) + 1
    BY <1>4, <1>6
  <2>4. QED  BY <1>4, <2>1, <2>2, <2>3 DEF Enqueued
<1>9. QED  BY <1>7, <1>8

(* What a handler that queues one report and pumps does.                   *)
Delivered(s, t) ==
  /\ Sound(t) /\ Follows(s, t) /\ Delivering(t)
  /\ Len(t.reports) <= Len(s.reports) + 1
  /\ t.closing = TRUE \/ Len(t.reports) <= ReportHwm
  /\ \A md \in Nat : Ticks(s, md) => Ticks(t, md)

(* enqueue_report, then pump.                                              *)
LEMMA DeliverKeeps ==
  ASSUME NEW s, Sound(s), Delivering(s), s.tornDown = FALSE, NEW kind \in Kinds,
         NEW v, Timed(s, kind, v), NEW enc \in BOOLEAN,
         NEW t, t = Pump(EnqueueReport(v, kind, enc), enc)
  PROVE  Delivered(s, t)
<1>1. PICK u : u = EnqueueReport(v, kind, enc)
  OBVIOUS
<1>2. Enqueued(s, u)
  BY <1>1, EnqueueKeeps
<1>3. /\ Sound(u) /\ Follows(s, u) /\ Delivering(u) /\ (u.reports # << >> \/ Busy(u))
      /\ Len(u.reports) <= Len(s.reports) + 1
      /\ u.closing = TRUE \/ Len(u.reports) <= ReportHwm
      /\ \A md \in Nat : Ticks(s, md) => Ticks(u, md)
  BY <1>2 DEF Enqueued
<1>4. Pumped(u, t)
  BY <1>1, <1>3, PumpKeeps
<1>5. Keeps(u, t) /\ Delivering(t)
  BY <1>3, <1>4 DEF Pumped
<1>6. Sound(t) /\ Follows(u, t) /\ Len(t.reports) <= Len(u.reports)
  BY <1>5 DEF Keeps
<1>7. Follows(s, t)
  BY <1>3, <1>6 DEF Follows
<1>8. s \in Rec /\ u \in Rec /\ t \in Rec
  BY <1>3, <1>6 DEF Sound
<1>9. Len(s.reports) \in Nat /\ Len(u.reports) \in Nat /\ Len(t.reports) \in Nat
  BY <1>8, Fields
<1>10. Len(t.reports) <= Len(s.reports) + 1
  BY <1>3, <1>6, <1>9
<1>11. t.closing = TRUE \/ Len(t.reports) <= ReportHwm
  <2>1. u.closing = TRUE => t.closing = TRUE
    BY <1>6 DEF Follows
  <2>2. QED  BY <1>3, <1>6, <1>9, <2>1, SessionAssumption
<1>12. \A md \in Nat : Ticks(s, md) => Ticks(t, md)
  BY <1>3, <1>5 DEF Keeps
<1>13. QED  BY <1>5, <1>6, <1>7, <1>10, <1>11, <1>12 DEF Delivered

------------------------------------------------------------------------------
(* The engine's outcomes, as far as the session relies on them.            *)

(* A set of live orders is a finite set.                                   *)
LEMMA LiveFinite ==
  ASSUME NEW o
  PROVE  IsFiniteSet(LiveIds(o)) /\ Cardinality(LiveIds(o)) \in Nat
<1>1. LiveIds(o) \subseteq Ids
  BY DEF LiveIds
<1>2. IsFiniteSet(LiveIds(o))
  BY <1>1, FS_Subset, ViewAssumption
<1>3. QED  BY <1>2, FS_CardinalityType

(* Orders that only end leave no more live than there were.                *)
LEMMA FewerLive ==
  ASSUME NEW o, NEW p, LiveIds(p) \subseteq LiveIds(o), Cardinality(LiveIds(o)) <= MaxLive
  PROVE  Cardinality(LiveIds(p)) <= MaxLive
<1>1. Cardinality(LiveIds(p)) <= Cardinality(LiveIds(o))
  BY LiveFinite, FS_Subset
<1>2. QED  BY <1>1, LiveFinite, ViewAssumption

(* An outcome of a command: one report, of a known kind.                   *)
Answered(x) ==
  /\ x.orders \in OrderMap /\ Cardinality(LiveIds(x.orders)) <= MaxLive
  /\ \E kind \in Kinds, id \in Ids : x.batch = {<<kind, id>>}

(* on_new.                                                                 *)
LEMMA NewAnswered ==
  ASSUME NEW o \in OrderMap, Cardinality(LiveIds(o)) <= MaxLive, NEW id \in Ids,
         NEW x \in NewOutcomes(o, id)
  PROVE  Answered(x)
<1>1. "Reject" \in Kinds /\ "OrderAck" \in Kinds
  BY DEF Kinds
<1>2. CASE o[id] # "Free"
  <2>1. x.orders = o /\ x.batch = {<<"Reject", id>>}
    BY <1>2 DEF NewOutcomes, Outcome
  <2>2. QED  BY <1>1, <2>1 DEF Answered
<1>3. CASE o[id] = "Free"
  <2>1. PICK d : d = [o EXCEPT ![id] = "Done"]
    OBVIOUS
  <2>2. PICK l : l = [o EXCEPT ![id] = "Live"]
    OBVIOUS
  <2>3. d \in OrderMap /\ l \in OrderMap
    BY <2>1, <2>2 DEF OrderMap
  <2>4. \/ x.orders = d /\ x.batch = {<<"Reject", id>>}
        \/ x.orders = l /\ x.batch = {<<"OrderAck", id>>} /\ Cardinality(LiveIds(o)) < MaxLive
    <3>1. \/ x = Outcome(d, {<<"Reject", id>>})
          \/ x = Outcome(l, {<<"OrderAck", id>>}) /\ Cardinality(LiveIds(o)) < MaxLive
      BY <1>3, <2>1, <2>2, Zenon DEF NewOutcomes
    <3>2. QED  BY <3>1 DEF Outcome
  <2>5. LiveIds(d) \subseteq LiveIds(o)
    BY <2>1 DEF LiveIds, OrderMap
  <2>6. LiveIds(l) = LiveIds(o) \cup {id} /\ id \notin LiveIds(o)
    BY <1>3, <2>2 DEF LiveIds, OrderMap
  <2>7. Cardinality(LiveIds(o)) < MaxLive => Cardinality(LiveIds(l)) <= MaxLive
    <3>1. Cardinality(LiveIds(l)) = Cardinality(LiveIds(o)) + 1
      BY <2>6, LiveFinite, FS_AddElement
    <3>2. QED  BY <3>1, LiveFinite, ViewAssumption
  <2>8. Cardinality(LiveIds(d)) <= MaxLive
    BY <2>5, FewerLive
  <2>9. QED  BY <1>1, <2>3, <2>4, <2>7, <2>8 DEF Answered
<1>4. QED  BY <1>2, <1>3

(* on_cancel.                                                              *)
LEMMA CancelAnswered ==
  ASSUME NEW o \in OrderMap, Cardinality(LiveIds(o)) <= MaxLive, NEW id \in Ids,
         NEW x, x = CancelOutcome(o, id)
  PROVE  Answered(x)
<1>1. "Reject" \in Kinds /\ "CancelAck" \in Kinds
  BY DEF Kinds
<1>2. CASE o[id] # "Live"
  <2>1. x.orders = o /\ x.batch = {<<"Reject", id>>}
    BY <1>2 DEF CancelOutcome, Outcome
  <2>2. QED  BY <1>1, <2>1 DEF Answered
<1>3. CASE o[id] = "Live"
  <2>1. PICK d : d = [o EXCEPT ![id] = "Done"]
    OBVIOUS
  <2>2. x.orders = d /\ x.batch = {<<"CancelAck", id>>}
    BY <1>3, <2>1 DEF CancelOutcome, Outcome
  <2>3. d \in OrderMap
    BY <2>1 DEF OrderMap
  <2>4. LiveIds(d) \subseteq LiveIds(o)
    BY <2>1 DEF LiveIds, OrderMap
  <2>5. Cardinality(LiveIds(d)) <= MaxLive
    BY <2>4, FewerLive
  <2>6. QED  BY <1>1, <2>2, <2>3, <2>5 DEF Answered
<1>4. QED  BY <1>2, <1>3

(* An outcome of a book: at most one fill per live order, so none for a    *)
(* retired epoch.                                                          *)
Filled(o, x) ==
  /\ x.orders \in OrderMap /\ Cardinality(LiveIds(x.orders)) <= MaxLive
  /\ Cardinality(x.batch) \in Nat /\ Cardinality(x.batch) <= MaxLive
  /\ o = AllFree => x.orders = AllFree /\ Cardinality(x.batch) = 0

(* on_book.                                                                *)
LEMMA BookFilled ==
  ASSUME NEW o \in OrderMap, Cardinality(LiveIds(o)) <= MaxLive, NEW x \in BookOutcomes(o)
  PROVE  Filled(o, x)
<1>1. PICK hit \in SUBSET LiveIds(o), done \in SUBSET LiveIds(o) :
        done \subseteq hit /\ x = BookOutcome(o, hit, done)
  BY DEF BookOutcomes
<1>2. PICK p : p = [id \in Ids |-> IF id \in done THEN "Done" ELSE o[id]]
  OBVIOUS
<1>3. PICK b : b = {<<"Fill", id>> : id \in hit}
  OBVIOUS
<1>4. x.orders = p /\ x.batch = b
  BY <1>1, <1>2, <1>3 DEF BookOutcome, Outcome
<1>5. p \in OrderMap
  BY <1>2 DEF OrderMap
<1>6. LiveIds(p) \subseteq LiveIds(o)
  BY <1>2 DEF LiveIds
<1>7. Cardinality(LiveIds(p)) <= MaxLive
  BY <1>6, FewerLive
<1>8. IsFiniteSet(hit) /\ Cardinality(hit) <= Cardinality(LiveIds(o)) /\ Cardinality(hit) \in Nat
  BY LiveFinite, FS_Subset, FS_CardinalityType
<1>9. Cardinality(b) <= Cardinality(hit) /\ Cardinality(b) \in Nat
  <2>1. PICK f : f = [id \in hit |-> <<"Fill", id>>]
    OBVIOUS
  <2>2. f \in Surjection(hit, b)
    BY <1>3, <2>1 DEF Surjection
  <2>3. IsFiniteSet(b) /\ Cardinality(b) <= Cardinality(hit)
    BY <1>8, <2>2, FS_Surjection
  <2>4. QED  BY <2>3, FS_CardinalityType
<1>10. Cardinality(b) <= MaxLive
  BY <1>8, <1>9, LiveFinite, ViewAssumption
<1>11. ASSUME o = AllFree PROVE p = AllFree /\ Cardinality(b) = 0
  <2>1. hit = {} /\ done = {}
    BY <1>1, <1>11, NoneLive
  <2>2. b = {}
    BY <1>3, <2>1
  <2>3. p = AllFree
    BY <1>2, <1>11, <2>1 DEF AllFree
  <2>4. QED  BY <2>2, <2>3, FS_EmptySet
<1>12. QED  BY <1>4, <1>5, <1>7, <1>9, <1>10, <1>11 DEF Filled

------------------------------------------------------------------------------
(* The fills of a book, one deliver_report after the other.                *)

(* A set of natural numbers has a least one.                               *)
LEMMA Least ==
  ASSUME NEW T, T \subseteq Nat, T # {}
  PROVE  \E m \in T : \A k \in T : m <= k
<1>1. PICK R : R = {p \in Nat \X Nat : p[1] < p[2]}
  OBVIOUS
<1>2. IsWellFoundedOn(R, Nat)
  BY <1>1, NatLessThanWellFounded DEF OpToRel
<1>3. PICK m \in T : \A k \in T : ~(<<k, m>> \in R)
  BY <1>2, WFMin
<1>4. \A k \in T : ~(k < m)
  BY <1>1, <1>3
<1>5. QED  BY <1>4

Runs(f, s, n, enc) ==
  f = [i \in 0 .. n |-> IF i = 0 THEN s ELSE DeliverReport(f[i - 1], enc)]

(* The loop of publish_book has a run of every length.                     *)
LEMMA RunExists ==
  ASSUME NEW s, NEW enc
  PROVE  \A n \in Nat : \E f : Runs(f, s, n, enc)
<1>1. PICK T : T = {n \in Nat : ~\E f : Runs(f, s, n, enc)}
  OBVIOUS
<1>2. ASSUME T # {} PROVE FALSE
  <2>1. PICK m \in T : \A k \in T : m <= k
    BY <1>1, <1>2, Least
  <2>2. m \in Nat
    BY <1>1
  <2>3. CASE m = 0
    <3>1. PICK f : f = [i \in 0 .. m |-> s]
      OBVIOUS
    <3>2. Runs(f, s, m, enc)
      BY <2>3, <3>1 DEF Runs
    <3>3. QED  BY <1>1, <3>2
  <2>4. CASE m # 0
    <3>1. m - 1 \in Nat /\ m - 1 \notin T
      BY <2>1, <2>2, <2>4
    <3>2. PICK f : Runs(f, s, m - 1, enc)
      BY <1>1, <3>1
    <3>3. PICK g : g = [i \in 0 .. m |-> IF i = 0 THEN s ELSE DeliverReport(f[i - 1], enc)]
      OBVIOUS
    <3>4. \A i \in 0 .. m - 1 : f[i] = IF i = 0 THEN s ELSE DeliverReport(f[i - 1], enc)
      BY <3>2 DEF Runs
    <3>5. \A i \in 0 .. m : i # 0 => g[i - 1] = f[i - 1]
      <4>1. \A i \in 0 .. m - 1 : i \in 0 .. m /\ g[i] = f[i]
        BY <2>2, <3>3, <3>4
      <4>2. \A i \in 0 .. m : i # 0 => i - 1 \in 0 .. m - 1
        BY <2>2
      <4>3. QED  BY <4>1, <4>2
    <3>6. Runs(g, s, m, enc)
      BY <3>3, <3>5 DEF Runs
    <3>7. QED  BY <1>1, <3>6
  <2>5. QED  BY <2>3, <2>4
<1>3. QED  BY <1>1, <1>2

(* ... and its result is where that run ends.                              *)
LEMMA FillsRun ==
  ASSUME NEW s, NEW enc, NEW n \in Nat
  PROVE  \E f : Runs(f, s, n, enc) /\ DeliverFills(s, n, enc) = f[n]
<1>1. PICK g : g = CHOOSE f : Runs(f, s, n, enc)
  OBVIOUS
<1>2. Runs(g, s, n, enc)
  BY <1>1, RunExists
<1>3. DeliverFills(s, n, enc) = g[n]
  BY <1>1 DEF DeliverFills, Runs
<1>4. QED  BY <1>2, <1>3

(* After i fills.  The queue has grown by no more than the fills, and an   *)
(* open session is within the mark.                                        *)
Loop(s, i, t) ==
  /\ Sound(t) /\ Follows(s, t) /\ Delivering(t)
  /\ Len(t.reports) <= Len(s.reports) + i
  /\ t.closing = TRUE \/ Len(t.reports) <= ReportHwm
  /\ \A md \in Nat : Ticks(s, md) => Ticks(t, md)

(* One more fill.                                                          *)
LEMMA LoopStep ==
  ASSUME NEW s, Sound(s), s.tornDown = FALSE, NEW enc \in BOOLEAN, NEW i \in Nat,
         NEW u, Loop(s, i, u), NEW t, t = DeliverReport(u, enc)
  PROVE  Loop(s, i + 1, t)
<1>1. /\ Sound(u) /\ Follows(s, u) /\ Delivering(u) /\ u.tornDown = FALSE
      /\ Len(u.reports) <= Len(s.reports) + i
      /\ \A md \in Nat : Ticks(s, md) => Ticks(u, md)
  BY DEF Loop, Follows
<1>2. PICK kind \in Kinds : kind = "Fill"
  BY DEF Kinds
<1>3. kind # "OrderAck"
  BY <1>2
<1>4. Timed(u, kind, u)
  BY <1>1, <1>3 DEF Timed, Sound, Closes, SameQueue, SameEnd
<1>5. t = Pump(EnqueueReport(u, kind, enc), enc)
  BY <1>2 DEF DeliverReport
<1>6. Delivered(u, t)
  BY <1>1, <1>2, <1>4, <1>5, DeliverKeeps
<1>7. /\ Sound(t) /\ Follows(u, t) /\ Delivering(t)
      /\ Len(t.reports) <= Len(u.reports) + 1
      /\ t.closing = TRUE \/ Len(t.reports) <= ReportHwm
      /\ \A md \in Nat : Ticks(u, md) => Ticks(t, md)
  BY <1>6 DEF Delivered
<1>8. Follows(s, t)
  BY <1>1, <1>7 DEF Follows
<1>9. s \in Rec /\ u \in Rec /\ t \in Rec
  BY <1>1, <1>7 DEF Sound
<1>10. PICK a \in Nat, b \in Nat, c \in Nat : a = Len(s.reports) /\ b = Len(u.reports) /\ c = Len(t.reports)
  BY <1>9, Fields
<1>11. b <= a + i /\ c <= b + 1
  BY <1>1, <1>7, <1>10
<1>12. c <= a + (i + 1)
  BY <1>11
<1>13. Len(t.reports) <= Len(s.reports) + (i + 1)
  BY <1>10, <1>12
<1>14. QED  BY <1>1, <1>7, <1>8, <1>13 DEF Loop

(* All the fills of a book.                                                *)
LEMMA FillsKeep ==
  ASSUME NEW s, Sound(s), s.tornDown = FALSE, Loop(s, 0, s), NEW n \in Nat,
         NEW enc \in BOOLEAN, NEW t, t = DeliverFills(s, n, enc)
  PROVE  Loop(s, n, t)
<1>1. PICK f : Runs(f, s, n, enc) /\ t = f[n]
  BY FillsRun
<1>2. \A i \in 0 .. n : f[i] = IF i = 0 THEN s ELSE DeliverReport(f[i - 1], enc)
  BY <1>1 DEF Runs
<1>3. PICK T : T = {i \in 0 .. n : ~Loop(s, i, f[i])}
  OBVIOUS
<1>4. ASSUME T # {} PROVE FALSE
  <2>1. T \subseteq Nat
    BY <1>3
  <2>2. PICK m \in T : \A k \in T : m <= k
    BY <1>4, <2>1, Least
  <2>3. m \in 0 .. n /\ ~Loop(s, m, f[m])
    BY <1>3
  <2>4. m # 0
    BY <1>2, <2>3
  <2>5. PICK k \in Nat : k = m - 1 /\ k \in 0 .. n /\ k + 1 = m
    BY <2>3, <2>4
  <2>6. k \notin T
    BY <2>2, <2>5
  <2>7. Loop(s, k, f[k])
    BY <1>3, <2>5, <2>6
  <2>8. f[m] = DeliverReport(f[k], enc)
    BY <1>2, <2>3, <2>4, <2>5
  <2>9. Loop(s, k + 1, f[m])
    BY <2>5, <2>7, <2>8, LoopStep
  <2>10. QED  BY <2>3, <2>5, <2>9
<1>5. n \in 0 .. n
  OBVIOUS
<1>6. QED  BY <1>1, <1>3, <1>4, <1>5

(* A book without fills.                                                   *)
LEMMA NoFills ==
  ASSUME NEW s, NEW enc, NEW n \in Nat, n = 0
  PROVE  DeliverFills(s, n, enc) = s
<1>1. PICK f : Runs(f, s, n, enc) /\ DeliverFills(s, n, enc) = f[n]
  BY FillsRun
<1>2. n \in 0 .. n
  OBVIOUS
<1>3. f[n] = s
  BY <1>1, <1>2 DEF Runs
<1>4. QED  BY <1>1, <1>3

------------------------------------------------------------------------------
(* The invariant, and what a step from one session to the next may do.     *)
Short(s) == s.tornDown = TRUE \/ s.closing = TRUE \/ Len(s.reports) <= ReportHwm

Bounded(s) == Len(s.reports) <= ReportHwm + 1 \/ Len(s.reports) <= ReportHwm + MaxLive

Good(s, md) == Sound(s) /\ Short(s) /\ Bounded(s) /\ Ticks(s, md)

Final(s, t) ==
  /\ s.frameSent = TRUE => t.sent = s.sent /\ t.ticks = s.ticks
  /\ s.closing = TRUE => t.code = s.code
  /\ t.tornDown = TRUE /\ s.tornDown = FALSE =>
       t.recorded # NoCode /\ (s.closing = TRUE => t.recorded = s.code)
  /\ s.tornDown = TRUE => t.recorded = s.recorded

Step(s, t, md) == Good(t, md) /\ Final(s, t)

(* A handler that queues nothing and tears nothing down.                   *)
LEMMA KeptStep ==
  ASSUME NEW s, NEW t, NEW md \in Nat, Good(s, md), Keeps(s, t)
  PROVE  Step(s, t, md)
<1>1. s \in Rec /\ t \in Rec /\ Sound(t) /\ Follows(s, t) /\ Ticks(t, md)
  BY DEF Good, Keeps, Sound
<1>2. PICK a \in Nat, b \in Nat : a = Len(s.reports) /\ b = Len(t.reports) /\ b <= a
  BY <1>1, Fields DEF Keeps
<1>3. Short(t)
  <2>1. s.tornDown = TRUE => t.tornDown = TRUE
    BY <1>1 DEF Follows
  <2>2. s.closing = TRUE => t.closing = TRUE
    BY <1>1 DEF Follows
  <2>3. Len(s.reports) <= ReportHwm => Len(t.reports) <= ReportHwm
    BY <1>2, SessionAssumption
  <2>4. QED  BY <2>1, <2>2, <2>3 DEF Good, Short
<1>4. Bounded(t)
  <2>1. a <= ReportHwm + 1 \/ a <= ReportHwm + MaxLive
    BY <1>2 DEF Good, Bounded
  <2>2. b <= ReportHwm + 1 \/ b <= ReportHwm + MaxLive
    BY <1>2, <2>1, SessionAssumption, ViewAssumption
  <2>3. QED  BY <1>2, <2>2 DEF Bounded
<1>5. Final(s, t)
  BY <1>1 DEF Follows, Final
<1>6. QED  BY <1>1, <1>3, <1>4, <1>5 DEF Step, Good

(* A handler that changes only the bookkeeping of pending operations.      *)
LEMMA SameKeeps ==
  ASSUME NEW s, Sound(s), NEW t, t \in Rec,
         SameQueue(s, t), SameWire(s, t), SameIntent(s, t),
         t.frameSent = s.frameSent, t.tornDown = s.tornDown, t.recorded = s.recorded,
         t.closeOp # "none" \/ t.draining = TRUE => t.frameSent = TRUE
  PROVE  Keeps(s, t)
<1>1. s \in Rec /\ Accounted(s) /\ Paired(s) /\ Closes(s)
  BY DEF Sound
<1>2. Accounted(t)
  BY <1>1 DEF Accounted, SameQueue, SameWire
<1>3. Paired(t)
  <2>1. t.reports = s.reports /\ t.svc = s.svc /\ t.writing = s.writing
    BY DEF SameQueue, SameWire
  <2>2. s.writing.kind = "OrderAck" => s.writing.svc = s.writing.n
    BY <1>1 DEF Paired
  <2>3. QED  BY <1>1, <2>1, <2>2, StillPaired
<1>4. Closes(t)
  <2>1. t.sent = s.sent /\ t.made = s.made /\ t.reports = s.reports /\ t.unencoded = s.unencoded
    BY DEF SameQueue, SameWire
  <2>2. QED  BY <1>1, <2>1 DEF Closes, SameIntent
<1>5. Follows(s, t)
  BY DEF Follows, SameWire, SameIntent
<1>6. Len(t.reports) <= Len(s.reports)
  <2>1. Len(s.reports) \in Nat /\ t.reports = s.reports
    BY <1>1, Fields DEF SameQueue
  <2>2. QED  BY <2>1
<1>7. \A md \in Nat : Ticks(s, md) => Ticks(t, md)
  BY DEF Ticks, SameQueue, SameWire, SameIntent
<1>8. QED  BY <1>2, <1>3, <1>4, <1>5, <1>6, <1>7 DEF Keeps, Sound

(* The write in flight ends.                                               *)
LEMMA IdleKeeps ==
  ASSUME NEW s, Sound(s), NEW t, t = [s EXCEPT !.writing = Idle]
  PROVE  Keeps(s, t) /\ t.tornDown = s.tornDown
<1>1. s \in Rec /\ Accounted(s) /\ Paired(s) /\ Closes(s)
  BY DEF Sound
<1>2. t \in Rec
  BY <1>1 DEF Rec
<1>3. SameQueue(s, t) /\ SameIntent(s, t) /\ SameEnd(s, t)
  BY <1>1 DEF Rec, SameQueue, SameIntent, SameEnd
<1>4. /\ t.svc = s.svc /\ t.outSeq = s.outSeq /\ t.writing = Idle
      /\ t.sent = s.sent /\ t.ticks = s.ticks /\ t.unencoded = s.unencoded
  BY <1>1 DEF Rec
<1>5. Idle.kind \notin Kinds /\ Idle.kind # "OrderAck"
  BY DEF Idle, Kinds
<1>6. t.reports = s.reports /\ t.made = s.made /\ t.tob = s.tob /\ t.conflated = s.conflated
  BY <1>3 DEF SameQueue
<1>7. Accounted(t)
  BY <1>1, <1>4, <1>5, <1>6 DEF Accounted
<1>8. Paired(t)
  BY <1>1, <1>4, <1>5, <1>6, StillPaired
<1>9. Closes(t)
  BY <1>1, <1>3, <1>4, <1>6 DEF Closes, SameIntent, SameEnd
<1>10. Follows(s, t) /\ Len(t.reports) <= Len(s.reports)
  <2>1. Len(s.reports) \in Nat
    BY <1>1, Fields
  <2>2. QED  BY <1>3, <1>4, <1>6, <2>1 DEF Follows, SameIntent, SameEnd
<1>11. \A md \in Nat : Ticks(s, md) => Ticks(t, md)
  BY <1>3, <1>4, <1>6 DEF Ticks, SameIntent, SameEnd
<1>12. t.tornDown = s.tornDown
  BY <1>3 DEF SameEnd
<1>13. QED  BY <1>2, <1>7, <1>8, <1>9, <1>10, <1>11, <1>12 DEF Keeps, Sound

(* The session leaves, after at most the end of an operation.              *)
LEMMA TeardownStep ==
  ASSUME NEW s, NEW md \in Nat, Good(s, md), s.tornDown = FALSE, NEW u, Keeps(s, u),
         NEW code \in Nat, code # NoCode, s.closing = TRUE => code = s.code,
         NEW t, t = Teardown(u, code)
  PROVE  Step(s, t, md)
<1>1. s \in Rec /\ u \in Rec /\ Accounted(u) /\ Paired(u) /\ Closes(u) /\ Follows(s, u) /\ Ticks(u, md)
  BY DEF Good, Keeps, Sound
<1>2. u.tornDown = FALSE
  BY <1>1 DEF Follows
<1>3. /\ t \in Rec /\ SameQueue(u, t) /\ SameWire(u, t)
      /\ t.closing = u.closing /\ t.code = u.code /\ t.drain = u.drain
      /\ t.frameSent = u.frameSent /\ t.tornDown = TRUE /\ t.recorded = code
      /\ t.closeOp = u.closeOp /\ t.draining = u.draining
      /\ t.retired = TRUE
      /\ u.retired = TRUE => t.orders = u.orders
      /\ u.retired = FALSE => t.orders = AllFree
  <2>1. Torn(u, code, t)
    BY <1>1, <1>2, TeardownDoes
  <2>2. QED  BY <2>1 DEF Torn
<1>4. /\ t.reports = u.reports /\ t.made = u.made /\ t.tob = u.tob
      /\ t.svc = u.svc /\ t.writing = u.writing
      /\ t.sent = u.sent /\ t.ticks = u.ticks /\ t.unencoded = u.unencoded
  BY <1>3 DEF SameQueue, SameWire
<1>5. Accounted(t)
  BY <1>1, <1>3 DEF Accounted, SameQueue, SameWire
<1>6. Paired(t)
  <2>1. u.writing.kind = "OrderAck" => u.writing.svc = u.writing.n
    BY <1>1 DEF Paired
  <2>2. QED  BY <1>1, <1>4, <2>1, StillPaired
<1>7. Closes(t)
  <2>1. t.orders = AllFree
    BY <1>1, <1>3, Fields DEF Closes
  <2>2. QED  BY <1>1, <1>3, <1>4, <2>1, NoneLive DEF Closes
<1>8. Ticks(t, md)
  BY <1>1, <1>3, <1>4 DEF Ticks
<1>9. Short(t)
  BY <1>3 DEF Short
<1>10. Bounded(t)
  <2>1. Step(s, u, md)
    BY KeptStep
  <2>2. QED  BY <1>4, <2>1 DEF Step, Good, Bounded
<1>11. Final(s, t)
  <2>1. s.frameSent = TRUE => t.sent = s.sent /\ t.ticks = s.ticks
    BY <1>1, <1>4 DEF Follows
  <2>2. s.closing = TRUE => t.code = s.code
    BY <1>1, <1>3 DEF Follows
  <2>3. QED  BY <1>3, <2>1, <2>2 DEF Final
<1>12. QED  BY <1>3, <1>5, <1>6, <1>7, <1>8, <1>9, <1>10, <1>11 DEF Step, Good, Sound

(* A frame is answered by one report.                                      *)
LEMMA AnswerStep ==
  ASSUME NEW s, NEW md \in Nat, Good(s, md), s.closing = FALSE, s.tornDown = FALSE,
         NEW kind \in Kinds, NEW v, Timed(s, kind, v), NEW enc \in BOOLEAN,
         NEW t, t = Pump(EnqueueReport(v, kind, enc), enc)
  PROVE  Step(s, t, md)
<1>1. s \in Rec /\ Sound(s) /\ Closes(s)
  BY DEF Good, Sound
<1>2. Delivering(s)
  <2>1. s.frameSent = FALSE
    BY <1>1, Fields DEF Closes
  <2>2. QED  BY <2>1 DEF Delivering
<1>3. Delivered(s, t)
  BY <1>1, <1>2, DeliverKeeps
<1>4. /\ Sound(t) /\ Follows(s, t) /\ Ticks(t, md)
      /\ Len(t.reports) <= Len(s.reports) + 1
      /\ t.closing = TRUE \/ Len(t.reports) <= ReportHwm
  BY <1>3 DEF Delivered, Good
<1>5. Short(t)
  BY <1>4 DEF Short
<1>6. Bounded(t)
  <2>1. t \in Rec
    BY <1>4 DEF Sound
  <2>2. Len(s.reports) \in Nat /\ Len(t.reports) \in Nat
    BY <1>1, <2>1, Fields
  <2>3. Len(s.reports) <= ReportHwm
    BY DEF Good, Short
  <2>4. Len(t.reports) <= ReportHwm + 1
    BY <1>4, <2>2, <2>3, SessionAssumption
  <2>5. QED  BY <2>4 DEF Bounded
<1>7. Final(s, t)
  BY <1>4 DEF Follows, Final
<1>8. QED  BY <1>4, <1>5, <1>6, <1>7 DEF Step, Good

------------------------------------------------------------------------------
(* The handlers.                                                           *)

Inv == Good(session, mdSeq) /\ mdSeq \in Nat

(* What is known of the session when a handler starts.                     *)
LEMMA Opening ==
  ASSUME Inv
  PROVE  /\ session \in Rec /\ Sound(session) /\ mdSeq \in Nat
         /\ session.closing \in BOOLEAN /\ session.tornDown \in BOOLEAN /\ session.code \in Nat
         /\ session.orders \in OrderMap /\ Cardinality(LiveIds(session.orders)) <= MaxLive
         /\ session.closing = TRUE => session.code # NoCode
         /\ session.closing = FALSE /\ session.tornDown = FALSE => session.retired = FALSE
<1>1. session \in Rec /\ Sound(session) /\ mdSeq \in Nat /\ Closes(session)
  BY DEF Inv, Good, Sound
<1>2. /\ session.closing \in BOOLEAN /\ session.tornDown \in BOOLEAN /\ session.code \in Nat
      /\ session.orders \in OrderMap /\ session.retired \in BOOLEAN
  BY <1>1, Fields
<1>3. QED  BY <1>1, <1>2 DEF Closes

(* The codes are numbers, and none of them is "no code".                   *)
LEMMA Codes ==
  \A c \in {Normal, GoingAway, ProtocolError, Abnormal, BadPayload, PolicyError, TooBig, InternalError} :
    c \in Nat /\ c # NoCode
BY DEF Normal, GoingAway, ProtocolError, Abnormal, BadPayload, PolicyError, TooBig, InternalError, NoCode

(* Frames that are refused, or of a stale epoch: a Reject.                 *)
LEMMA RejectStep ==
  ASSUME Inv, ReadRefused \/ ReadStaleEpoch
  PROVE  Step(session, session', mdSeq') /\ mdSeq' \in Nat
<1>1. PICK kind \in Kinds : kind = "Reject" /\ kind # "OrderAck"
  BY DEF Kinds
<1>2. session \in Rec /\ Sound(session) /\ Closes(session) /\ mdSeq \in Nat
  BY Opening DEF Sound
<1>3. mdSeq' = mdSeq /\ session.closing = FALSE /\ session.tornDown = FALSE
  BY Opening DEF ReadRefused, ReadStaleEpoch, CanReadFrame, CanRead
<1>4. PICK c : c = Consume(session)
  OBVIOUS
<1>5. c \in Rec /\ SameQueue(session, c) /\ SameWire(session, c) /\ SameIntent(session, c) /\ SameEnd(session, c)
  <2>1. PICK n \in Nat : n = session.inSeq + 1
    <3>1. session.inSeq \in Nat
      BY <1>2 DEF Rec
    <3>2. QED  BY <3>1
  <2>2. c = [session EXCEPT !.inSeq = n]
    BY <1>4, <2>1 DEF Consume
  <2>3. c \in Rec
    BY <1>2, <2>2 DEF Rec
  <2>4. QED  BY <1>2, <2>2, <2>3 DEF Rec, SameQueue, SameWire, SameIntent, SameEnd
<1>6. Timed(session, kind, session)
  BY <1>1, <1>2 DEF Timed, Closes, SameQueue, SameEnd
<1>7. Timed(session, kind, c)
  BY <1>1, <1>2, <1>5 DEF Timed, Closes, SameWire, SameIntent
<1>8. PICK v : Timed(session, kind, v) /\ \E enc \in BOOLEAN : session' = Pump(EnqueueReport(v, kind, enc), enc)
  BY <1>1, <1>4, <1>6, <1>7 DEF ReadRefused, ReadStaleEpoch
<1>9. PICK enc \in BOOLEAN : session' = Pump(EnqueueReport(v, kind, enc), enc)
  BY <1>8
<1>10. Step(session, session', mdSeq)
  BY <1>2, <1>3, <1>8, <1>9, AnswerStep DEF Inv
<1>11. QED  BY <1>2, <1>3, <1>10

(* An order command reaches the engine.                                    *)
LEMMA CommandStep ==
  ASSUME Inv, CanReadFrame, NEW x, Answered(x), NEW enc \in BOOLEAN,
         session' = Pump(ApplyOutcome(Consume(session), x, enc), enc), mdSeq' = mdSeq
  PROVE  Step(session, session', mdSeq') /\ mdSeq' \in Nat
<1>1. PICK kind \in Kinds, id \in Ids : x.batch = {<<kind, id>>}
  BY DEF Answered
<1>2. session \in Rec /\ Sound(session) /\ Closes(session) /\ mdSeq \in Nat
  BY Opening DEF Sound
<1>3. session.closing = FALSE /\ session.tornDown = FALSE /\ session.retired = FALSE
  BY Opening DEF CanReadFrame, CanRead
<1>4. PICK n \in Nat : n = session.inSeq + 1
  <2>1. session.inSeq \in Nat
    BY <1>2 DEF Rec
  <2>2. QED  BY <2>1
<1>5. PICK c : c = [session EXCEPT !.inSeq = n]
  OBVIOUS
<1>6. c \in Rec
  BY <1>2, <1>5 DEF Rec
<1>7. SameQueue(session, c) /\ SameWire(session, c) /\ SameIntent(session, c) /\ SameEnd(session, c)
  BY <1>2, <1>5 DEF Rec, SameQueue, SameWire, SameIntent, SameEnd
<1>8. PICK a \in Nat : a = session.made + 1
  BY <1>2, Fields
<1>9. PICK w \in Seq(Nat) : /\ kind = "OrderAck" => w = Append(session.svc, a)
                            /\ kind # "OrderAck" => w = session.svc
  <2>1. PICK p \in Seq(Nat) : p = session.svc
    BY <1>2, Fields
  <2>2. Append(p, a) \in Seq(Nat)
    OBVIOUS
  <2>3. QED  BY <2>1, <2>2
<1>10. PICK o \in OrderMap : o = x.orders /\ Cardinality(LiveIds(o)) <= MaxLive
  BY DEF Answered
<1>11. PICK v : v = [c EXCEPT !.orders = o, !.svc = w]
  OBVIOUS
<1>12. v \in Rec
  BY <1>6, <1>11 DEF Rec
<1>13. /\ SameQueue(c, v) /\ SameEnd(c, v) /\ v.orders = o /\ v.svc = w
       /\ v.outSeq = c.outSeq /\ v.writing = c.writing /\ v.sent = c.sent
       /\ v.ticks = c.ticks /\ v.unencoded = c.unencoded
       /\ v.closing = c.closing /\ v.code = c.code /\ v.drain = c.drain /\ v.retired = c.retired
  BY <1>6, <1>11 DEF Rec, SameQueue, SameEnd
<1>14. SameQueue(session, v) /\ SameEnd(session, v)
  BY <1>7, <1>13 DEF SameQueue, SameEnd
<1>15. /\ v.outSeq = session.outSeq /\ v.writing = session.writing /\ v.sent = session.sent
       /\ v.ticks = session.ticks /\ v.unencoded = session.unencoded
  BY <1>7, <1>13 DEF SameWire
<1>16. /\ v.closing = session.closing /\ v.code = session.code
       /\ v.drain = session.drain /\ v.retired = session.retired
  BY <1>7, <1>13 DEF SameIntent
<1>17. Timed(session, kind, v)
  BY <1>3, <1>8, <1>9, <1>10, <1>12, <1>13, <1>14, <1>15, <1>16 DEF Timed
<1>18. ApplyOutcome(Consume(session), x, enc) = EnqueueReport(v, kind, enc)
  <2>1. Consume(session) = c
    BY <1>4, <1>5 DEF Consume
  <2>2. (CHOOSE r \in x.batch : TRUE)[1] = kind
    <3>1. \A r \in x.batch : r[1] = kind
      BY <1>1
    <3>2. \E r \in x.batch : TRUE
      BY <1>1
    <3>3. QED  BY <3>1, <3>2
  <2>3. c.made + 1 = a /\ c.svc = session.svc
    BY <1>7, <1>8 DEF SameQueue, SameWire
  <2>4. w = IF kind = "OrderAck" THEN Append(c.svc, c.made + 1) ELSE c.svc
    BY <1>9, <2>3
  <2>5. QED  BY <1>10, <1>11, <2>1, <2>2, <2>4 DEF ApplyOutcome
<1>19. session' = Pump(EnqueueReport(v, kind, enc), enc)
  BY <1>18
<1>20. Step(session, session', mdSeq)
  BY <1>2, <1>3, <1>17, <1>19, AnswerStep DEF Inv
<1>21. QED  BY <1>2, <1>20

(* A new order, a cancel.                                                  *)
LEMMA OrderStep ==
  ASSUME Inv, NEW id \in Ids, ReadNewOrder(id) \/ ReadCancel(id)
  PROVE  Step(session, session', mdSeq') /\ mdSeq' \in Nat
<1>1. CASE ReadNewOrder(id)
  <2>1. PICK enc \in BOOLEAN, x \in NewOutcomes(session.orders, id) :
          /\ CanReadFrame /\ mdSeq' = mdSeq
          /\ session' = Pump(ApplyOutcome(Consume(session), x, enc), enc)
    BY <1>1 DEF ReadNewOrder
  <2>2. Answered(x)
    BY Opening, NewAnswered
  <2>3. QED  BY <2>1, <2>2, CommandStep
<1>2. CASE ReadCancel(id)
  <2>1. PICK x : x = CancelOutcome(session.orders, id)
    OBVIOUS
  <2>2. PICK enc \in BOOLEAN :
          /\ CanReadFrame /\ mdSeq' = mdSeq
          /\ session' = Pump(ApplyOutcome(Consume(session), x, enc), enc)
    BY <1>2, <2>1 DEF ReadCancel
  <2>3. Answered(x)
    BY <2>1, Opening, CancelAnswered
  <2>4. QED  BY <2>2, <2>3, CommandStep
<1>3. QED  BY <1>1, <1>2

(* begin_close, of a session in any state.                                 *)
LEMMA AskedToClose ==
  ASSUME Inv, NEW code \in Nat, code # NoCode, NEW enc \in BOOLEAN,
         NEW t, t = BeginClose(session, code, enc)
  PROVE  Keeps(session, t)
<1>1. session \in Rec /\ Sound(session) /\ session.closing \in BOOLEAN /\ session.tornDown \in BOOLEAN
  BY Opening
<1>2. CASE session.closing = TRUE \/ session.tornDown = TRUE
  <2>1. t = session
    BY <1>2 DEF BeginClose
  <2>2. QED  BY <1>1, <2>1, SelfKeeps
<1>3. CASE session.closing = FALSE /\ session.tornDown = FALSE
  <2>1. Begun(session, code, t)
    BY <1>1, <1>3, BeginCloseKeeps
  <2>2. QED  BY <2>1 DEF Begun
<1>4. QED  BY <1>1, <1>2, <1>3

(* Everything that asks for a close: a broken frame, the feed, the stop.   *)
LEMMA CloseStep ==
  ASSUME Inv, ReadBroken \/ DropSessions \/ BeginStop
  PROVE  Step(session, session', mdSeq') /\ mdSeq' \in Nat
<1>1. mdSeq' = mdSeq /\ mdSeq \in Nat /\ Good(session, mdSeq) /\ session \in Rec
  BY Opening DEF Inv, ReadBroken, DropSessions, BeginStop
<1>2. CASE ReadBroken
  <2>1. PICK enc \in BOOLEAN : session' = Pump(BeginClose(session, ProtocolError, enc), enc)
    BY <1>2 DEF ReadBroken
  <2>2. PICK u : u = BeginClose(session, ProtocolError, enc)
    OBVIOUS
  <2>3. ProtocolError \in Nat /\ ProtocolError # NoCode
    BY DEF ProtocolError, NoCode
  <2>4. Keeps(session, u)
    BY <2>2, <2>3, AskedToClose
  <2>5. session' = Pump(u, enc) /\ Sound(u)
    BY <2>1, <2>2, <2>4 DEF Keeps
  <2>6. Pumped(u, session')
    BY <2>5, PumpKeeps
  <2>7. Keeps(session, session')
    BY <1>1, <2>4, <2>6, KeepsTwice DEF Pumped
  <2>8. QED  BY <1>1, <2>7, KeptStep
<1>3. CASE DropSessions \/ BeginStop
  <2>1. PICK enc \in BOOLEAN : session' = BeginClose(session, GoingAway, enc)
    BY <1>3 DEF DropSessions, BeginStop
  <2>2. GoingAway \in Nat /\ GoingAway # NoCode
    BY DEF GoingAway, NoCode
  <2>3. Keeps(session, session')
    BY <2>1, <2>2, AskedToClose
  <2>4. QED  BY <1>1, <2>3, KeptStep
<1>4. QED  BY <1>2, <1>3

(* A read, a write, the handshake or the drain ends the session.           *)
LEMMA LeaveStep ==
  ASSUME Inv, session.tornDown = FALSE, NEW u, Keeps(session, u),
         NEW other \in Nat, other # NoCode \/ session.closing = TRUE,
         session' = Teardown(u, CodeOr(session, other)), mdSeq' = mdSeq
  PROVE  Step(session, session', mdSeq') /\ mdSeq' \in Nat
<1>1. /\ mdSeq \in Nat /\ Good(session, mdSeq) /\ session.closing \in BOOLEAN /\ session.code \in Nat
      /\ session.closing = TRUE => session.code # NoCode
  BY Opening DEF Inv
<1>2. PICK code \in Nat : code = CodeOr(session, other)
  BY <1>1 DEF CodeOr
<1>3. code # NoCode /\ (session.closing = TRUE => code = session.code)
  BY <1>1, <1>2 DEF CodeOr
<1>4. session' = Teardown(u, code)
  BY <1>2
<1>5. Step(session, session', mdSeq)
  BY <1>1, <1>2, <1>3, <1>4, TeardownStep
<1>6. QED  BY <1>1, <1>5

(* The ends of the read.                                                   *)
LEMMA ReadEndStep ==
  ASSUME Inv, ReadClosed \/ ReadTimeout \/ ReadError
  PROVE  Step(session, session', mdSeq') /\ mdSeq' \in Nat
<1>1. session.tornDown = FALSE /\ mdSeq' = mdSeq
  BY Opening DEF ReadClosed, ReadTimeout, ReadError, CanRead
<1>2. Keeps(session, session)
  BY Opening, SelfKeeps
<1>3. PICK other \in Nat : other # NoCode /\ session' = Teardown(session, CodeOr(session, other))
  <2>1. CASE ReadClosed
    <3>1. PICK peer \in {NoCode, GoingAway} : session' = Teardown(session, CodeOr(session, Normalised(peer)))
      BY <2>1 DEF ReadClosed
    <3>2. Normalised(peer) \in Nat /\ Normalised(peer) # NoCode
      BY DEF Normalised, NoCode, GoingAway, Normal
    <3>3. QED  BY <3>1, <3>2
  <2>2. CASE ReadTimeout
    <3>1. session' = Teardown(session, CodeOr(session, GoingAway))
      BY <2>2 DEF ReadTimeout
    <3>2. GoingAway \in Nat /\ GoingAway # NoCode
      BY Codes
    <3>3. QED  BY <3>1, <3>2
  <2>3. CASE ReadError
    <3>1. PICK code \in {BadPayload, ProtocolError, Abnormal} : session' = Teardown(session, CodeOr(session, code))
      BY <2>3 DEF ReadError
    <3>2. code \in Nat /\ code # NoCode
      BY Codes
    <3>3. QED  BY <3>1, <3>2
  <2>4. QED  BY <2>1, <2>2, <2>3
<1>4. QED  BY <1>1, <1>2, <1>3, LeaveStep

(* An oversize message: a close of its own, or the end of the one under    *)
(* way.                                                                    *)
LEMMA TooBigStep ==
  ASSUME Inv, ReadTooBig
  PROVE  Step(session, session', mdSeq') /\ mdSeq' \in Nat
<1>1. /\ session.tornDown = FALSE /\ mdSeq' = mdSeq /\ mdSeq \in Nat /\ Good(session, mdSeq)
      /\ session \in Rec /\ Sound(session) /\ session.closing \in BOOLEAN
  BY Opening DEF ReadTooBig, CanRead, Inv
<1>2. CASE session.closing = TRUE
  <2>1. session' = Teardown(session, session.code)
    BY <1>2 DEF ReadTooBig
  <2>2. CodeOr(session, 1) = session.code
    BY <1>2 DEF CodeOr
  <2>3. Keeps(session, session)
    BY <1>1, SelfKeeps
  <2>4. PICK one \in Nat : session' = Teardown(session, CodeOr(session, one))
    BY <2>1, <2>2
  <2>5. QED  BY <1>1, <1>2, <2>3, <2>4, LeaveStep
<1>3. CASE session.closing = FALSE
  <2>1. PICK no \in BOOLEAN : no = FALSE
    OBVIOUS
  <2>2. PICK u : u = LatchClose(session, TooBig, no)
    OBVIOUS
  <2>3. PICK t : t = [u EXCEPT !.frameSent = TRUE, !.closeOp = "tooBig", !.reading = FALSE]
    OBVIOUS
  <2>4. session' = t
    BY <1>3, <2>1, <2>2, <2>3 DEF ReadTooBig
  <2>5. Intended(session, TooBig, no, u)
    <3>1. PICK code \in Nat : code = TooBig /\ code # NoCode /\ code \notin {PolicyError, GoingAway}
      BY DEF TooBig, NoCode, PolicyError, GoingAway
    <3>2. u = LatchClose(session, code, no)
      BY <2>2, <3>1
    <3>3. Intended(session, code, no, u)
      BY <1>1, <1>3, <2>1, <3>1, <3>2, LatchKeeps
    <3>4. QED  BY <3>1, <3>3
  <2>6. /\ Keeps(session, u) /\ u \in Rec /\ Sound(u) /\ Accounted(u) /\ Paired(u) /\ Closes(u)
        /\ u.closing = TRUE /\ u.drain = FALSE /\ u.frameSent = session.frameSent
    BY <2>1, <2>5 DEF Intended, Keeps, Sound, SameEnd
  <2>7. t \in Rec
    BY <2>3, <2>6 DEF Rec
  <2>8. SameQueue(u, t) /\ SameWire(u, t) /\ SameIntent(u, t)
    BY <2>3, <2>6 DEF Rec, SameQueue, SameWire, SameIntent
  <2>9. t.frameSent = TRUE /\ t.tornDown = u.tornDown /\ t.recorded = u.recorded
    BY <2>3, <2>6 DEF Rec
  <2>10. Accounted(t)
    BY <2>6, <2>8 DEF Accounted, SameQueue, SameWire
  <2>11. Paired(t)
    <3>1. t.reports = u.reports /\ t.svc = u.svc /\ t.writing = u.writing
      BY <2>8 DEF SameQueue, SameWire
    <3>2. u.writing.kind = "OrderAck" => u.writing.svc = u.writing.n
      BY <2>6 DEF Paired
    <3>3. QED  BY <2>6, <3>1, <3>2, StillPaired
  <2>12. Closes(t)
    <3>1. t.closing = TRUE /\ t.drain = FALSE /\ t.retired = u.retired /\ t.orders = u.orders /\ t.code = u.code
      BY <2>6, <2>8 DEF SameIntent
    <3>2. QED  BY <2>6, <2>9, <3>1 DEF Closes
  <2>13. Follows(u, t)
    BY <2>8, <2>9 DEF Follows, SameWire, SameIntent
  <2>14. Len(t.reports) <= Len(u.reports)
    <3>1. t.reports = u.reports /\ Len(u.reports) \in Nat
      BY <2>6, <2>8, Fields DEF SameQueue
    <3>2. QED  BY <3>1
  <2>15. \A md \in Nat : Ticks(t, md)
    BY <2>6, <2>8 DEF Ticks, SameIntent
  <2>16. Keeps(u, t)
    BY <2>7, <2>10, <2>11, <2>12, <2>13, <2>14, <2>15 DEF Keeps, Sound
  <2>17. Keeps(session, t)
    BY <1>1, <2>6, <2>16, KeepsTwice
  <2>18. Step(session, t, mdSeq)
    BY <1>1, <2>17, KeptStep
  <2>19. QED  BY <1>1, <2>4, <2>18
<1>4. QED  BY <1>1, <1>2, <1>3

(* The write in flight completes, or fails.                                *)
LEMMA WriteStep ==
  ASSUME Inv, WriteDone \/ WriteFailed
  PROVE  Step(session, session', mdSeq') /\ mdSeq' \in Nat
<1>1. /\ mdSeq' = mdSeq /\ mdSeq \in Nat /\ Good(session, mdSeq)
      /\ session \in Rec /\ Sound(session) /\ session.tornDown \in BOOLEAN
  BY Opening DEF WriteDone, WriteFailed, Inv
<1>2. PICK u : u = [session EXCEPT !.writing = Idle]
  OBVIOUS
<1>3. Keeps(session, u) /\ u.tornDown = session.tornDown
  BY <1>1, <1>2, IdleKeeps
<1>4. CASE WriteDone
  <2>1. PICK enc \in BOOLEAN : session' = Pump(u, enc)
    BY <1>2, <1>4 DEF WriteDone
  <2>2. Sound(u)
    BY <1>3 DEF Keeps
  <2>3. Pumped(u, session')
    BY <2>1, <2>2, PumpKeeps
  <2>4. Keeps(session, session')
    BY <1>1, <1>3, <2>3, KeepsTwice DEF Pumped
  <2>5. QED  BY <1>1, <2>4, KeptStep
<1>5. CASE WriteFailed
  <2>1. PICK code \in {GoingAway, Abnormal} : session' = Teardown(u, CodeOr(session, code))
    BY <1>2, <1>5 DEF WriteFailed
  <2>2. code \in Nat /\ code # NoCode
    BY Codes
  <2>3. CASE session.tornDown = TRUE
    <3>1. session' = u
      BY <1>3, <2>1, <2>3 DEF Teardown
    <3>2. QED  BY <1>1, <1>3, <3>1, KeptStep
  <2>4. CASE session.tornDown = FALSE
    BY <1>1, <1>3, <2>1, <2>2, <2>4, LeaveStep
  <2>5. QED  BY <1>1, <2>3, <2>4
<1>6. QED  BY <1>4, <1>5

(* The timers, the handshake and the drain of the socket.                  *)
LEMMA TimerStep ==
  ASSUME Inv, HandshakeFailed \/ DrainTransport \/ DrainEnded \/ GraceExpires \/ ShutdownDeadline
  PROVE  Step(session, session', mdSeq') /\ mdSeq' \in Nat
<1>1. /\ session.tornDown = FALSE /\ mdSeq' = mdSeq /\ mdSeq \in Nat /\ Good(session, mdSeq)
      /\ session \in Rec /\ Sound(session) /\ Closes(session)
  BY Opening DEF HandshakeFailed, DrainTransport, DrainEnded, GraceExpires, ShutdownDeadline, Inv, Sound
<1>2. ASSUME NEW u, \/ u = [session EXCEPT !.closeOp = "none"]
                    \/ u = [session EXCEPT !.draining = FALSE]
                    \/ u = [session EXCEPT !.grace = FALSE, !.severed = TRUE]
                    \/ u = [session EXCEPT !.severed = TRUE]
                    \/ /\ u = [session EXCEPT !.closeOp = "none", !.grace = TRUE, !.draining = TRUE]
                       /\ session.closeOp # "none"
      PROVE  Keeps(session, u)
  <2>1. /\ u \in Rec
        /\ SameQueue(session, u) /\ SameWire(session, u) /\ SameIntent(session, u)
    <3>1. CASE u = [session EXCEPT !.closeOp = "none"]
      <4>1. u \in Rec
        BY <1>1, <3>1 DEF Rec
      <4>2. QED  BY <1>1, <3>1, <4>1 DEF Rec, SameQueue, SameWire, SameIntent
    <3>2. CASE u = [session EXCEPT !.draining = FALSE]
      <4>1. u \in Rec
        BY <1>1, <3>2 DEF Rec
      <4>2. QED  BY <1>1, <3>2, <4>1 DEF Rec, SameQueue, SameWire, SameIntent
    <3>3. CASE u = [session EXCEPT !.grace = FALSE, !.severed = TRUE]
      <4>1. u \in Rec
        BY <1>1, <3>3 DEF Rec
      <4>2. QED  BY <1>1, <3>3, <4>1 DEF Rec, SameQueue, SameWire, SameIntent
    <3>4. CASE u = [session EXCEPT !.severed = TRUE]
      <4>1. u \in Rec
        BY <1>1, <3>4 DEF Rec
      <4>2. QED  BY <1>1, <3>4, <4>1 DEF Rec, SameQueue, SameWire, SameIntent
    <3>5. CASE u = [session EXCEPT !.closeOp = "none", !.grace = TRUE, !.draining = TRUE]
      <4>1. u \in Rec
        BY <1>1, <3>5, ZenonT(40) DEF Rec
      <4>2. QED  BY <1>1, <3>5, <4>1 DEF Rec, SameQueue, SameWire, SameIntent
    <3>6. QED  BY <1>2, <3>1, <3>2, <3>3, <3>4, <3>5
  <2>2. /\ u.frameSent = session.frameSent /\ u.tornDown = session.tornDown /\ u.recorded = session.recorded
        /\ u.closeOp # "none" => session.closeOp # "none"
        /\ u.draining = TRUE => session.draining = TRUE \/ session.closeOp # "none"
    BY <1>1, <1>2, ZenonT(40) DEF Rec
  <2>3. u.closeOp # "none" \/ u.draining = TRUE => u.frameSent = TRUE
    BY <1>1, <2>2 DEF Closes
  <2>4. QED  BY <1>1, <2>1, <2>2, <2>3, SameKeeps
<1>3. CASE HandshakeFailed \/ DrainEnded
  <2>1. session.closing = TRUE
    BY <1>1, <1>3 DEF HandshakeFailed, DrainEnded, Closes
  <2>2. PICK u : /\ u = [session EXCEPT !.closeOp = "none"] \/ u = [session EXCEPT !.draining = FALSE]
                 /\ session' = Teardown(u, session.code)
    BY <1>3 DEF HandshakeFailed, DrainEnded
  <2>3. Keeps(session, u)
    BY <1>2, <2>2
  <2>4. CodeOr(session, 1) = session.code
    BY <2>1 DEF CodeOr
  <2>5. PICK one \in Nat : session' = Teardown(u, CodeOr(session, one))
    BY <2>2, <2>4
  <2>6. QED  BY <1>1, <2>1, <2>3, <2>5, LeaveStep
<1>4. CASE DrainTransport \/ GraceExpires \/ ShutdownDeadline
  <2>1. Keeps(session, session')
    BY <1>2, <1>4 DEF DrainTransport, GraceExpires, ShutdownDeadline
  <2>2. QED  BY <1>1, <2>1, KeptStep
<1>5. QED  BY <1>3, <1>4

(* The engine takes a book.                                                *)
LEMMA BookKeeps ==
  ASSUME NEW s, Sound(s), NEW x, Filled(s.orders, x), NEW t, t = [s EXCEPT !.orders = x.orders]
  PROVE  Keeps(s, t) /\ t.closing = s.closing /\ t.reports = s.reports
<1>1. s \in Rec /\ Accounted(s) /\ Paired(s) /\ Closes(s)
  BY DEF Sound
<1>2. PICK o \in OrderMap : o = x.orders
  BY DEF Filled
<1>3. t = [s EXCEPT !.orders = o]
  BY <1>2
<1>4. t \in Rec
  BY <1>1, <1>3, ZenonT(40) DEF Rec
<1>5. SameQueue(s, t) /\ SameWire(s, t) /\ SameEnd(s, t)
  BY <1>1, <1>3 DEF Rec, SameQueue, SameWire, SameEnd
<1>6. /\ t.closing = s.closing /\ t.code = s.code /\ t.drain = s.drain /\ t.retired = s.retired
      /\ t.orders = o
  BY <1>1, <1>3 DEF Rec
<1>7. Accounted(t)
  BY <1>1, <1>5 DEF Accounted, SameQueue, SameWire
<1>8. t.reports = s.reports /\ t.made = s.made /\ t.svc = s.svc /\ t.writing = s.writing
      /\ t.sent = s.sent /\ t.unencoded = s.unencoded
  BY <1>5 DEF SameQueue, SameWire
<1>9. Paired(t)
  <2>1. s.writing.kind = "OrderAck" => s.writing.svc = s.writing.n
    BY <1>1 DEF Paired
  <2>2. QED  BY <1>1, <1>8, <2>1, StillPaired
<1>10. Closes(t)
  <2>1. t.retired = TRUE => t.orders = AllFree
    BY <1>1, <1>2, <1>6 DEF Closes, Filled
  <2>2. Cardinality(LiveIds(t.orders)) <= MaxLive
    BY <1>2, <1>6 DEF Filled
  <2>3. QED  BY <1>1, <1>5, <1>6, <1>8, <2>1, <2>2 DEF Closes, SameEnd
<1>11. Follows(s, t)
  BY <1>5, <1>6 DEF Follows, SameWire, SameEnd
<1>12. Len(t.reports) <= Len(s.reports)
  <2>1. Len(s.reports) \in Nat
    BY <1>1, Fields
  <2>2. QED  BY <1>8, <2>1
<1>13. \A md \in Nat : Ticks(s, md) => Ticks(t, md)
  BY <1>5, <1>6 DEF Ticks, SameQueue, SameWire, SameEnd
<1>14. QED  BY <1>4, <1>6, <1>7, <1>8, <1>9, <1>10, <1>11, <1>12, <1>13 DEF Keeps, Sound

Ticked(s, t, md) ==
  /\ Sound(t) /\ Follows(s, t) /\ Len(t.reports) <= Len(s.reports) /\ Ticks(t, md)

(* deliver_tob: the tick of the book just published.                       *)
LEMMA TobKeeps ==
  ASSUME NEW s, Sound(s), s.tornDown = FALSE, NEW md \in Nat, s.closing = FALSE => Ticks(s, md),
         NEW enc \in BOOLEAN, NEW t, t = DeliverTob(s, md + 1, enc)
  PROVE  Ticked(s, t, md + 1)
<1>1. s \in Rec /\ Accounted(s) /\ Paired(s) /\ Closes(s) /\ s.closing \in BOOLEAN
  BY Fields DEF Sound
<1>2. CASE s.closing = TRUE
  <2>1. t = s
    BY <1>2 DEF DeliverTob
  <2>2. Ticks(t, md + 1)
    BY <1>2, <2>1 DEF Ticks
  <2>3. QED  BY <2>1, <2>2, SelfKeeps DEF Ticked, Keeps
<1>3. CASE s.closing = FALSE
  <2>1. PICK n \in Nat : n = md + 1 /\ n # NoTob
    BY DEF NoTob
  <2>2. s.ticks \in Nat /\ s.conflated \in Nat
    BY <1>1, Fields
  <2>3. PICK c \in Nat : c = IF s.tob = NoTob THEN s.conflated ELSE s.conflated + 1
    BY <2>2
  <2>4. PICK u : u = [s EXCEPT !.tob = n, !.conflated = c]
    OBVIOUS
  <2>5. t = Pump(u, enc)
    BY <1>3, <2>1, <2>3, <2>4 DEF DeliverTob, PushTob
  <2>6. u \in Rec
    BY <1>1, <2>4 DEF Rec
  <2>7. SameWire(s, u) /\ SameIntent(s, u) /\ SameEnd(s, u)
    BY <1>1, <2>4 DEF Rec, SameWire, SameIntent, SameEnd
  <2>8. u.reports = s.reports /\ u.made = s.made /\ u.tob = n /\ u.conflated = c
    BY <1>1, <2>4 DEF Rec
  <2>9. Accounted(u)
    BY <1>1, <2>7, <2>8 DEF Accounted, SameWire
  <2>10. Paired(u)
    <3>1. u.svc = s.svc /\ u.writing = s.writing
      BY <2>7 DEF SameWire
    <3>2. s.writing.kind = "OrderAck" => s.writing.svc = s.writing.n
      BY <1>1 DEF Paired
    <3>3. QED  BY <1>1, <2>8, <3>1, <3>2, StillPaired
  <2>11. Closes(u)
    <3>1. u.sent = s.sent /\ u.unencoded = s.unencoded
      BY <2>7 DEF SameWire
    <3>2. QED  BY <1>1, <2>7, <2>8, <3>1 DEF Closes, SameIntent, SameEnd
  <2>12. Ticks(u, n)
    <3>1. s.ticks + s.conflated + (IF s.tob = NoTob THEN 0 ELSE 1) = md
      BY <1>3 DEF Ticks
    <3>2. s.ticks + c + 1 = n
      <4>1. PICK a \in Nat, b \in Nat : a = s.ticks /\ b = s.conflated
        BY <2>2
      <4>2. CASE s.tob = NoTob
        BY <2>1, <2>3, <3>1, <4>1, <4>2
      <4>3. CASE s.tob # NoTob
        <5>1. a + b + 1 = md /\ c = b + 1
          BY <2>3, <3>1, <4>1, <4>3
        <5>2. a + (b + 1) + 1 = md + 1
          BY <5>1
        <5>3. QED  BY <2>1, <4>1, <5>1, <5>2
      <4>4. QED  BY <4>2, <4>3
    <3>3. u.ticks + u.conflated + (IF u.tob = NoTob THEN 0 ELSE 1) = n
      BY <2>1, <2>7, <2>8, <3>2 DEF SameWire
    <3>4. QED  BY <2>8, <3>3 DEF Ticks
  <2>13. Sound(u)
    BY <2>6, <2>9, <2>10, <2>11 DEF Sound
  <2>14. Pumped(u, t)
    BY <2>5, <2>13, PumpKeeps
  <2>15. Sound(t) /\ Follows(u, t) /\ Len(t.reports) <= Len(u.reports) /\ Ticks(t, n)
    BY <2>12, <2>14 DEF Pumped, Keeps
  <2>16. Follows(s, u)
    BY <2>7 DEF Follows, SameWire, SameIntent, SameEnd
  <2>17. Follows(s, t)
    BY <2>15, <2>16 DEF Follows
  <2>18. QED  BY <2>1, <2>8, <2>15, <2>17 DEF Ticked
<1>4. QED  BY <1>1, <1>2, <1>3

(* A book is published: the fills, then the tick.  A session that is       *)
(* closing has no order to fill; an open one grows by at most one fill per *)
(* live order.                                                             *)
LEMMA BookStep ==
  ASSUME Inv, PublishBook
  PROVE  Step(session, session', mdSeq') /\ mdSeq' \in Nat
<1>1. PICK enc \in BOOLEAN, x \in BookOutcomes(session.orders) :
        /\ ~session.tornDown /\ mdSeq' = mdSeq + 1
        /\ session' = DeliverTob(DeliverFills([session EXCEPT !.orders = x.orders],
                                              Cardinality(x.batch), enc),
                                 mdSeq + 1, enc)
  BY DEF PublishBook
<1>2. /\ session \in Rec /\ Sound(session) /\ Closes(session) /\ mdSeq \in Nat /\ session.tornDown = FALSE
      /\ Short(session) /\ Bounded(session) /\ Ticks(session, mdSeq) /\ session.closing \in BOOLEAN
  BY <1>1, Opening DEF Inv, Good, Sound
<1>3. Filled(session.orders, x)
  BY Opening, BookFilled
<1>4. PICK u : u = [session EXCEPT !.orders = x.orders]
  OBVIOUS
<1>5. PICK n \in Nat : n = Cardinality(x.batch) /\ n <= MaxLive
  BY <1>3 DEF Filled
<1>6. PICK w : w = DeliverFills(u, n, enc)
  OBVIOUS
<1>7. session' = DeliverTob(w, mdSeq + 1, enc)
  BY <1>1, <1>4, <1>5, <1>6
<1>8. Keeps(session, u) /\ u.closing = session.closing /\ u.reports = session.reports
  BY <1>2, <1>3, <1>4, BookKeeps
<1>9. /\ Sound(u) /\ u \in Rec /\ Follows(session, u) /\ u.tornDown = FALSE /\ Ticks(u, mdSeq)
  BY <1>2, <1>8 DEF Keeps, Sound, Follows
<1>10. /\ Sound(w) /\ Follows(u, w) /\ (w.closing = FALSE => Ticks(w, mdSeq))
       /\ w.closing = TRUE \/ Len(w.reports) <= ReportHwm
       /\ Bounded(w)
  <2>1. CASE session.closing = TRUE
    <3>1. session.orders = AllFree
      BY <1>2, <2>1 DEF Closes
    <3>2. n = 0
      BY <1>3, <1>5, <3>1 DEF Filled
    <3>3. w = u
      BY <1>6, <3>2, NoFills
    <3>4. Follows(u, u)
      BY DEF Follows
    <3>5. Bounded(u)
      BY <1>2, <1>8 DEF Bounded
    <3>6. QED  BY <1>8, <1>9, <2>1, <3>3, <3>4, <3>5
  <2>2. CASE session.closing = FALSE
    <3>1. u.frameSent = FALSE /\ u.closing = FALSE
      <4>1. Closes(u)
        BY <1>9 DEF Sound
      <4>2. QED  BY <1>8, <1>9, <2>2, <4>1, Fields DEF Closes
    <3>2. Len(u.reports) \in Nat /\ Len(u.reports) <= ReportHwm
      BY <1>2, <1>8, <1>9, <2>2, Fields DEF Short
    <3>3. Loop(u, 0, u)
      <4>1. Delivering(u)
        BY <3>1 DEF Delivering
      <4>2. Follows(u, u)
        BY DEF Follows
      <4>3. Len(u.reports) <= Len(u.reports) + 0
        BY <3>2
      <4>4. QED  BY <1>9, <3>2, <4>1, <4>2, <4>3 DEF Loop
    <3>4. Loop(u, n, w)
      BY <1>5, <1>6, <1>9, <3>3, FillsKeep
    <3>5. /\ Sound(w) /\ Follows(u, w) /\ Ticks(w, mdSeq)
          /\ w.closing = TRUE \/ Len(w.reports) <= ReportHwm
          /\ Len(w.reports) <= Len(u.reports) + n
      BY <1>2, <1>9, <3>4 DEF Loop
    <3>6. Len(w.reports) \in Nat
      BY <3>5, Fields DEF Sound
    <3>7. Len(w.reports) <= ReportHwm + MaxLive
      <4>1. PICK a \in Nat, b \in Nat : a = Len(w.reports) /\ b = Len(u.reports)
        BY <3>2, <3>6
      <4>2. a <= b + n /\ b <= ReportHwm /\ n <= MaxLive
        BY <1>5, <3>2, <3>5, <4>1
      <4>3. a <= ReportHwm + MaxLive
        BY <1>5, <4>2, SessionAssumption, ViewAssumption
      <4>4. QED  BY <4>1, <4>3
    <3>8. QED  BY <3>5, <3>7 DEF Bounded
  <2>3. QED  BY <1>2, <2>1, <2>2
<1>11. w.tornDown = FALSE
  BY <1>9, <1>10 DEF Follows
<1>12. Ticked(w, session', mdSeq + 1)
  BY <1>2, <1>7, <1>10, <1>11, TobKeeps
<1>13. PICK t : t = session'
  OBVIOUS
<1>14. Sound(t) /\ Follows(w, t) /\ Len(t.reports) <= Len(w.reports) /\ Ticks(t, mdSeq + 1)
  BY <1>12, <1>13 DEF Ticked
<1>15. w \in Rec /\ t \in Rec
  BY <1>10, <1>14 DEF Sound
<1>16. PICK a \in Nat, b \in Nat : a = Len(w.reports) /\ b = Len(t.reports) /\ b <= a
  BY <1>14, <1>15, Fields
<1>17. Short(t)
  <2>1. w.closing = TRUE => t.closing = TRUE
    BY <1>14 DEF Follows
  <2>2. Len(w.reports) <= ReportHwm => Len(t.reports) <= ReportHwm
    BY <1>16, SessionAssumption
  <2>3. QED  BY <1>10, <2>1, <2>2 DEF Short
<1>18. Bounded(t)
  <2>1. a <= ReportHwm + 1 \/ a <= ReportHwm + MaxLive
    BY <1>10, <1>16 DEF Bounded
  <2>2. b <= ReportHwm + 1 \/ b <= ReportHwm + MaxLive
    BY <1>16, <2>1, SessionAssumption, ViewAssumption
  <2>3. QED  BY <1>16, <2>2 DEF Bounded
<1>19. Final(session, t)
  <2>1. Follows(session, t)
    BY <1>9, <1>10, <1>14 DEF Follows
  <2>2. QED  BY <2>1 DEF Follows, Final
<1>20. Step(session, t, mdSeq + 1) /\ mdSeq + 1 \in Nat
  BY <1>2, <1>14, <1>17, <1>18, <1>19 DEF Step, Good
<1>21. QED  BY <1>1, <1>13, <1>20

------------------------------------------------------------------------------
(* A new session is good.                                                  *)
LEMMA InitInv == Init => Inv
<1>1. SUFFICES ASSUME Init PROVE Inv
  OBVIOUS
<1>2. session = NewSession /\ mdSeq = 0
  BY <1>1 DEF Init
<1>3. session \in Rec
  <2>1. AllFree \in OrderMap
    BY DEF AllFree, OrderMap
  <2>2. << >> \in Seq(Msg) /\ << >> \in Seq(Nat)
    OBVIOUS
  <2>3. QED  BY <1>2, <2>1, <2>2 DEF NewSession, Rec, NoTob, NoCode
<1>4. /\ session.reports = << >> /\ session.svc = << >> /\ session.made = 0 /\ session.sent = 0
      /\ session.ticks = 0 /\ session.outSeq = 1 /\ session.writing = Idle
  BY <1>2 DEF NewSession
<1>5. /\ session.unencoded = FALSE /\ session.closing = FALSE /\ session.frameSent = FALSE
      /\ session.retired = FALSE /\ session.tornDown = FALSE /\ session.orders = AllFree
      /\ session.closeOp = "none" /\ session.draining = FALSE
      /\ session.tob = NoTob /\ session.conflated = 0
  BY <1>2 DEF NewSession
<1>6. Idle.kind \notin Kinds /\ Idle.kind # "OrderAck"
  BY DEF Idle, Kinds
<1>7. Len(session.reports) = 0 /\ Len(session.svc) = 0
  BY <1>4
<1>8. Accounted(session)
  BY <1>4, <1>5, <1>6, <1>7 DEF Accounted
<1>9. Paired(session)
  BY <1>4, <1>6, <1>7 DEF Paired
<1>10. Closes(session)
  BY <1>5, NoneLive DEF Closes
<1>11. Short(session) /\ Bounded(session)
  BY <1>7, SessionAssumption DEF Short, Bounded
<1>12. Ticks(session, mdSeq)
  BY <1>2, <1>4, <1>5 DEF Ticks
<1>13. QED  BY <1>2, <1>3, <1>8, <1>9, <1>10, <1>11, <1>12 DEF Inv, Good, Sound

(* Every handler keeps the invariant and undoes no part of a close.        *)
LEMMA NextStep ==
  ASSUME Inv, Next
  PROVE  Inv' /\ Final(session, session')
<1>1. ASSUME Step(session, session', mdSeq'), mdSeq' \in Nat
      PROVE  Inv' /\ Final(session, session')
  BY <1>1 DEF Step, Inv
<1>2. CASE ReadFrame
  <2>1. CASE ReadRefused \/ ReadStaleEpoch
    BY <1>1, <2>1, RejectStep
  <2>2. CASE ReadBroken
    BY <1>1, <2>2, CloseStep
  <2>3. CASE \E id \in Ids : ReadNewOrder(id) \/ ReadCancel(id)
    BY <1>1, <2>3, OrderStep
  <2>4. QED  BY <1>2, <2>1, <2>2, <2>3 DEF ReadFrame
<1>3. CASE ReadClosed \/ ReadFails
  BY <1>1, <1>3, ReadEndStep DEF ReadFails
<1>4. CASE ReadTooBig
  BY <1>1, <1>4, TooBigStep
<1>5. CASE WriteDone \/ WriteFailed
  BY <1>1, <1>5, WriteStep
<1>6. CASE HandshakeFailed \/ DrainTransport \/ DrainEnded \/ GraceExpires \/ ShutdownDeadline
  BY <1>1, <1>6, TimerStep
<1>7. CASE PublishBook
  BY <1>1, <1>7, BookStep
<1>8. CASE DropSessions \/ BeginStop
  BY <1>1, <1>8, CloseStep
<1>9. QED  BY <1>2, <1>3, <1>4, <1>5, <1>6, <1>7, <1>8 DEF Next

(* The inductive invariant: what was produced is accounted for, paired and *)
(* within its bound, and the flags of the close agree.                     *)
THEOREM Soundness == Spec => []Inv
<1>1. Inv /\ [Next]_vars => Inv'
  <2>1. ASSUME Inv, Next PROVE Inv'
    BY <2>1, NextStep
  <2>2. ASSUME Inv, UNCHANGED vars PROVE Inv'
    BY <2>2 DEF Inv, vars
  <2>3. QED  BY <2>1, <2>2
<1>2. QED  BY <1>1, InitInv, PTL DEF Spec

(* What the invariant says of the session.                                 *)
LEMMA InvSays ==
  ASSUME Inv
  PROVE  MessagesAccounted /\ PolicyCloseDrains /\ RetiredAtIntent /\ ReportQueueBounded
<1>1. /\ session \in Rec /\ Accounted(session) /\ Paired(session) /\ Closes(session)
      /\ Bounded(session) /\ Ticks(session, mdSeq)
  BY DEF Inv, Good, Sound
<1>2. /\ session.closing \in BOOLEAN /\ session.frameSent \in BOOLEAN /\ session.tornDown \in BOOLEAN
      /\ session.unencoded \in BOOLEAN /\ session.reports \in Seq(Msg) /\ session.svc \in Seq(Nat)
      /\ session.made \in Nat /\ session.sent \in Nat /\ Len(session.reports) \in Nat
  BY <1>1, Fields
<1>3. ReportsNeverLost
  <2>1. session.unencoded = FALSE => session.made - (session.sent + Len(session.reports)) = 0
    <3>1. \A a, b, c \in Nat : a = b + c => a - (b + c) = 0
      OBVIOUS
    <3>2. session.unencoded = FALSE => session.made = session.sent + Len(session.reports)
      BY <1>1 DEF Accounted
    <3>3. QED  BY <1>2, <3>1, <3>2
  <2>2. session.unencoded = TRUE => session.made - (session.sent + Len(session.reports)) \in {0, 1}
    BY <1>1 DEF Accounted
  <2>3. session.made - (session.sent + Len(session.reports)) \in IF session.unencoded THEN {0, 1} ELSE {0}
    BY <1>2, <2>1, <2>2
  <2>4. session.unencoded => session.closing
    BY <1>1, <1>2 DEF Closes
  <2>5. /\ \A i \in 1 .. Len(session.reports) :
             session.reports[i].n = session.made - Len(session.reports) + i
        /\ session.writing.kind \in Kinds => session.writing.n = session.sent
        /\ session.writing # Idle => session.writing.seq = session.sent + session.ticks
    BY <1>1 DEF Accounted
  <2>6. QED  BY <2>3, <2>4, <2>5 DEF ReportsNeverLost
<1>4. TicksAccounted
  BY <1>1, <1>2 DEF Ticks, TicksAccounted
<1>5. SvcPairs
  <2>1. PICK q \in Seq(Msg) : q = session.reports
    BY <1>2
  <2>2. PICK v \in Seq(Nat) : v = session.svc
    BY <1>2
  <2>3. /\ \A i \in 1 .. Len(v) : \E j \in 1 .. Len(q) : q[j].kind = "OrderAck" /\ q[j].n = v[i]
        /\ \A j \in 1 .. Len(q) : q[j].kind = "OrderAck" => \E i \in 1 .. Len(v) : v[i] = q[j].n
        /\ \A i, j \in 1 .. Len(v) : i < j => v[i] < v[j]
    BY <1>1, <2>1, <2>2, Zenon DEF Paired
  <2>4. DOMAIN q = 1 .. Len(q) /\ DOMAIN v = 1 .. Len(v)
    OBVIOUS
  <2>5. {v[i] : i \in DOMAIN v} = {q[i].n : i \in {j \in DOMAIN q : q[j].kind = "OrderAck"}}
    <3>1. PICK A : A = {v[i] : i \in DOMAIN v}
      OBVIOUS
    <3>2. PICK J : J = {j \in DOMAIN q : q[j].kind = "OrderAck"}
      OBVIOUS
    <3>3. PICK B : B = {q[i].n : i \in J}
      OBVIOUS
    <3>4. ASSUME NEW a \in A PROVE a \in B
      <4>1. PICK i \in DOMAIN v : a = v[i]
        BY <3>1
      <4>2. PICK j \in 1 .. Len(q) : q[j].kind = "OrderAck" /\ q[j].n = v[i]
        BY <2>3, <2>4
      <4>3. j \in J
        BY <2>4, <3>2, <4>2
      <4>4. QED  BY <3>3, <4>1, <4>2, <4>3
    <3>5. ASSUME NEW b \in B PROVE b \in A
      <4>1. PICK j \in J : b = q[j].n
        BY <3>3
      <4>2. j \in 1 .. Len(q) /\ q[j].kind = "OrderAck"
        BY <2>4, <3>2
      <4>3. PICK i \in 1 .. Len(v) : v[i] = q[j].n
        BY <2>3, <4>2
      <4>4. QED  BY <2>4, <3>1, <4>1, <4>3
    <3>6. A = B
      BY <3>4, <3>5
    <3>7. QED  BY <3>1, <3>2, <3>3, <3>6
  <2>6. session.writing.kind = "OrderAck" => session.writing.svc = session.writing.n
    BY <1>1 DEF Paired
  <2>7. {session.svc[i] : i \in DOMAIN session.svc} =
          {session.reports[i].n :
             i \in {j \in DOMAIN session.reports : session.reports[j].kind = "OrderAck"}}
    BY <2>1, <2>2, <2>5, ZenonT(40)
  <2>8. \A i, j \in DOMAIN session.svc : i < j => session.svc[i] < session.svc[j]
    BY <2>2, <2>3, <2>4
  <2>9. QED  BY <2>6, <2>7, <2>8 DEF SvcPairs
<1>6. PolicyCloseDrains
  BY <1>1, <1>2 DEF Closes, PolicyCloseDrains
<1>7. RetiredAtIntent
  <2>1. session.closing = TRUE \/ session.tornDown = TRUE => session.orders = AllFree
    BY <1>1 DEF Closes
  <2>2. QED  BY <1>2, <2>1, NoneLive DEF RetiredAtIntent
<1>8. ReportQueueBounded
  BY <1>1 DEF Bounded, ReportQueueBounded
<1>9. QED  BY <1>3, <1>4, <1>5, <1>6, <1>7, <1>8 DEF MessagesAccounted

(* Between the engine and the socket nothing is lost, duplicated,          *)
(* reordered or paired with another's service time (Outbox, pump).         *)
THEOREM NothingIsLost == Spec => []MessagesAccounted
BY Soundness, InvSays, PTL

(* A policy close sends its close frame after the last report.             *)
THEOREM PolicyClosesDrain == Spec => []PolicyCloseDrains
BY Soundness, InvSays, PTL

(* No order of a session that is leaving rests in the engine.              *)
THEOREM EpochIsRetired == Spec => []RetiredAtIntent
BY Soundness, InvSays, PTL

(* The report queue stays within the mark and the fills of one book.       *)
THEOREM QueueIsBounded == Spec => []ReportQueueBounded
BY Soundness, InvSays, PTL

(* A close is decided once and ends the conversation (latch_close, pump,   *)
(* teardown).                                                              *)
THEOREM ClosesAreFinal == Spec => CloseIsFinal
<1>1. Inv /\ [Next]_vars =>
        [ /\ session.frameSent =>
               /\ session'.sent = session.sent
               /\ session'.ticks = session.ticks
          /\ session.closing => session'.code = session.code
          /\ (session'.tornDown /\ ~session.tornDown) =>
               /\ session'.recorded # NoCode
               /\ session.closing => session'.recorded = session.code
          /\ session.tornDown => session'.recorded = session.recorded ]_vars
  <2>1. SUFFICES ASSUME Inv, Next
                 PROVE  /\ session.frameSent => session'.sent = session.sent /\ session'.ticks = session.ticks
                        /\ session.closing => session'.code = session.code
                        /\ (session'.tornDown /\ ~session.tornDown) =>
                             /\ session'.recorded # NoCode
                             /\ session.closing => session'.recorded = session.code
                        /\ session.tornDown => session'.recorded = session.recorded
    OBVIOUS
  <2>2. Inv' /\ Final(session, session')
    BY <2>1, NextStep
  <2>3. session \in Rec /\ session' \in Rec
    BY <2>1, <2>2 DEF Inv, Good, Sound
  <2>4. /\ session.frameSent \in BOOLEAN /\ session.closing \in BOOLEAN /\ session.tornDown \in BOOLEAN
        /\ session'.tornDown \in BOOLEAN
    BY <2>3, Fields
  <2>5. QED  BY <2>2, <2>4 DEF Final
<1>2. QED  BY <1>1, Soundness, PTL DEF Spec, CloseIsFinal

==============================================================================
