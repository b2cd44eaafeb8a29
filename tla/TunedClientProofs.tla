-------------------------- MODULE TunedClientProofs --------------------------
(***************************************************************************)
(* The tuned adapter, for every number of attempts, every cap and every    *)
(* sequence of frames: fragments reassemble exactly, a verdict is told as  *)
(* one and connections never meet in the Strategy.                         *)
(***************************************************************************)
EXTENDS TunedClient, FiniteSetTheorems, SequenceTheorems, TLAPS

Raisings == {"none"} \cup Raised

Codes == {NoCode, Normal, Away, Protocol, BadPayload, TooBig, Internal, Stale}

Listener ==
  [dataEnded : BOOLEAN, closeReceived : BOOLEAN, finalized : BOOLEAN,
   opened : BOOLEAN, size : Nat, error : Raisings, done : BOOLEAN,
   peerClose : BOOLEAN, intent : Codes, closeSent : Codes,
   parserError : BOOLEAN, disconnected : BOOLEAN, fed : Nat]

TypeOK ==
  /\ listener \in [Conns -> Listener]
  /\ log \in Seq(DataFrames)
  /\ conn \in 0 .. MaxAttempts
  /\ strat \in 0 .. MaxAttempts
  /\ main \in {"dialing", "connected", "waiting", "grace", "teardown", "ended", "exited"}
  /\ raising \in Raisings
  /\ stop \in BOOLEAN /\ stopped \in BOOLEAN
  /\ main = "dialing" => conn < MaxAttempts
  /\ main # "dialing" => conn > 0
  /\ \A c \in Conns : c > conn => listener[c] = NewListener

(* What is true of every listener at any time: a session that is over takes *)
(* no data, a close frame ends the data, and a close frame that carries a   *)
(* verdict has one latched, or picows' refusal to be heard of.              *)
Sound(l) ==
  /\ l.finalized => l.dataEnded
  /\ l.closeSent # NoCode => l.dataEnded
  /\ l.closeSent \in Verdicts => l.intent # NoCode \/ (l.parserError /\ l.disconnected)

(* run_client has ended the data of a connection before it waits for the    *)
(* peer's close, and nothing can reach a connection it has left.            *)
Left(c) == c < conn \/ main \in {"dialing", "ended", "exited"}

ListenersInv ==
  /\ \A c \in Conns : Sound(listener[c])
  /\ main \in {"grace", "teardown"} => listener[conn].dataEnded
  /\ main \in {"connected", "waiting", "grace", "teardown"} =>
       (listener[conn].disconnected => listener[conn].finalized)
  /\ \A c \in Conns : c <= conn /\ Left(c) => listener[c].finalized \/ listener[c].disconnected

(* The Strategy is in the session of the connection being driven, if any.   *)
StrategyInv ==
  strat # 0 => strat = conn /\ ~Left(conn) /\ ~listener[conn].finalized

(* How the ending told relates to the verdict latched.                      *)
EndingInv ==
  /\ main = "ended" /\ listener[conn].closeSent \in Verdicts => ending \in {"Decided"} \cup Raised
  /\ main = "ended" /\ ending = "PeerGone" => listener[conn].intent = NoCode
  /\ main = "dialing" /\ conn > 0 => listener[conn].intent = NoCode \/ ending = "OSError"

------------------------------------------------------------------------------
(* A step of one listener: typed, sound, and what is latched stays.         *)
Step(l, r) ==
  /\ r \in Listener
  /\ Sound(r)
  /\ l.intent # NoCode => r.intent = l.intent
  /\ l.dataEnded => r.dataEnded
  /\ l.finalized => r.finalized
  /\ l.disconnected => r.disconnected
  /\ r.disconnected => l.disconnected \/ r.finalized

(* The close codes are what they are.                                       *)
LEMMA CodeFacts ==
  /\ {NoCode, Normal, Away, Protocol, BadPayload, TooBig, Internal, Stale} \subseteq Codes
  /\ {Protocol, BadPayload, TooBig, Stale} \subseteq Verdicts
  /\ {NoCode, Normal, Away, Internal} \cap Verdicts = {}
  /\ NoCode \notin {Normal, Away, Protocol, BadPayload, TooBig, Internal, Stale}
BY DEF Codes, NoCode, Normal, Away, Protocol, BadPayload, TooBig, Internal, Stale, Verdicts

(* The fields that finish, _latch and _close leave alone.                   *)
Rest(l, r) ==
  /\ r.finalized = l.finalized /\ r.closeReceived = l.closeReceived
  /\ r.error = l.error /\ r.parserError = l.parserError
  /\ r.disconnected = l.disconnected /\ r.fed = l.fed

(* finish ends the data.                                                    *)
LEMMA FinishDoes ==
  ASSUME NEW l \in Listener
  PROVE  /\ Finish(l) \in Listener /\ Rest(l, Finish(l))
         /\ Finish(l).dataEnded = TRUE
         /\ Finish(l).intent = l.intent /\ Finish(l).closeSent = l.closeSent
BY DEF Listener, Finish, Rest

(* _latch keeps the first code.                                             *)
LEMMA LatchDoes ==
  ASSUME NEW l \in Listener, NEW code \in Codes
  PROVE  /\ Latch(l, code) \in Listener /\ Rest(l, Latch(l, code))
         /\ Latch(l, code).dataEnded = l.dataEnded
         /\ Latch(l, code).intent = (IF l.intent = NoCode THEN code ELSE l.intent)
         /\ Latch(l, code).closeSent = l.closeSent
BY DEF Listener, Latch, Rest

(* _close sends one close frame, with the code latched.                     *)
LEMMA CloseDoes ==
  ASSUME NEW l \in Listener
  PROVE  /\ Close(l) \in Listener /\ Rest(l, Close(l))
         /\ Close(l).dataEnded = l.dataEnded
         /\ Close(l).intent = l.intent
         /\ Close(l).closeSent = (IF l.closeSent # NoCode \/ l.disconnected THEN l.closeSent
                                  ELSE IF l.intent = NoCode THEN Normal ELSE l.intent)
BY CodeFacts DEF Listener, Close, Rest

(* Dropping fragments touches nothing else.                                 *)
LEMMA DropDoes ==
  ASSUME NEW l \in Listener
  PROVE  /\ DropFragments(l) \in Listener /\ Rest(l, DropFragments(l))
         /\ DropFragments(l).dataEnded = l.dataEnded
         /\ DropFragments(l).intent = l.intent
         /\ DropFragments(l).closeSent = l.closeSent
BY DEF Listener, DropFragments, Rest

(* _latch, _close and finish in this order, which every verdict is.         *)
LEMMA VerdictDoes ==
  ASSUME NEW l \in Listener, Sound(l), NEW code \in Codes \ {NoCode},
         NEW r, r = Finish(Close(Latch(l, code)))
  PROVE  /\ Step(l, r) /\ Rest(l, r) /\ r.dataEnded
         /\ r.intent = IF l.intent = NoCode THEN code ELSE l.intent
<1> DEFINE h == Latch(l, code)
           k == Close(h)
<1>1. /\ h \in Listener /\ Rest(l, h) /\ h.closeSent = l.closeSent
      /\ h.intent = IF l.intent = NoCode THEN code ELSE l.intent
  BY LatchDoes
<1> HIDE DEF h
<1>2. /\ k \in Listener /\ Rest(h, k) /\ k.intent = h.intent
      /\ k.closeSent = IF h.closeSent # NoCode \/ h.disconnected THEN h.closeSent
                       ELSE IF h.intent = NoCode THEN Normal ELSE h.intent
  BY <1>1, CloseDoes
<1> HIDE DEF k
<1>3. r \in Listener /\ Rest(k, r) /\ r.dataEnded /\ r.intent = k.intent /\ r.closeSent = k.closeSent
  BY <1>2, FinishDoes DEF h, k
<1>4. Rest(l, r)
  BY <1>1, <1>2, <1>3 DEF Rest
<1>5. Sound(r)
  BY <1>1, <1>2, <1>3, CodeFacts DEF Rest, Sound
<1>6. QED  BY <1>1, <1>2, <1>3, <1>4, <1>5 DEF Step, Rest

(* A step of a listener that ends its data.                                 *)
Ends(l, r) == Step(l, r) /\ r.dataEnded /\ r.fed = l.fed

(* A framing verdict.                                                       *)
LEMMA AbortDoes ==
  ASSUME NEW l \in Listener, Sound(l), NEW code \in {Protocol, TooBig}
  PROVE  /\ Ends(l, Abort(l, code)) /\ Rest(l, Abort(l, code))
         /\ l.intent = NoCode => Abort(l, code).intent = code
<1> DEFINE d == DropFragments(l)
<1>1. /\ d \in Listener /\ Rest(l, d) /\ d.dataEnded = l.dataEnded
      /\ d.intent = l.intent /\ d.closeSent = l.closeSent
  BY DropDoes
<1>2. Abort(l, code) = Finish(Close(Latch(d, code)))
  BY DEF Abort
<1> HIDE DEF d
<1>3. Sound(d)
  BY <1>1 DEF Sound, Rest
<1>4. /\ Step(d, Abort(l, code)) /\ Rest(d, Abort(l, code)) /\ Abort(l, code).dataEnded
      /\ Abort(l, code).intent = IF d.intent = NoCode THEN code ELSE d.intent
  BY <1>1, <1>2, <1>3, CodeFacts, VerdictDoes
<1>5. QED  BY <1>1, <1>4 DEF Step, Rest, Ends

(* finalize ends the session of a listener and keeps its codes.             *)
LEMMA FinalizeDoes ==
  ASSUME NEW l \in Listener, Sound(l)
  PROVE  /\ Ends(l, Finalize(l))
         /\ Finalize(l).finalized
         /\ Finalize(l).intent = l.intent /\ Finalize(l).closeSent = l.closeSent
         /\ Finalize(l).disconnected = l.disconnected
<1>1. CASE l.finalized
  BY <1>1 DEF Finalize, Sound, Ends, Step
<1>2. CASE ~l.finalized
  <2> DEFINE d == [l EXCEPT !.finalized = TRUE, !.peerClose = TRUE]
  <2>1. /\ d \in Listener /\ d.finalized /\ d.intent = l.intent /\ d.closeSent = l.closeSent
        /\ d.disconnected = l.disconnected /\ d.parserError = l.parserError /\ d.fed = l.fed
    BY DEF Listener
  <2>2. Finalize(l) = Finish(d)
    BY <1>2 DEF Finalize
  <2> HIDE DEF d
  <2>3. /\ Finish(d) \in Listener /\ Rest(d, Finish(d)) /\ Finish(d).dataEnded = TRUE
        /\ Finish(d).intent = l.intent /\ Finish(d).closeSent = l.closeSent
    BY <2>1, FinishDoes
  <2>4. QED  BY <1>2, <2>1, <2>2, <2>3 DEF Sound, Ends, Step, Rest
<1>3. QED  BY <1>1, <1>2

(* The head of the finally block.                                           *)
LEMMA CleanupDoes ==
  ASSUME NEW l \in Listener, Sound(l)
  PROVE  Ends(l, Cleanup(l)) /\ Rest(l, Cleanup(l))
<1> DEFINE d == [l EXCEPT !.dataEnded = TRUE]
<1>1. /\ d \in Listener /\ d.dataEnded = TRUE /\ d.intent = l.intent /\ d.closeSent = l.closeSent
      /\ Rest(l, d)
  BY DEF Listener, Rest
<1>2. Cleanup(l) = Close(d)
  BY DEF Cleanup
<1> HIDE DEF d
<1>3. /\ Close(d) \in Listener /\ Rest(d, Close(d)) /\ Close(d).dataEnded = d.dataEnded
      /\ Close(d).intent = d.intent
      /\ Close(d).closeSent = (IF d.closeSent # NoCode \/ d.disconnected THEN d.closeSent
                               ELSE IF d.intent = NoCode THEN Normal ELSE d.intent)
  BY <1>1, CloseDoes
<1>4. Rest(l, Close(d))
  BY <1>1, <1>3 DEF Rest
<1>5. Sound(Close(d))
  BY <1>1, <1>3, <1>4, CodeFacts DEF Sound, Rest
<1>6. QED  BY <1>1, <1>2, <1>3, <1>4, <1>5 DEF Ends, Step, Rest

(* What a legal or an illegal close frame of the peer makes of a listener.  *)
PeerClosed(l, legal) ==
  LET d == DropFragments(l)
      judged == IF legal THEN d ELSE Latch(d, Protocol)
      answered == IF d.closeSent # NoCode THEN judged
                  ELSE [judged EXCEPT !.closeSent = IF legal THEN Away ELSE Protocol]
  IN  Finish([answered EXCEPT !.closeReceived = TRUE, !.peerClose = TRUE])

(* _on_peer_close answers and ends the data.                                *)
LEMMA PeerCloseDoes ==
  ASSUME NEW l \in Listener, Sound(l), NEW legal \in BOOLEAN, NEW r, r = PeerClosed(l, legal)
  PROVE  Ends(l, r) /\ r.finalized = l.finalized /\ r.disconnected = l.disconnected
<1> DEFINE d == DropFragments(l)
           judged == IF legal THEN d ELSE Latch(d, Protocol)
           answered == IF d.closeSent # NoCode THEN judged
                       ELSE [judged EXCEPT !.closeSent = IF legal THEN Away ELSE Protocol]
           heard == [answered EXCEPT !.closeReceived = TRUE, !.peerClose = TRUE]
<1>1. /\ d \in Listener /\ Rest(l, d) /\ d.dataEnded = l.dataEnded
      /\ d.intent = l.intent /\ d.closeSent = l.closeSent
  BY DropDoes
<1> HIDE DEF d
<1>2. /\ judged \in Listener /\ Rest(d, judged) /\ judged.closeSent = d.closeSent
      /\ judged.intent = IF legal \/ d.intent # NoCode THEN d.intent ELSE Protocol
  BY <1>1, LatchDoes, CodeFacts, ZenonT(60) DEF Rest
<1> HIDE DEF judged
<1>3. /\ answered \in Listener /\ Rest(judged, answered) /\ answered.intent = judged.intent
      /\ answered.closeSent = IF d.closeSent # NoCode THEN judged.closeSent
                              ELSE IF legal THEN Away ELSE Protocol
  BY <1>1, <1>2, CodeFacts, ZenonT(60) DEF Rest, Listener
<1> HIDE DEF answered
<1>4. /\ heard \in Listener /\ heard.intent = answered.intent /\ heard.closeSent = answered.closeSent
      /\ heard.finalized = answered.finalized /\ heard.disconnected = answered.disconnected
      /\ heard.parserError = answered.parserError /\ heard.fed = answered.fed
  BY <1>3 DEF Listener
<1>5. r = Finish(heard)
  BY DEF PeerClosed, heard, answered, judged, d
<1> HIDE DEF heard
<1>6. /\ r \in Listener /\ Rest(heard, r) /\ r.dataEnded
      /\ r.intent = heard.intent /\ r.closeSent = heard.closeSent
  BY <1>4, <1>5, FinishDoes
<1>7. /\ r.finalized = l.finalized /\ r.disconnected = l.disconnected
      /\ r.parserError = l.parserError /\ r.fed = l.fed
  BY <1>1, <1>2, <1>3, <1>4, <1>6 DEF Rest
<1>8. Sound(r)
  BY <1>1, <1>2, <1>3, <1>4, <1>6, <1>7, CodeFacts DEF Sound
<1>9. QED  BY <1>1, <1>2, <1>3, <1>4, <1>6, <1>7, <1>8 DEF Ends, Step

(* A disconnect, by picows' parser or by the transport, then finalize.      *)
LEMMA DisconnectDoes ==
  ASSUME NEW l \in Listener, Sound(l), NEW d \in Listener,
         d.disconnected, d.finalized = l.finalized, d.intent = l.intent, d.fed = l.fed,
         d.dataEnded = l.dataEnded,
         \/ d.closeSent = l.closeSent /\ d.parserError = l.parserError
         \/ /\ d.parserError
            /\ d.closeSent = IF l.closeSent = NoCode THEN Protocol ELSE l.closeSent
  PROVE  /\ Ends(l, Finalize(d)) /\ Finalize(d).finalized /\ Finalize(d).disconnected
         /\ Finalize(d).intent = l.intent /\ Finalize(d).closeSent = d.closeSent
<1>1. CASE l.finalized
  <2>1. Finalize(d) = d
    BY <1>1 DEF Finalize
  <2>2. QED  BY <1>1, <2>1, CodeFacts DEF Sound, Ends, Step
<1>2. CASE ~l.finalized
  <2> DEFINE e == [d EXCEPT !.finalized = TRUE, !.peerClose = TRUE]
  <2>1. /\ e \in Listener /\ e.finalized /\ e.intent = d.intent /\ e.closeSent = d.closeSent
        /\ e.disconnected = d.disconnected /\ e.parserError = d.parserError /\ e.fed = d.fed
    BY DEF Listener
  <2>2. Finalize(d) = Finish(e)
    BY <1>2 DEF Finalize
  <2> HIDE DEF e
  <2>3. /\ Finish(e) \in Listener /\ Rest(e, Finish(e)) /\ Finish(e).dataEnded = TRUE
        /\ Finish(e).intent = e.intent /\ Finish(e).closeSent = e.closeSent
    BY <2>1, FinishDoes
  <2>4. Sound(Finish(e))
    BY <2>1, <2>3, CodeFacts DEF Sound, Rest
  <2>5. QED  BY <1>2, <2>1, <2>2, <2>3, <2>4 DEF Ends, Step, Rest
<1>3. QED  BY <1>1, <1>2

------------------------------------------------------------------------------
(* What _dispatch asks of a listener before it looks at a data frame.       *)
Reading(l) == ~l.closeReceived /\ ~l.dataEnded /\ l.intent = NoCode

Completes(f) == f.fin /\ f.body \in Delivered

(* A callback that raises ends the data.                                    *)
LEMMA FailsDoes ==
  ASSUME NEW l \in Listener, Sound(l), NEW kind \in Raised, NEW r, r = Fails(l, kind)
  PROVE  Ends(l, r) /\ r.finalized = l.finalized /\ r.disconnected = l.disconnected
         /\ r.intent = l.intent
<1> DEFINE d == DropFragments(l)
           e == Finish(d)
<1>1. d \in Listener /\ Rest(l, d) /\ d.intent = l.intent
  BY DropDoes
<1> HIDE DEF d
<1>2. e \in Listener /\ Rest(d, e) /\ e.dataEnded = TRUE /\ e.intent = d.intent
  BY <1>1, FinishDoes
<1>3. r = [e EXCEPT !.error = kind, !.closeSent = Internal]
  BY DEF Fails, d, e
<1> HIDE DEF e
<1>4. /\ r \in Listener /\ r.fed = e.fed /\ r.finalized = e.finalized
      /\ r.dataEnded = TRUE /\ r.intent = e.intent /\ r.closeSent = Internal
      /\ r.disconnected = e.disconnected
  <2>1. Internal \in Codes /\ kind \in Raisings
    BY CodeFacts DEF Raisings
  <2>2. QED  BY <1>2, <1>3, <2>1 DEF Listener
<1>5. QED  BY <1>1, <1>2, <1>4, CodeFacts DEF Ends, Step, Sound, Rest

(* A whole message.                                                         *)
LEMMA OnMessageDoes ==
  ASSUME NEW l \in Listener, Sound(l), Reading(l), NEW body \in Bodies,
         NEW r, r = OnMessage(l, body)
  PROVE  /\ Step(l, r) /\ r.finalized = l.finalized
         /\ r.fed = IF body \in Delivered THEN l.fed + 1 ELSE l.fed
         /\ ~r.dataEnded => r.opened = l.opened /\ r.size = l.size
<1> DEFINE k == [l EXCEPT !.fed = @ + 1]
<1>0. /\ k \in Listener /\ k.fed = l.fed + 1 /\ k.opened = l.opened /\ k.size = l.size
      /\ k.finalized = l.finalized /\ k.dataEnded = l.dataEnded /\ k.intent = l.intent
      /\ k.closeSent = l.closeSent /\ k.parserError = l.parserError
      /\ k.disconnected = l.disconnected
  BY DEF Listener
<1>a. Step(l, k) /\ Sound(k)
  BY <1>0 DEF Step, Sound
<1>b. /\ body = "ok" => r = k
      /\ body \in {"utf8", "junk"} => \E code \in Codes \ {NoCode} : r = Finish(Close(Latch(l, code)))
      /\ body = "gap" => r = Finish(Close(Latch(k, Protocol)))
      /\ body = "raises" => r = Fails(k, "RuntimeError")
      /\ body = "lost" => r = Fails(k, "OSError")
      /\ body = "gaplost" => r = Fails(Latch(k, Protocol), "OSError")
  BY CodeFacts DEF OnMessage
<1> HIDE DEF k
<1>c. \A s : Step(k, s) => Step(l, s)
  BY <1>0 DEF Step
<1>1. CASE body = "ok"
  BY <1>0, <1>1, <1>a, <1>b DEF Delivered
<1>2. CASE body \in {"utf8", "junk"}
  <2>1. PICK code \in Codes \ {NoCode} : r = Finish(Close(Latch(l, code)))
    BY <1>2, <1>b
  <2>2. QED  BY <1>2, <2>1, VerdictDoes DEF Rest, Delivered
<1>3. CASE body = "gap"
  <2>1. Step(k, r) /\ Rest(k, r) /\ r.dataEnded
    BY <1>0, <1>3, <1>a, <1>b, VerdictDoes, CodeFacts
  <2>2. QED  BY <1>0, <1>3, <1>c, <2>1 DEF Rest, Delivered
<1>4. CASE body \in {"raises", "lost"}
  <2>1. PICK kind \in Raised : r = Fails(k, kind)
    BY <1>4, <1>b DEF Raised
  <2>2. Ends(k, r) /\ r.finalized = k.finalized
    BY <1>0, <1>a, <2>1, FailsDoes
  <2>3. QED  BY <1>0, <1>4, <1>c, <2>2 DEF Ends, Delivered
<1>5. CASE body = "gaplost"
  <2>1. PICK h : h = Latch(k, Protocol)
    OBVIOUS
  <2>2. /\ h \in Listener /\ Rest(k, h) /\ h.dataEnded = k.dataEnded /\ h.closeSent = k.closeSent
        /\ h.intent = (IF k.intent = NoCode THEN Protocol ELSE k.intent)
    BY <1>0, <2>1, LatchDoes, CodeFacts
  <2>3. Sound(h) /\ Step(k, h)
    BY <1>0, <1>a, <2>2, CodeFacts DEF Sound, Step, Rest
  <2>4. Ends(h, r) /\ r.finalized = h.finalized
    BY <1>5, <1>b, <2>1, <2>2, <2>3, FailsDoes DEF Raised
  <2>5. Step(k, r)
    BY <2>3, <2>4 DEF Step, Ends
  <2>6. QED  BY <1>0, <1>5, <1>c, <2>2, <2>4, <2>5 DEF Ends, Rest, Delivered
<1>6. QED  BY <1>1, <1>2, <1>3, <1>4, <1>5 DEF Bodies, Delivered

(* The frames _reassemble takes.                                            *)
Accepts(l, f) ==
  /\ (f.op = "cont") <=> l.opened
  /\ (f.fin /\ ~l.opened) \/ l.size + 1 <= MaxMsg

(* A frame that is taken is kept, or completes a message; one that is not   *)
(* is a framing verdict.                                                    *)
LEMMA ReassembleDoes ==
  ASSUME NEW l \in Listener, Sound(l), Reading(l), ~l.opened => l.size = 0,
         NEW f \in DataFrames, NEW r, r = Reassemble(l, f)
  PROVE  /\ Step(l, r) /\ r.finalized = l.finalized
         /\ ~Accepts(l, f) => r.dataEnded /\ r.intent \in {Protocol, TooBig} /\ r.fed = l.fed
         /\ Accepts(l, f) => r.fed = IF Completes(f) THEN l.fed + 1 ELSE l.fed
         /\ Accepts(l, f) /\ ~r.dataEnded =>
              /\ r.opened = ~f.fin
              /\ r.size = IF f.fin THEN 0 ELSE l.size + 1
<1>1. /\ f.op \in {"text", "cont"} /\ f.fin \in BOOLEAN
      /\ f.body \in Bodies /\ (f.fin \/ f.body = "ok")
      /\ l.opened \in BOOLEAN /\ l.size \in Nat
  BY DEF DataFrames, Listener
<1>2. MaxMsg \in Nat
  BY TunedAssumption
<1>3. CASE (f.op = "cont") # l.opened
  <2>1. r = Abort(l, Protocol) /\ ~Accepts(l, f)
    BY <1>1, <1>3 DEF Reassemble, Accepts
  <2>2. QED  BY <2>1, AbortDoes DEF Ends, Rest, Reading
<1>4. CASE (f.op = "cont") = l.opened
  <2>1. CASE f.fin /\ ~l.opened
    <3>1. r = OnMessage(l, f.body) /\ Accepts(l, f)
      BY <1>1, <1>4, <2>1 DEF Reassemble, Accepts
    <3>2. QED  BY <1>1, <2>1, <3>1, OnMessageDoes DEF Completes
  <2>2. CASE ~(f.fin /\ ~l.opened) /\ l.size + 1 > MaxMsg
    <3>1. r = Abort(l, TooBig) /\ ~Accepts(l, f)
      BY <1>1, <1>2, <1>4, <2>2 DEF Reassemble, Accepts
    <3>2. QED  BY <3>1, AbortDoes DEF Ends, Rest, Reading
  <2>3. CASE ~(f.fin /\ ~l.opened) /\ ~(l.size + 1 > MaxMsg) /\ f.fin
    <3> DEFINE d == DropFragments(l)
    <3>1. r = OnMessage(d, f.body) /\ Accepts(l, f)
      BY <1>1, <1>2, <1>4, <2>3 DEF Reassemble, Accepts
    <3>2. /\ d \in Listener /\ Rest(l, d) /\ d.dataEnded = l.dataEnded
          /\ d.intent = l.intent /\ d.closeSent = l.closeSent
      BY DropDoes
    <3>3. d.opened = FALSE /\ d.size = 0
      BY DEF DropFragments, Listener
    <3> HIDE DEF d
    <3>4. Sound(d) /\ Reading(d)
      BY <3>2 DEF Sound, Reading, Rest
    <3>5. /\ Step(d, r) /\ r.finalized = d.finalized
          /\ r.fed = IF f.body \in Delivered THEN d.fed + 1 ELSE d.fed
          /\ ~r.dataEnded => r.opened = d.opened /\ r.size = d.size
      BY <1>1, <3>1, <3>2, <3>4, OnMessageDoes
    <3>6. QED  BY <2>3, <3>1, <3>2, <3>3, <3>5 DEF Completes, Step, Rest
  <2>4. CASE \/ ~l.opened /\ ~f.fin /\ ~(l.size + 1 > MaxMsg)
             \/ l.opened /\ ~f.fin /\ ~(l.size + 1 > MaxMsg)
    <3>1. r = [l EXCEPT !.opened = TRUE, !.size = @ + 1] /\ Accepts(l, f)
      BY <1>1, <1>2, <1>4, <2>4 DEF Reassemble, Accepts
    <3>2. /\ r \in Listener /\ r.opened = TRUE /\ r.size = l.size + 1 /\ r.fed = l.fed
          /\ r.finalized = l.finalized /\ r.dataEnded = l.dataEnded /\ r.intent = l.intent
          /\ r.closeSent = l.closeSent /\ r.parserError = l.parserError
          /\ r.disconnected = l.disconnected
      <4>1. PICK n \in Nat : n = l.size + 1
        BY <1>1
      <4>2. r = [l EXCEPT !.opened = TRUE, !.size = n]
        BY <3>1, <4>1
      <4>3. QED  BY <4>1, <4>2 DEF Listener
    <3>3. QED  BY <2>4, <3>1, <3>2 DEF Step, Sound, Completes, Delivered
  <2>5. QED  BY <1>1, <2>1, <2>2, <2>3, <2>4
<1>5. QED  BY <1>3, <1>4

------------------------------------------------------------------------------
(* The log and what the listener remembers of it: the fragments of the      *)
(* message that is open are the end of the log.                             *)
InOrder(l) ==
  LET n == Len(log) IN
  /\ InSequence(n)
  /\ l.opened <=> (n > 0 /\ ~log[n].fin)
  /\ ~l.opened => l.size = 0
  /\ l.opened =>
       /\ l.size \in 1 .. MaxMsg /\ l.size <= n
       /\ log[n - l.size + 1].op = "text"
       /\ \A k \in n - l.size + 1 .. n : ~log[k].fin

(* The frame at i of the log s is in its place.                             *)
Fits(s, i) ==
  /\ (s[i].op = "cont") <=> (i > 1 /\ ~s[i - 1].fin)
  /\ \E j \in 1 .. i : i - j < MaxMsg /\ s[j].op = "text" /\ \A k \in j .. i - 1 : ~s[k].fin

(* In sequence: every frame so far is in its place.                         *)
LEMMA FitsDef == \A n : InSequence(n) <=> \A i \in 1 .. n : Fits(log, i)
BY DEF InSequence, Fits

(* A longer log does not change what was in sequence.                       *)
LEMMA SequenceGrows ==
  ASSUME log \in Seq(DataFrames), NEW f \in DataFrames, log' = Append(log, f),
         NEW n \in Nat, n = Len(log)
  PROVE  /\ \A m \in 0 .. n : InSequence(m)' <=> InSequence(m)
         /\ InSequence(n + 1)' <=> InSequence(n) /\ Fits(log', n + 1)
<1>1. n \in Nat /\ \A i \in 1 .. n : log'[i] = log[i]
  OBVIOUS
<1>2. \A i \in 1 .. n : Fits(log', i) <=> Fits(log, i)
  <2> SUFFICES ASSUME NEW i \in 1 .. n PROVE Fits(log', i) <=> Fits(log, i)
    OBVIOUS
  <2>1. log'[i] = log[i] /\ (i > 1 => log'[i - 1] = log[i - 1])
    BY <1>1
  <2>2. \A j \in 1 .. i : log'[j] = log[j] /\ \A k \in j .. i - 1 : log'[k] = log[k]
    BY <1>1
  <2>3. QED  BY <2>1, <2>2 DEF Fits
<1>3. \A m : InSequence(m)' <=> \A i \in 1 .. m : Fits(log', i)
  BY DEF InSequence, Fits
<1>4. \A m \in 0 .. n : InSequence(m)' <=> InSequence(m)
  <2> SUFFICES ASSUME NEW m \in 0 .. n PROVE InSequence(m)' <=> InSequence(m)
    OBVIOUS
  <2>1. \A i \in 1 .. m : i \in 1 .. n
    BY <1>1
  <2>2. QED  BY <1>2, <1>3, <2>1, FitsDef
<1>5. InSequence(n + 1)' <=> InSequence(n) /\ Fits(log', n + 1)
  <2>1. \A i : i \in 1 .. n + 1 <=> i \in 1 .. n \/ i = n + 1
    BY <1>1
  <2>2. InSequence(n + 1)' <=> \A i \in 1 .. n + 1 : Fits(log', i)
    BY <1>3
  <2>3. InSequence(n) <=> \A i \in 1 .. n : Fits(log, i)
    BY FitsDef
  <2>4. QED  BY <1>2, <2>1, <2>2, <2>3
<1>6. QED  BY <1>4, <1>5

(* _reassemble takes exactly the frames that are in sequence.               *)
LEMMA AcceptsIsFits ==
  ASSUME log \in Seq(DataFrames), NEW f \in DataFrames, log' = Append(log, f),
         NEW l \in Listener, InOrder(l)
  PROVE  Accepts(l, f) <=> Fits(log', Len(log) + 1)
<1> DEFINE n == Len(log)
           a == n - l.size + 1
<1>1. /\ n \in Nat /\ log'[n + 1] = f /\ (\A i \in 1 .. n : log'[i] = log[i])
      /\ l.size \in Nat /\ l.opened \in BOOLEAN /\ f.op \in {"text", "cont"} /\ f.fin \in BOOLEAN
  BY DEF Listener, DataFrames
<1>2. MaxMsg \in Nat \ {0}
  BY TunedAssumption
<1>3. l.opened <=> (n > 0 /\ ~log[n].fin)
  BY DEF InOrder
<1>4. ((f.op = "cont") <=> l.opened) <=>
        ((log'[n + 1].op = "cont") <=> (n + 1 > 1 /\ ~log'[(n + 1) - 1].fin))
  BY <1>1, <1>3
<1>5. CASE ~((f.op = "cont") <=> l.opened)
  BY <1>4, <1>5 DEF Accepts, Fits
<1>6. CASE ((f.op = "cont") <=> l.opened) /\ ~l.opened
  <2>1. f.op = "text" /\ l.size = 0
    BY <1>1, <1>6 DEF InOrder
  <2>2. Accepts(l, f)
    BY <1>2, <1>6, <2>1 DEF Accepts
  <2>3. \E j \in 1 .. n + 1 :
          (n + 1) - j < MaxMsg /\ log'[j].op = "text" /\ \A k \in j .. (n + 1) - 1 : ~log'[k].fin
    <3>1. n + 1 \in 1 .. n + 1 /\ (n + 1) - (n + 1) < MaxMsg /\ log'[n + 1].op = "text"
      BY <1>1, <1>2, <2>1
    <3>2. \A k \in n + 1 .. (n + 1) - 1 : FALSE
      BY <1>1
    <3>3. QED  BY <3>1, <3>2
  <2>4. QED  BY <1>4, <1>6, <2>2, <2>3 DEF Fits
<1>7. CASE f.op = "cont" /\ l.opened
  <2>1. /\ l.size \in 1 .. MaxMsg /\ l.size <= n /\ log[a].op = "text"
        /\ \A k \in a .. n : ~log[k].fin
        /\ a \in 1 .. n
    BY <1>1, <1>2, <1>7 DEF InOrder
  <2>2. ASSUME l.size + 1 <= MaxMsg PROVE Fits(log', n + 1)
    <3>1. a \in 1 .. n + 1 /\ (n + 1) - a < MaxMsg /\ log'[a].op = "text"
      BY <1>1, <1>2, <2>1, <2>2
    <3>2. \A k \in a .. (n + 1) - 1 : ~log'[k].fin
      BY <1>1, <2>1
    <3>3. QED  BY <1>4, <1>7, <3>1, <3>2 DEF Fits
  <2>3. ASSUME Fits(log', n + 1) PROVE l.size + 1 <= MaxMsg
    <3>1. PICK j \in 1 .. n + 1 :
            (n + 1) - j < MaxMsg /\ log'[j].op = "text" /\ \A k \in j .. (n + 1) - 1 : ~log'[k].fin
      BY <2>3 DEF Fits
    <3>2. j # n + 1
      BY <1>1, <1>7, <3>1
    <3>3. j \in 1 .. n /\ log[j].op = "text"
      BY <1>1, <3>1, <3>2
    <3>4. Fits(log, j)
      BY <3>3, FitsDef DEF InOrder
    <3>5. ~(j > a)
      <4>1. SUFFICES ASSUME j > a PROVE FALSE
        OBVIOUS
      <4>2. j > 1 /\ j - 1 \in a .. n
        BY <1>1, <2>1, <3>3, <4>1
      <4>3. ~log[j - 1].fin
        BY <2>1, <4>2
      <4>4. log[j].op = "cont"
        BY <3>4, <4>2, <4>3 DEF Fits
      <4>5. QED  BY <3>3, <4>4
    <3>6. QED  BY <1>1, <1>2, <2>1, <3>1, <3>3, <3>5
  <2>4. QED  BY <1>7, <2>2, <2>3 DEF Accepts
<1>8. QED  BY <1>1, <1>5, <1>6, <1>7

------------------------------------------------------------------------------
(* The messages of the log that the Strategy is to see.                     *)
Seen == {i \in DOMAIN log : Completes(log[i]) /\ InSequence(i)}

ReassemblyInv ==
  conn > 0 =>
    /\ listener[conn].fed = Cardinality(Seen)
    /\ ~InSequence(Len(log)) => listener[conn].intent \in {Protocol, TooBig}
    /\ Reading(listener[conn]) => InOrder(listener[conn])

Inv == TypeOK /\ ListenersInv /\ StrategyInv /\ EndingInv /\ ReassemblyInv

(* The connection being driven, and one that is about to be.                *)
LEMMA ConnFacts ==
  ASSUME TypeOK
  PROVE  /\ conn \in Nat /\ MaxAttempts \in Nat \ {0}
         /\ Conns = 1 .. MaxAttempts
         /\ main # "dialing" => conn \in Conns
         /\ main = "dialing" => conn + 1 \in Conns
         /\ Left(conn) <=> main \in {"dialing", "ended", "exited"}
BY TunedAssumption DEF TypeOK, Conns, Left

(* A listener that has done nothing is typed and sound.                     *)
LEMMA FreshListener == NewListener \in Listener /\ Sound(NewListener)
BY CodeFacts DEF NewListener, Listener, Sound, Raisings

(* One listener takes a step: all are typed and sound.                      *)
LEMMA ListenersStep ==
  ASSUME TypeOK, ListenersInv, NEW c \in Conns, NEW r \in Listener, Sound(r),
         listener' = [listener EXCEPT ![c] = r]
  PROVE  /\ listener' \in [Conns -> Listener]
         /\ \A d \in Conns : Sound(listener'[d])
         /\ listener'[c] = r
         /\ \A d \in Conns : d # c => listener'[d] = listener[d]
<1>1. listener \in [Conns -> Listener]
  BY DEF TypeOK
<1>2. listener'[c] = r /\ \A d \in Conns : d # c => listener'[d] = listener[d]
  BY <1>1
<1>3. QED  BY <1>1, <1>2 DEF ListenersInv

(* A step after which the connection being driven reads no data, and that   *)
(* leaves the Strategy to it or wipes it.                                   *)
LEMMA QuietStep ==
  ASSUME Inv, main \in {"connected", "waiting", "grace", "teardown"},
         main' \in {"connected", "waiting", "grace", "teardown"},
         NEW r, Step(listener[conn], r), r.fed = listener[conn].fed, ~Reading(r),
         main' \in {"grace", "teardown"} => r.dataEnded, listener' = [listener EXCEPT ![conn] = r],
         conn' = conn, log' = log, strat' \in {0, strat}, r.finalized => strat' = 0,
         raising' \in Raisings, stop' \in BOOLEAN, stopped' \in BOOLEAN
  PROVE  Inv'
<1>1. TypeOK /\ ListenersInv /\ StrategyInv /\ ReassemblyInv
  BY DEF Inv
<1>2. conn \in Conns /\ conn \in Nat /\ conn > 0
  BY <1>1, ConnFacts DEF TypeOK
<1>3. /\ listener' \in [Conns -> Listener]
      /\ \A d \in Conns : Sound(listener'[d])
      /\ listener'[conn] = r
      /\ \A d \in Conns : d # conn => listener'[d] = listener[d]
  BY <1>1, <1>2, ListenersStep DEF Step
<1>4. TypeOK'
  <2>1. \A c \in Conns : c > conn => listener'[c] = NewListener
    <3>1. \A c \in Conns : c > conn => c # conn
      BY <1>2 DEF Conns
    <3>2. QED  BY <1>1, <1>3, <3>1 DEF TypeOK
  <2>2. strat' \in 0 .. MaxAttempts
    BY <1>1, TunedAssumption DEF TypeOK
  <2>3. QED  BY <1>1, <1>2, <1>3, <2>1, <2>2 DEF TypeOK
<1>5. ListenersInv'
  <2>1. \A c \in Conns : Left(c)' => Left(c) /\ c # conn
    BY <1>1, <1>2 DEF Left, TypeOK, Conns
  <2>2. QED  BY <1>1, <1>3, <2>1 DEF ListenersInv, Step
<1>6. StrategyInv' /\ EndingInv'
  BY <1>1, <1>2, <1>3 DEF StrategyInv, EndingInv, Left
<1>7. ReassemblyInv'
  <2>1. Seen' = Seen /\ (InSequence(Len(log))' <=> InSequence(Len(log)))
    BY DEF Seen, InSequence
  <2>2. r.fed = listener[conn].fed /\ ~Reading(r)
        /\ (listener[conn].intent # NoCode => r.intent = listener[conn].intent)
    BY DEF Step
  <2>3. QED  BY <1>1, <1>2, <1>3, <2>1, <2>2, CodeFacts DEF ReassemblyInv
<1>8. QED  BY <1>4, <1>5, <1>6, <1>7 DEF Inv

(* A step that ends the data of the connection being driven.                *)
LEMMA DrivenStep ==
  ASSUME Inv, main \in {"connected", "waiting", "grace", "teardown"},
         main' \in {"connected", "waiting", "grace", "teardown"},
         NEW r, Ends(listener[conn], r), listener' = [listener EXCEPT ![conn] = r],
         conn' = conn, log' = log, strat' \in {0, strat}, r.finalized => strat' = 0,
         raising' \in Raisings, stop' \in BOOLEAN, stopped' \in BOOLEAN
  PROVE  Inv'
<1>1. Step(listener[conn], r) /\ r.fed = listener[conn].fed /\ ~Reading(r) /\ r.dataEnded
  BY DEF Ends, Reading
<1>2. QED  BY <1>1, QuietStep

(* A step that leaves the listeners and the Strategy alone.                 *)
LEMMA CoroutineStep ==
  ASSUME Inv, UNCHANGED <<listener, log, strat, conn>>,
         \/ main' = main /\ ending' = ending
         \/ main = "connected" /\ main' = "waiting"
         \/ main = "grace" /\ main' = "teardown"
         \/ /\ main = "ended" /\ main' = "dialing" /\ conn < MaxAttempts
            /\ ending \in {"PeerGone", "OSError"} /\ ending' = ending
         \/ main = "ended" /\ main' = "exited",
         raising' \in Raisings, stop' \in BOOLEAN, stopped' \in BOOLEAN
  PROVE  Inv'
<1>1. TypeOK /\ ListenersInv /\ StrategyInv /\ EndingInv /\ ReassemblyInv
  BY DEF Inv
<1>2. TypeOK'
  BY <1>1, ConnFacts DEF TypeOK
<1>3. \A c \in Conns : Left(c)' <=> Left(c)
  BY DEF Left
<1>4. ListenersInv'
  BY <1>1, <1>3 DEF ListenersInv
<1>5. StrategyInv'
  BY <1>1 DEF StrategyInv, Left
<1>6. EndingInv'
  BY <1>1 DEF EndingInv
<1>7. ReassemblyInv'
  BY <1>1 DEF ReassemblyInv, Seen, InSequence, InOrder, Reading, Completes
<1>8. QED  BY <1>2, <1>4, <1>5, <1>6, <1>7 DEF Inv

(* A frame that is taken leaves the listener with the fragments of the      *)
(* message that is open.                                                    *)
LEMMA OrderKept ==
  ASSUME log \in Seq(DataFrames), NEW f \in DataFrames, log' = Append(log, f),
         NEW l \in Listener, InOrder(l), Accepts(l, f),
         NEW r \in Listener, r.opened = ~f.fin, r.size = IF f.fin THEN 0 ELSE l.size + 1,
         InSequence(Len(log))'
  PROVE  InOrder(r)'
<1>1. PICK n \in Nat : n = Len(log)
  OBVIOUS
<1>2. /\ Len(log') = n + 1 /\ log'[n + 1] = f
      /\ \A i \in 1 .. n : log'[i] = log[i]
  BY <1>1
<1>3. f.fin \in BOOLEAN /\ l.size \in Nat /\ MaxMsg \in Nat \ {0} /\ l.opened \in BOOLEAN
  BY TunedAssumption DEF DataFrames, Listener
<1>5. SUFFICES
        /\ r.opened <=> (n + 1 > 0 /\ ~log'[n + 1].fin)
        /\ ~r.opened => r.size = 0
        /\ r.opened =>
             /\ r.size \in 1 .. MaxMsg /\ r.size <= n + 1
             /\ log'[(n + 1) - r.size + 1].op = "text"
             /\ \A k \in (n + 1) - r.size + 1 .. n + 1 : ~log'[k].fin
  BY <1>2 DEF InOrder
<1>6. CASE f.fin
  BY <1>1, <1>2, <1>6
<1>7. CASE ~f.fin /\ ~l.opened
  <2>1. l.size = 0 /\ f.op = "text"
    BY <1>7 DEF Accepts, DataFrames, InOrder
  <2>2. r.opened /\ r.size = 1
    <3>1. ~f.fin
      BY <1>7
    <3>2. r.opened
      BY <3>1
    <3>3. r.size = l.size + 1
      BY <3>1
    <3>4. QED  BY <2>1, <3>2, <3>3
  <2>3. (n + 1) - r.size + 1 = n + 1 /\ \A k \in n + 1 .. n + 1 : k = n + 1
    BY <2>2
  <2>4. QED  BY <1>2, <1>3, <1>7, <2>1, <2>2, <2>3
<1>8. CASE ~f.fin /\ l.opened
  <2>1. /\ l.size \in 1 .. MaxMsg /\ l.size <= n /\ log[n - l.size + 1].op = "text"
        /\ \A k \in n - l.size + 1 .. n : ~log[k].fin
    BY <1>1, <1>8 DEF InOrder
  <2>2. r.opened /\ r.size = l.size + 1 /\ l.size + 1 <= MaxMsg
    BY <1>8 DEF Accepts
  <2>3. (n + 1) - r.size + 1 = n - l.size + 1 /\ n - l.size + 1 \in 1 .. n
    BY <1>3, <2>1, <2>2, SMTT(60)
  <2>4. \A k \in n - l.size + 1 .. n + 1 : ~log'[k].fin
    BY <1>2, <1>3, <1>8, <2>1, <2>3, SMTT(60)
  <2>5. QED  BY <1>2, <1>3, <1>8, <2>1, <2>2, <2>3, <2>4, SMTT(60)
<1>9. QED  BY <1>3, <1>6, <1>7, <1>8

(* A data frame.                                                            *)
LEMMA OnDataInv ==
  ASSUME Inv, NEW c \in Conns, NEW f \in DataFrames, OnData(c, f)
  PROVE  Inv'
<1>a. PICK l : l = listener[c]
  OBVIOUS
<1>b. PICK r : r = Reassemble(l, f)
  OBVIOUS
<1>1. TypeOK /\ ListenersInv /\ StrategyInv /\ EndingInv /\ ReassemblyInv
  BY DEF Inv
<1>2. /\ c = conn /\ Reading(l) /\ log' = Append(log, f)
      /\ listener' = [listener EXCEPT ![c] = r]
      /\ strat' = IF r.fed > l.fed THEN c ELSE strat
      /\ UNCHANGED <<conn, stop, main, stopped, raising, ending>>
      /\ main \in {"connected", "waiting", "grace"}
  BY <1>a, <1>b DEF OnData, OnlyListener, Read, Reading
<1>3. main \in {"connected", "waiting"}
  BY <1>a, <1>1, <1>2 DEF ListenersInv, Reading
<1>4. l \in Listener /\ Sound(l) /\ InOrder(l) /\ conn \in Nat /\ conn > 0
  BY <1>a, <1>1, <1>2, ConnFacts DEF TypeOK, ListenersInv, ReassemblyInv
<1>5. ~l.opened => l.size = 0
  BY <1>4 DEF InOrder
<1>6. /\ Step(l, r) /\ r.finalized = l.finalized
      /\ ~Accepts(l, f) => r.dataEnded /\ r.intent \in {Protocol, TooBig} /\ r.fed = l.fed
      /\ Accepts(l, f) => r.fed = IF Completes(f) THEN l.fed + 1 ELSE l.fed
      /\ Accepts(l, f) /\ ~r.dataEnded =>
           /\ r.opened = ~f.fin
           /\ r.size = IF f.fin THEN 0 ELSE l.size + 1
  BY <1>b, <1>2, <1>4, <1>5, ReassembleDoes
<1>7. /\ listener' \in [Conns -> Listener]
      /\ \A d \in Conns : Sound(listener'[d])
      /\ listener'[c] = r
      /\ \A d \in Conns : d # c => listener'[d] = listener[d]
  BY <1>1, <1>2, <1>6, <1>a, ListenersStep DEF Step
<1>8. TypeOK'
  <2>1. \A d \in Conns : d > conn => listener'[d] = NewListener
    <3>1. \A d \in Conns : d > conn => d # conn
      BY <1>4 DEF Conns
    <3>2. QED  BY <1>1, <1>2, <1>7, <3>1 DEF TypeOK
  <2>2. strat' \in 0 .. MaxAttempts
    BY <1>1, <1>2, TunedAssumption DEF TypeOK, Conns
  <2>3. log' \in Seq(DataFrames)
    BY <1>1, <1>2 DEF TypeOK
  <2>4. QED  BY <1>1, <1>2, <1>7, <2>1, <2>2, <2>3 DEF TypeOK
<1>9. ListenersInv'
  <2>1. \A d \in Conns : Left(d)' => Left(d) /\ d # c
    BY <1>1, <1>2, <1>3 DEF Left, TypeOK, Conns
  <2>2. r.disconnected => r.finalized
    BY <1>a, <1>1, <1>2, <1>6 DEF ListenersInv, Step
  <2>3. QED  BY <1>1, <1>2, <1>3, <1>7, <2>1, <2>2 DEF ListenersInv
<1>10. StrategyInv'
  <2>1. ~r.finalized
    BY <1>2, <1>4, <1>6 DEF Sound, Reading
  <2>2. QED  BY <1>1, <1>2, <1>3, <1>4, <1>7, <2>1 DEF StrategyInv, Left
<1>11. EndingInv'
  BY <1>2, <1>3 DEF EndingInv
<1>12. PICK n \in Nat : n = Len(log) /\ log \in Seq(DataFrames)
  BY <1>1 DEF TypeOK
<1>13. /\ \A m \in 0 .. n : InSequence(m)' <=> InSequence(m)
       /\ InSequence(n + 1)' <=> Accepts(l, f)
  <2>1. InSequence(n)
    BY <1>4, <1>12 DEF InOrder
  <2>2. QED  BY <1>2, <1>4, <1>12, <2>1, SequenceGrows, AcceptsIsFits
<1>14. /\ Len(log') = n + 1 /\ log'[n + 1] = f /\ DOMAIN log' = 1 .. n + 1
       /\ DOMAIN log = 1 .. n /\ \A i \in 1 .. n : log'[i] = log[i]
  BY <1>2, <1>12
<1>15. r.fed = Cardinality(Seen')
  <2>1. l.fed = Cardinality(Seen) /\ l.fed \in Nat
    BY <1>a, <1>1, <1>2, <1>4 DEF ReassemblyInv, Listener
  <2>2. IsFiniteSet(Seen) /\ n + 1 \notin Seen
    <3>1. Seen \subseteq 1 .. n /\ IsFiniteSet(1 .. n) /\ n + 1 \notin 1 .. n
      BY <1>14, FS_Interval DEF Seen
    <3>2. QED  BY <3>1, FS_Subset
  <2>3. Seen' = IF Completes(f) /\ Accepts(l, f) THEN Seen \cup {n + 1} ELSE Seen
    <3>1. \A i \in 1 .. n : i \in Seen' <=> i \in Seen
      <4> SUFFICES ASSUME NEW i \in 1 .. n PROVE i \in Seen' <=> i \in Seen
        OBVIOUS
      <4>1. i \in 0 .. n /\ i \in 1 .. n + 1
        BY <1>12
      <4>2. QED  BY <1>13, <1>14, <4>1 DEF Seen, Completes
    <3>2. n + 1 \in Seen' <=> Completes(f) /\ Accepts(l, f)
      BY <1>12, <1>13, <1>14 DEF Seen, Completes
    <3>3. \A i : i \in Seen' => i \in 1 .. n \/ i = n + 1
      BY <1>12, <1>14 DEF Seen
    <3>4. \A i : i \in Seen => i \in 1 .. n
      BY <1>14 DEF Seen
    <3>5. QED  BY <3>1, <3>2, <3>3, <3>4
  <2>4. CASE Completes(f) /\ Accepts(l, f)
    <3>1. Cardinality(Seen \cup {n + 1}) = Cardinality(Seen) + 1
      BY <2>2, FS_AddElement
    <3>2. QED  BY <1>6, <2>1, <2>3, <2>4, <3>1
  <2>5. CASE ~(Completes(f) /\ Accepts(l, f))
    BY <1>6, <2>1, <2>3, <2>5
  <2>6. QED  BY <2>4, <2>5
<1>16. ReassemblyInv'
  <2>1. ~InSequence(n + 1)' => r.intent \in {Protocol, TooBig}
    BY <1>6, <1>13
  <2>2. ASSUME Reading(r) PROVE InOrder(r)'
    <3>1. Accepts(l, f) /\ ~r.dataEnded /\ r.opened = ~f.fin
          /\ r.size = IF f.fin THEN 0 ELSE l.size + 1
      BY <1>6, <2>2 DEF Reading
    <3>2. InSequence(Len(log))'
      BY <1>13, <1>14, <3>1
    <3>3. QED  BY <1>2, <1>4, <1>6, <1>12, <3>1, <3>2, OrderKept DEF Step
  <2>3. InSequence(Len(log))' <=> InSequence(n + 1)'
    BY <1>14
  <2>4. QED  BY <1>2, <1>7, <1>15, <2>1, <2>2, <2>3 DEF ReassemblyInv
<1>17. QED  BY <1>8, <1>9, <1>10, <1>11, <1>16 DEF Inv

(* The other frames end the data of the connection being driven.            *)
LEMMA FramesInv ==
  ASSUME Inv, NEW c \in Conns,
         OnIllegalFrame(c) \/ PongFails(c) \/ OnPeerClose(c) \/ ParserRefuses(c)
  PROVE  Inv'
<1>a. PICK l : l = listener[c]
  OBVIOUS
<1>1. TypeOK /\ ListenersInv /\ StrategyInv
  BY DEF Inv
<1>2. /\ c = conn /\ log' = log /\ UNCHANGED <<conn, stop, main, stopped, raising, ending>>
      /\ main \in {"connected", "waiting", "grace"}
  BY DEF OnIllegalFrame, PongFails, OnPeerClose, ParserRefuses, OnlyListener, Read
<1>3. l \in Listener /\ Sound(l) /\ conn > 0 /\ (l.finalized => strat = 0)
  BY <1>a, <1>1, <1>2, ConnFacts DEF TypeOK, ListenersInv, StrategyInv
<1>4. stop' \in BOOLEAN /\ stopped' \in BOOLEAN /\ raising' \in Raisings
  BY <1>1, <1>2 DEF TypeOK
<1>5. \E r : /\ Ends(l, r) /\ listener' = [listener EXCEPT ![c] = r]
             /\ strat' \in {0, strat} /\ (r.finalized => strat' = 0)
  <2>1. CASE OnIllegalFrame(c)
    <3>1. listener' = [listener EXCEPT ![c] = Abort(l, Protocol)] /\ strat' = strat
      BY <1>a, <2>1 DEF OnIllegalFrame, OnlyListener
    <3>2. Ends(l, Abort(l, Protocol)) /\ Abort(l, Protocol).finalized = l.finalized
      BY <1>3, AbortDoes DEF Rest
    <3>3. QED  BY <1>3, <3>1, <3>2
  <2>2. CASE OnPeerClose(c)
    <3>1. PICK legal \in BOOLEAN :
            /\ listener' = [listener EXCEPT ![c] = PeerClosed(l, legal)] /\ strat' = strat
      BY <1>a, <2>2 DEF OnPeerClose, OnlyListener, PeerClosed
    <3>2. PICK r : r = PeerClosed(l, legal)
      OBVIOUS
    <3>3. Ends(l, r) /\ r.finalized = l.finalized
      BY <1>3, <3>1, <3>2, PeerCloseDoes
    <3>4. QED  BY <1>3, <3>1, <3>2, <3>3
  <2>3. CASE ParserRefuses(c)
    <3>1. PICK d : d = [l EXCEPT !.closeSent = IF @ = NoCode THEN Protocol ELSE @,
                                 !.parserError = TRUE, !.disconnected = TRUE]
      OBVIOUS
    <3>2. /\ d \in Listener /\ d.disconnected /\ d.finalized = l.finalized /\ d.intent = l.intent
          /\ d.fed = l.fed /\ d.dataEnded = l.dataEnded /\ d.parserError
          /\ d.closeSent = IF l.closeSent = NoCode THEN Protocol ELSE l.closeSent
      <4>1. Protocol \in Codes
        BY CodeFacts
      <4>2. QED  BY <1>3, <3>1, <4>1 DEF Listener
    <3>3. listener' = [listener EXCEPT ![c] = Finalize(d)] /\ strat' = Wipes(l)
      BY <1>a, <2>3, <3>1 DEF ParserRefuses, OnlyListener
    <3>4. Ends(l, Finalize(d))
      BY <1>3, <3>2, DisconnectDoes
    <3>5. QED  BY <1>3, <3>3, <3>4 DEF Wipes
  <2>4. CASE PongFails(c)
    <3>1. PICK r : r = Fails(l, "OSError")
      OBVIOUS
    <3>2. listener' = [listener EXCEPT ![c] = r] /\ strat' = strat
      BY <1>a, <2>4, <3>1 DEF PongFails, OnlyListener
    <3>3. Ends(l, r) /\ r.finalized = l.finalized
      BY <1>3, <3>1, FailsDoes DEF Raised
    <3>4. QED  BY <1>3, <3>2, <3>3
  <2>5. QED  BY <2>1, <2>2, <2>3, <2>4
<1>6. QED
  BY <1>a, <1>2, <1>4, <1>5, DrivenStep

(* The transport of a connection is gone: of the one being driven, or, late,*)
(* of one that run_client has left and the Strategy knows no more.          *)
LEMMA OnDisconnectedInv ==
  ASSUME Inv, NEW c \in Conns, OnDisconnected(c)
  PROVE  Inv'
<1>a. PICK l : l = listener[c]
  OBVIOUS
<1>b. PICK d : d = [l EXCEPT !.disconnected = TRUE]
  OBVIOUS
<1>c. PICK r : r = Finalize(d)
  OBVIOUS
<1>1. TypeOK /\ ListenersInv /\ StrategyInv /\ EndingInv /\ ReassemblyInv
  BY DEF Inv
<1>2. /\ c <= conn /\ log' = log /\ ~l.disconnected
      /\ listener' = [listener EXCEPT ![c] = r] /\ strat' = Wipes(l)
      /\ UNCHANGED <<conn, stop, main, stopped, raising, ending>>
  BY <1>a, <1>b, <1>c DEF OnDisconnected, OnlyListener
<1>3. l \in Listener /\ Sound(l) /\ conn > 0 /\ conn \in Nat /\ conn \in Conns /\ c \in Nat
  BY <1>a, <1>1, <1>2, ConnFacts DEF TypeOK, ListenersInv, Conns
<1>4. stop' \in BOOLEAN /\ stopped' \in BOOLEAN /\ raising' \in Raisings
  BY <1>1, <1>2 DEF TypeOK
<1>5. /\ d \in Listener /\ d.disconnected /\ d.finalized = l.finalized /\ d.intent = l.intent
      /\ d.fed = l.fed /\ d.dataEnded = l.dataEnded /\ d.parserError = l.parserError
      /\ d.closeSent = l.closeSent
  BY <1>b, <1>3 DEF Listener
<1>6. /\ Ends(l, r) /\ r.finalized /\ r.disconnected
      /\ r.intent = l.intent /\ r.closeSent = l.closeSent
  BY <1>c, <1>3, <1>5, DisconnectDoes
<1>7. CASE ~Left(c)
  <2>1. c = conn /\ main \in {"connected", "waiting", "grace", "teardown"}
    BY <1>1, <1>2, <1>3, <1>7 DEF Left, TypeOK
  <2>2. strat' \in {0, strat} /\ (r.finalized => strat' = 0)
    BY <1>a, <1>1, <1>2, <2>1 DEF Wipes, StrategyInv
  <2>3. QED  BY <1>a, <1>2, <1>4, <1>6, <2>1, <2>2, DrivenStep
<1>8. CASE Left(c)
  <2>1. l.finalized
    BY <1>a, <1>1, <1>2, <1>8 DEF ListenersInv
  <2>2. strat' = strat
    BY <1>2, <2>1 DEF Wipes
  <2>3. /\ listener' \in [Conns -> Listener]
        /\ \A e \in Conns : Sound(listener'[e])
        /\ listener'[c] = r
        /\ \A e \in Conns : e # c => listener'[e] = listener[e]
    BY <1>a, <1>1, <1>2, <1>6, ListenersStep DEF Ends, Step
  <2>4. /\ listener'[conn].intent = listener[conn].intent
        /\ listener'[conn].closeSent = listener[conn].closeSent
        /\ listener'[conn].fed = listener[conn].fed
    BY <1>a, <1>3, <1>6, <2>3 DEF Ends
  <2>5. TypeOK'
    <3>1. \A e \in Conns : e > conn => e # c
      BY <1>2, <1>3 DEF Conns
    <3>2. QED  BY <1>1, <1>2, <2>2, <2>3, <3>1 DEF TypeOK
  <2>6. \A e \in Conns : Left(e)' <=> Left(e)
    BY <1>2 DEF Left
  <2>7. ListenersInv'
    <3>1. main \in {"grace", "teardown"} => c # conn
      BY <1>3, <1>8 DEF Left
    <3>2. QED  BY <1>1, <1>2, <1>3, <1>6, <2>3, <2>6, <3>1 DEF ListenersInv
  <2>8. StrategyInv'
    <3>1. strat # 0 => c # conn
      BY <1>1, <1>8 DEF StrategyInv
    <3>2. QED  BY <1>1, <1>2, <1>3, <2>2, <2>3, <3>1 DEF StrategyInv, Left
  <2>9. EndingInv'
    BY <1>1, <1>2, <2>4 DEF EndingInv
  <2>10. ReassemblyInv'
    <3>1. Seen' = Seen /\ (InSequence(Len(log))' <=> InSequence(Len(log)))
      BY <1>2 DEF Seen, InSequence
    <3>2. CASE c # conn
      <4>1. conn' = conn /\ log' = log
        BY <1>2
      <4>2. conn > 0 => conn \in Conns
        BY <1>1 DEF TypeOK, Conns
      <4>3. conn > 0 => listener'[conn] = listener[conn]
        BY <2>3, <3>2, <4>2
      <4>4. conn > 0 => (InOrder(listener[conn])' <=> InOrder(listener[conn]))
        BY <3>1, <4>1, <4>3 DEF InOrder
      <4>5. conn > 0 => (Reading(listener[conn])' <=> Reading(listener[conn]))
        BY <4>1, <4>3 DEF Reading
      <4>6. QED  BY <1>1, <3>1, <4>1, <4>3, <4>4, <4>5 DEF ReassemblyInv
    <3>3. CASE c = conn
      <4>1. ~Reading(r)
        BY <1>6 DEF Ends, Reading
      <4>2. QED  BY <1>1, <1>2, <1>3, <2>3, <2>4, <3>1, <3>3, <4>1 DEF ReassemblyInv
    <3>4. QED  BY <3>2, <3>3
  <2>11. QED  BY <2>5, <2>7, <2>8, <2>9, <2>10 DEF Inv
<1>9. QED  BY <1>7, <1>8

(* A connection is dialled: its listener is new and its log empty.          *)
LEMMA DialInv ==
  ASSUME Inv, Dial \/ DialFails
  PROVE  Inv'
<1>1. TypeOK /\ ListenersInv /\ StrategyInv /\ EndingInv /\ ReassemblyInv
  BY DEF Inv
<1>2. PICK n \in Nat : n = conn + 1
  BY <1>1, ConnFacts
<1>3. /\ main = "dialing" /\ conn \in Nat /\ n \in Conns /\ conn' = n /\ n > 0
      /\ log' = << >> /\ strat' = strat /\ stop' = stop
  BY <1>1, <1>2, ConnFacts DEF Dial, DialFails
<1>4. strat = 0
  BY <1>1, <1>3 DEF StrategyInv, Left
<1>5. listener[n] = NewListener
  BY <1>1, <1>2, <1>3 DEF TypeOK
<1>7. PICK r : /\ listener' = [listener EXCEPT ![n] = r] /\ r \in Listener /\ Sound(r)
               /\ r.fed = 0 /\ r.intent = NoCode /\ r.closeSent = NoCode
               /\ \/ /\ r = NewListener /\ main' = "connected"
                     /\ stopped' = FALSE /\ raising' = "none"
                  \/ /\ r.disconnected /\ main' = "ended" /\ ending' \in Raised
                     /\ r.opened = FALSE /\ r.size = 0
                     /\ stopped' = stopped /\ raising' = raising
  <2>1. CASE Dial
    <3>1. listener' = [listener EXCEPT ![n] = NewListener]
      BY <1>1, <1>3, <1>5, <2>1 DEF Dial, TypeOK
    <3>2. NewListener.fed = 0 /\ NewListener.intent = NoCode /\ NewListener.closeSent = NoCode
      BY DEF NewListener
    <3>3. QED  BY <2>1, <3>1, <3>2, FreshListener DEF Dial
  <2>2. CASE DialFails
    <3>1. PICK r : r = [NewListener EXCEPT !.disconnected = TRUE]
      OBVIOUS
    <3>2. listener' = [listener EXCEPT ![n] = r]
      BY <1>2, <1>5, <2>2, <3>1 DEF DialFails
    <3>3. /\ r.fed = 0 /\ r.intent = NoCode /\ r.closeSent = NoCode /\ r.disconnected
          /\ r.opened = FALSE /\ r.size = 0 /\ r.finalized = FALSE
      BY <3>1 DEF NewListener
    <3>4. r \in Listener
      BY <3>1, FreshListener DEF Listener
    <3>5. Sound(r)
      BY <3>3, CodeFacts DEF Sound
    <3>6. QED  BY <2>2, <3>2, <3>3, <3>4, <3>5 DEF DialFails
  <2>3. QED  BY <2>1, <2>2
<1>8. /\ listener' \in [Conns -> Listener]
      /\ \A d \in Conns : Sound(listener'[d])
      /\ listener'[n] = r
      /\ \A d \in Conns : d # n => listener'[d] = listener[d]
  BY <1>1, <1>3, <1>7, ListenersStep
<1>9. TypeOK'
  <2>1. \A d \in Conns : d > n => d > conn /\ d # n
    BY <1>2, <1>3 DEF Conns
  <2>2. log' \in Seq(DataFrames)
    BY <1>3
  <2>3. /\ conn' \in 0 .. MaxAttempts /\ conn' > 0 /\ main' \in {"connected", "ended"}
        /\ stop' \in BOOLEAN /\ stopped' \in BOOLEAN /\ raising' \in Raisings
        /\ strat' \in 0 .. MaxAttempts
    <3>1. conn' \in 0 .. MaxAttempts /\ conn' > 0
      BY <1>3 DEF Conns
    <3>2. /\ stop \in BOOLEAN /\ stopped \in BOOLEAN /\ raising \in Raisings
          /\ strat \in 0 .. MaxAttempts
      BY <1>1 DEF TypeOK
    <3>3. QED  BY <1>3, <1>7, <3>1, <3>2 DEF Raisings
  <2>4. QED  BY <1>1, <1>3, <1>8, <2>1, <2>2, <2>3 DEF TypeOK
<1>10. ListenersInv'
  <2>1. \A d \in Conns : d <= n => d = n \/ (d <= conn /\ Left(d) /\ d # n)
    BY <1>2, <1>3 DEF Conns, Left
  <2>2. \A d \in Conns : d <= n /\ d = n /\ Left(d)' => r.disconnected
    BY <1>3, <1>7 DEF Left, Conns
  <2>3. main' \notin {"waiting", "grace", "teardown"} /\ (main' = "connected" => ~r.disconnected)
    BY <1>7 DEF NewListener
  <2>4. QED  BY <1>1, <1>3, <1>8, <2>1, <2>2, <2>3 DEF ListenersInv
<1>11. StrategyInv'
  BY <1>3, <1>4 DEF StrategyInv
<1>12. EndingInv'
  BY <1>3, <1>7, <1>8, CodeFacts DEF EndingInv
<1>13. ReassemblyInv'
  <2>1. Cardinality(Seen') = 0 /\ InSequence(Len(log))' /\ InOrder(NewListener)'
    <3>1. Seen' = {}
      BY <1>3 DEF Seen
    <3>2. InSequence(Len(log))'
      BY <1>3 DEF InSequence
    <3>3. QED  BY <1>3, <3>1, <3>2, FS_EmptySet DEF InOrder, NewListener
  <2>2. InOrder(r)'
    <3>1. NewListener.opened = FALSE /\ NewListener.size = 0
      BY DEF NewListener
    <3>2. QED  BY <1>3, <1>7, <2>1, <3>1 DEF InOrder
  <2>3. QED  BY <1>3, <1>7, <1>8, <2>1, <2>2 DEF ReassemblyInv
<1>14. QED  BY <1>9, <1>10, <1>11, <1>12, <1>13 DEF Inv

(* The coroutine and its timer end the data of the connection.              *)
LEMMA RunClientInv ==
  ASSUME Inv, Handshake \/ TimerTick \/ TimerRaises \/ Resume \/ GraceEnds \/ Decide \/ OperatorStops
  PROVE  Inv'
<1>a. PICK l : l = listener[conn]
  OBVIOUS
<1>1. TypeOK /\ ListenersInv /\ StrategyInv
  BY DEF Inv
<1>2. /\ stop \in BOOLEAN /\ stopped \in BOOLEAN /\ raising \in Raisings
      /\ listener \in [Conns -> Listener]
  BY <1>1 DEF TypeOK
<1>3. main # "dialing" => /\ l \in Listener /\ Sound(l)
                          /\ (l.finalized => strat = 0)
  BY <1>a, <1>1, ConnFacts DEF TypeOK, ListenersInv, StrategyInv
<1>4. CASE Handshake
  <2>1. CASE main' = "waiting" /\ timer' = "armed" /\ UNCHANGED <<listener, raising>>
    <3>1. UNCHANGED <<listener, log, strat, conn, stop, stopped, raising>> /\ main = "connected"
      BY <1>4, <2>1 DEF Handshake
    <3>2. QED  BY <1>2, <2>1, <3>1, CoroutineStep
  <2>2. CASE /\ main' = "grace" /\ raising' = "RuntimeError"
             /\ listener' = [listener EXCEPT ![conn] = Cleanup(@)]
    <3>1. UNCHANGED <<log, strat, conn, stop, stopped>> /\ main = "connected"
      BY <1>4 DEF Handshake
    <3>2. listener' = [listener EXCEPT ![conn] = Cleanup(l)]
      BY <1>a, <2>2
    <3>3. Ends(l, Cleanup(l)) /\ Rest(l, Cleanup(l))
      BY <1>3, <3>1, CleanupDoes
    <3>4. Cleanup(l).finalized => strat = 0
      BY <1>3, <3>1, <3>3 DEF Rest
    <3>5. raising' \in Raisings
      BY <2>2 DEF Raisings, Raised
    <3>6. QED  BY <1>a, <1>2, <2>2, <3>1, <3>2, <3>3, <3>4, <3>5, DrivenStep
  <2>3. QED  BY <1>4, <2>1, <2>2 DEF Handshake
<1>5. CASE TimerTick
  <2>1. PICK r : r = Finish(Close(Latch(l, Stale)))
    OBVIOUS
  <2>2. /\ UNCHANGED <<log, strat, conn, stop, main, stopped, raising>> /\ main = "waiting"
        /\ listener' = [listener EXCEPT ![conn] = r]
    BY <1>a, <1>5, <2>1 DEF TimerTick
  <2>3. Step(l, r) /\ Rest(l, r) /\ r.dataEnded
    BY <1>3, <2>1, <2>2, VerdictDoes, CodeFacts
  <2>4. Ends(l, r) /\ (r.finalized => strat = 0)
    BY <1>3, <2>2, <2>3 DEF Ends, Rest
  <2>5. QED  BY <1>a, <1>2, <2>2, <2>4, DrivenStep
<1>6. CASE Resume
  <2>1. /\ UNCHANGED <<log, strat, conn, stop>> /\ main = "waiting" /\ main' = "grace"
        /\ listener' = [listener EXCEPT ![conn] = Cleanup(l)]
        /\ raising' \in Raisings /\ stopped' \in BOOLEAN
    BY <1>a, <1>6 DEF Resume, Raisings, Raised
  <2>2. Ends(l, Cleanup(l)) /\ Rest(l, Cleanup(l))
    BY <1>3, <2>1, CleanupDoes
  <2>3. Cleanup(l).finalized => strat = 0
    BY <1>3, <2>1, <2>2 DEF Rest
  <2>4. QED  BY <1>a, <1>2, <2>1, <2>2, <2>3, DrivenStep
<1>7. CASE TimerRaises
  <2>1. UNCHANGED <<log, strat, conn, stop, main, stopped, raising, ending>> /\ main = "waiting"
    BY <1>7 DEF TimerRaises
  <2>2. CASE UNCHANGED listener
    BY <1>2, <2>1, <2>2, CoroutineStep
  <2>3. CASE listener' = [listener EXCEPT ![conn] = Latch(l, Stale)]
    <3>1. PICK r : r = Latch(l, Stale)
      OBVIOUS
    <3>2. /\ r \in Listener /\ Rest(l, r) /\ r.dataEnded = l.dataEnded /\ r.closeSent = l.closeSent
          /\ r.intent = (IF l.intent = NoCode THEN Stale ELSE l.intent)
      BY <1>3, <2>1, <3>1, LatchDoes, CodeFacts
    <3>3. Step(l, r) /\ r.fed = l.fed /\ ~Reading(r) /\ (r.finalized => strat = 0)
      BY <1>3, <2>1, <3>2, CodeFacts DEF Step, Sound, Rest, Reading
    <3>4. QED  BY <1>a, <1>2, <2>1, <2>3, <3>1, <3>3, QuietStep
  <2>4. QED  BY <1>a, <1>7, <2>2, <2>3 DEF TimerRaises
<1>8. CASE GraceEnds
  <2>1. /\ UNCHANGED <<listener, log, strat, conn, stop, stopped, raising>>
        /\ main = "grace" /\ main' = "teardown"
    BY <1>8 DEF GraceEnds
  <2>2. QED  BY <1>2, <2>1, CoroutineStep
<1>9. CASE Decide
  <2>1. /\ UNCHANGED <<listener, log, strat, conn, stop, stopped, raising>> /\ main = "ended"
        /\ \/ main' = "exited"
           \/ /\ main' = "dialing" /\ conn < MaxAttempts
              /\ ending \in {"PeerGone", "OSError"} /\ ending' = ending
    BY <1>9 DEF Decide
  <2>2. QED  BY <1>2, <2>1, CoroutineStep
<1>10. CASE OperatorStops
  <2>1. UNCHANGED <<listener, log, strat, conn, main, stopped, raising, ending>> /\ stop' = TRUE
    BY <1>10 DEF OperatorStops
  <2>2. QED  BY <1>2, <2>1, CoroutineStep
<1>11. QED  BY <1>4, <1>5, <1>6, <1>7, <1>8, <1>9, <1>10

(* The teardown finalizes the listener and tells the ending.                *)
LEMMA TeardownInv ==
  ASSUME Inv, Teardown
  PROVE  Inv'
<1>a. PICK l : l = listener[conn]
  OBVIOUS
<1>b. PICK h : h = IF l.disconnected /\ l.parserError /\ l.error = "none" THEN Latch(l, Protocol) ELSE l
  OBVIOUS
<1>c. PICK r : r = Finalize(h)
  OBVIOUS
<1>1. TypeOK /\ ListenersInv /\ StrategyInv /\ EndingInv /\ ReassemblyInv
  BY DEF Inv
<1>2. /\ main = "teardown" /\ main' = "ended" /\ listener' = [listener EXCEPT ![conn] = r]
      /\ UNCHANGED <<log, conn, stop, stopped, raising>>
      /\ strat' = IF r.finalized THEN Wipes(l) ELSE strat
      /\ ending' = IF l.disconnected /\ l.error # "none" THEN l.error
                   ELSE IF raising # "none" THEN raising
                   ELSE IF h.intent # NoCode THEN "Decided"
                   ELSE IF stopped THEN "Stopped" ELSE "PeerGone"
  BY <1>a, <1>b, <1>c DEF Teardown, TornDown, Ending
<1>3. l \in Listener /\ Sound(l) /\ conn \in Conns /\ conn \in Nat /\ conn > 0 /\ l.dataEnded
  BY <1>a, <1>1, <1>2, ConnFacts DEF TypeOK, ListenersInv
<1>4. /\ Step(l, h) /\ h.fed = l.fed /\ h.closeSent = l.closeSent /\ h.disconnected = l.disconnected
      /\ (l.disconnected /\ l.parserError /\ l.error = "none") => h.intent # NoCode
  <2>1. CASE l.disconnected /\ l.parserError /\ l.error = "none"
    <3>1. /\ h \in Listener /\ Rest(l, h) /\ h.dataEnded = l.dataEnded /\ h.closeSent = l.closeSent
          /\ h.intent = (IF l.intent = NoCode THEN Protocol ELSE l.intent)
      BY <1>b, <1>3, <2>1, CodeFacts, LatchDoes
    <3>2. QED  BY <1>3, <3>1, CodeFacts DEF Step, Sound, Rest
  <2>2. CASE ~(l.disconnected /\ l.parserError /\ l.error = "none")
    BY <1>b, <1>3, <2>2 DEF Step
  <2>3. QED  BY <2>1, <2>2
<1>5. /\ Ends(h, r) /\ r.finalized /\ r.intent = h.intent /\ r.closeSent = l.closeSent
      /\ r.disconnected = l.disconnected
  BY <1>c, <1>4, FinalizeDoes DEF Step
<1>6. Ends(l, r)
  BY <1>4, <1>5 DEF Ends, Step
<1>7. /\ listener' \in [Conns -> Listener]
      /\ \A d \in Conns : Sound(listener'[d])
      /\ listener'[conn] = r
      /\ \A d \in Conns : d # conn => listener'[d] = listener[d]
  BY <1>a, <1>1, <1>2, <1>3, <1>6, ListenersStep DEF Ends, Step
<1>8. strat' = 0
  BY <1>a, <1>1, <1>2, <1>5 DEF Wipes, StrategyInv
<1>9. TypeOK'
  <2>1. \A c \in Conns : c > conn => c # conn
    BY <1>3 DEF Conns
  <2>2. strat' \in 0 .. MaxAttempts
    BY <1>8, TunedAssumption
  <2>3. QED  BY <1>1, <1>2, <1>7, <2>1, <2>2 DEF TypeOK
<1>10. ListenersInv'
  <2>1. \A c \in Conns : c <= conn => c = conn \/ (Left(c) /\ c # conn)
    BY <1>3 DEF Left, Conns
  <2>2. main' \notin {"connected", "waiting", "grace", "teardown"}
    BY <1>2
  <2>3. QED  BY <1>1, <1>2, <1>5, <1>7, <2>1, <2>2 DEF ListenersInv
<1>11. StrategyInv'
  BY <1>8 DEF StrategyInv
<1>12. EndingInv'
  <2>0. l.error \in Raisings /\ raising \in Raisings
    BY <1>1, <1>3 DEF TypeOK, Listener
  <2>1. r.closeSent \in Verdicts => ending' \in {"Decided"} \cup Raised
    <3>1. SUFFICES ASSUME l.closeSent \in Verdicts
                   PROVE  ending' \in {"Decided"} \cup Raised
      BY <1>5
    <3>2. l.intent # NoCode \/ (l.parserError /\ l.disconnected)
      BY <1>3, <3>1 DEF Sound
    <3>3. CASE l.disconnected /\ l.error # "none"
      BY <1>2, <2>0, <3>3 DEF Raisings
    <3>4. CASE ~(l.disconnected /\ l.error # "none")
      <4>1. h.intent # NoCode
        BY <1>4, <3>2, <3>4 DEF Step
      <4>2. QED  BY <1>2, <2>0, <3>4, <4>1 DEF Raisings
    <3>5. QED  BY <3>3, <3>4
  <2>2. ending' = "PeerGone" => r.intent = NoCode
    BY <1>2, <1>5, <2>0 DEF Raisings, Raised
  <2>3. QED  BY <1>2, <1>7, <2>1, <2>2 DEF EndingInv
<1>13. ReassemblyInv'
  <2>1. Seen' = Seen /\ (InSequence(Len(log))' <=> InSequence(Len(log)))
    BY <1>2 DEF Seen, InSequence
  <2>2. r.fed = l.fed /\ ~Reading(r) /\ (l.intent # NoCode => r.intent = l.intent)
    BY <1>6 DEF Ends, Step, Reading
  <2>3. QED  BY <1>a, <1>1, <1>2, <1>3, <1>7, <2>1, <2>2, CodeFacts DEF ReassemblyInv
<1>14. QED  BY <1>9, <1>10, <1>11, <1>12, <1>13 DEF Inv

(* The socket was gone before the coroutine went on: its connection is      *)
(* finalized and the Strategy in no session.                                *)
LEMMA NodelayInv ==
  ASSUME Inv, NodelayFails
  PROVE  Inv'
<1>1. TypeOK /\ ListenersInv /\ StrategyInv /\ ReassemblyInv
  BY DEF Inv
<1>2. /\ main = "connected" /\ listener[conn].disconnected /\ main' = "ended" /\ ending' = "OSError"
      /\ UNCHANGED <<listener, log, strat, conn, stop, stopped, raising>>
  BY DEF NodelayFails
<1>3. listener[conn].finalized /\ conn \in Conns /\ conn \in Nat
  BY <1>1, <1>2, ConnFacts DEF ListenersInv
<1>4. TypeOK'
  BY <1>1, <1>2 DEF TypeOK
<1>5. ListenersInv'
  <2>1. \A c \in Conns : c <= conn => c = conn \/ Left(c)
    BY <1>3 DEF Left, Conns
  <2>2. QED  BY <1>1, <1>2, <1>3, <2>1 DEF ListenersInv
<1>6. StrategyInv'
  BY <1>1, <1>2, <1>3 DEF StrategyInv
<1>7. EndingInv'
  BY <1>2 DEF EndingInv, Raised
<1>8. ReassemblyInv'
  BY <1>1, <1>2 DEF ReassemblyInv, Seen, InSequence, InOrder
<1>9. QED  BY <1>4, <1>5, <1>6, <1>7, <1>8 DEF Inv

(* The invariant holds at the start.                                        *)
LEMMA InitInv == Init => Inv
<1> SUFFICES ASSUME Init PROVE Inv
  OBVIOUS
<1>1. /\ listener = [c \in Conns |-> NewListener] /\ log = << >> /\ strat = 0 /\ conn = 0
      /\ main = "dialing" /\ raising = "none" /\ stop = FALSE /\ stopped = FALSE
  BY DEF Init
<1>a. "none" \in Raisings
  BY DEF Raisings
<1>2. TypeOK
  <2>1. 0 \in 0 .. MaxAttempts /\ 0 < MaxAttempts
    BY TunedAssumption
  <2>2. log \in Seq(DataFrames)
    BY <1>1
  <2>3. listener \in [Conns -> Listener] /\ \A c \in Conns : listener[c] = NewListener
    BY <1>1, FreshListener
  <2>4. QED  BY <1>1, <1>a, <2>1, <2>2, <2>3 DEF TypeOK
<1>3. ListenersInv
  <2>1. \A c \in Conns : ~(c <= conn)
    BY <1>1 DEF Conns
  <2>2. QED  BY <1>1, <2>1, FreshListener DEF ListenersInv
<1>4. StrategyInv /\ EndingInv /\ ReassemblyInv
  BY <1>1 DEF StrategyInv, EndingInv, ReassemblyInv
<1>5. QED  BY <1>2, <1>3, <1>4 DEF Inv

(* Every step keeps the invariant.                                          *)
LEMMA NextInv == Inv /\ [Next]_vars => Inv'
<1> SUFFICES ASSUME Inv, [Next]_vars PROVE Inv'
  OBVIOUS
<1>1. CASE \E c \in Conns : Callbacks(c)
  <2>1. PICK c \in Conns : Callbacks(c)
    BY <1>1
  <2>2. CASE \E f \in DataFrames : OnData(c, f)
    BY <2>2, OnDataInv
  <2>3. CASE OnIllegalFrame(c) \/ PongFails(c) \/ OnPeerClose(c) \/ ParserRefuses(c)
    BY <2>3, FramesInv
  <2>4. CASE OnDisconnected(c)
    BY <2>4, OnDisconnectedInv
  <2>5. QED  BY <2>1, <2>2, <2>3, <2>4 DEF Callbacks
<1>2. CASE Dial \/ DialFails
  BY <1>2, DialInv
<1>3. CASE Handshake \/ TimerTick \/ TimerRaises \/ Resume \/ GraceEnds \/ Decide \/ OperatorStops
  BY <1>3, RunClientInv
<1>4. CASE Teardown \/ NodelayFails
  BY <1>4, TeardownInv, NodelayInv
<1>5. CASE UNCHANGED vars
  <2>1. UNCHANGED <<listener, log, strat, conn, main, ending, raising, stop, stopped>>
    BY <1>5 DEF vars
  <2>2. raising \in Raisings /\ stop \in BOOLEAN /\ stopped \in BOOLEAN
    BY DEF Inv, TypeOK
  <2>3. QED  BY <2>1, <2>2, CoroutineStep
<1>6. QED  BY <1>1, <1>2, <1>3, <1>4, <1>5 DEF Next

(* So it holds always.                                                      *)
LEMMA Invariance == Spec => []Inv
<1>1. QED  BY InitInv, NextInv, PTL DEF Spec

------------------------------------------------------------------------------
(* The Strategy sees exactly the messages whose frames came in sequence and *)
(* within the cap, for every cap and every run of frames (_reassemble).     *)
THEOREM ReassemblyIsExact == Spec => []ReassemblyExact
<1>1. Inv => ReassemblyExact
  BY DEF Inv, ReassemblyInv, ReassemblyExact, Seen, Completes
<1>2. QED  BY <1>1, Invariance, PTL

(* A session this side closed with a verdict is told as decided or by what  *)
(* run_client raises, never as a stop or as a peer that left, and is        *)
(* dialled again only behind the OSError of a socket call, whatever the     *)
(* order of the timer, the sends, the parser and the teardown (_ending,     *)
(* _teardown, run_with_reconnect).                                          *)
THEOREM VerdictsSurvive == Spec => []VerdictSurvives
<1>1. Inv => VerdictSurvives
  BY DEF Inv, EndingInv, VerdictSurvives
<1>2. QED  BY <1>1, Invariance, PTL
------------------------------------------------------------------------------
(* A callback changes one listener and wipes the Strategy only when it      *)
(* finalizes it, or it is a data frame.                                     *)
LEMMA CallbackDrives ==
  ASSUME Inv, NEW c \in Conns, Callbacks(c), NEW l, l = listener[c]
  PROVE  \E r : /\ listener' = [listener EXCEPT ![c] = r] /\ Step(l, r)
                /\ \/ r.fed = l.fed /\ strat' = strat
                   \/ r.fed = l.fed /\ strat' = Wipes(l) /\ r.finalized
                      /\ (l.finalized \/ c = conn)
                   \/ /\ c = conn /\ strat' \in {c, strat}
                      /\ Reading(l) /\ main \in {"connected", "waiting"}
<1>1. TypeOK /\ ListenersInv /\ StrategyInv /\ ReassemblyInv
  BY DEF Inv
<1>2. l \in Listener /\ Sound(l) /\ c \in Nat /\ conn \in Nat
  BY <1>1, ConnFacts DEF TypeOK, ListenersInv, Conns
<1>3. CASE \E f \in DataFrames : OnData(c, f)
  <2>1. PICK f \in DataFrames : OnData(c, f)
    BY <1>3
  <2>2. PICK r : r = Reassemble(l, f)
    OBVIOUS
  <2>3. /\ c = conn /\ Reading(l) /\ listener' = [listener EXCEPT ![c] = r]
        /\ strat' \in {c, strat} /\ main \in {"connected", "waiting", "grace"}
    BY <2>1, <2>2 DEF OnData, OnlyListener, Read, Reading
  <2>4. main \in {"connected", "waiting"}
    BY <1>1, <2>3 DEF ListenersInv, Reading
  <2>5. ~l.opened => l.size = 0
    <3>1. InOrder(l)
      BY <1>1, <1>2, <2>3, ConnFacts DEF ReassemblyInv, Conns
    <3>2. QED  BY <3>1 DEF InOrder
  <2>6. Step(l, r)
    BY <1>2, <2>2, <2>3, <2>5, ReassembleDoes
  <2>7. QED  BY <1>2, <2>3, <2>4, <2>6
<1>4. CASE OnIllegalFrame(c)
  <2>1. listener' = [listener EXCEPT ![c] = Abort(l, Protocol)] /\ strat' = strat /\ c = conn
    BY <1>4 DEF OnIllegalFrame, OnlyListener, Read
  <2>2. Ends(l, Abort(l, Protocol))
    BY <1>2, AbortDoes
  <2>3. QED  BY <1>2, <2>1, <2>2 DEF Ends
<1>5. CASE OnPeerClose(c)
  <2>1. PICK legal \in BOOLEAN :
          /\ listener' = [listener EXCEPT ![c] = PeerClosed(l, legal)] /\ strat' = strat /\ c = conn
    BY <1>5 DEF OnPeerClose, OnlyListener, Read, PeerClosed
  <2>2. PICK r : r = PeerClosed(l, legal)
    OBVIOUS
  <2>3. Ends(l, r)
    BY <1>2, <2>1, <2>2, PeerCloseDoes
  <2>4. QED  BY <1>2, <2>1, <2>2, <2>3 DEF Ends
<1>6. CASE ParserRefuses(c)
  <2>1. PICK d : d = [l EXCEPT !.closeSent = IF @ = NoCode THEN Protocol ELSE @,
                               !.parserError = TRUE, !.disconnected = TRUE]
    OBVIOUS
  <2>2. /\ d \in Listener /\ d.disconnected /\ d.finalized = l.finalized /\ d.intent = l.intent
        /\ d.fed = l.fed /\ d.dataEnded = l.dataEnded /\ d.parserError
        /\ d.closeSent = IF l.closeSent = NoCode THEN Protocol ELSE l.closeSent
    <3>1. Protocol \in Codes
      BY CodeFacts
    <3>2. QED  BY <1>2, <2>1, <3>1 DEF Listener
  <2>3. listener' = [listener EXCEPT ![c] = Finalize(d)] /\ strat' = Wipes(l) /\ c = conn
    BY <1>6, <2>1 DEF ParserRefuses, OnlyListener, Read
  <2>4. Ends(l, Finalize(d)) /\ Finalize(d).finalized
    BY <1>2, <2>2, DisconnectDoes
  <2>5. QED  BY <1>2, <2>3, <2>4 DEF Ends
<1>7. CASE OnDisconnected(c)
  <2>1. PICK d : d = [l EXCEPT !.disconnected = TRUE]
    OBVIOUS
  <2>2. /\ d \in Listener /\ d.disconnected /\ d.finalized = l.finalized /\ d.intent = l.intent
        /\ d.fed = l.fed /\ d.dataEnded = l.dataEnded /\ d.parserError = l.parserError
        /\ d.closeSent = l.closeSent
    BY <1>2, <2>1 DEF Listener
  <2>3. /\ listener' = [listener EXCEPT ![c] = Finalize(d)] /\ strat' = Wipes(l)
        /\ c <= conn /\ ~l.disconnected
    BY <1>7, <2>1 DEF OnDisconnected, OnlyListener
  <2>4. Ends(l, Finalize(d)) /\ Finalize(d).finalized
    BY <1>2, <2>2, DisconnectDoes
  <2>5. l.finalized \/ c = conn
    <3>1. c # conn => Left(c)
      BY <1>2, <2>3 DEF Left
    <3>2. QED  BY <1>1, <2>3, <3>1 DEF ListenersInv
  <2>6. QED  BY <2>3, <2>4, <2>5 DEF Ends
<1>8. CASE PongFails(c)
  <2>1. PICK r : r = Fails(l, "OSError")
    OBVIOUS
  <2>2. listener' = [listener EXCEPT ![c] = r] /\ strat' = strat
    BY <1>8, <2>1 DEF PongFails, OnlyListener
  <2>3. Ends(l, r)
    BY <1>2, <2>1, FailsDoes DEF Raised
  <2>4. QED  BY <2>2, <2>3 DEF Ends
<1>9. QED  BY <1>3, <1>4, <1>5, <1>6, <1>7, <1>8 DEF Callbacks

(* Nothing else feeds the Strategy, and the coroutine wipes it only as it   *)
(* finalizes the listener of its own connection.                            *)
LEMMA CoroutineDrives ==
  ASSUME Inv, Dial \/ DialFails \/ NodelayFails \/ Handshake \/ TimerTick \/ TimerRaises \/ Resume
              \/ GraceEnds \/ Teardown \/ Decide \/ OperatorStops
  PROVE  /\ \A c \in Conns : listener'[c].fed = listener[c].fed
         /\ \/ strat' = strat
            \/ strat' = Wipes(listener[conn]) /\ listener'[conn].finalized
<1>a. PICK l : l = listener[conn]
  OBVIOUS
<1>1. TypeOK /\ ListenersInv /\ StrategyInv
  BY DEF Inv
<1>2. listener \in [Conns -> Listener]
  BY <1>1 DEF TypeOK
<1>3. main # "dialing" => l \in Listener /\ Sound(l) /\ conn \in Conns
  BY <1>a, <1>1, ConnFacts DEF TypeOK, ListenersInv
<1>4. ASSUME NEW r, listener' = [listener EXCEPT ![conn] = r], r.fed = l.fed, conn \in Conns
      PROVE  \A c \in Conns : listener'[c].fed = listener[c].fed
  BY <1>a, <1>2, <1>4
<1>5. CASE Dial \/ NodelayFails \/ GraceEnds \/ Decide \/ OperatorStops
  BY <1>5 DEF Dial, NodelayFails, GraceEnds, Decide, OperatorStops
<1>6. CASE DialFails
  <2>1. listener' = [listener EXCEPT ![conn + 1].disconnected = TRUE] /\ strat' = strat
    BY <1>6 DEF DialFails
  <2>2. \A c \in Conns : listener[c] \in Listener
    BY <1>2
  <2>3. \A c \in Conns : listener'[c].fed = listener[c].fed
    BY <1>2, <2>1, <2>2 DEF Listener
  <2>4. QED  BY <2>1, <2>3
<1>7. CASE Handshake \/ Resume
  <2>1. /\ main # "dialing" /\ strat' = strat
        /\ listener' = listener \/ listener' = [listener EXCEPT ![conn] = Cleanup(l)]
    BY <1>a, <1>7 DEF Handshake, Resume
  <2>2. Cleanup(l).fed = l.fed
    BY <1>3, <2>1, CleanupDoes DEF Rest
  <2>3. QED  BY <1>3, <1>4, <2>1, <2>2
<1>8. CASE TimerTick
  <2>1. PICK r : r = Finish(Close(Latch(l, Stale)))
    OBVIOUS
  <2>2. main # "dialing" /\ strat' = strat /\ listener' = [listener EXCEPT ![conn] = r]
    BY <1>a, <1>8, <2>1 DEF TimerTick
  <2>3. r.fed = l.fed
    BY <1>3, <2>1, <2>2, VerdictDoes, CodeFacts DEF Rest
  <2>4. QED  BY <1>3, <1>4, <2>2, <2>3
<1>9. CASE Teardown
  <2>1. PICK h : h = IF l.disconnected /\ l.parserError /\ l.error = "none" THEN Latch(l, Protocol) ELSE l
    OBVIOUS
  <2>2. PICK r : r = Finalize(h)
    OBVIOUS
  <2>3. /\ main # "dialing" /\ main = "teardown" /\ listener' = [listener EXCEPT ![conn] = r]
        /\ strat' = IF r.finalized THEN Wipes(l) ELSE strat
    BY <1>a, <1>9, <2>1, <2>2 DEF Teardown, TornDown
  <2>4. /\ h \in Listener /\ h.fed = l.fed /\ h.finalized = l.finalized /\ h.dataEnded = l.dataEnded
        /\ h.closeSent = l.closeSent /\ h.parserError = l.parserError /\ h.disconnected = l.disconnected
        /\ (l.intent # NoCode => h.intent = l.intent)
    <3>1. /\ Latch(l, Protocol) \in Listener /\ Rest(l, Latch(l, Protocol))
          /\ Latch(l, Protocol).dataEnded = l.dataEnded
          /\ Latch(l, Protocol).intent = (IF l.intent = NoCode THEN Protocol ELSE l.intent)
          /\ Latch(l, Protocol).closeSent = l.closeSent
      BY <1>3, <2>3, LatchDoes, CodeFacts
    <3>2. CASE h = Latch(l, Protocol)
      BY <3>1, <3>2 DEF Rest
    <3>3. CASE h = l
      BY <1>3, <2>3, <3>3
    <3>4. QED  BY <2>1, <3>2, <3>3
  <2>5. Sound(h)
    BY <1>3, <2>3, <2>4 DEF Sound
  <2>6. r.fed = l.fed /\ r.finalized
    BY <2>2, <2>4, <2>5, FinalizeDoes DEF Ends
  <2>7. listener'[conn] = r
    BY <1>2, <1>3, <2>3
  <2>8. \A c \in Conns : listener'[c].fed = listener[c].fed
    BY <1>3, <1>4, <2>3, <2>6
  <2>9. QED  BY <1>a, <2>3, <2>6, <2>7, <2>8
<1>10. CASE TimerRaises
  <2>1. PICK r : r = Latch(l, Stale)
    OBVIOUS
  <2>2. /\ main # "dialing" /\ strat' = strat
        /\ listener' = listener \/ listener' = [listener EXCEPT ![conn] = r]
    BY <1>a, <1>10, <2>1 DEF TimerRaises
  <2>3. r.fed = l.fed
    BY <1>3, <2>1, <2>2, LatchDoes, CodeFacts DEF Rest
  <2>4. QED  BY <1>3, <1>4, <2>2, <2>3
<1>11. QED  BY <1>5, <1>6, <1>7, <1>8, <1>9, <1>10

(* The connections of a run never meet in the Strategy, for every number of *)
(* attempts and however late picows' disconnect callbacks come, and no      *)
(* message reaches it after a close frame of ours or past the stop          *)
(* (finalize, end_data before _close, the head of _dispatch).               *)
THEOREM OneSessionAtATime == Spec => OneSessionDrives
<1> DEFINE Enters == \/ strat = 0
                     \/ strat' = 0 /\ listener'[strat].finalized /\ ~listener[strat].finalized
           Fed == \A c \in Conns : listener'[c].fed # listener[c].fed =>
                    listener[c].closeSent = NoCode /\ main \in {"connected", "waiting"}
<1>1. ASSUME Inv, [Next]_vars PROVE (strat' # strat => Enters) /\ Fed
  <2>1. /\ strat # 0 => strat = conn /\ ~listener[conn].finalized
        /\ listener \in [Conns -> Listener] /\ \A c \in Conns : Sound(listener[c])
    BY <1>1 DEF Inv, StrategyInv, TypeOK, ListenersInv
  <2>2. CASE \E c \in Conns : Callbacks(c)
    <3>1. PICK c \in Conns : Callbacks(c)
      BY <2>2
    <3>2. PICK l : l = listener[c]
      OBVIOUS
    <3>3. PICK r : /\ listener' = [listener EXCEPT ![c] = r] /\ Step(l, r)
                   /\ \/ r.fed = l.fed /\ strat' = strat
                      \/ r.fed = l.fed /\ strat' = Wipes(l) /\ r.finalized
                         /\ (l.finalized \/ c = conn)
                      \/ /\ c = conn /\ strat' \in {c, strat}
                         /\ Reading(l) /\ main \in {"connected", "waiting"}
      BY <1>1, <3>1, <3>2, CallbackDrives
    <3>4. listener'[c] = r /\ \A d \in Conns : d # c => listener'[d] = listener[d]
      BY <2>1, <3>3
    <3>5. Fed
      <4>1. Reading(l) => l.closeSent = NoCode
        BY <2>1, <3>2 DEF Reading, Sound
      <4>2. QED  BY <3>2, <3>3, <3>4, <4>1
    <3>6. strat' # strat => Enters
      BY <2>1, <3>2, <3>3, <3>4 DEF Wipes
    <3>7. QED  BY <3>5, <3>6
  <2>3. CASE Dial \/ DialFails \/ NodelayFails \/ Handshake \/ TimerTick \/ TimerRaises \/ Resume
             \/ GraceEnds \/ Teardown \/ Decide \/ OperatorStops
    <3>1. /\ \A c \in Conns : listener'[c].fed = listener[c].fed
          /\ \/ strat' = strat
             \/ strat' = Wipes(listener[conn]) /\ listener'[conn].finalized
      BY <1>1, <2>3, CoroutineDrives
    <3>2. QED  BY <2>1, <3>1 DEF Wipes
  <2>4. CASE UNCHANGED vars
    BY <2>4 DEF vars
  <2>5. QED  BY <1>1, <2>2, <2>3, <2>4 DEF Next
<1>2. Inv /\ [Next]_vars =>
        /\ [strat' # strat =>
              \/ strat = 0
              \/ strat' = 0 /\ listener'[strat].finalized /\ ~listener[strat].finalized]_vars
        /\ [\A c \in Conns : listener'[c].fed # listener[c].fed =>
              listener[c].closeSent = NoCode /\ main \in {"connected", "waiting"}]_vars
  BY <1>1
<1>3. QED  BY <1>2, Invariance, PTL DEF Spec, OneSessionDrives
==============================================================================
