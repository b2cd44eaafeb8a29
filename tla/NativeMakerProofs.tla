-------------------------- MODULE NativeMakerProofs --------------------------
(***************************************************************************)
(* The native market maker over the shared-memory order ring, for every    *)
(* capacity, limit, order size and sequence of ticks, fills and rejects:   *)
(* orders arrive whole and in order, the position the maker knows stays    *)
(* within one order of its limit, and the quotes it counts on stand.       *)
(***************************************************************************)
EXTENDS NativeMaker, SequenceTheorems, TLAPS

Maker == [pos : Int, bid : Nat, ask : Nat, bidPx : Int, askPx : Int, nextId : Nat \ {0}]

Command ==
  [type : {"new"}, side : {"bid", "ask"}, id : Nat \ {0}, px : Int]
    \cup [type : {"cancel"}, id : Nat \ {0}]

Order == [id : Nat \ {0}, side : {"bid", "ask"}, px : Int, qty : 0 .. OrderSize]

ReportSet == [type : {"ack", "fill", "reject"}, id : Nat \ {0}, qty : 0 .. OrderSize]

TypeOK ==
  /\ slots \in [0 .. Capacity - 1 -> Int] /\ copy \in Int /\ got \in Seq(Int)
  /\ head \in Nat /\ tail \in Nat /\ prodHead \in Nat /\ consHead \in Nat
  /\ prodPc \in {"idle", "check", "write", "publish"}
  /\ consPc \in {"idle", "check", "copy", "retire"}
  /\ maker \in Maker /\ sent \in Seq(Command)
  /\ resting \subseteq Order /\ reports \in Seq(ReportSet)

(* The ring: what each process has established inside a call, and the      *)
(* window of messages pushed and not yet popped.                           *)
RingInv ==
  /\ head <= tail /\ tail <= head + Capacity /\ prodHead <= head
  /\ prodPc \in {"write", "publish"} => tail < head + Capacity
  /\ prodPc = "publish" => slots[Mask(tail)] = tail + 1
  /\ consPc # "idle" => consHead = head
  /\ consPc \in {"copy", "retire"} => head < tail
  /\ consPc = "retire" => copy = head + 1
  /\ \A i \in Nat : head <= i /\ i < tail => slots[Mask(i)] = i + 1
  /\ Len(got) = head /\ OrdersArrive

(* The ring carries the decisions, and the driver decides between pushes.  *)
DriverInv == tail <= Len(sent) /\ (prodPc # "idle" => tail < Len(sent))

(* A side is quoted only within the limit, with an id of its own.          *)
Good(m) ==
  /\ m \in Maker
  /\ m.pos \in -(MaxPosition + OrderSize - 1) .. MaxPosition + OrderSize - 1
  /\ m.bid # NoId => m.pos < MaxPosition
  /\ m.ask # NoId => m.pos > -MaxPosition
  /\ m.bid < m.nextId /\ m.ask < m.nextId
  /\ m.bid # NoId => m.bid # m.ask
  /\ m.bid # NoId /\ m.ask # NoId => m.bidPx < m.askPx

Elems(s) == {s[k] : k \in 1 .. Len(s)}
Beyond(s, n) == {s[k] : k \in n + 1 .. Len(s)}
Px(m, side) == IF side = "bid" THEN m.bidPx ELSE m.askPx

(* Ids are used once: a command's id is not given out again, and one that  *)
(* was cancelled is not held.                                              *)
Spent(m, cmds) ==
  \A c \in cmds : c.id < m.nextId /\ (c.type = "cancel" => c.id \notin {m.bid, m.ask})

(* The order a held quote stands for is still to be applied, rests         *)
(* untouched, or a report that takes the quote back is on its way.         *)
Untouched(m, side) == [id |-> Quote(m, side), side |-> side, px |-> Px(m, side), qty |-> OrderSize]

Stands(m, side, cmds, orders, reps) ==
  \/ Quote(m, side) = NoId
  \/ New(side, Quote(m, side), Px(m, side)) \in cmds
  \/ Untouched(m, side) \in orders
  \/ \E r \in reps : r.id = Quote(m, side) /\ r.type \in {"fill", "reject"}

QuotesInv ==
  /\ Good(maker)
  /\ Spent(maker, Elems(sent))
  /\ \A side \in {"bid", "ask"} :
       Stands(maker, side, Beyond(sent, head), resting, Elems(reports))

Inv == TypeOK /\ RingInv /\ DriverInv /\ QuotesInv
------------------------------------------------------------------------------
(* Two sequences one after the other.                                      *)
Join(s, t) == s \o t

(* The elements of a sequence that grew.                                   *)
LEMMA ElemsJoin ==
  ASSUME NEW s \in Seq(Command), NEW t \in Seq(Command)
  PROVE  /\ Join(s, t) \in Seq(Command) /\ Len(Join(s, t)) = Len(s) + Len(t)
         /\ Elems(Join(s, t)) = Elems(s) \cup Elems(t)
         /\ \A n \in 0 .. Len(s) : Beyond(Join(s, t), n) = Beyond(s, n) \cup Elems(t)
<1>0. PICK u : u = s \o t
  OBVIOUS
<1>1. /\ u \in Seq(Command) /\ Len(s) \in Nat /\ Len(t) \in Nat /\ Len(u) = Len(s) + Len(t)
      /\ \A k \in 1 .. Len(s) : u[k] = s[k]
      /\ \A k \in 1 .. Len(t) : u[Len(s) + k] = t[k]
  BY <1>0
<1>2. \A k \in 1 .. Len(u) : k \in 1 .. Len(s) \/ (k - Len(s) \in 1 .. Len(t) /\ k = Len(s) + (k - Len(s)))
  BY <1>1
<1>3. \A k \in 1 .. Len(t) : Len(s) + k \in 1 .. Len(u)
  BY <1>1
<1>4. \A k \in 1 .. Len(s) : k \in 1 .. Len(u)
  BY <1>1
<1>5. Elems(u) = Elems(s) \cup Elems(t)
  <2>1. ASSUME NEW x \in Elems(u) PROVE x \in Elems(s) \cup Elems(t)
    <3>1. PICK k \in 1 .. Len(u) : x = u[k]
      BY <2>1 DEF Elems
    <3>2. CASE k \in 1 .. Len(s)
      BY <1>1, <3>1, <3>2 DEF Elems
    <3>3. CASE k - Len(s) \in 1 .. Len(t) /\ k = Len(s) + (k - Len(s))
      <4>1. x = t[k - Len(s)]
        BY <1>1, <3>1, <3>3
      <4>2. QED  BY <3>3, <4>1 DEF Elems
    <3>4. QED  BY <1>2, <3>2, <3>3
  <2>2. ASSUME NEW x \in Elems(s) PROVE x \in Elems(u)
    BY <1>1, <1>4, <2>2 DEF Elems
  <2>3. ASSUME NEW x \in Elems(t) PROVE x \in Elems(u)
    BY <1>1, <1>3, <2>3 DEF Elems
  <2>4. QED  BY <2>1, <2>2, <2>3
<1>6. ASSUME NEW n \in 0 .. Len(s) PROVE Beyond(u, n) = Beyond(s, n) \cup Elems(t)
  <2>0. /\ n \in Nat
        /\ \A k \in 1 .. Len(t) : Len(s) + k \in n + 1 .. Len(u)
        /\ \A k \in 1 .. Len(s) : (k \in n + 1 .. Len(s) <=> k > n)
    BY <1>1
  <2>1. ASSUME NEW x \in Beyond(u, n) PROVE x \in Beyond(s, n) \cup Elems(t)
    <3>1. PICK k \in n + 1 .. Len(u) : x = u[k]
      BY <2>1 DEF Beyond
    <3>2. k \in 1 .. Len(u) /\ k > n
      BY <1>1, <2>0, <3>1
    <3>3. CASE k \in 1 .. Len(s)
      BY <1>1, <1>4, <2>0, <3>1, <3>2, <3>3 DEF Beyond
    <3>4. CASE k - Len(s) \in 1 .. Len(t) /\ k = Len(s) + (k - Len(s))
      <4>1. x = t[k - Len(s)]
        BY <1>1, <3>1, <3>4
      <4>2. QED  BY <3>4, <4>1 DEF Elems
    <3>5. QED  BY <1>2, <3>2, <3>3, <3>4
  <2>2. ASSUME NEW x \in Beyond(s, n) PROVE x \in Beyond(u, n)
    <3>1. PICK k \in n + 1 .. Len(s) : x = s[k]
      BY <2>2 DEF Beyond
    <3>2. k \in 1 .. Len(s) /\ k \in n + 1 .. Len(u)
      BY <1>1, <2>0, <3>1
    <3>3. QED  BY <1>1, <3>1, <3>2 DEF Beyond
  <2>3. ASSUME NEW x \in Elems(t) PROVE x \in Beyond(u, n)
    BY <1>1, <1>3, <2>0, <2>3 DEF Beyond, Elems
  <2>4. QED  BY <2>1, <2>2, <2>3
<1>7. QED  BY <1>0, <1>1, <1>5, <1>6 DEF Join

(* Sequences of no and of one element.                                     *)
LEMMA ElemsSmall ==
  /\ \A X : << >> \in Seq(X)
  /\ Elems(<< >>) = {}
  /\ \A X, x : x \in X => <<x>> \in Seq(X)
  /\ \A x : Elems(<<x>>) = {x}
<1>1. Elems(<< >>) = {}
  BY DEF Elems
<1>2. \A x : Elems(<<x>>) = {x}
  <2> SUFFICES ASSUME NEW x PROVE Elems(<<x>>) = {x}
    OBVIOUS
  <2>1. 1 .. Len(<<x>>) = {1} /\ <<x>>[1] = x
    OBVIOUS
  <2>2. QED  BY <2>1 DEF Elems
<1>3. QED  BY <1>1, <1>2

(* A report is appended, and the oldest one leaves.                        *)
LEMMA ElemsQueue ==
  ASSUME NEW X, NEW s \in Seq(X)
  PROVE  /\ \A x \in X : Append(s, x) \in Seq(X) /\ Elems(Append(s, x)) = Elems(s) \cup {x}
         /\ s # << >> => /\ Head(s) \in X /\ Tail(s) \in Seq(X)
                         /\ Elems(s) = {Head(s)} \cup Elems(Tail(s))
<1>1. ASSUME NEW x \in X PROVE Append(s, x) \in Seq(X) /\ Elems(Append(s, x)) = Elems(s) \cup {x}
  <2>1. /\ Append(s, x) \in Seq(X) /\ Len(s) \in Nat /\ Len(Append(s, x)) = Len(s) + 1
        /\ Append(s, x)[Len(s) + 1] = x /\ \A k \in 1 .. Len(s) : Append(s, x)[k] = s[k]
    OBVIOUS
  <2>2. \A k : k \in 1 .. Len(s) + 1 <=> k \in 1 .. Len(s) \/ k = Len(s) + 1
    BY <2>1
  <2>3. \A y : y \in Elems(Append(s, x)) <=> y \in Elems(s) \/ y = x
    BY <2>1, <2>2 DEF Elems
  <2>4. QED  BY <2>1, <2>3
<1>2. ASSUME s # << >> PROVE /\ Head(s) \in X /\ Tail(s) \in Seq(X)
                             /\ Elems(s) = {Head(s)} \cup Elems(Tail(s))
  <2>1. /\ Head(s) \in X /\ Head(s) = s[1] /\ Tail(s) \in Seq(X) /\ Len(s) \in Nat \ {0}
        /\ Len(Tail(s)) = Len(s) - 1 /\ \A k \in 1 .. Len(s) - 1 : Tail(s)[k] = s[k + 1]
    BY <1>2
  <2>2. /\ \A k \in 1 .. Len(s) - 1 : k + 1 \in 1 .. Len(s)
        /\ \A k \in 1 .. Len(s) : k = 1 \/ (k - 1 \in 1 .. Len(s) - 1 /\ (k - 1) + 1 = k)
        /\ 1 \in 1 .. Len(s)
    BY <2>1
  <2>3. ASSUME NEW y \in Elems(s) PROVE y = Head(s) \/ y \in Elems(Tail(s))
    <3>1. PICK k \in 1 .. Len(s) : y = s[k]
      BY <2>3 DEF Elems
    <3>2. CASE k = 1
      BY <2>1, <3>1, <3>2
    <3>3. CASE k - 1 \in 1 .. Len(s) - 1 /\ (k - 1) + 1 = k
      <4>1. y = Tail(s)[k - 1]
        BY <2>1, <3>1, <3>3
      <4>2. QED  BY <2>1, <3>3, <4>1 DEF Elems
    <3>4. QED  BY <2>2, <3>2, <3>3
  <2>4. ASSUME NEW y \in Elems(Tail(s)) PROVE y \in Elems(s)
    <3>1. PICK k \in 1 .. Len(s) - 1 : y = Tail(s)[k]
      BY <2>1, <2>4 DEF Elems
    <3>2. y = s[k + 1] /\ k + 1 \in 1 .. Len(s)
      BY <2>1, <2>2, <3>1
    <3>3. QED  BY <3>2 DEF Elems
  <2>5. Head(s) \in Elems(s)
    BY <2>1, <2>2 DEF Elems
  <2>6. QED  BY <2>1, <2>3, <2>4, <2>5
<1>3. QED  BY <1>1, <1>2

------------------------------------------------------------------------------
(* One side of a decision: the other side and the position are left alone, *)
(* what is cancelled is not held any more, and a quote that is held is the *)
(* old one or was posted.                                                  *)
Managed(m, x, side) ==
  /\ x.m \in Maker /\ x.m.pos = m.pos
  /\ side = "bid" => x.m.ask = m.ask /\ x.m.askPx = m.askPx
  /\ side = "ask" => x.m.bid = m.bid /\ x.m.bidPx = m.bidPx
  /\ x.cancels \in Seq(Command) /\ x.news \in Seq(Command)
  /\ \A c \in Elems(x.cancels) :
       c.type = "cancel" /\ c.id = Quote(m, side) /\ c.id # NoId /\ Quote(x.m, side) # c.id
  /\ \/ Quote(x.m, side) = NoId /\ x.m.nextId = m.nextId /\ Elems(x.news) = {}
     \/ /\ Quote(x.m, side) = Quote(m, side) /\ Px(x.m, side) = Px(m, side)
        /\ x.m.nextId = m.nextId /\ Elems(x.news) = {}
     \/ /\ Quote(x.m, side) = m.nextId /\ x.m.nextId = m.nextId + 1
        /\ Elems(x.news) = {New(side, m.nextId, Px(x.m, side))}

(* The commands are typed.                                                 *)
LEMMA CommandFacts ==
  /\ \A id \in Nat \ {0} : Cancel(id) \in Command /\ Cancel(id).type = "cancel" /\ Cancel(id).id = id
  /\ \A side \in {"bid", "ask"}, id \in Nat \ {0}, px \in Int :
       /\ New(side, id, px) \in Command /\ New(side, id, px).type = "new"
       /\ New(side, id, px).id = id
BY DEF Command, Cancel, New

(* A quote that is pulled.                                                 *)
LEMMA WithdrawDoes ==
  ASSUME NEW m \in Maker, m.bid < m.nextId, m.ask < m.nextId, NEW side \in {"bid", "ask"},
         NEW x, x = Withdraw(m, side)
  PROVE  Managed(m, x, side) /\ Quote(x.m, side) = NoId
<1>1. m.bid \in Nat /\ m.ask \in Nat
  BY DEF Maker
<1>2. CASE Quote(m, side) = NoId
  <2>1. x.m = m /\ x.cancels = << >> /\ x.news = << >>
    BY <1>2 DEF Withdraw, Side
  <2>2. QED  BY <1>2, <2>1, ElemsSmall DEF Managed
<1>3. CASE Quote(m, side) # NoId
  <2>1. x.m = Withdrawn(m, side) /\ x.cancels = <<Cancel(Quote(m, side))>> /\ x.news = << >>
    BY <1>3 DEF Withdraw, Side
  <2>2. /\ x.m \in Maker /\ x.m.pos = m.pos /\ x.m.nextId = m.nextId
        /\ side = "bid" => x.m.ask = m.ask /\ x.m.askPx = m.askPx
        /\ side = "ask" => x.m.bid = m.bid /\ x.m.bidPx = m.bidPx
        /\ Quote(x.m, side) = NoId
    BY <2>1 DEF Withdrawn, Maker, Quote, NoId
  <2>3. Quote(m, side) \in Nat \ {0}
    BY <1>1, <1>3 DEF Quote, NoId
  <2>4. PICK c \in Command : c = Cancel(Quote(m, side)) /\ c.type = "cancel" /\ c.id = Quote(m, side)
    BY <2>3, CommandFacts
  <2>5. /\ x.cancels \in Seq(Command) /\ Elems(x.cancels) = {c}
        /\ x.news \in Seq(Command) /\ Elems(x.news) = {}
    BY <2>1, <2>4, ElemsSmall
  <2>6. QED  BY <1>3, <2>2, <2>4, <2>5 DEF Managed
<1>4. QED  BY <1>2, <1>3

(* A quote that is posted, moved or left.                                  *)
LEMMA RequoteDoes ==
  ASSUME NEW m \in Maker, m.bid < m.nextId, m.ask < m.nextId, NEW side \in {"bid", "ask"},
         NEW px \in Int, NEW x, x = Requote(m, side, px)
  PROVE  Managed(m, x, side) /\ Px(x.m, side) = px
<1>1. m.bid \in Nat /\ m.ask \in Nat /\ m.nextId \in Nat \ {0}
  BY DEF Maker
<1>2. CASE Quote(m, side) # NoId /\ ~Moved(m, side, px)
  <2>1. x.m = m /\ x.cancels = << >> /\ x.news = << >>
    BY <1>2 DEF Requote, Side
  <2>2. QED  BY <1>2, <2>1, ElemsSmall DEF Managed, Moved, Px
<1>3. CASE ~(Quote(m, side) # NoId /\ ~Moved(m, side, px))
  <2>1. /\ x.m = Posted(m, side, px) /\ x.news = <<New(side, m.nextId, px)>>
        /\ x.cancels = IF Quote(m, side) = NoId THEN << >> ELSE <<Cancel(Quote(m, side))>>
    BY <1>3 DEF Requote, Side
  <2>2. PICK n \in Nat \ {0} : n = m.nextId + 1
    BY <1>1
  <2>3. /\ x.m \in Maker /\ x.m.pos = m.pos /\ x.m.nextId = n
        /\ side = "bid" => x.m.ask = m.ask /\ x.m.askPx = m.askPx
        /\ side = "ask" => x.m.bid = m.bid /\ x.m.bidPx = m.bidPx
        /\ Quote(x.m, side) = m.nextId /\ Px(x.m, side) = px
    <3>1. x.m = IF side = "bid" THEN [m EXCEPT !.bid = m.nextId, !.bidPx = px, !.nextId = n]
                ELSE [m EXCEPT !.ask = m.nextId, !.askPx = px, !.nextId = n]
      BY <2>1, <2>2 DEF Posted
    <3>2. QED  BY <1>1, <3>1 DEF Maker, Quote, Px
  <2>4. x.news \in Seq(Command) /\ Elems(x.news) = {New(side, m.nextId, px)}
    <3>1. New(side, m.nextId, px) \in Command
      BY <1>1, CommandFacts
    <3>2. QED  BY <2>1, <3>1, ElemsSmall
  <2>5. /\ x.cancels \in Seq(Command)
        /\ \A c \in Elems(x.cancels) :
             c.type = "cancel" /\ c.id = Quote(m, side) /\ c.id # NoId /\ Quote(x.m, side) # c.id
    <3>1. CASE Quote(m, side) = NoId
      BY <2>1, <3>1, ElemsSmall
    <3>2. CASE Quote(m, side) # NoId
      <4>1. Quote(m, side) \in Nat \ {0} /\ Quote(m, side) < m.nextId
        BY <1>1, <3>2 DEF Quote, NoId
      <4>2. PICK c \in Command : c = Cancel(Quote(m, side)) /\ c.type = "cancel" /\ c.id = Quote(m, side)
        BY <4>1, CommandFacts
      <4>3. x.cancels \in Seq(Command) /\ Elems(x.cancels) = {c}
        BY <2>1, <3>2, <4>2, ElemsSmall
      <4>4. Quote(x.m, side) # c.id
        BY <1>1, <2>3, <4>1, <4>2
      <4>5. QED  BY <3>2, <4>2, <4>3, <4>4
    <3>3. QED  BY <3>1, <3>2
  <2>6. QED  BY <2>2, <2>3, <2>4, <2>5 DEF Managed
<1>4. QED  BY <1>2, <1>3

(* A side is quoted only where the limit and the book allow it, at the     *)
(* price asked for.                                                        *)
LEMMA ManageDoes ==
  ASSUME NEW m \in Maker, m.bid < m.nextId, m.ask < m.nextId, NEW side \in {"bid", "ask"},
         NEW px \in Int, NEW clear \in BOOLEAN, NEW x, x = Manage(m, side, px, clear)
  PROVE  /\ Managed(m, x, side)
         /\ Quote(x.m, side) # NoId => MayQuote(m, side) /\ Px(x.m, side) = px
<1>1. CASE MayQuote(m, side) /\ clear
  <2>1. x = Requote(m, side, px)
    BY <1>1 DEF Manage
  <2>2. QED  BY <1>1, <2>1, RequoteDoes
<1>2. CASE ~(MayQuote(m, side) /\ clear)
  <2>1. x = Withdraw(m, side)
    BY <1>2 DEF Manage
  <2>2. QED  BY <2>1, WithdrawDoes
<1>3. QED  BY <1>1, <1>2

(* What a decision does to the maker, and what it sends.                   *)
Decided(m, d) ==
  /\ Good(d.m) /\ d.m.nextId >= m.nextId
  /\ d.cmds \in Seq(Command) /\ Spent(d.m, Elems(d.cmds))
  /\ \A id \in Nat \ {0} : id < m.nextId /\ id \notin {m.bid, m.ask} => id \notin {d.m.bid, d.m.ask}
  /\ \A side \in {"bid", "ask"} :
       \/ Quote(d.m, side) = NoId
       \/ Quote(d.m, side) = Quote(m, side) /\ Px(d.m, side) = Px(m, side)
       \/ New(side, Quote(d.m, side), Px(d.m, side)) \in Elems(d.cmds)

(* The two sides together.                                                 *)
LEMMA BothDoes ==
  ASSUME NEW m, Good(m), NEW b, Managed(m, b, "bid"), NEW a, Managed(b.m, a, "ask"),
         b.m.bid # NoId => m.pos < MaxPosition,
         a.m.ask # NoId => m.pos > -MaxPosition,
         b.m.bid # NoId /\ a.m.ask # NoId => b.m.bidPx < a.m.askPx,
         NEW d, d = Both(b, a)
  PROVE  Decided(m, d)
<1>1. d.m = a.m /\ d.cmds = (b.cancels \o a.cancels) \o (b.news \o a.news)
  BY DEF Both
<1>2. /\ a.m \in Maker /\ b.m \in Maker /\ m \in Maker
      /\ a.m.pos = m.pos /\ a.m.bid = b.m.bid /\ a.m.bidPx = b.m.bidPx
      /\ b.m.ask = m.ask /\ b.m.askPx = m.askPx
  BY DEF Managed, Good
<1>3. /\ m.bid \in Nat /\ m.ask \in Nat /\ m.nextId \in Nat \ {0} /\ m.bid < m.nextId /\ m.ask < m.nextId
      /\ m.bid # NoId => m.bid # m.ask
      /\ b.m.bid \in Nat /\ b.m.nextId \in Nat /\ a.m.ask \in Nat /\ a.m.nextId \in Nat
  BY <1>2 DEF Maker, Good
<1>4. /\ \A c \in Elems(b.cancels) : c.type = "cancel" /\ c.id = m.bid /\ c.id # NoId /\ b.m.bid # c.id
      /\ \A c \in Elems(a.cancels) : c.type = "cancel" /\ c.id = m.ask /\ c.id # NoId /\ a.m.ask # c.id
  BY <1>2 DEF Managed, Quote
<1>5. \/ b.m.bid = NoId /\ b.m.nextId = m.nextId /\ Elems(b.news) = {}
      \/ b.m.bid = m.bid /\ b.m.bidPx = m.bidPx /\ b.m.nextId = m.nextId /\ Elems(b.news) = {}
      \/ /\ b.m.bid = m.nextId /\ b.m.nextId = m.nextId + 1
         /\ Elems(b.news) = {New("bid", m.nextId, b.m.bidPx)}
  BY DEF Managed, Quote, Px
<1>6. \/ a.m.ask = NoId /\ a.m.nextId = b.m.nextId /\ Elems(a.news) = {}
      \/ a.m.ask = m.ask /\ a.m.askPx = m.askPx /\ a.m.nextId = b.m.nextId /\ Elems(a.news) = {}
      \/ /\ a.m.ask = b.m.nextId /\ a.m.nextId = b.m.nextId + 1
         /\ Elems(a.news) = {New("ask", b.m.nextId, a.m.askPx)}
  BY <1>2 DEF Managed, Quote, Px
<1>7. /\ d.cmds \in Seq(Command)
      /\ Elems(d.cmds) = (Elems(b.cancels) \cup Elems(a.cancels)) \cup (Elems(b.news) \cup Elems(a.news))
  <2>1. /\ b.cancels \in Seq(Command) /\ a.cancels \in Seq(Command)
        /\ b.news \in Seq(Command) /\ a.news \in Seq(Command)
    BY DEF Managed
  <2>2. d.cmds = Join(Join(b.cancels, a.cancels), Join(b.news, a.news))
    BY <1>1 DEF Join
  <2>3. PICK u : u = Join(b.cancels, a.cancels)
    OBVIOUS
  <2>4. PICK v : v = Join(b.news, a.news)
    OBVIOUS
  <2>5. u \in Seq(Command) /\ Elems(u) = Elems(b.cancels) \cup Elems(a.cancels)
    BY <2>1, <2>3, ElemsJoin
  <2>6. v \in Seq(Command) /\ Elems(v) = Elems(b.news) \cup Elems(a.news)
    BY <2>1, <2>4, ElemsJoin
  <2>7. d.cmds = Join(u, v)
    BY <2>2, <2>3, <2>4
  <2>8. d.cmds \in Seq(Command) /\ Elems(d.cmds) = Elems(u) \cup Elems(v)
    BY <2>5, <2>6, <2>7, ElemsJoin, ZenonT(60)
  <2>9. QED  BY <2>5, <2>6, <2>8
<1>8. /\ a.m.nextId >= m.nextId /\ a.m.nextId >= b.m.nextId /\ a.m.bid < a.m.nextId /\ a.m.ask < a.m.nextId
      /\ b.m.nextId >= m.nextId
      /\ a.m.bid # NoId => a.m.bid # a.m.ask
  BY <1>2, <1>3, <1>5, <1>6 DEF NoId
<1>9. Good(d.m)
  BY <1>1, <1>2, <1>8 DEF Good
<1>10. Spent(d.m, Elems(d.cmds))
  <2>1. ASSUME NEW c \in Elems(b.cancels) PROVE c.id < a.m.nextId /\ c.id \notin {a.m.bid, a.m.ask}
    <3>1. c.id = m.bid /\ c.id # NoId /\ b.m.bid # c.id
      BY <1>4, <2>1
    <3>2. QED  BY <1>2, <1>3, <1>6, <1>8, <3>1 DEF NoId
  <2>2. ASSUME NEW c \in Elems(a.cancels) PROVE c.id < a.m.nextId /\ c.id \notin {a.m.bid, a.m.ask}
    <3>1. c.id = m.ask /\ c.id # NoId /\ a.m.ask # c.id
      BY <1>4, <2>2
    <3>2. QED  BY <1>2, <1>3, <1>5, <1>8, <3>1 DEF NoId
  <2>3. ASSUME NEW c \in Elems(b.news) \cup Elems(a.news) PROVE c.id < a.m.nextId /\ c.type # "cancel"
    <3>1. CASE c = New("bid", m.nextId, b.m.bidPx) /\ b.m.nextId = m.nextId + 1
      BY <1>3, <1>8, <3>1 DEF New
    <3>2. CASE c = New("ask", b.m.nextId, a.m.askPx) /\ a.m.nextId = b.m.nextId + 1
      BY <1>3, <1>8, <3>2 DEF New
    <3>3. QED  BY <1>5, <1>6, <2>3, <3>1, <3>2
  <2>4. QED  BY <1>1, <1>7, <2>1, <2>2, <2>3 DEF Spent
<1>11. \A id \in Nat \ {0} : id < m.nextId /\ id \notin {m.bid, m.ask} => id \notin {d.m.bid, d.m.ask}
  BY <1>1, <1>2, <1>3, <1>5, <1>6, <1>8 DEF NoId
<1>12. /\ \/ Quote(d.m, "bid") = NoId
          \/ Quote(d.m, "bid") = Quote(m, "bid") /\ Px(d.m, "bid") = Px(m, "bid")
          \/ New("bid", Quote(d.m, "bid"), Px(d.m, "bid")) \in Elems(d.cmds)
       /\ \/ Quote(d.m, "ask") = NoId
          \/ Quote(d.m, "ask") = Quote(m, "ask") /\ Px(d.m, "ask") = Px(m, "ask")
          \/ New("ask", Quote(d.m, "ask"), Px(d.m, "ask")) \in Elems(d.cmds)
  BY <1>1, <1>2, <1>5, <1>6, <1>7 DEF Quote, Px
<1>13. QED  BY <1>1, <1>7, <1>8, <1>9, <1>10, <1>11, <1>12 DEF Decided

(* Both sides are managed.                                                 *)
LEMMA DecisionDoes ==
  ASSUME NEW m, Good(m), NEW tob \in Int \X Int, NEW target \in Int \X Int, target[1] < target[2],
         NEW d, d = Decision(m, tob, target)
  PROVE  Decided(m, d)
<1>1. m \in Maker /\ m.bid < m.nextId /\ m.ask < m.nextId
  BY DEF Good
<1>2. PICK b : b = Manage(m, "bid", target[1], target[1] < tob[2])
  OBVIOUS
<1>3. PICK a : a = Manage(b.m, "ask", target[2], target[2] > tob[1])
  OBVIOUS
<1>4. d = Both(b, a)
  BY <1>2, <1>3 DEF Decision
<1>5. target[1] \in Int /\ target[2] \in Int /\ (target[1] < tob[2]) \in BOOLEAN /\ (target[2] > tob[1]) \in BOOLEAN
  OBVIOUS
<1>6. Managed(m, b, "bid") /\ (Quote(b.m, "bid") # NoId => MayQuote(m, "bid") /\ Px(b.m, "bid") = target[1])
  BY <1>1, <1>2, <1>5, ManageDoes
<1>7. b.m \in Maker /\ b.m.bid < b.m.nextId /\ b.m.ask < b.m.nextId
  <2>1. m.bid \in Nat /\ m.ask \in Nat /\ m.nextId \in Nat \ {0}
    BY <1>1 DEF Maker
  <2>2. /\ b.m \in Maker /\ b.m.ask = m.ask
        /\ \/ b.m.bid = NoId /\ b.m.nextId = m.nextId
           \/ b.m.bid = m.bid /\ b.m.nextId = m.nextId
           \/ b.m.bid = m.nextId /\ b.m.nextId = m.nextId + 1
    BY <1>6 DEF Managed, Quote
  <2>3. QED  BY <1>1, <2>1, <2>2 DEF NoId
<1>8. Managed(b.m, a, "ask") /\ (Quote(a.m, "ask") # NoId => MayQuote(b.m, "ask") /\ Px(a.m, "ask") = target[2])
  BY <1>3, <1>5, <1>7, ManageDoes
<1>9. b.m.pos = m.pos
  BY <1>6 DEF Managed
<1>10. /\ b.m.bid # NoId => m.pos < MaxPosition /\ b.m.bidPx = target[1]
       /\ a.m.ask # NoId => m.pos > -MaxPosition /\ a.m.askPx = target[2]
  BY <1>6, <1>8, <1>9 DEF MayQuote, Quote, Px
<1>11. QED  BY <1>4, <1>6, <1>8, <1>10, BothDoes

(* Both quotes are pulled.                                                 *)
LEMMA CancelAllDoes ==
  ASSUME NEW m, Good(m), NEW d, d = cancel_all(m)
  PROVE  Decided(m, d)
<1>1. m \in Maker /\ m.bid < m.nextId /\ m.ask < m.nextId
  BY DEF Good
<1>2. PICK b : b = Withdraw(m, "bid")
  OBVIOUS
<1>3. PICK a : a = Withdraw(b.m, "ask")
  OBVIOUS
<1>4. d = Both(b, a)
  BY <1>2, <1>3 DEF cancel_all
<1>5. Managed(m, b, "bid") /\ Quote(b.m, "bid") = NoId
  BY <1>1, <1>2, WithdrawDoes
<1>6. b.m \in Maker /\ b.m.bid < b.m.nextId /\ b.m.ask < b.m.nextId
  <2>1. m.ask \in Nat /\ m.nextId \in Nat \ {0} /\ m.bid \in Nat
    BY <1>1 DEF Maker
  <2>2. b.m \in Maker /\ b.m.ask = m.ask /\ b.m.bid = NoId /\ b.m.nextId >= m.nextId
    <3>1. b.m.nextId = m.nextId \/ b.m.nextId = m.nextId + 1
      BY <1>5 DEF Managed
    <3>2. QED  BY <1>5, <2>1, <3>1 DEF Managed, Quote
  <2>3. b.m.nextId \in Nat
    BY <2>2 DEF Maker
  <2>4. QED  BY <1>1, <2>1, <2>2, <2>3 DEF NoId
<1>7. Managed(b.m, a, "ask") /\ Quote(a.m, "ask") = NoId
  BY <1>3, <1>6, WithdrawDoes
<1>8. b.m.bid = NoId /\ a.m.ask = NoId
  BY <1>5, <1>7 DEF Quote
<1>9. QED  BY <1>4, <1>5, <1>7, <1>8, BothDoes

(* Whatever the tick, the maker decides within its limits.                 *)
LEMMA TickDoes ==
  ASSUME NEW m, Good(m), NEW tob \in Int \X Int
  PROVE  /\ \A d : d = on_tob(m, tob) => Decided(m, d)
         /\ \A target \in Int \X Int : \A d :
              target[1] < target[2] /\ d = on_depth(m, tob, target) => Decided(m, d)
<1>1. ASSUME NEW d, d = on_tob(m, tob) PROVE Decided(m, d)
  <2>1. CASE ~ValidBook(tob)
    BY <1>1, <2>1, CancelAllDoes DEF on_tob
  <2>2. CASE ValidBook(tob)
    <3>1. PICK mid : mid = (tob[1] + tob[2]) \div 2
      OBVIOUS
    <3>2. PICK skew : skew = Quotient(m.pos * 2, 10)
      OBVIOUS
    <3>3. mid \in Int
      BY <3>1
    <3>4. skew \in Int
      <4>1. m.pos \in Int
        BY DEF Good, Maker
      <4>2. QED  BY <3>2, <4>1 DEF Quotient
    <3>5. HalfSpread \in Nat \ {0}
      BY MakerAssumption
    <3>6. PICK target : target = <<mid - HalfSpread - skew, mid + HalfSpread - skew>>
      OBVIOUS
    <3>7. target \in Int \X Int /\ target[1] < target[2]
      BY <3>3, <3>4, <3>5, <3>6
    <3>8. d = Decision(m, tob, target)
      BY <1>1, <2>2, <3>1, <3>2, <3>6 DEF on_tob
    <3>9. QED  BY <3>7, <3>8, DecisionDoes
  <2>3. QED  BY <2>1, <2>2
<1>2. ASSUME NEW target \in Int \X Int, NEW d, target[1] < target[2], d = on_depth(m, tob, target)
      PROVE  Decided(m, d)
  <2>1. CASE ~ValidBook(tob)
    BY <1>2, <2>1, CancelAllDoes DEF on_depth
  <2>2. CASE ValidBook(tob)
    BY <1>2, <2>2, DecisionDoes DEF on_depth
  <2>3. QED  BY <2>1, <2>2
<1>3. QED  BY <1>1, <1>2

------------------------------------------------------------------------------
(* What a report does to the maker: the order it is about is not held any  *)
(* more, and the other one is left alone.                                  *)
Released(m, x, id) ==
  /\ Good(x) /\ x.nextId = m.nextId /\ id \notin {x.bid, x.ask}
  /\ x.bid = NoId \/ (x.bid = m.bid /\ x.bidPx = m.bidPx)
  /\ x.ask = NoId \/ (x.ask = m.ask /\ x.askPx = m.askPx)

(* A fill moves the position by at most one order.                         *)
LEMMA FillDoes ==
  ASSUME NEW m, Good(m), NEW id \in Nat \ {0}, NEW qty \in 0 .. OrderSize,
         NEW x, x = on_fill(m, id, qty)
  PROVE  Released(m, x, id)
<1>0. m \in Maker
  BY DEF Good
<1>1. /\ m \in Maker /\ m.pos \in Int /\ m.bid \in Nat /\ m.ask \in Nat /\ m.nextId \in Nat \ {0}
      /\ OrderSize \in Nat \ {0} /\ MaxPosition \in Nat /\ qty \in Nat /\ qty <= OrderSize
  BY MakerAssumption DEF Good, Maker
<1>2. CASE id = m.bid
  <2>1. PICK p \in Int : p = m.pos + qty
    BY <1>1
  <2>2. x = [m EXCEPT !.pos = p, !.bid = NoId]
    BY <1>2, <2>1 DEF on_fill
  <2>3. /\ x \in Maker /\ x.pos = p /\ x.bid = NoId /\ x.ask = m.ask /\ x.nextId = m.nextId
        /\ x.bidPx = m.bidPx /\ x.askPx = m.askPx
    <3>1. PICK y : y = [m EXCEPT !.pos = p]
      OBVIOUS
    <3>2. /\ y \in Maker /\ y.pos = p /\ y.bid = m.bid /\ y.ask = m.ask /\ y.nextId = m.nextId
          /\ y.bidPx = m.bidPx /\ y.askPx = m.askPx
      BY <1>0, <2>1, <3>1 DEF Maker
    <3>3. x = [y EXCEPT !.bid = NoId]
      BY <1>0, <2>2, <3>1 DEF Maker
    <3>4. QED  BY <3>2, <3>3 DEF Maker, NoId
  <2>4. /\ p \in -(MaxPosition + OrderSize - 1) .. MaxPosition + OrderSize - 1
        /\ m.ask # NoId => p > -MaxPosition
    BY <1>1, <1>2, <2>1 DEF Good, NoId
  <2>5. Good(x)
    BY <1>1, <2>3, <2>4 DEF Good, NoId
  <2>6. id \notin {x.bid, x.ask}
    BY <1>1, <1>2, <2>3 DEF Good, NoId
  <2>7. QED  BY <2>3, <2>5, <2>6 DEF Released
<1>3. CASE id # m.bid /\ id = m.ask
  <2>1. PICK p \in Int : p = m.pos - qty
    BY <1>1
  <2>2. x = [m EXCEPT !.pos = p, !.ask = NoId]
    BY <1>3, <2>1 DEF on_fill
  <2>3. /\ x \in Maker /\ x.pos = p /\ x.bid = m.bid /\ x.ask = NoId /\ x.nextId = m.nextId
        /\ x.bidPx = m.bidPx /\ x.askPx = m.askPx
    <3>1. PICK y : y = [m EXCEPT !.pos = p]
      OBVIOUS
    <3>2. /\ y \in Maker /\ y.pos = p /\ y.bid = m.bid /\ y.ask = m.ask /\ y.nextId = m.nextId
          /\ y.bidPx = m.bidPx /\ y.askPx = m.askPx
      BY <1>0, <2>1, <3>1 DEF Maker
    <3>3. x = [y EXCEPT !.ask = NoId]
      BY <1>0, <2>2, <3>1 DEF Maker
    <3>4. QED  BY <3>2, <3>3 DEF Maker, NoId
  <2>4. /\ p \in -(MaxPosition + OrderSize - 1) .. MaxPosition + OrderSize - 1
        /\ m.bid # NoId => p < MaxPosition
    BY <1>1, <1>3, <2>1 DEF Good, NoId
  <2>5. Good(x)
    BY <1>1, <2>3, <2>4 DEF Good, NoId
  <2>6. id \notin {x.bid, x.ask}
    BY <1>1, <1>3, <2>3 DEF Good, NoId
  <2>7. QED  BY <2>3, <2>5, <2>6 DEF Released
<1>4. CASE id # m.bid /\ id # m.ask
  <2>1. x = m
    BY <1>4 DEF on_fill
  <2>2. QED  BY <1>4, <2>1 DEF Released
<1>5. QED  BY <1>2, <1>3, <1>4

(* A reject takes a quote back.                                            *)
LEMMA RejectDoes ==
  ASSUME NEW m, Good(m), NEW id \in Nat \ {0}, NEW x, x = on_reject(m, id)
  PROVE  Released(m, x, id)
<1>1. /\ m \in Maker /\ m.pos \in Int /\ m.bid \in Nat /\ m.ask \in Nat /\ m.nextId \in Nat \ {0}
  BY DEF Good, Maker
<1>2. CASE id = m.bid
  <2>1. x = [m EXCEPT !.bid = NoId]
    BY <1>2 DEF on_reject
  <2>2. /\ x \in Maker /\ x.pos = m.pos /\ x.bid = NoId /\ x.ask = m.ask /\ x.nextId = m.nextId
        /\ x.bidPx = m.bidPx /\ x.askPx = m.askPx
    BY <1>1, <2>1 DEF Maker, NoId
  <2>3. Good(x)
    BY <1>1, <2>2 DEF Good, NoId
  <2>4. id \notin {x.bid, x.ask}
    BY <1>1, <1>2, <2>2 DEF Good, NoId
  <2>5. QED  BY <2>2, <2>3, <2>4 DEF Released
<1>3. CASE id # m.bid /\ id = m.ask
  <2>1. x = [m EXCEPT !.ask = NoId]
    BY <1>3 DEF on_reject
  <2>2. /\ x \in Maker /\ x.pos = m.pos /\ x.bid = m.bid /\ x.ask = NoId /\ x.nextId = m.nextId
        /\ x.bidPx = m.bidPx /\ x.askPx = m.askPx
    BY <1>1, <2>1 DEF Maker, NoId
  <2>3. Good(x)
    BY <1>1, <2>2 DEF Good, NoId
  <2>4. id \notin {x.bid, x.ask}
    BY <1>1, <1>3, <2>2 DEF Good, NoId
  <2>5. QED  BY <2>2, <2>3, <2>4 DEF Released
<1>4. CASE id # m.bid /\ id # m.ask
  <2>1. x = m
    BY <1>4 DEF on_reject
  <2>2. QED  BY <1>4, <2>1 DEF Released
<1>5. QED  BY <1>2, <1>3, <1>4

------------------------------------------------------------------------------
(* Two indexes less than a lap apart share a slot only if they are equal.  *)
LEMMA SlotsDistinct ==
  ASSUME NEW i \in Nat, NEW j \in Nat, i <= j, j < i + Capacity, Mask(i) = Mask(j)
  PROVE  i = j
<1>1. Capacity \in Nat \ {0}
  BY ShmAssumption
<1> DEFINE q == i \div Capacity
           r == j \div Capacity
<1>2. /\ q \in Int /\ r \in Int
      /\ i = Capacity * q + (i % Capacity)
      /\ j = Capacity * r + (j % Capacity)
  BY <1>1
<1>3. j - i = Capacity * r - Capacity * q
  BY <1>1, <1>2 DEF Mask
<1> HIDE DEF q, r
<1>4. j - i = Capacity * (r - q)
  BY <1>1, <1>2, <1>3
<1>5. ~(r - q >= 1)
  <2>1. ASSUME r - q >= 1 PROVE Capacity * (r - q) >= Capacity
    BY <2>1, <1>1, <1>2
  <2>2. QED  BY <2>1, <1>1, <1>2, <1>4
<1>6. ~(r - q <= -1)
  <2>1. ASSUME r - q <= -1 PROVE Capacity * (r - q) <= -Capacity
    BY <2>1, <1>1, <1>2
  <2>2. QED  BY <2>1, <1>1, <1>2, <1>4
<1>7. r - q = 0
  BY <1>2, <1>5, <1>6
<1>8. QED  BY <1>1, <1>2, <1>4, <1>7

(* Every index has a slot.                                                 *)
LEMMA MaskInRange == \A i \in Nat : Mask(i) \in 0 .. Capacity - 1
BY ShmAssumption DEF Mask

(* The maker's side is not concerned by a step of the ring that pops       *)
(* nothing.                                                                *)
LEMMA QuotesStay ==
  ASSUME QuotesInv, UNCHANGED <<maker, sent, resting, reports, head>>
  PROVE  QuotesInv'
BY DEF QuotesInv, Good, Spent, Stands, Elems, Beyond, Untouched, Quote, Px, New

(* Nor the ring by a step of the maker or the venue.                       *)
LEMMA RingStays ==
  ASSUME RingInv, UNCHANGED vars
  PROVE  RingInv'
BY DEF RingInv, vars, OrdersArrive, Mask

------------------------------------------------------------------------------
(* The maker starts with nothing, over an empty ring.                      *)
LEMMA InitInv == MakerInit => Inv
<1> SUFFICES ASSUME MakerInit PROVE Inv
  OBVIOUS
<1>1. Capacity \in Nat \ {0} /\ OrderSize \in Nat \ {0} /\ MaxPosition \in Nat
  BY ShmAssumption, MakerAssumption
<1>2. PICK m : m = [pos |-> 0, bid |-> NoId, ask |-> NoId, bidPx |-> 0, askPx |-> 0, nextId |-> 1]
  OBVIOUS
<1>3. /\ m \in Maker /\ m.pos = 0 /\ m.bid = NoId /\ m.ask = NoId /\ m.nextId = 1
  BY <1>2 DEF Maker, NoId
<1>4. maker = m
  BY <1>2 DEF MakerInit
<1>5. TypeOK
  BY <1>1, <1>3, <1>4 DEF MakerInit, Init, TypeOK, Empty
<1>6. RingInv
  BY <1>1 DEF MakerInit, Init, RingInv, OrdersArrive
<1>7. DriverInv
  BY DEF MakerInit, Init, DriverInv
<1>8. QuotesInv
  <2>1. Good(maker)
    BY <1>1, <1>3, <1>4 DEF Good, NoId
  <2>2. Elems(sent) = {}
    BY ElemsSmall DEF MakerInit
  <2>3. QED  BY <1>3, <1>4, <2>1, <2>2 DEF QuotesInv, Spent, Stands, Quote
<1>9. QED  BY <1>5, <1>6, <1>7, <1>8 DEF Inv

(* A decision keeps the invariant.                                         *)
LEMMA DecidesInv ==
  ASSUME Inv, NEW d, Decided(maker, d), Decides(d)
  PROVE  Inv'
<1>1. /\ sent' = Join(sent, d.cmds) /\ maker' = d.m
      /\ UNCHANGED <<vars, resting, reports>> /\ prodPc = "idle"
  BY DEF Decides, Polling, Join
<1>2. sent \in Seq(Command) /\ d.cmds \in Seq(Command) /\ Len(sent) \in Nat /\ Len(d.cmds) \in Nat
  BY DEF Inv, TypeOK, Decided
<1>3. head \in 0 .. Len(sent)
  BY <1>2 DEF Inv, TypeOK, RingInv, DriverInv
<1>4. /\ sent' \in Seq(Command) /\ Len(sent') = Len(sent) + Len(d.cmds)
      /\ Elems(sent') = Elems(sent) \cup Elems(d.cmds)
      /\ Beyond(sent', head) = Beyond(sent, head) \cup Elems(d.cmds)
  BY <1>1, <1>2, <1>3, ElemsJoin
<1>5. TypeOK'
  BY <1>1, <1>4 DEF Inv, TypeOK, vars, Decided, Good
<1>6. RingInv'
  BY <1>1, RingStays DEF Inv
<1>7. DriverInv'
  BY <1>1, <1>2, <1>4 DEF Inv, TypeOK, DriverInv, vars
<1>8. Spent(d.m, Elems(sent) \cup Elems(d.cmds))
  <2>1. ASSUME NEW c \in Elems(sent)
        PROVE  c.id < d.m.nextId /\ (c.type = "cancel" => c.id \notin {d.m.bid, d.m.ask})
    <3>1. c \in Command
      BY <1>2 DEF Elems
    <3>2. c.id \in Nat \ {0}
      BY <3>1 DEF Command
    <3>3. c.id < maker.nextId /\ (c.type = "cancel" => c.id \notin {maker.bid, maker.ask})
      BY DEF Inv, QuotesInv, Spent
    <3>4. maker.nextId \in Nat /\ d.m.nextId \in Nat /\ d.m.nextId >= maker.nextId
      BY DEF Inv, TypeOK, Maker, Decided, Good
    <3>5. QED  BY <3>2, <3>3, <3>4 DEF Decided
  <2>2. QED  BY <2>1 DEF Decided, Spent
<1>9. ASSUME NEW side \in {"bid", "ask"}
      PROVE  Stands(d.m, side, Beyond(sent, head) \cup Elems(d.cmds), resting, Elems(reports))
  <2>1. Stands(maker, side, Beyond(sent, head), resting, Elems(reports))
    BY DEF Inv, QuotesInv
  <2>2. \/ Quote(d.m, side) = NoId
        \/ Quote(d.m, side) = Quote(maker, side) /\ Px(d.m, side) = Px(maker, side)
        \/ New(side, Quote(d.m, side), Px(d.m, side)) \in Elems(d.cmds)
    BY DEF Decided
  <2>3. QED  BY <2>1, <2>2 DEF Stands, Untouched
<1>10. QuotesInv'
  <2>1. Good(maker')
    BY <1>1 DEF Decided
  <2>2. head' = head /\ resting' = resting /\ reports' = reports
    BY <1>1 DEF vars
  <2>3. QED  BY <1>1, <1>4, <1>8, <1>9, <2>1, <2>2 DEF QuotesInv
<1>11. QED  BY <1>5, <1>6, <1>7, <1>10 DEF Inv

(* The maker reads a report.                                               *)
LEMMA ReportInv == Inv /\ OnReport => Inv'
<1> SUFFICES ASSUME Inv, OnReport PROVE Inv'
  OBVIOUS
<1>1. PICK r : r = Head(reports)
  OBVIOUS
<1>2. reports # << >> /\ reports \in Seq(ReportSet) /\ reports' = Tail(reports) /\ UNCHANGED <<vars, sent, resting>>
  BY DEF OnReport, Inv, TypeOK
<1>3. r \in ReportSet /\ reports' \in Seq(ReportSet) /\ Elems(reports) = {r} \cup Elems(reports')
  BY <1>1, <1>2, ElemsQueue
<1>4. r.id \in Nat \ {0} /\ r.qty \in 0 .. OrderSize /\ r.type \in {"ack", "fill", "reject"}
  BY <1>3 DEF ReportSet
<1>5. Good(maker) /\ Spent(maker, Elems(sent))
  BY DEF Inv, QuotesInv
<1>6. \/ r.type = "ack" /\ maker' = maker
      \/ Released(maker, maker', r.id)
  <2>1. CASE r.type = "ack"
    BY <1>1, <2>1 DEF OnReport
  <2>2. CASE r.type = "fill"
    <3>1. maker' = on_fill(maker, r.id, r.qty)
      BY <1>1, <2>2 DEF OnReport
    <3>2. QED  BY <1>4, <1>5, <3>1, FillDoes
  <2>3. CASE r.type = "reject"
    <3>1. maker' = on_reject(maker, r.id)
      BY <1>1, <2>3 DEF OnReport
    <3>2. QED  BY <1>4, <1>5, <3>1, RejectDoes
  <2>4. QED  BY <1>4, <2>1, <2>2, <2>3
<1>7. Good(maker') /\ maker'.nextId = maker.nextId
  BY <1>5, <1>6 DEF Released
<1>8. TypeOK'
  BY <1>2, <1>3, <1>7 DEF Inv, TypeOK, vars, Good
<1>9. RingInv'
  BY <1>2, RingStays DEF Inv
<1>10. DriverInv'
  BY <1>2 DEF Inv, DriverInv, vars
<1>11. Spent(maker', Elems(sent))
  <2>1. ASSUME NEW c \in Elems(sent)
        PROVE  c.id < maker'.nextId /\ (c.type = "cancel" => c.id \notin {maker'.bid, maker'.ask})
    <3>1. c \in Command
      BY DEF Elems, Inv, TypeOK
    <3>2. c.id # NoId
      BY <3>1 DEF Command, NoId
    <3>3. c.id < maker.nextId /\ (c.type = "cancel" => c.id \notin {maker.bid, maker.ask})
      BY <1>5 DEF Spent
    <3>4. maker'.bid \in {NoId, maker.bid} /\ maker'.ask \in {NoId, maker.ask}
      BY <1>6 DEF Released
    <3>5. QED  BY <1>7, <3>2, <3>3, <3>4
  <2>2. QED  BY <2>1 DEF Spent
<1>12. ASSUME NEW side \in {"bid", "ask"}
       PROVE  Stands(maker', side, Beyond(sent, head), resting, Elems(reports'))
  <2>1. Stands(maker, side, Beyond(sent, head), resting, Elems(reports))
    BY DEF Inv, QuotesInv
  <2>2. PICK m : m = maker'
    OBVIOUS
  <2>3. CASE r.type = "ack" /\ m = maker
    BY <1>3, <2>1, <2>3, <2>2 DEF Stands
  <2>4. CASE Released(maker, m, r.id)
    <3>1. Quote(m, side) = NoId \/ (Quote(m, side) = Quote(maker, side) /\ Px(m, side) = Px(maker, side))
      BY <2>4 DEF Released, Quote, Px
    <3>2. Quote(m, side) # r.id
      BY <2>4 DEF Released, Quote
    <3>3. QED  BY <1>3, <2>1, <2>2, <3>1, <3>2 DEF Stands, Untouched
  <2>5. QED  BY <1>6, <2>2, <2>3, <2>4
<1>13. QuotesInv'
  <2>1. sent' = sent /\ head' = head /\ resting' = resting
    BY <1>2 DEF vars
  <2>2. QED  BY <1>7, <1>11, <1>12, <2>1 DEF QuotesInv
<1>14. QED  BY <1>8, <1>9, <1>10, <1>13 DEF Inv

------------------------------------------------------------------------------
(* The producer's steps keep the ring and the driver in order.             *)
LEMMA PushInv == Inv /\ Push => Inv'
<1> SUFFICES ASSUME Inv, Push PROVE Inv'
  OBVIOUS
<1>1. /\ tail < Len(sent) /\ Len(sent) \in Nat /\ Capacity \in Nat \ {0}
      /\ maker' = maker /\ sent' = sent /\ resting' = resting /\ reports' = reports
  BY ShmAssumption DEF Push, makerVars, Inv, TypeOK
<1>2. /\ head \in Nat /\ tail \in Nat /\ prodHead \in Nat /\ slots \in [0 .. Capacity - 1 -> Int]
      /\ Mask(tail) \in 0 .. Capacity - 1 /\ \A i \in Nat : Mask(i) \in 0 .. Capacity - 1
  BY MaskInRange DEF Inv, TypeOK
<1>2a. \A h, i, t, c \in Nat : h <= i /\ i < t /\ t < h + c => i <= t /\ t < i + c /\ i # t
  OBVIOUS
<1> USE <1>1, <1>2
<1>3. CASE PushLoad
  <2>1. TypeOK' /\ head' = head
    BY <1>3 DEF PushLoad, consumerVars, Inv, TypeOK
  <2>2. RingInv'
    BY <1>3 DEF PushLoad, consumerVars, Inv, RingInv, OrdersArrive, Mask
  <2>3. DriverInv'
    BY <1>3 DEF PushLoad, consumerVars, Inv, DriverInv
  <2>4. QED  BY <2>1, <2>2, <2>3, QuotesStay DEF Inv
<1>4. CASE PushEnter
  <2>1. TypeOK' /\ head' = head
    BY <1>4 DEF PushEnter, consumerVars, Inv, TypeOK
  <2>2. tail < head + Capacity
    BY <1>4 DEF PushEnter, RingFull, Inv, RingInv
  <2>3. RingInv'
    BY <1>4, <2>2 DEF PushEnter, consumerVars, Inv, RingInv, OrdersArrive, Mask
  <2>4. DriverInv'
    BY <1>4 DEF PushEnter, consumerVars, Inv, DriverInv
  <2>5. QED  BY <2>1, <2>3, <2>4, QuotesStay DEF Inv
<1>5. CASE PushWrite
  <2>1. /\ prodPc = "write" /\ prodPc' = "publish"
        /\ UNCHANGED <<head, tail, prodHead, consPc, consHead, copy, got>>
        /\ slots' = [slots EXCEPT ![Mask(tail)] = tail + 1]
    BY <1>5 DEF PushWrite, consumerVars
  <2>2. TypeOK'
    <3>1. slots' \in [0 .. Capacity - 1 -> Int]
      BY <2>1
    <3>2. QED  BY <2>1, <3>1 DEF Inv, TypeOK
  <2>3. slots'[Mask(tail)] = tail + 1 /\ \A i \in Nat : Mask(i) # Mask(tail) => slots'[Mask(i)] = slots[Mask(i)]
    BY <2>1
  <2>4. \A i \in Nat : head <= i /\ i < tail => slots'[Mask(i)] = i + 1
    <3>1. tail < head + Capacity /\ \A i \in Nat : head <= i /\ i < tail => slots[Mask(i)] = i + 1
      BY <2>1 DEF Inv, RingInv
    <3>2. ASSUME NEW i \in Nat, head <= i, i < tail PROVE Mask(i) # Mask(tail)
      <4>1. i <= tail /\ tail < i + Capacity /\ i # tail
        <5>1. tail < head + Capacity
          BY <3>1
        <5>2. QED  BY <1>2a, <3>2, <5>1, Zenon
      <4>2. QED  BY <4>1, SlotsDistinct
    <3>3. QED  BY <2>3, <3>1, <3>2
  <2>5. RingInv'
    <3>1. Mask(tail)' = Mask(tail) /\ \A i : Mask(i)' = Mask(i)
      BY <2>1 DEF Mask
    <3>2. /\ head' = head /\ tail' = tail /\ OrdersArrive' /\ Len(got') = head
          /\ slots'[Mask(tail)'] = tail' + 1
      BY <2>1, <2>3, <3>1 DEF Inv, RingInv, OrdersArrive
    <3>3. QED  BY <2>1, <2>4, <3>1, <3>2 DEF Inv, RingInv
  <2>6. DriverInv'
    BY <2>1 DEF Inv, DriverInv
  <2>7. QED  BY <2>1, <2>2, <2>5, <2>6, QuotesStay DEF Inv
<1>6. CASE PushPublish
  <2>1. /\ prodPc = "publish" /\ prodPc' = "idle" /\ tail' = tail + 1
        /\ UNCHANGED <<slots, head, prodHead, consPc, consHead, copy, got>>
    BY <1>6 DEF PushPublish, consumerVars
  <2>2. TypeOK'
    <3>1. tail' \in Nat
      BY <2>1
    <3>2. QED  BY <2>1, <3>1 DEF Inv, TypeOK
  <2>3. \A i \in Nat : head <= i /\ i < tail' => slots[Mask(i)] = i + 1
    <3>1. /\ slots[Mask(tail)] = tail + 1 /\ \A i \in Nat : head <= i /\ i < tail => slots[Mask(i)] = i + 1
      BY <2>1 DEF Inv, RingInv
    <3>2. \A i \in Nat : i < tail + 1 => i < tail \/ i = tail
      OBVIOUS
    <3>3. QED  BY <2>1, <3>1, <3>2
  <2>4. RingInv'
    <3>1. OrdersArrive' /\ Len(got') = head /\ \A i : Mask(i)' = Mask(i)
      BY <2>1 DEF Inv, RingInv, OrdersArrive, Mask
    <3>2. tail < head + Capacity /\ head <= tail
      BY <2>1 DEF Inv, RingInv
    <3>3. QED  BY <2>1, <2>3, <3>1, <3>2 DEF Inv, RingInv
  <2>5. DriverInv'
    BY <2>1 DEF Inv, DriverInv
  <2>6. QED  BY <2>1, <2>2, <2>4, <2>5, QuotesStay DEF Inv
<1>7. CASE PushRefuse
  <2>1. TypeOK' /\ head' = head
    BY <1>7 DEF PushRefuse, consumerVars, Inv, TypeOK
  <2>2. RingInv'
    BY <1>7 DEF PushRefuse, consumerVars, Inv, RingInv, OrdersArrive, Mask
  <2>3. DriverInv'
    BY <1>7 DEF PushRefuse, consumerVars, Inv, DriverInv
  <2>4. QED  BY <2>1, <2>2, <2>3, QuotesStay DEF Inv
<1>8. QED  BY <1>3, <1>4, <1>5, <1>6, <1>7 DEF Push, PushStep

(* The consumer reaches a message and copies it whole: the producer is     *)
(* never inside that slot.                                                 *)
LEMMA PopReachesInv ==
  ASSUME Inv, PopLoad \/ PopCheck \/ PopCopy, UNCHANGED makerVars
  PROVE  Inv'
<1>1. /\ Len(sent) \in Nat /\ Capacity \in Nat \ {0}
      /\ maker' = maker /\ sent' = sent /\ resting' = resting /\ reports' = reports
  BY ShmAssumption DEF makerVars, Inv, TypeOK
<1>2. /\ head \in Nat /\ tail \in Nat /\ prodHead \in Nat /\ slots \in [0 .. Capacity - 1 -> Int]
      /\ \A i \in Nat : Mask(i) \in 0 .. Capacity - 1
  BY MaskInRange DEF Inv, TypeOK
<1> USE <1>1, <1>2
<1>3. CASE PopLoad
  <2>1. TypeOK' /\ head' = head
    BY <1>3 DEF PopLoad, producerVars, Inv, TypeOK
  <2>2. RingInv'
    BY <1>3 DEF PopLoad, producerVars, Inv, RingInv, OrdersArrive, Mask
  <2>3. DriverInv'
    BY <1>3 DEF PopLoad, producerVars, Inv, DriverInv
  <2>4. QED  BY <2>1, <2>2, <2>3, QuotesStay DEF Inv
<1>4. CASE PopCheck
  <2>1. TypeOK' /\ head' = head
    BY <1>4 DEF PopCheck, producerVars, Inv, TypeOK
  <2>2. RingInv'
    <3>1. /\ consPc = "check" /\ consHead = head /\ head <= tail
          /\ UNCHANGED <<slots, head, tail, prodPc, prodHead, consHead, copy, got>>
      BY <1>4 DEF PopCheck, producerVars, Inv, RingInv
    <3>2. (consPc' = "idle" \/ (consPc' = "copy" /\ head < tail))
      BY <1>4, <3>1 DEF PopCheck
    <3>3. QED  BY <3>1, <3>2 DEF Inv, RingInv, OrdersArrive, Mask
  <2>3. DriverInv'
    BY <1>4 DEF PopCheck, producerVars, Inv, DriverInv
  <2>4. QED  BY <2>1, <2>2, <2>3, QuotesStay DEF Inv
<1>5. CASE PopCopy
  <2>1. /\ consPc = "copy" /\ consPc' = "retire" /\ copy' \in Copies(Mask(consHead))
        /\ UNCHANGED <<slots, head, tail, prodPc, prodHead, consHead, got>>
    BY <1>5 DEF PopCopy, producerVars
  <2>2. consHead = head /\ head < tail /\ slots[Mask(head)] = head + 1
    BY <2>1 DEF Inv, RingInv
  <2>3. ~(prodPc = "write" /\ Mask(tail) = Mask(head))
    <3>1. ASSUME prodPc = "write", Mask(tail) = Mask(head) PROVE FALSE
      <4>1. head <= tail /\ tail < head + Capacity
        BY <2>2, <3>1 DEF Inv, RingInv
      <4>2. head = tail
        BY <3>1, <4>1, SlotsDistinct
      <4>3. QED  BY <2>2, <4>2
    <3>2. QED  BY <3>1
  <2>4. copy' = head + 1
    BY <2>1, <2>2, <2>3 DEF Copies
  <2>5. TypeOK'
    <3>1. copy' \in Int
      BY <2>4
    <3>2. QED  BY <2>1, <3>1 DEF Inv, TypeOK
  <2>6. RingInv'
    BY <2>1, <2>2, <2>4 DEF Inv, RingInv, OrdersArrive, Mask
  <2>7. DriverInv'
    BY <2>1 DEF Inv, DriverInv
  <2>8. QED  BY <2>1, <2>5, <2>6, <2>7, QuotesStay DEF Inv
<1>6. QED  BY <1>3, <1>4, <1>5

(* The venue takes a command off the ring: an order rests or is rejected,  *)
(* a cancel finds its order or does not.                                   *)
LEMMA PopAppliesInv ==
  ASSUME Inv, PopRetire, UNCHANGED <<maker, sent>>,
         IF copy \in DOMAIN sent THEN Apply(sent[copy]) ELSE UNCHANGED <<resting, reports>>
  PROVE  Inv'
<1>1. /\ Len(sent) \in Nat /\ Capacity \in Nat \ {0} /\ maker' = maker /\ sent' = sent
      /\ sent \in Seq(Command) /\ reports \in Seq(ReportSet) /\ resting \subseteq Order
      /\ OrderSize \in Nat \ {0}
  BY ShmAssumption, MakerAssumption DEF Inv, TypeOK
<1>2. /\ head \in Nat /\ tail \in Nat /\ prodHead \in Nat /\ slots \in [0 .. Capacity - 1 -> Int]
      /\ got \in Seq(Int) /\ copy \in Int
  BY DEF Inv, TypeOK
<1>3. /\ consPc = "retire" /\ consPc' = "idle" /\ head' = consHead + 1 /\ got' = Append(got, copy)
      /\ UNCHANGED <<slots, tail, prodPc, prodHead, consHead, copy>>
  BY DEF PopRetire, producerVars
<1>4. consHead = head /\ head < tail /\ copy = head + 1 /\ tail <= Len(sent) /\ Len(got) = head
  BY <1>3 DEF Inv, RingInv, DriverInv
<1>5. copy \in 1 .. Len(sent) /\ head' = head + 1 /\ DOMAIN sent = 1 .. Len(sent)
  BY <1>1, <1>2, <1>3, <1>4
<1>6. PICK c : c = sent[copy]
  OBVIOUS
<1>7. c \in Command /\ c \in Elems(sent) /\ Apply(c)
  BY <1>1, <1>5, <1>6 DEF Elems
<1>8. c.id \in Nat \ {0}
  BY <1>7 DEF Command
<1>9. Beyond(sent, head) \subseteq {c} \cup Beyond(sent, head')
  <2>1. \A k \in head + 1 .. Len(sent) : k = head + 1 \/ k \in (head + 1) + 1 .. Len(sent)
    BY <1>1, <1>2
  <2>2. QED  BY <1>4, <1>5, <1>6, <2>1 DEF Beyond
<1>10. RingInv'
  <2>1. got' \in Seq(Int) /\ Len(got') = head + 1 /\ \A i \in 1 .. Len(got') : got'[i] = i
    <3>1. \A i \in 1 .. Len(got) : got[i] = i
      BY DEF Inv, RingInv, OrdersArrive
    <3>2. QED  BY <1>2, <1>3, <1>4, <3>1
  <2>2. \A i : Mask(i)' = Mask(i)
    BY DEF Mask
  <2>3. /\ head' <= tail' /\ tail' <= head' + Capacity /\ prodHead' <= head'
        /\ prodPc' \in {"write", "publish"} => tail' < head' + Capacity
    BY <1>1, <1>2, <1>3, <1>4, <1>5 DEF Inv, RingInv
  <2>4. /\ prodPc = "publish" => slots[Mask(tail)] = tail + 1
        /\ \A i \in Nat : head <= i /\ i < tail => slots[Mask(i)] = i + 1
    BY DEF Inv, RingInv
  <2>5. /\ prodPc' = "publish" => slots'[Mask(tail')] = tail' + 1
        /\ \A i \in Nat : head' <= i /\ i < tail' => slots'[Mask(i)] = i + 1
    <3>1. \A i \in Nat : head + 1 <= i => head <= i
      BY <1>2
    <3>2. QED  BY <1>3, <1>5, <2>4, <3>1
  <2>6. QED  BY <1>3, <1>5, <2>1, <2>2, <2>3, <2>5 DEF RingInv, OrdersArrive
<1>11. DriverInv'
  BY <1>1, <1>3 DEF Inv, DriverInv
<1>12. PICK r \in ReportSet : /\ reports' = Append(reports, r) /\ r.id = c.id
                              /\ \/ /\ c.type = "new" /\ r.type = "ack"
                                    /\ resting' = resting \cup {[id |-> c.id, side |-> c.side, px |-> c.px, qty |-> OrderSize]}
                                 \/ c.type = "new" /\ r.type = "reject" /\ resting' = resting
                                 \/ c.type = "cancel" /\ resting' = {o \in resting : o.id # c.id}
  <2>1. \A type \in {"ack", "fill", "reject"} :
          /\ Report(type, c.id, 0) \in ReportSet
          /\ Report(type, c.id, 0).id = c.id /\ Report(type, c.id, 0).type = type
    BY <1>1, <1>8 DEF Report, ReportSet
  <2>2. QED  BY <1>7, <2>1 DEF Apply
<1>13. reports' \in Seq(ReportSet) /\ Elems(reports') = Elems(reports) \cup {r}
  BY <1>1, <1>12, ElemsQueue
<1>14. resting' \subseteq Order
  <2>1. CASE c.type = "new" /\ resting' = resting \cup {[id |-> c.id, side |-> c.side, px |-> c.px, qty |-> OrderSize]}
    <3>1. c.side \in {"bid", "ask"} /\ c.px \in Int /\ OrderSize \in 0 .. OrderSize
      BY <1>1, <1>7, <2>1 DEF Command
    <3>2. [id |-> c.id, side |-> c.side, px |-> c.px, qty |-> OrderSize] \in Order
      BY <1>8, <3>1 DEF Order
    <3>3. QED  BY <1>1, <2>1, <3>2
  <2>2. QED  BY <1>1, <1>12, <2>1
<1>15. TypeOK'
  <2>1. got' \in Seq(Int) /\ head' \in Nat
    BY <1>2, <1>3, <1>5
  <2>2. QED  BY <1>1, <1>3, <1>13, <1>14, <2>1 DEF Inv, TypeOK
<1>16. ASSUME NEW side \in {"bid", "ask"}
       PROVE  Stands(maker, side, Beyond(sent, head'), resting', Elems(reports'))
  <2>1. Stands(maker, side, Beyond(sent, head), resting, Elems(reports))
    BY DEF Inv, QuotesInv
  <2>2. CASE New(side, Quote(maker, side), Px(maker, side)) \in Beyond(sent, head)
    <3>1. CASE c = New(side, Quote(maker, side), Px(maker, side))
      <4>1. c.type = "new" /\ c.id = Quote(maker, side) /\ c.side = side /\ c.px = Px(maker, side)
        BY <3>1 DEF New
      <4>2. CASE r.type = "reject"
        BY <1>12, <1>13, <4>1, <4>2 DEF Stands
      <4>3. CASE resting' = resting \cup {[id |-> c.id, side |-> c.side, px |-> c.px, qty |-> OrderSize]}
        BY <4>1, <4>3 DEF Stands, Untouched
      <4>4. QED  BY <1>12, <4>1, <4>2, <4>3
    <3>2. QED  BY <1>9, <2>2, <3>1 DEF Stands
  <2>3. CASE Untouched(maker, side) \in resting /\ Quote(maker, side) # NoId
    <3>1. CASE c.type = "cancel" /\ resting' = {o \in resting : o.id # c.id}
      <4>1. c.id # Quote(maker, side)
        BY <1>7, <3>1 DEF Inv, QuotesInv, Spent, Quote
      <4>2. Untouched(maker, side).id = Quote(maker, side)
        BY DEF Untouched
      <4>3. QED  BY <2>3, <3>1, <4>1, <4>2 DEF Stands
    <3>2. QED  BY <1>12, <2>3, <3>1 DEF Stands
  <2>4. QED  BY <1>13, <2>1, <2>2, <2>3 DEF Stands
<1>17. QuotesInv'
  BY <1>1, <1>16 DEF Inv, QuotesInv
<1>18. QED  BY <1>10, <1>11, <1>15, <1>17 DEF Inv

(* An order is filled, in part or in whole.                                *)
LEMMA FillInv == Inv /\ Fill => Inv'
<1> SUFFICES ASSUME Inv, Fill PROVE Inv'
  OBVIOUS
<1>1. PICK o \in resting, q \in FillSizes :
        /\ q <= o.qty
        /\ resting' = (resting \ {o}) \cup (IF q = o.qty THEN {} ELSE {[o EXCEPT !.qty = @ - q]})
        /\ reports' = Append(reports, Report("fill", o.id, q))
        /\ UNCHANGED <<vars, maker, sent>>
  BY DEF Fill
<1>2. /\ o \in Order /\ q \in Nat /\ reports \in Seq(ReportSet) /\ resting \subseteq Order
      /\ OrderSize \in Nat
  BY MakerAssumption DEF Inv, TypeOK
<1>3. o.id \in Nat \ {0} /\ o.qty \in 0 .. OrderSize
  BY <1>2 DEF Order
<1>4. PICK n \in 0 .. OrderSize : n = o.qty - q
  BY <1>1, <1>2, <1>3
<1>5. PICK p : p = [o EXCEPT !.qty = n]
  OBVIOUS
<1>6. p \in Order
  BY <1>2, <1>5 DEF Order
<1>7. resting' \subseteq Order /\ \A x \in resting : x = o \/ x \in resting'
  <2>1. resting' = (resting \ {o}) \cup (IF q = o.qty THEN {} ELSE {p})
    BY <1>1, <1>4, <1>5
  <2>2. QED  BY <1>2, <1>6, <2>1
<1>8. PICK r \in ReportSet : r = Report("fill", o.id, q) /\ r.id = o.id /\ r.type = "fill"
  <2>1. q \in 0 .. OrderSize
    BY <1>1, <1>2, <1>3
  <2>2. PICK r : r = Report("fill", o.id, q)
    OBVIOUS
  <2>3. r \in ReportSet /\ r.id = o.id /\ r.type = "fill"
    BY <1>3, <2>1, <2>2 DEF Report, ReportSet
  <2>4. QED  BY <2>2, <2>3
<1>9. reports' \in Seq(ReportSet) /\ Elems(reports') = Elems(reports) \cup {r}
  BY <1>1, <1>2, <1>8, ElemsQueue
<1>10. TypeOK'
  BY <1>1, <1>7, <1>9 DEF Inv, TypeOK, vars
<1>11. RingInv' /\ DriverInv'
  <2>1. RingInv'
    BY <1>1, RingStays DEF Inv
  <2>2. DriverInv'
    BY <1>1 DEF Inv, DriverInv, vars
  <2>3. QED  BY <2>1, <2>2
<1>12. ASSUME NEW side \in {"bid", "ask"}
       PROVE  Stands(maker, side, Beyond(sent, head), resting', Elems(reports'))
  <2>1. Stands(maker, side, Beyond(sent, head), resting, Elems(reports))
    BY DEF Inv, QuotesInv
  <2>2. CASE Untouched(maker, side) = o
    <3>1. o.id = Quote(maker, side)
      BY <2>2 DEF Untouched
    <3>2. QED  BY <1>8, <1>9, <3>1 DEF Stands
  <2>3. QED  BY <1>7, <1>9, <2>1, <2>2 DEF Stands
<1>13. QuotesInv'
  <2>1. maker' = maker /\ sent' = sent /\ head' = head
    BY <1>1 DEF vars
  <2>2. QED  BY <1>12, <2>1 DEF Inv, QuotesInv
<1>14. QED  BY <1>10, <1>11, <1>13 DEF Inv

------------------------------------------------------------------------------
(* Every step keeps the invariant.                                         *)
LEMMA NextInv == Inv /\ [MakerNext]_<<vars, makerVars>> => Inv'
<1> SUFFICES ASSUME Inv, [MakerNext]_<<vars, makerVars>> PROVE Inv'
  OBVIOUS
<1>1. Good(maker)
  BY DEF Inv, QuotesInv
<1>2. CASE OnTick
  <2>1. PICK tob \in Ticks : \/ Decides(on_tob(maker, tob))
                             \/ \E target \in DepthTargets : Decides(on_depth(maker, tob, target))
    BY <1>2 DEF OnTick
  <2>2. tob \in Int \X Int
    BY MakerAssumption
  <2>3. CASE Decides(on_tob(maker, tob))
    <3>1. PICK d : d = on_tob(maker, tob)
      OBVIOUS
    <3>2. Decided(maker, d) /\ Decides(d)
      BY <1>1, <2>2, <2>3, <3>1, TickDoes
    <3>3. QED  BY <3>2, DecidesInv
  <2>4. CASE \E target \in DepthTargets : Decides(on_depth(maker, tob, target))
    <3>1. PICK target \in DepthTargets : Decides(on_depth(maker, tob, target))
      BY <2>4
    <3>2. target \in Int \X Int /\ target[1] < target[2]
      BY MakerAssumption
    <3>3. PICK d : d = on_depth(maker, tob, target)
      OBVIOUS
    <3>4. Decided(maker, d) /\ Decides(d)
      BY <1>1, <2>2, <3>1, <3>2, <3>3, TickDoes
    <3>5. QED  BY <3>4, DecidesInv
  <2>5. QED  BY <2>1, <2>3, <2>4
<1>3. CASE OnStale
  <2>1. PICK d : d = cancel_all(maker)
    OBVIOUS
  <2>2. Decided(maker, d) /\ Decides(d)
    BY <1>1, <1>3, <2>1, CancelAllDoes DEF OnStale
  <2>3. QED  BY <2>2, DecidesInv
<1>4. CASE OnReport
  BY <1>4, ReportInv
<1>5. CASE Push
  BY <1>5, PushInv
<1>6. CASE Pop
  <2>1. CASE (PopLoad \/ PopCheck \/ PopCopy) /\ UNCHANGED makerVars
    BY <2>1, PopReachesInv
  <2>2. CASE /\ PopRetire /\ UNCHANGED <<maker, sent>>
             /\ IF copy \in DOMAIN sent THEN Apply(sent[copy]) ELSE UNCHANGED <<resting, reports>>
    BY <2>2, PopAppliesInv
  <2>3. QED  BY <1>6, <2>1, <2>2 DEF Pop
<1>7. CASE Fill
  BY <1>7, FillInv
<1>8. CASE UNCHANGED <<vars, makerVars>>
  <2>1. UNCHANGED <<maker, sent, resting, reports, head>>
    BY <1>8 DEF vars, makerVars
  <2>2. TypeOK' /\ DriverInv'
    BY <1>8 DEF Inv, TypeOK, DriverInv, vars, makerVars
  <2>3. QED  BY <1>8, <2>1, <2>2, RingStays, QuotesStay DEF Inv
<1>9. QED  BY <1>2, <1>3, <1>4, <1>5, <1>6, <1>7, <1>8 DEF MakerNext

(* The invariant holds throughout.                                         *)
LEMMA Invariance == MakerSpec => []Inv
BY InitInv, NextInv, PTL DEF MakerSpec

(* Every order pushed through the ring is popped once, whole and in order  *)
(* (try_push and try_pop of ShmSpscRing), for every capacity.              *)
THEOREM OrdersDoArrive == MakerSpec => []OrdersArrive
<1>1. Inv => OrdersArrive
  BY DEF Inv, RingInv
<1>2. QED  BY <1>1, Invariance, PTL

(* Whatever fills, partial fills and rejects race the maker's quotes, the  *)
(* position it knows passes its limit by less than one order (on_fill and  *)
(* the limit checks of on_tob and on_depth).                               *)
THEOREM PositionIsBounded == MakerSpec => []KnownPositionBounded
<1>1. Inv => KnownPositionBounded
  BY DEF Inv, QuotesInv, Good, KnownPositionBounded
<1>2. QED  BY <1>1, Invariance, PTL

(* Once nothing is in flight the quotes the maker counts on rest at the    *)
(* venue, untouched, at the prices it remembers, and do not cross          *)
(* (on_tob, on_depth, cancel_all, on_fill and on_reject).                  *)
THEOREM QuotesDoStand == MakerSpec => []QuotesStand
<1>1. ASSUME Inv PROVE QuotesStand
  <2>1. Good(maker) /\ Len(sent) \in Nat
    BY <1>1 DEF Inv, QuotesInv, TypeOK
  <2>2. ASSUME Len(got) = Len(sent), reports = << >>, NEW side \in {"bid", "ask"}, Quote(maker, side) # NoId
        PROVE  Untouched(maker, side) \in resting
    <3>1. Stands(maker, side, Beyond(sent, head), resting, Elems(reports))
      BY <1>1 DEF Inv, QuotesInv
    <3>2. head = Len(sent)
      BY <1>1, <2>2 DEF Inv, RingInv
    <3>3. Beyond(sent, head) = {}
      BY <2>1, <3>2 DEF Beyond
    <3>4. Elems(reports) = {}
      BY <2>2, ElemsSmall
    <3>5. QED  BY <2>2, <3>1, <3>3, <3>4 DEF Stands
  <2>3. \A side \in {"bid", "ask"} :
          Untouched(maker, side) = [id |-> Quote(maker, side), side |-> side, qty |-> OrderSize,
                                    px |-> IF side = "bid" THEN maker.bidPx ELSE maker.askPx]
    BY DEF Untouched, Px
  <2>4. (maker.bid # NoId /\ maker.ask # NoId) => maker.bidPx < maker.askPx
    BY <2>1 DEF Good
  <2>5. QED  BY <2>2, <2>3, <2>4 DEF QuotesStand
<1>2. QED  BY <1>1, Invariance, PTL
==============================================================================
