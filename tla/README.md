# A TLA+ verification of market-maker-proto

market-maker-proto is a toy trading venue and the market maker that trades on
it. A C++ server keeps the orders, replays a top-of-book feed and speaks JSON
over WebSocket; Python clients quote both sides of the book, and a second
transport replaces the socket by shared-memory rings. This directory holds TLA+
models of the parts of that program whose correctness depends on order,
interleaving or failure, the TLC configurations that check them, and TLAPS
proofs of the properties that matter most. Paths below are relative to the
repository.

    tlc -workers 2 -config MCOrderEngine.cfg MCOrderEngine   # one run
    tlapm OrderEngineProofs.tla                              # one proof module

`PROJECT.json` lists the runs, the source lines each definition stands for, the
mutant that shows each property able to fail, the hazards and the theorems.

## 1. Inventory

| Component | State | Operations | Hard behaviour | What makes it correct |
|---|---|---|---|---|
| Order engine (`cpp/src/engine.cpp`) | orders by session and id, a live index per side, entries per session, the installed book | `on_new`, `on_cancel`, `on_book`, `end_session` | three containers kept in step, allocation failure in the middle of a commit, redelivered books | index, counters and order states agree; quantity is conserved; one final report per order; a book sweeps once |
| Telemetry ring (`telemetry_ring.hpp`) | slots, head, tail, dropped | `try_push`, `try_pop` | two threads, no lock | no slot race; a bounded FIFO that drops when full |
| Telemetry writer (`telemetry.hpp`, `server.cpp`) | stop flag, failure latch, lost lines, file | `drain`, `run`, `stop_and_join`, final snapshot, pending fault | two threads, a sink that fails at any flush, shutdown | a healthy verdict means a complete file; losses are counted; shutdown ends |
| Session (`session.cpp`, `session_close.cpp`, `outbox.hpp`) | outbox, flags of the close state machine, operations in flight | read, write, close, drain and timer completions; publish, stop, drop, deadline | every order of completions, back-pressure, encode failure, two reasons to close at once | no report lost or sent after the close frame; every close ends |
| Server (`server_accept.cpp`, `server.cpp`) | acceptor, upgrades, session map, feed position, stopping, finalized | accept, retry, upgrade, refuse, open, tear down, feed event, drop, stop, deadline, finalize | handshakes in flight during a stop, descriptor exhaustion, a feed handler queued behind a stop, a throwing loop | bounds hold, the books are the script's, finalize runs once and last, the listener recovers, stop ends |
| Shared-memory ring (`shm_ring.hpp`, `shm_ipc.py`) | slots, head, tail, dropped in a mapped segment | `try_push`, `push_overwrite`, `try_pop` | two processes; the overwriting producer also moves the consumer's index | whole messages, once, in order (orders); ever fresher (ticks) |
| Client strategy (`strategy.py`) | orders, the order of each side, book, sequence numbers | `on_connect`, message handlers, timer, `on_disconnect` | amend against a fill, an acknowledgement or a cancel in flight | one order per side, a complete picture, quotes at the book |
| Client session (`_session.py`, `ws_naive.py`, `app.py`) | envelope counter, epoch, close latch, two tasks, lock, attempt | pump, timer, send, close, reconnect | two tasks between awaits, operator stop, send timeouts, reconnect | sequence and epoch as the engine expects; the ending told is the ending reported; it ends |
| Tuned adapter (`ws_picows.py`) | a listener per connection: fragments, close latch, data and session ended; the coroutine's phase | frame and disconnect callbacks, timer, close grace, teardown | callbacks before and after the coroutine drives the connection, a disconnect that arrives in the next session | fragments reassemble exactly, a verdict is mistaken for nothing else, sessions never meet on the shared Strategy, it ends |
| Native market maker (`strategy_native.hpp`) | position, quote id and price per side | `on_tob`, `on_depth`, `on_fill`, `on_ack`, `on_reject`, `cancel_all` | fills and rejects in flight against a requote; a full order ring | a known position within the limit, quotes it counts on really rest |
| Feed (`feed.cpp`) | the events of a file; a position in them | `parse_line`, `load_feed_stream`, `schedule_feed`, `on_feed_event` | looping, an end in the middle, a read error | a line is taken only if it is exactly of one of the forms |
| Frame preflight (`frame_preflight.cpp`, `_preflight.py`) | none across frames; an explicit stack within one | byte policy, scan, key and identifier policy | an iterative scan that must decide a recursive grammar; two languages and two paths in one of them | the scan decides the grammar, the twins agree |
| Wire codecs (`codec_glaze.cpp`, `codec_nlohmann.cpp`) | none | decode, encode | two libraries with different leniency behind one preflight | both arms accept, refuse and mean the same |
| Bench recorder, entry points, scripts | samples | measure, supervise | none that decides anything | none |

How they meet. The server's event loop is one thread: it owns the engine, the
sessions and the feed timer, and calls `on_new`/`on_cancel` from a session's read
completion, `on_book` from the feed, `end_session` when a session decides to
close. The engine answers with messages for any session, which the sessions
queue in their outboxes. The loop pushes telemetry into the ring and the writer
thread drains it. A client is one asyncio loop with a pump task and a timer task
that share a socket; the strategy does no I/O and returns commands. Over shared
memory, engine and client are two processes that share rings and nothing else.

## 2. Modules

| Module | Models | Built on |
|---|---|---|
| `OrderEngine` | the engine, one step per call | |
| `MCOrderEngine` | a small market for it | `OrderEngine` |
| `EngineView` | the engine as one session sees it, as operators | |
| `EngineContract` | that view as an abstract specification | `EngineView` |
| `OrderEngineProofs` | theorems about `OrderEngine` | `OrderEngine` |
| `SpscQueue` | abstract bounded queue with drops | |
| `SpscRing` | the lock-free ring, one step per shared access | implements `SpscQueue` |
| `SpscRingProofs` | theorems about `SpscRing` | `SpscRing` |
| `TelemetryWriter` | owner thread, writer thread, sink | `SpscQueue` as its ring |
| `TelemetryWriterProofs` | theorems about `TelemetryWriter` | `TelemetryWriter` |
| `Session` | one session and its outbox | `EngineView` as its engine |
| `SessionProofs` | theorems about `Session` | `Session` |
| `FeedLine` | `parse_line` over tokens | `WireCodec` for its integers |
| `FeedScript` | `load_feed_stream` over the lines of a file | |
| `Server` | connections, admission, feed replay, stop, finalize | `FeedScript`; summary of `Session` |
| `MCServer` | feed files for it | `Server` |
| `ServerProofs` | theorems about `Server` | `Server` |
| `ShmRing` | both shared-memory producers | |
| `NativeMaker` | the native maker, its driver and a venue | `ShmRing` as its order ring |
| `MCNativeMaker` | a market for it | `NativeMaker` |
| `NativeMakerProofs` | theorems about `NativeMaker` and the order ring | `NativeMaker` |
| `Strategy` | the decision core, as operators | |
| `ClientSession` | driver, naive adapter, reconnect, wires, engine side | `Strategy`; `EngineView` inside |
| `MCClientSession` | two feeds for it | `ClientSession` |
| `ClientSessionProofs` | theorems about `ClientSession` and the operators of `Strategy` | `ClientSession` |
| `TunedClient` | the picows adapter, its coroutine and the reconnect policy | |
| `TunedClientProofs` | theorems about `TunedClient` | `TunedClient` |
| `FramePreflight` | the C++ scan, one token at a time, and its policies | |
| `PreflightTwin` | the Python preflight, both of its paths | the tokens of `FramePreflight` |
| `FrameGrammar` | reference: the grammar and the UTF-8 definition, stated independently | the tokens of `FramePreflight` |
| `WireCodec` | what the two engine arms make of a frame that passed | `FramePreflight` |
| `InboundFrames` | a frame growing token by token, judged by all of the above | all five, `FeedLine` |
| `MCInboundFrames` | the alphabet and the frames that arrive whole | `InboundFrames` |

The composition is by contract: `OrderEngine` implements `EngineContract` for
each of its sessions (a theorem), and `Session` and `ClientSession` call the same
`EngineView` operators instead of carrying a whole engine; `SpscRing` implements
`SpscQueue`, which is what `TelemetryWriter` runs over.

### Order engine

`orders` is `orders_`, with `NoOrder` for a key that is not in the map; `live` is
the pair of live indexes; `entries` is `entries_by_session_`; `book` and
`bookSeen` are the installed book. One action stands for one call with all it
does: `RejectDuplicate`, `RejectAndBury` and `Accept` are the ends of `on_new`
(`Validate` is `validate_order`, its checks in order), `RejectCancel` and
`CancelLive` those of `on_cancel`, `IgnoreStaleBook` and `SweepBook` those of
`on_book`, and `EndSession` is `end_session`. The calls allocate: `OnNewThrows` is
`on_new` leaving by an exception after the counter node, and possibly the order,
was inserted, with what the roll-back leaves; `StagingThrows` is the failure of
the other calls while they build their batch. `out` is the batch returned. `asked`,
`traded`, `acked` and `closed` are history.

### Telemetry ring and writer

`SpscRing` gives each thread a program counter and one step per load or store of
shared memory; a thread inside a slot copy is *in* the slot, so a race is a
state. The atomics are acquire/release on the other side's index and relaxed
only on a thread's own, which is why interleaving is enough. `TelemetryWriter`
is the path of a run: events while the loop runs, a fault record if it throws
(offered again until a deadline), the two final-snapshot records, the stop flag,
the join and the verdict `telemetry_ok_`, which a stop that cannot hand the signals
back has already made false (`LoopEnds`); on the other side the open marker,
batches, flushes that may write a part and fail, the latch, the lost-line count
and the close marker.

### Session

A completion handler runs to its end on the event loop, so it is one action; the
methods it calls are functions from session record to session record with the
source's names. What interleaves are completions with each other and with the
server's calls. `EngineView` answers the commands. The peer is unconstrained: it
may send anything, stop reading, never answer the close frame. Encoding may fail
at any message.

### Server

Each connection has a phase from accept through upgrade, refusal or handshake to
open, closing and gone. `AcceptAdmits` and `Load` are the two admission tiers
(upgrades in flight; upgrades and sessions), applied by `Accept` and `UpgradeFit`;
`BeginStop`, `Deadline`, `LoopReturns` and `LoopThrows` end a run. `OnFeedEvent` is the
timer's handler: it publishes, drops, halts, ends or wraps to the head of a script
that is looped. A file that does not load, or has no event, refuses the server.
A session is reduced to open, closing, torn down: that a closing session is
torn down after the deadline is what `Session`'s `CloseConverges` shows.

### Shared-memory ring

One step per access to the mapped header or slots. A copy of a slot that is
being rewritten yields the old message, the new one or `Torn`. `MarketSpec` has
`push_overwrite`; `try_push` runs under `NativeMaker`.

### Native market maker

The maker's methods are functions from its members to new members and a
sequence of commands, cancels before orders as the decision buffer is drained.
`NativeMaker` puts them behind the order ring, step by step: a decision is pushed
command by command, spinning while the ring is full, and a report is looked at
only between decisions. This driver is an idealisation: the only one in the
repository, `bench/probes/native_mm_probe.cpp`, pushes new bids only and hands the
maker acknowledgements only. The venue is external and may accept or reject any order
and fill a resting one, in part too, at any time. The vectorised pricing of
`on_depth` is an arbitrary pair of targets with the bid below the ask, which is
what its arithmetic guarantees.

### Client

`Strategy` keeps the methods of `strategy.py` as functions from state to state and
commands; `_orders` is a sequence because Python dicts keep insertion order and
`StopQuoting` sweeps in that order. `ClientSession` has the two tasks at their
awaits: the pump holds a frame, a batch is stamped and sent under the outbox
lock one frame at a time, the timer may find the feed stale, the operator may
stop, each send may find a full wire and time out. `app.main` creates a stop event
that nothing sets; `OperatorStops` stands for callers of `run_with_reconnect`
that pass one they set. A send on a connection that the peer closed raises
`ConnectionClosed`, which the reconnect policy does not catch: that exit is
`"traceback"`. So is that of a dial the server refuses, by its answer to the upgrade
or by not taking `mm.v1`; a dial the transport fails is an `OSError` and is retried. The envelope counter runs out at `MaxSeq`: the encoder refuses it
and the session closes.

`TunedClient` has no pump task: picows calls the listener of a connection whenever
it has a frame, so callbacks come before `run_client` resumes from `ws_connect`, while
it waits, during the close grace, and a disconnect even when the next connection
is being driven. All connections share one `Strategy`; `strat` is the connection whose
session it is in. `Raised` is what the reconnect policy tells apart of an exception. A
callback that fails (`Fails`) keeps its exception for the teardown, whatever it has
latched before: the Strategy may raise, and a send may fail before or after a
verdict (`Bodies`); so may a pong, and a tick of the timer (`TimerRaises`), which latches the
stale verdict before its first cancel is encoded and sent. picows is external. It is
assumed to raise an `OSError` from a send only while the transport is up and no
close frame has been sent and to drop the frame after that (as `_FakeTransport` of the
tests does), not to raise from `send_close`, and to close with 1011 behind a failed
callback. `TCP_NODELAY` is set outside the `try`: on a socket that was closed
in between this is an `OSError` (`NodelayFails`); on an open one it is assumed to work,
for a failure there would leave the connection open and driving the Strategy.

### Frames

`InboundFrames` appends one token at a time while the scan accepts what it has seen
(a rejected prefix stays rejected), also behind a long start that is at the key cap, and takes a set of whole frames that put every
kind of lexeme, key, message and feed line in place. A token is a kind and a body:
a number is its characters, with units for runs of digits past a day in milliseconds,
past INT64_MAX and past UINT64_MAX; a string is a sequence of units, each an ordinary
byte or one whole escape (surrogate halves, an unknown escape, an escaped letter of
a tag). White space and offsets are left out. The stack of the scan is the
state; the reference `FrameGrammar` derives the same language by recursion, without a
stack, and says which prefixes may still go on (`IsStart`): the cap on the keys counts whole
members, so a key past it is refused once its value has ended, as in `value_done`. In
`WireCodec` each arm has its own lists of fields (`NlohmannFields`; `GlazeMembers`,
`SignedKeys`, `UnsignedKeys`). The two JSON libraries are external: what each converts is
stated from how the code around it uses it, so `ArmsAgree` says that the arms agree
*if* the libraries convert in this way. Where the code does not rely on the typed read of
glaze it is more permissive in the model than the library may be (a sign, a
fraction or an exponent passes it), so that the verdict has to come from the token
checks.

## 3. Runs

| Run | Bounds | Distinct states | What it shows |
|---|---|---|---|
| `order_engine` | 2 sessions, 2 ids, 9 offers, 2 books, 2 book numbers | 189,271 | the containers agree after every call, failed call and end of session; quantity conserved; one final report; terminal states absorb; a book sweeps once; each session sees `EngineContract` |
| `spsc_ring` | capacity 2, 8 pushes, 3 records | 220,447 | no slot race, pops in order, implements `SpscQueue` |
| `session` | 3 ids, 2 live, mark 1, 5 reports, 2 books | 121,656 | every report and tick accounted for and service times paired; queue bounded; retired at the decision to close; the first code stands and nothing follows the close frame; every close ends |
| `telemetry` | ring of 2, 3 events | 36,094 | a healthy verdict means a complete file; the file has no hole and its losses are exact; the fault is on file; the ring drains and shutdown ends |
| `native_maker` | ring of 2, 6 pushes, 4 orders | 3,292,095 | every order whole, once, in order; the known position within one order of the limit; a quote counted on rests at its price |
| `shm_ticks` | capacity 2, 4 pushes | violation | see finding 1 |
| `server` | 4 connections, 2 sessions, 5 files, 2 books | 351,406 | both bounds; the books follow the script and stop with the server; one finalize at the end; the listener recovers, a script that ends stops the server, stop ends |
| `client_quotes` | 3 books, 1 connection | 3,042,156 | one order rests per side, the client knows every resting order, no settled quote lags the book |
| `client_reconnect` | 2 attempts, 2 books, wires of 1, 3 envelopes | 136,368 | sequence and epoch discipline up to the exhausted counter, ending as told, the client ends |
| `client_verdict` | 2 attempts, 1 book | violation | see finding 2 |
| `client_tuned` | 2 attempts, 3 frames and 1, messages of 2 | 1,024,380 | fragments reassemble exactly, a verdict is mistaken for nothing else, one session at a time drives the Strategy, the client ends |
| `inbound_frames` | 11 tokens, 9 behind 11 keys, 4 bytes, depth 3 | 220,529 | the scan decides the grammar; the Python twin agrees on both paths; the codec arms agree; feed lines are exact; the UTF-8 table is the definition |

Why the bounds are enough:

* Engine: two sessions let one be ended while the other lives. With a live cap of
  one and a retention cap of two every limit is met; the offers contain one order for
  every check of `validate_order`; a two-lot bid against a one-lot ask gives partial
  then full fills; book numbers 0 and 1 with redelivery give the first book, a
  newer one and a repeat. The `VIEW` leaves out `out`, which no step reads, so
  action properties still see every step's batch. The theorems remove the bounds.
* Rings: capacity two lapped several times has every full, empty and wrap case;
  the proof covers every capacity.
* Session: a mark of one with five reports crosses the mark with a write in
  flight and again after it; two books suffice for a tick to be replaced.
* Telemetry: a ring of two meets every phase of a run full.
* Native maker: four orders reach the limit and pass a requote; a decision of up
  to four commands overfills a ring of two, so the push spins.
* Server: with `max_sessions` = 2, four connections fill both tiers at once; the
  files have every event, an end in the middle and the reasons to refuse a start;
  two books pass through a wrap.
* Tuned client: three frames and a cap of two make a message too long, an orphan
  continuation, a message begun inside another and one behind another. They come on
  the first connection; one frame on the second is enough to enter the Strategy, to
  latch any verdict and to fail. Two attempts let a late disconnect meet the next
  session.
* Frames: depth three has an object in an array in an object and one level too
  many; eleven keys are those of `new_order`, which the whole frames have all right or
  with one or two members wrong, and one key too many; eleven tokens close a
  nested object with a second key after it; a UTF-8 scalar has at most four bytes.
  Frames also arrive token by token behind an object that is at the key cap: nine
  tokens close it or give it one member more, with every shape of value.
* Client: three books amend an order whose amendment is on its way; wires of
  one frame make every send find a full wire; two attempts have a
  reconnect and the end of the attempts.

`CHECK_DEADLOCK FALSE` is stated where the system ends: a session torn down, a
server that returned, a client that exited, a ring whose producer has used up
its bound.

### Fairness

* `Session`: timers (`GraceExpires`, `ShutdownDeadline`) fire; the drain of the
  transport goes on; operations on a socket this side has severed complete with
  an error. Nothing is assumed of the peer.
* `Server`: the retry timer, the feed timer and the deadline fire; a cancelled accept and the
  upgrades of a stopping server (closed sockets, bounded handshake timeouts)
  complete; sessions are torn down after the deadline, by `CloseConverges`; the
  loop returns when no work is left.
* `TelemetryWriter`: both threads are scheduled. The loop need not end.
* `TunedClient`: dialing ends, the bounded waits (grace, teardown) end, and asyncio
  resumes a coroutine whose wait is over, also one that fails at once (`NodelayFails`). Nothing is assumed of the peer, the
  transport, the timer or the operator.
* `ClientSession`: a task whose frame, lock or timeout is ready is run by asyncio,
  each send ends (it has a timeout), and dialing succeeds or fails. Neither the
  engine, the feed nor the operator is fair.

### Findings

1. **Ticks can get older** (`shm_ticks`, `cpp/include/mm/shm_ring.hpp:326`).
   `push_overwrite` stores the consumer's head to evict; `try_pop` stores the same
   index from a value loaded earlier. In the run a pop has loaded head 0 when the
   third push into two slots evicts (head 0 to 1) and writes tick 3 into slot 0; the pop
   copies tick 3 from there and stores head 1, as the eviction did, and the next pop
   takes tick 2 from slot 1. (After two evictions the late store also moves head back.) `docs/ZERO_COPY_SHM_IPC.md:69` says "The strategy
   always reads the freshest top-of-book".
2. **A verdict can be retried** (`client_verdict`,
   `python/mmclient/ws_naive.py:304`). A send timeout is a
   `ConnectionResetError` even when the timer has latched the stale-feed verdict,
   so `run_with_reconnect` dials again. `python/mmclient/_session.py:114` says a
   close of our own choice "must not be retried". The tuned adapter does not wait for
   a send, so no timeout can do this to it; but if a send of its own raises an
   `OSError` after the verdict was latched (`ws_picows.py:552`), `run_client` raises it and the
   policy dials again just the same. `VerdictSurvives` states what the tuned
   adapter keeps: no other path loses a verdict.

### Observations

Behaviour worth knowing that no run states as a property:

* In the tuned adapter an illegal frame during the close grace latches a
  verdict after a normal close was sent, and `run_client` then returns `DECIDED`.
* The native maker ignores a fill of an order it has already replaced or
  withdrawn, so its position may differ from the venue's; `KnownPositionBounded` is about
  the position it knows. After a partial fill it forgets the order, whose
  remainder goes on resting.
* The native maker stores `last_md_seq_` and compares it with nothing, although
  `docs/SANS_IO_STATE_MACHINE.md:64` lists "sequence monotonicity checks" for the core: an
  older tick (finding 1) is quoted on. `strategy.py` does compare.

## 4. Proofs

The theorems hold for every value of the constants that meets the named
assumptions: the bounds of section 3 are gone.

**`OrderEngineProofs`** assumes `SetsAssumption` (finite sets of naturals for
sessions and ids, typed offers and books) and `InstrumentAssumption` (what the
engine's constructor checks). The inductive invariant is

    Inv == TypeOK /\ LiveIndexExact /\ QuantityConserved /\ TerminalReportOnce
           /\ HistoryTied /\ BlankWhenAbsent

`LiveIndexExact` is needed because a sweep walks the index and must meet live
orders only. `QuantityConserved` and `TerminalReportOnce` are not inductive
alone: without more, an absent key of an open session could already have traded or
been acknowledged, and a new order under it would break both. `HistoryTied` excludes
that, ties an acknowledgement to the state of the order and says that an ended
session keeps no order; `BlankWhenAbsent` says that an absent key holds nothing,
which is what a roll-back restores. Each action has a lemma (`AcceptInv`,
`SweepBookInv`, ...); an allocation failure is shown to restore the state
(`ThrowRestores`). `LiveCapHeld` and `EntriesExact` are about cardinalities:
`SetsOfStep` says how each step changes the set of live and kept keys, and
`FiniteSetTheorems` gives the counts. `ContainersAgree` puts them together as
`[]WellFormed`, the run's invariant. `TerminalIsAbsorbing` and
`SweepIsOncePerBook` are action properties from the same invariant, and
`OrdersKeepTheirLife` is their conjunction `OrderLife`, the run's property.
`EngineKeepsContract` is the refinement: one lemma per call says what the session
that makes it sees (`NewSeen`, `CancelSeen`, `BookSeen`, `EndSeen`), `OtherSeen` and
`ToldNothing` that every other session sees nothing. The cap of the contract is
the engine's because the ids a session sees live are in bijection with its
live keys (`LiveSeen`).

**`SpscRingProofs`** assumes `RingAssumption`. The invariant is

    Inv == TypeOK /\ PendingBounded /\ ClaimsHold /\ WindowHolds /\ PopsInOrder

`ClaimsHold` says what a thread in the middle of a call knows (the slot the
producer writes is free, the one the consumer copies is pending), `WindowHolds`
that the slots between the indexes are the published records. `SlotsDistinct` is
the arithmetic: two indexes less than a lap apart share a slot only if equal.
From it follow `SlotsNeverRace`, `PoppedInOrder`, `PendingIsBounded` (a part of
the invariant, not a run's property) and `RingImplementsQueue`, the refinement:
`InitMaps`, and `StepMaps` which maps every step to a push, a drop, a pop or a
stutter.

**`SessionProofs`** assumes `SessionAssumption` and `ViewAssumption` (what a limit and
a set of ids are). The methods of a session call one another on a record, so the
proof follows the calls: what each primitive assignment does to the groups of fields,
what `Pump`, `BeginClose` and the report queue keep, then one lemma per group of
handlers. The invariant, of the record s and the number of books md, is

    Good(s, md) == Sound(s) /\ Short(s) /\ Bounded(s) /\ Ticks(s, md)
    Sound(s)    == s \in Rec /\ Accounted(s) /\ Paired(s) /\ Closes(s)

`Accounted` numbers the queued reports up to the last one made and ties them to what
was sent; it allows one report to be missing once a message could not be encoded,
which is the only way to lose one. `Paired` is the pairing of acknowledgements and
service times in queue order. `Closes` says which flag of the close implies
which, that the orders are gone at the decision, and what a draining close waits
for. `Short` says that a session past its mark is closing, without which the
bound on the queue is not inductive. A book's fills are delivered by a loop that may
close the session half way: `LoopStep` is one turn and `FillsKeep` the whole.
The library's induction theorems take an operator as a parameter, which the
provers cannot instantiate; the loop is done with the well-foundedness of < on
the naturals (`Least`: a non-empty set of naturals has a least element), applied
to the set of turns at which the claim fails. From `Soundness` follow `NothingIsLost`,
`PolicyClosesDrain`, `EpochIsRetired`, `QueueIsBounded` and the action property `ClosesAreFinal`.

**`ServerProofs`** assumes `ServerAssumption`. The bound on sessions is not inductive:
a connection is admitted when its upgrade is and becomes a session a handshake
later, so `AdmissionInv` bounds the admitted (handshaking, open or closing) instead;
the counting is done with the cardinality facts of the library. `FinalizedOnceAtTheEnd`
is inductive with the type. `ReplayInv` says that the books published are those of whole
laps and of the current one; with the guard on a stopping server it gives
`ReplayIsTheScript`, an invariant and an action property.

**`TelemetryWriterProofs`** assumes `CapacityAssumption` and `BoundsAssumption`.

    Inv == TypeOK /\ QueueInv /\ FileInv /\ WriterInv /\ OwnerInv /\ FaultInv

`QueueInv` says that the ring holds what it took and was not popped, `FileInv` that the
file, and behind it the buffer of a good stream, are the beginning of what was
taken, and counts the lost lines; `WriterInv` that the last batch is drained to the
end, `OwnerInv` that the final snapshot is the end of what was taken, and `FaultInv`
that a fault was taken before the snapshot or given up. From it
follow `FileIsAccounted`, `HealthyIsComplete` and `CrashesAreOnFile`.

**`NativeMakerProofs`** assumes `MakerAssumption` and `ShmAssumption`. `RingInv` is the
argument of the telemetry ring for the other ring: the slots between the indexes
are what was sent. `QuotesInv` follows every quote the maker counts on (`Stands`): its order
is among the commands the venue has yet to apply, or rests untouched, or a report
that takes the quote back is on its way; that ids are used once (`Spent`) keeps
other commands and reports away from it. It also has the limit: a side is quoted only
within it, so one fill passes it by less than an order. From it follow `OrdersDoArrive`, `PositionIsBounded` and `QuotesDoStand`.

**`TunedClientProofs`** assumes `TunedAssumption`. `Sound` is what is true of a listener
whatever callback comes next and however it fails; `ListenersInv` adds that a connection
the coroutine has left is finalized or disconnected, and that one it drives is
finalized as soon as it is disconnected (so leaving at `TCP_NODELAY` leaves no session
behind), `StrategyInv` whose session the Strategy is in,
`EndingInv` what the coroutine may return given the latched verdict, and
`ReassemblyInv` that the open fragments are the end of the frames received as long as
the listener reads. From it follow `ReassemblyIsExact`, `VerdictsSurvive` and the action
property `OneSessionAtATime`.

**`ClientSessionProofs`** assumes `ClientAssumption`: any set of tops with prices above
zero, and any bounds. The proof has three layers. The first is about the operators of
`Strategy`: one lemma per decision says what the returned state keeps and which
commands come with it, up to `OnTob`, `OnReport` and `OnTimer` as wholes. The second is
about the two ends: what taking a command, joining a batch, a book's sweep or a
report does to a queue of commands, the engine's orders and the client's. The third
has one lemma per action of `ClientSession`. The inductive invariant is

    Inv == Typed /\ Slated /\ Tasking /\ Idle /\ Closing /\ EndingMatchesWire
           /\ Deaf /\ Told /\ Numbers /\ Inward /\ Pictured /\ Expected /\ Paired

* `Slated` is the client by itself: an id is in its dict once and was given out, a side
  opens at most one order per accepted book (so ids stay within the domain of the
  model), what holds a side is known, and unless stopped its quotes are fresh.
* `Tasking` is the outbox lock: only a sending task has unsent frames, and never both.
  `Idle`, `Deaf` and `Told` say what is empty between sessions and before the first
  message fixes the epoch; `Closing` ties the close frame to the latched intent.
* `Numbers`: the commands on their way (`Flow`, the wire followed by what each
  task has yet to send) are numbered from what the engine expects to what the
  driver stamped last, as long as no send timed out. `Inward` is the same towards the client.
* `Pictured` is what carries `OneRestingPerSide` and `PictureComplete`, neither of which is
  inductive: at most one new order of a side is in `Flow`, its id is free at the
  engine and holds its side at the client (`Opening`); what rests on that side is
  cancelled ahead of it (`Amending`, while the wire is up); what rests without
  holding its side is being pulled (`Covered`).
* `Expected` is about reports in flight: one that ends an order is about an order
  that neither rests nor is yet to open (`Due`), so the client may forget it.
* `Paired`: while the client quotes, an unsent cancel is followed by the order that takes
  its place. A batch that a send timeout cuts between the two leaves the engine without
  the order, never with two.

A book's fills come in some order the engine's sweep allows; `Sweeps` is the set of these
orders, so the proof holds for each. From `SessionInvariant` follow `OneRests`,
`PictureIsComplete`, `QuotesAreFresh`, `WireIsKept` and `EndingIsTold`.

Only model-checked:

* the liveness properties: fairness and ENABLED are outside the prover's reach;
* all properties of `InboundFrames`: what the scan computes for every input is
  induction over data, and the grammar it is compared with is recursive;
* the two properties that TLC refutes (findings 1 and 2).

## 5. Not modelled

* Encoding, in both codec arms and in Python: formatting; that it can fail is an
  outcome in `Session` and `ClientSession`. The Python decoder behind the twin preflight.
* The arithmetic of the vectorised pricing, profit and counters of the native maker.
* Bench recorder and probes, clock calibration, affinity, process entry, scripts:
  measurement and supervision.
* 64-bit wrap of the ring indexes: out of reach in a run.
* In `Session`: counters, telemetry events and the reject coalescing window. In
  `Server`: socket options, configuration checks, the snapshot timer (its records are
  in `TelemetryWriter`) and real time. In `ShmRing`: creating, attaching and unlinking
  the segment. In the naive adapter: undecodable frames, which `TunedClient` has. In
  `TunedClient`: a ping whose pong can be sent, which changes no state. In
  `TelemetryWriter`: an exception of the loop after `finalize()` has run, when the writer
  is gone and `telemetry_ok()` is decided; the process then exits with 2. In the frame models: white space, byte offsets, wording of diagnostics.

## 6. Plan

Done, in this order: engine and its contract; ring and queue; session; telemetry
writer; shared-memory ring; server and feed driver; naive client; native maker over
the ring; tuned client; preflight, codecs and feed parser; then the theorems about
the engine, both rings, the writer, the session, the server, the native maker, the
tuned client and the naive client, and the refinement of the contract. Every safety
property a run passes is a theorem except those of `InboundFrames`, for the reason in
section 4.
