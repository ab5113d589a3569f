# A verification of itchbook in TLA+

itchbook is a header-only C++20 library and a set of programs around the NASDAQ
ITCH 5.0 feed: a parser, a MoldUDP64 publisher and sequencer, a lock-free
hand-off between threads, order books, a matching engine with an OUCH order
gateway over SoupBinTCP, recovery after losses and halts, and a simulator of
queue position. This directory holds TLA+ modules translated from that code,
TLC configurations that check them on small instances, and TLAPS proofs for
every value of the constants.

Contents: [the system](#the-system), [the modules](#the-modules),
[the runs](#the-runs), [fairness](#fairness), [the proofs](#the-proofs),
[where code and documents disagree](#where-code-and-documents-disagree),
[what is not modelled](#what-is-not-modelled), [the plan](#the-plan).

## The system

| Component | State | Operations | Talks to |
| --- | --- | --- | --- |
| SPSC ring (`pipe/spsc_ring.hpp`) | `head_`, `tail_`, one stale copy of each on the other side, slots | `writable`, `write_slot`, `publish`, `push`; `readable`, `read_slot`, `consume`, `pop` | two threads, by shared memory |
| Threaded reader (`pipe/reader_thread.hpp`) | staged chunk, carried message, ring of chunks, `done`, error slots | one producer loop, one consumer loop, join and rethrow | parser, handler |
| Sequencer (`mold/sequencer.hpp`) | session, `expected_`, reorder buffer, `since_gap_`, `ended_` | `on_packet`, `flush` | network; handler calls `on_message`, `on_gap` |
| Publisher (`mold/publisher.hpp`) | session, `sequence_`, the open packet, `ended_` | `add`, `flush`, `maybe_heartbeat`, `end_of_session` | network |
| Receiver and book threads (`tools/wire_to_book.cpp`) | ring, budget, debts owed to the book, `done`, `book_dead` | packet in, settle, publish, flush at the end; poll and apply | sequencer, ring, book |
| Matching engine (`engine/matcher.hpp`) | order book, order metadata, stops, last trade price, pending fills | submit, cancel, external fill, pump stops | gateway, book |
| Order gateway (`engine/gateway.hpp`) | tokens, live orders, position, fills cursor | OUCH enter, replace, cancel; poll; fills; flatten | session, matcher, kill switch, published feed |
| SoupBinTCP (`soupbin/session.hpp`) | client and server states, frame buffer, silence timers, sequence numbers | bytes in, tick, login, send, end | TCP stream, gateway |
| Exchange process (`tools/exchange.cpp`) | connection, outgoing queue, `peer_gone`, `feed_done` | accept, read, replay, tick, drain | all of the order path |
| Split replay (`replay/split.hpp`) | historical and strategy orders of one book | add, cancel, delete, replace, aggress | matcher, published feed |
| Strategy process (`tools/strategy.cpp`) | beliefs, parked executions, held acknowledgements, book | feed and order events, quoting, shutdown, report | exchange, over TCP and UDP |
| Order book (`book/book.hpp`) | price band, cursor, overflow map, levels, order pool, reference table, tape | add, execute, cancel, delete, replace, recentre, clear | every consumer of ITCH |
| Book set, dispatch (`book/`) | books by locate over shared storage, session and halt flags | one message, clear | feed handlers |
| Gap policy, halts (`recover/`) | trust, window of unresolved references, halted state | on gap, on reference, on trading action, observe | sequencer, book |
| Snapshots (`recover/snapshot.hpp`) | resting orders, tape, next sequence number | capture, restore | book |
| Kill switch (`risk/kill_switch.hpp`) | latch, rate window, ratio, drawdown peak, backlog timer | record, observe, trip | gateway, simulated lanes |
| Queue models (`sim/queue_model.hpp`, `resolve.hpp`) | our orders, the shares ahead of each under four hypotheses | place, cancel, commit a message, price priority, clamp | backtest, closed loop |
| Backtest and closed loop (`sim/`) | lanes, actions in flight, ledger, markouts, recorders | one message, restart | queue models, strategies, kill switch |
| Strategies (`sim/*maker*.hpp`, `strategies.hpp`) | quotes they believe they have | on event, on fill | backtest, closed loop |

How they interact. The **feed path** runs from the publisher over UDP multicast
to a receiver thread that owns a sequencer, then over an SPSC ring to a book
thread; the threaded reader is the same hand-off for files. The **order path**
runs from a client session over TCP to a server session, the gateway, the
matcher and back, in one event loop (`tools/exchange.cpp`), which replays a
historical feed into the same book and publishes both. A strategy joins the
two: its acknowledgement and the feed's view of the same event arrive in either
order. **Recovery** sits beside both: a declared gap or a halt changes what a
book may be trusted for, and a snapshot carries a book over a restart.
**Simulation** replays the feed against orders that are not in it.

What is hard in each:

- *Ring, reader, pipeline* are the only concurrent code. The hazards are stale
  counters, publication order, and shutting down when either thread fails.
  Correct means: it is a FIFO queue, nothing is overwritten unread, the calls
  return, and every loss is announced before what follows it.
- *Sequencer and link*: loss, repetition, reordering, clipping, overlap,
  restarts. Correct means: one ordered stream per session, each number
  delivered or declared lost once, a bounded buffer, loops that end.
- *Matcher, gateway, sessions, exchange*: long sequences of legal calls,
  a cancel that meets a fill, a replace that fails half way, a client that
  disappears, timers against late bytes. Correct means: shares are conserved,
  the client is told of each once, the published book is the book, and nothing
  rests for a client that is gone.
- *Book and recovery*: caches of derived facts (cursor, table, pool) through
  losses, clears, band moves and restarts. Correct means: no wrong order rests,
  and all the right ones when nothing was lost.
- *Simulation*: four beliefs about a queue nobody can see, actions in flight, a
  switch that must flatten, records that must add up over a restart.
- *Strategy process*: two streams in no order. Correct means: each execution is
  counted once and the report is what the exchange did.

## The modules

| Module | Models |
| --- | --- |
| `BoundedFifo` | abstract: a queue of at most `Capacity` messages |
| `SpscRing` | the ring, one action per call, with a store buffer for the slot writes |
| `SpscRingProofs` | the ring's theorems |
| `MoldPacket` | the packet header shared by both ends |
| `FeedContract` | abstract: what a sequenced feed promises its handler |
| `Sequencer` | `on_packet`, `drain`, `flush` |
| `Publisher` | `add`, `flush`, `maybe_heartbeat`, `end_of_session`, a restart |
| `MoldLink` | publisher, unreliable network and sequencer composed |
| `MoldProofs` | the sequencer's and the link's theorems |
| `ReaderThread` | `parse_threaded`, both threads |
| `ReaderThreadProofs` | the reader's theorems |
| `WirePipeline` | receiver thread and book thread of `wire_to_book` |
| `WirePipelineProofs` | the pipeline's theorems |
| `PriceTime` | abstract: resting orders in price-time order, what `book/` promises |
| `Matcher` | `engine/matcher.hpp`: submission, matching, stops, cancels, fills by the feed |
| `FiniteFacts` | lemmas about finite sets of numbers and sums over them |
| `MatcherProofs` | the matcher's theorems |
| `Sides` | the two sides and which price goes first |
| `SoupSession` | both ends of a SoupBinTCP session |
| `Gateway` | `engine/gateway.hpp` and `replay/split.hpp` on one book |
| `Exchange` | the event loop of `tools/exchange.cpp`, its clients and their connections |
| `ExchangeProofs` | the order path's theorems |
| `OrderQueues` | abstract: queues by book, side and price, oldest first |
| `Book` | `book/book.hpp`, `level.hpp`, `pool.hpp` |
| `BookFeed` | the market, a feed that loses messages, `book_set`, `dispatch`, `recover/` and a process that dies |
| `QueueModel` | `sim/resolve.hpp` and `sim/queue_model.hpp` |
| `KillSwitch` | `risk/kill_switch.hpp` |
| `Lanes` | a lane: queue model, ledger, markouts, switch |
| `Strategies` | what each strategy decides |
| `Recorders` | fill intensities and the inventory path |
| `Backtest` | `sim/backtest.hpp` and `tools/queue_sim.cpp` |
| `ClosedLoop` | `sim/closed_loop.hpp` and its restart |
| `StrategyProcess` | `tools/strategy.cpp` between two networks |
| `StrategyProofs` | the strategy process's theorems |
| `MC*` | instances for TLC |

**SpscRing.** `head`, `tail` are `head_`, `tail_`; `cachedTail`, `cachedHead`
the stale copies; `slots` the array; `offered` and `ready` what `writable()` and
`readable()` last returned, which is the caller's budget; `seen` what the
consumer has read from the batch it has not given back; `stores` slot writes
that have not reached memory. `Publish` and `Consume` are the release stores:
`Publish` cannot overtake a write in `stores`, and the mutant that drops the
release lets it. Counters are unbounded here and unsigned 64-bit in the code;
subtraction is taken modulo `Word`, any modulus above twice the capacity, so
that an underflow shows as it does in the code: a huge free count.

**Sequencer.** One action per branch of `on_packet`: end of session, heartbeat,
next or overlapping, duplicate, ahead (buffered, perhaps over depth or
patience). `drain()` is a loop, one iteration per step (stale, deliver, blocked,
empty), and `flush()` declares the first hole and drains again until the buffer
is empty; `loop` says which is running, and no packet is accepted meanwhile,
as in the code, where one thread owns the object. `log` is a history of the
handler's calls in the current session. Statistics counters are left out.
A packet is its header and the number of blocks its bytes hold. A block holds a
message, never zero bytes: `deliver()` advances `expected_` over an empty block and
calls the handler only when `msg_len > 0` (`sequencer.hpp:170`). No sender here
frames one: the exchange's feed adds ITCH messages, which all have a type byte. For a
sender that did, a message entry of `log` would mean that the number was handed over and
not that a call was made, and `Contiguous`, `ContractSpec` and the link's properties
would speak of numbers. `wire_to_book` rests on the same check: in its ring a slot of
length zero is a gap marker (`wire_to_book.cpp:124`).

**Publisher, MoldLink.** The publisher's `net` is everything it ever sent. The
composition delivers any element of it, any number of times, in any order, or
never. A *weather* is chosen at the start: heartbeats or not, clipped arrivals or
not, a retransmission server or not, how often the sender is started under a
new session, and a bound on messages. The network, clipping and the
retransmission server are not in the repository; they are modelled from what
`on_packet` and its tests expect of them.

**ReaderThread.** Both threads step by step: the producer waits for room, fills
a chunk up to `ChunkBytes`, carries the message that did not fit, publishes,
and sets `done` whether it finished or threw; the consumer polls, looks at `done`
and polls again, walks the chunks of a batch one by one (`slot`, `walked`, `NextChunk`) and gives them back together, and after a throw keeps the ring empty until the
producer is done. A file is a sequence of small and large messages with
possible defects: a frame too big for a chunk, a length that contradicts the
type, a frame the file cuts short. The ring is the bounded queue
`SpscRing` is proved to implement.

**WirePipeline.** The receiver asks for room once per packet but one packet can
release far more messages than it holds, because it may fill a hole. `settle()`
pays what is owed first: a run of messages that did not fit becomes a debt, and
a marker for it goes out before the next message. `PayDebt` and `GiveUp` are the
shutdown path that must place the last marker or see that the book thread is
dead. The sequencer is represented by its contract, and the ring by its counters
with the producer's stale copy of `tail_`, because the budget given to `flush()` is
not one `writable()` issued.

**PriceTime, Matcher.** The book is a set of entries with a place in arrival
order, and `IsFront` is `best_order()`. `orders` is `orders_` (a number never
submitted is `Unknown`), `parked` is `pending_stops_`, `totals` the three
counters, `lastTrade` the last price. `match()` is unrolled: one action per
resting order met (`Trade`, `TradeExternal`, the three kinds of self-trade
prevention) and one per way it ends (`EndFilled`, `EndRests`, `EndCancelled`);
`taker` is its local state. `Run` is the part of `run()` that refuses or counts
the order in. `run()` and `fire_stops()` call each other; when the inner call
returns nothing is elected and the outer scan starts over, so the recursion is
the loop `StopsQuiet`/`FireStop`. `loop` says what the engine is inside of, and
no other call starts meanwhile: one thread owns the engine. On a shared book
the replay adds and reduces orders that are not the engine's, and calls
`apply_external_fill()` for those of the engine's that stand in front.
`available()` reads the first 64 levels in the code and all of them here. Fill
records, match numbers and 32-bit widths are left out.

**SoupSession, Gateway, Exchange.** `SoupSession` has each end of a session as a
record and each entry point as an operator: `on_bytes` one frame at a time,
`tick`, and the sends. The silence trackers are ages that stop growing at the
largest threshold, since the code only compares. `Gateway` has one operator per
OUCH handler (`OnEnter`, `OnReplace`, `OnCancel`), `PollWith` for
`poll` with `flatten`, `Pumped` for `pump_fills`, and one per kind of message of the
replayed feed (`FeedAdds`, `FeedReduces`, `FeedDeletes`, `FeedReplaces`, `FeedExecutes`), the last of
which is `aggress`: it walks the strategy orders in front of the historical one.
`told` counts what the client was told of each token, `mirror` is the book a subscriber of the
published feed rebuilds. OUCH can only enter orders that show all they are and
never a stop, so `submit()` is one step here; module `Matcher` takes it apart.
`Exchange` is the loop, `phase` by `phase`: tick, poll, read (taken apart frame by frame in `Dispatch`),
replay, drain. Clients connect, log in, send orders, log out, send what is not
expected, hang up or fall silent. TCP delivers in order; reads may split and
coalesce frames, writes may be short. A *scenario* bounds which of these happen.

**OrderQueues, Book, BookFeed.** `OrderQueues` is what the feed says: orders join
the back of a queue, shrink in place, leave. `Book` is how the code keeps that: a band
of slots with a cursor, a map for what is off the band, an open-addressed
table with backward-shift deletion (`EraseAt`), a pool with chunks and a free list, both shared by
all the books. `BookFeed` composes: the market sends, messages are lost, the
loss is declared (the sequencer's contract), `dispatch` applies, the gap policy clears and heals,
a snapshot is written, the process dies and comes back. Both consumers are
there: `wire_to_book`, which keeps applying, and `mold_replay`, which stops
when the policy says so.

**QueueModel, Lanes, Strategies, Recorders, Backtest, ClosedLoop.** A message is
resolved against the book before it is applied, then each lane commits it.
The lanes differ in one question: was this cancel ahead of us? A lane's entry
has what it believes is ahead; the true place of our order is derived from the
market's own queues (`AheadOf`). Money is in integers, mids doubled, so that the ledger's
identities are exact. Strategies decide and their intents travel (`flight`).
`ClosedLoop` adds the restart: what travels in `State`, and what does not.

**StrategyProcess.** `Belief` is the struct of that name. The exchange, the feed
and the clock are the environment: it publishes adds and executions of our
orders, sends acknowledgements, and nothing orders one stream by the other.
Datagrams may be lost, the server may fall silent, a write may fail. One action is
one turn of the loop, which reads as much of each stream as has arrived. The body of
`on_message()` is `OnMessage`: the fill detector asks the book as it is before the message (`Detected`), then
`book::apply()` changes it (`Applied`). `HistoricalMessages` is what a tape may hold; its one restriction,
in `StrategyAssumption`, is that it adds an order once.

## The runs

| Run | Question | Bounds |
| --- | --- | --- |
| `spsc_ring` | does it implement a queue, with stale counters and delayed stores, and does neither side starve? | capacity 4, 9 messages: more than two laps |
| `sequencer` | whatever the packets, is the stream contiguous, every loop finite, the contract met? | 2 sessions, numbers 1..4, counts 1..2, depth 3, patience 2: both ways of giving up a hole occur |
| `mold_link` | with a real sender: is the receiver never ahead, is nothing applied twice or left behind, are declared gaps exact? | 5 messages in the plain weather, 4 paced, 3 overlapping, 2 per session with 2 sessions; packets of up to 3 with the count 3 reserved for the end of a session, so the cap on a packet's count is reached |
| `reader_thread` | order, no silent partial success, termination | every file of up to 5 messages, 2 slots, chunks of 2 small messages or 1 large |
| `wire_pipeline` | is each hole announced before what follows it, is no unread slot overwritten, is the last hole told, does shutdown end? | 5 sequence numbers, ring of 3, packets of 2; the book thread may die at any time |
| `matcher` | are shares conserved, is the book in order whenever the engine is idle, does every call return? | four markets: 4 orders of up to 3 shares against icebergs of one share a slice; 5 orders of which up to 4 are stops; 4 orders of two owners under each kind of self-trade prevention; 3 orders and 2 historical ones on a shared book |
| `exchange` | do book, gateway and subscriber agree, is the client told the truth, do sequence numbers agree, is a punctual peer never given up and a dead one flattened? | four scenarios: 2 orders resting behind history; 2 orders that cross it, with the switch; one order under the clock, with every way to leave; the same on time, with torn frames and short writes. Thresholds 1 and 2 of the clock's units: a heartbeat is owed before a silence is fatal |
| `book` | does every book hold what the market's queues hold, whatever is lost or restarted? | ten kinds of day, 3 to 6 messages each: a table of 4 slots with references that collide and wrap, a pool that grows from 1 by 2, bands of 3 and 5 slots that open, are missed and move, every kind of print, up to 2 losses, 2 restarts |
| `backtest` | do the models bracket the truth, does the switch hold, does everything add up? | twelve scenarios of 6 messages over four prices: icebergs given in advance, six strategies, latencies, halts, each limit, a closed loop with a restart |
| `strategy` | is each execution counted once, is the report true, does no order cross? | two tapes of 4 to 6 messages of two symbols, acknowledgements held or not, up to 2 orders of up to 2 shares, one fault |
| `exchange_reconnect`, `closed_loop_rearm` | counterexamples, see below | a second connection; 11 messages and a restart |

Why these bounds. The ring's behaviour depends on occupancy and on how far each
copy is behind; two laps of a four-slot ring reach every combination, and the
theorems cover the rest. The sequencer compares numbers, so the interesting
cases (hole, overlap by one, overlap by more, wholly superseded, depth reached,
patience reached) need three buffered packets and two blocks per packet. In
the reader two slots are the least that lets the producer run ahead, and five
messages fill more chunks than the ring holds.

The matcher's markets are separate because the kinds of order multiply: each
holds the requests that interact. Three parked stops and the two orders that
elect them are the least that shows the order stops fire in; an iceberg of three
slices refreshes twice inside one match. The same holds of the exchange's
scenarios, the book's days and the simulator's: each holds what interacts.
A table of four slots is where backward shift wraps with three orders. A
window of two references and two buckets (16 in the code) is the least that ages one out.
A rate window of 3 buckets of 2 units (10 of 100 ms in the code) has an inside, an edge
and an outside.

Deadlock checking is off where the system stops on purpose: a closed sequencer, a
returned call, a pipeline that has shut down, a market whose orders
are all used, an exchange that has stopped, a day or a run whose messages are all sent,
a strategy that has reported.

The runs' properties:

- `LowerBounds`, `UnreadIntact`, `FifoSpec`, `NoStarvation` (ring).
- `Contiguous`: consecutive handler calls abut and `expected_` is the end of the
  last. `ContractSpec`: refinement of `FeedContract`. `LoopsEnd`.
- `AllAccountedFor` (never ahead of the sender, all that arrived was delivered or
  declared, no data packet reads as the end), `AppliedOnce`, `PlainExactGaps` (link):
  each names the weathers it holds in, and the section on disagreements says
  what happens in the others.
- `ReadsTheFile` (in order, and an honest return), `CallReturns` (reader).
- `NoSilentHole` (each hole has its marker in front of it, the room is real, the last
  hole is told), `ContractSpec`, `Terminates` (pipeline).
- `ConservesShares` (order by order, against the book), `QuietBook` (totals, arrival
  order, uncrossed, no elected stop left parked), `FokAllOrNoneAmongStrangers`,
  `LegalMoves` (the assertion in `transition()`), `CallReturns` (matcher).
- `BooksAgree`: the gateway's live set is its orders that are not done, each rests
  with the shares of its record, and the subscriber's book is the exchange's, queue
  positions included. `ToldTheTruth`, `SequencesAgree`, `NoFalseDeath`,
  `DeadSessionFlattens` (exchange).
- `NothingWrong`: every queue of every book is part of the market's, in order and with its
  sizes, and all of it when nothing was lost. `BookKept`: the cursor is the best price;
  table, pool and levels hold the same orders once. `TapeIsPrints`,
  `NoFalseAlarm` (book).
- `Bracketed`: pessimistic is never ahead of the order-by-order model, which is never ahead of
  optimistic. `MboIsExact`: on a feed that trades first in, first out, the order-by-order model is
  the truth and the others bound it. `SwitchHolds`, `TripFlattens`, `NoQuoteForgotten`,
  `Reconciles` (money, tracker and inventory path), `MeasuredOverTime` (markouts, exposure) (backtest).
- `CountedOnce`, `PositionIsTape`, `ReportIsTrue`, `QuotesRest` (strategy). `QuotesRest` speaks of turns after
  which the loop goes on: the turn that leaves it heeds what is behind a hole after its quote was priced.

Every one of these has a mutant beside the definition it changes (a comment
`Mutant:` marks it): a bug of the kind a patch could introduce, which the run
must catch. Six modules state a type
invariant (`TypeOK`). The ring's, the sequencer's and the matcher's are proved, the reader's and the
pipeline's are part of the invariants proved of them; that of `BookFeed` holds on the same instance when
added to the cfg as an INVARIANT.

## Fairness

Fairness is only what the operating system and the loops give. Ring: the
consumer polls for ever, the producer finishes the batch it started and polls
for room, and store buffers drain. Sequencer: a loop that is running takes its
next iteration; nothing is assumed of packets. Reader and pipeline: each thread
is scheduled. Matcher: the call that is running takes its next step. In the pipeline the book
thread may die at any step, and `Terminates` holds all the same. Exchange: the
loop turns (weak fairness of `Loop`; the poll has a timeout), and time passes: strong fairness of `Pass`, because
the model lets the clock advance only where the loop waits, which it does over
and over without staying there. Nothing is assumed of clients. `DeadSessionFlattens` is the only property that needs
the strong form. The other modules state safety only.

## The proofs

`SpscRingProofs` proves, for every capacity of at least two and every word size
above twice the capacity, `RingTypeCorrect`, `RingLowerBounds`,
`RingUnreadIntact`, `RingInOrder` and `RingImplementsFifo`. The inductive
invariant adds to the types: `cachedTail <= tail <= cachedHead <= head`, the
budgets are within the true room, staged writes lie beyond `head` and inside
the budget, and each slot between `tail` and `head` holds its own number. That
last part is inductive only with the one about `stores`: a delayed write must
not share a slot with an unread message. Modular arithmetic enters through two
lemmas about `SlotOf` and `Minus`.

`MoldProofs` proves, for every set of sessions, headers, depth and
patience, `SequencerTypeCorrect`, `SequencerContiguous`,
`SequencerBufferBounded` and `SequencerImplementsContract`. The inductive
invariant adds that a buffered packet is a data packet of the current session,
which gives the refinement its arithmetic, and that during a loop the buffer is
no larger than the depth. The refinement maps `next` to `expected`; each branch
of `on_packet` is one of the contract's three steps or a stutter.

`MatcherProofs` proves, for every set of markets with orders of every size,
`MatcherConservesShares` and `MatcherLegalMoves`. The assumption,
`MarketAssumption`, says no more than the types of requests and historical orders
and that the numbers given to orders are bounded.
Conservation alone is not inductive: a trade takes
from a record what it takes from the book, which is the same number only
if the entry shows what the record says is resting. So the invariant `IInv` says of
each record that its parts add up and that it shows shares exactly while it is in
the book in a live state (`SoundOrders`); of the book that it has one entry per
displayed order and that entries of historical orders never bear the number of
an order of the engine (`Agrees`); of the parked stops that they have not entered
and are parked once (`StopsParked`), so that firing one cannot count it in twice;
and of the taker that it has entered and is not in the book (`TakerOK`), so that
the shares in flight belong to one order, which is never its own maker.
`LegalMoves` needs the same facts: a maker is live because it is in the book, a
fired stop is `New` because it was parked. There is a lemma for each action and
below it one for each helper (`Park`, `Reduced`, `RefreshIceberg`, ...).

`MatcherQuietBook`, `MatcherFokAllOrNone` and `MatcherTypes` rest on a second
invariant, `QInv`, proved on top of `IInv`. `Counts` says the totals are the
sums over the orders; an action changes one record or two, and `FiniteFacts`
says by how much a sum then moves. `Places` says of the book, during calls
too, that an order behind another of its price entered later, that no two orders of ours cross, and
that the taker is younger than every order on its own side; on a book without history every entry is the
engine's. `InTurn` says numbers are given to orders in turn, so that a parked
stop is older than the ones parked after it, and that no elected stop is parked
while the engine is idle. `Sure` says of a fill-or-kill order in `match()` that
what it can still reach is at least what it still needs, and that it never rests:
each trade takes the same from both sides. That the book stays uncrossed follows from when
`match()` may end: an order comes to rest only when nothing of the other side
crosses it, and what joins a queue otherwise is a slice at a price at which its order stood.

`FiniteFacts` is the library those proofs need. The induction theorems of the
prover's library take an operator as a parameter and cannot be used; instead the
lemmas pick the smallest subset on which a claim fails, which is first-order.
They give the sum over a finite set of the community modules its usual
laws: the empty sum, its type, one element more or less, one value changed, two sums added, an
interval shifted. They also say that a set of naturals has a least member and a bounded one a
greatest, and that a claim which climbs from each number to the next holds of all (`Climb`).

`ReaderThreadProofs` proves `ReaderReadsTheFile` for every file, ring size and
chunk size. The invariant `IInv` writes the file as one line: what the handler
has seen, what is left of the chunk it walks, the chunks in the ring, the chunk
being filled and the carried message are consecutive stretches of it, and where
each begins follows from where the one before it ends (`Reads`, `InLine`). `Fits` bounds
a chunk by `ChunkBytes`; `Handles` places the consumer; `Ends` says what each
error slot means and that `done` is set only after the last publication, so that a
consumer that polls once more after seeing it has seen all of it.

`WirePipelineProofs` proves `PipelineInvariant`, `PipelineNoSilentHole` and
`PipelineImplementsContract` for every ring, packet size and stream, wherever the book thread
dies. `IInv` is the conjunction of `Types`; `Room`, that the receiver's copy of
`tail_` is behind the true one, so its budget is real; `Walk`, how far the book thread is;
`Told`, that what is published and what is applied make one stream without a
break up to `expected - owed`; and `Leaves`, when a thread may have returned. The refinement maps
the book thread's application of a message or of a marker to one step of `FeedContract`.

Of the link `MoldProofs` proves `LinkIsSequencer`, that behind a real sender the receiver is
the module `Sequencer` and so inherits its theorems; and `LinkAllAccountedFor`, `LinkAppliedOnce`
and `LinkPlainExactGaps`. The assumptions are that a sender is started at least once
and `AlphabetAssumption`, that a header can carry the sessions, numbers and counts the
sender uses. `SLInv` is `Sender`, what the publisher's packets can be, and
`LInv`, where the receiver's knowledge comes from: its calls report each number from
the first to `expected` once and in order (`Report`), what it delivered or holds arrived (`Known`, `Sourced`),
without clipping nothing lies beyond what was sent, and in the simple weathers what arrived and is neither
delivered nor declared waits in the buffer (`Waiting`).

`ExchangeProofs` proves `ExchangeBooksAgree`, `ExchangeToldTheTruth`, `ExchangeSequencesAgree` and `ExchangeNoFalseDeath` for any number of tokens, references
and historical orders, any limits and timeouts and every scenario. `BoundsAssumption` and `TimersAssumption` say that
bounds and thresholds are natural numbers, `ScenariosAssumption` what a client and the feed
can say: prices and sizes are numbers, and the engine has a reference for every order sent.
`BooksAgree` is not inductive: that an order rests with the shares of its record
survives a match only if the maker is in the book, in a live state, and no fill
takes more of it than it has. `IInv` therefore says of the matcher that a record shows shares exactly while it
works (`RecordsOK`) and that references are given out in order (`InOrder`), so a new order's is
free; of the book that it has one entry per reference, for an order of ours with the shares
of its record (`BookOK`); of the gateway that no two tokens name one order, that its live set is its
orders that are not done, and that its position is what its orders traded (`GatewayOK`); of the client
that it was told what the records of its tokens say, until its session ends (`ToldOK`); and of the frames on the way that
they ask for no more new orders than there are references left (`FramesOK`), which needs a count over the three queues a frame
passes through. The arithmetic is in two lemmas. `MakersPaidFacts`: what a match takes from
the makers is what their entries lose. `FillsByToken`: the position moves fill by fill in the
code, and the sum is the same taken order by order.

`SequencesAgree` rests on a second invariant, `SInv`, on top of `IInv`. `Balance` writes the
property without the subtraction: the server's next number is one more than the client counted, the
wire holds and the queue holds, as long as the client is in its session; a session that has ended never
comes back. `Fresh` is needed for the step that starts a session: until the first connection is
accepted the server has said nothing and that client has counted nothing, or `accept()` would begin with a debt. `WireTypes` says what a
queue can hold. The server's side is one lemma, `Says`: every handler puts as many numbered messages in the queue as it
adds to the sequence. The client's side is a fold over the frames of a read. No lemma may take the
folded operator as a parameter, so `ReadIsRun` unrolls this one fold into the sessions after each of
the frames: the function the fold is computed by is determined on every set of positions (`RunsSame`) and exists (`RunsExists`),
both by the smallest set on which it fails. `ReadCounts` then goes from frame to frame.

`NoFalseDeath` rests on a third, `PInv`, on top of both: a punctual connection is `Apart` (not accepted, its login on
the way), `Asking` (the login is being read), `Talk` or `Over`, and the stages follow one another. That no age reaches
a threshold is not inductive, because an age is reset by the other end's frame two hops and several steps away. `Talk` therefore
ties the ends together: what one has not heard the other has not said for as long, *unless* it is in the socket, in the queue, or
read and not yet dispatched, and an end whose tick is not due has said something within the heartbeat interval. Time passes
only when nothing is on the way, so at that moment both ages are below it. `OnTheWay` says in addition that the
answer to the login is in front of everything else, or the client would be a violator of the protocol rather than alive.
The theorem is `Spec => [](Timely => NoFalseDeath)`. `Timely` asks that a heartbeat is owed before a silence is fatal
and nobody is cut off at once (`exchange.cpp` and `strategy.cpp` set 1 s against 10 to 30 s), and that in the punctual scenario one
client connects and stays. Without the first the property is false of the code. Without the second it is false of the
punctual client: a host that falls silent is dead, and a second connection takes the place of the first, whose client then hears nothing.
How long time may go on, what is traded, torn, coalesced or written short, and when a client logs out are arbitrary.

`StrategyProofs` proves `StrategyCountedOnce`, `StrategyPositionIsTape`, `StrategyReportIsTrue` and
`StrategyQuotesRest`, all from `StrategyInvariant`, for every tape, any number and size of orders, any delay of
acknowledgements, any tick and offset, any number of lost datagrams, silences and failed writes, and every interleaving of the two streams. The
assumption is `StrategyAssumption`: a tape consists of historical messages and adds an order once, a tick is
positive.

`CountedOnce` alone is not inductive: that a parked execution is counted when its Accepted lands says nothing
until it is known whose it is. `PositionIsTape` is even less so, because the code's question is another than the
property's: the code asks whether the book holds the order, the property whether the feed has shown its add. The
two agree only if an execution never finds its order used up or removed, so the invariant must bound what is *still to
come*. `IInv` is the conjunction of

- `Types`; `GivenOut`: the exchange gives references in turn, to orders that were sent, so one that
  is new to the exchange is new to everyone; `TapeNew`: no add of the rest of the tape has been made; `Answers`: an order the exchange
  has accepted is known, or its Accepted is held or on the way;
- `Sound`, of the belief and of the messages it has not yet heeded, those behind a hole and those on the way:
  `Counted` and `Placed` (the two sums), `Booked` (an order of ours in the book has our locate and side), `Covered` (what is to come of an
  order's executions fits into what the book shows of it or the add on its way brings), `AddedOnce`, `Unknown` (nothing has
  been heard of a reference not yet given), `InOrder` (while nothing was lost, an add precedes its executions, which makes the
  report true), and `Mirrored` (the book's entry is what the feed seen so far leaves of the add, which gives `QuotesRest`).

`Sound` takes the belief and the stream as parameters, so that one turn of the loop is proved in the order the code runs it: held
Accepteds (`BoundAllSound`), replies, then message by message (`HeedSound`, `HeededSound`). The four
loops of a turn are folds. As above no lemma may take the operator they fold, so each is unrolled into a run of
steps (`RunsExists`, `RunsSame`, `FoldIsRun`), with the loop's name as data, and a claim about the run climbs
from one element to the next. The environment's actions then only append to the stream, dim one of its messages
(`DimmedSound`) or move shares from the exchange's book to the stream (`SaidSound`).

What stays with TLC:

- Liveness (`NoStarvation`, `LoopsEnd`, `CallReturns`, `Terminates`, `DeadSessionFlattens`): the prover does
  not reason about fairness.
- `NothingWrong`, `BookKept`, `TapeIsPrints`, `NoFalseAlarm`: each handler of the book changes a cursor, a probed table, a pool and a chain
  of levels at once, and that backward shift keeps every other reference findable is an argument about
  cyclic intervals of the table that the solver does not find unaided.
- `Bracketed`, `MboIsExact`: they relate the lanes, order by order, to each other and to the market's true
  queues, which needs the book's invariant first.
- `SwitchHolds`, `Reconciles`, `TripFlattens`, `MeasuredOverTime`: one message takes a lane through five folds, over our
  orders, their fills and the intents that land. None of it is out of the prover's reach in kind, as the strategy's folds
  show; it is not done. `TripFlattens` is false where a run with limits is resumed (below), so a theorem would
  have to exclude that.
- `NoQuoteForgotten` depends besides on latencies that keep a quote in front of its cancel.

## Where code and documents disagree

Two disagreements are runs that must fail:

- `exchange_reconnect` / `DeadSessionFlattens`: `accept()` replaces the gateway of a
  connection whose death has not been noticed, without flattening it. The
  dead session is never ticked again and its orders rest until they trade
  (`exchange.cpp:493`, against `docs/phase12-design.md:190`).
- `closed_loop_rearm` / `TripFlattens`: a resumed run has a fresh switch but the old
  `trip_seen_`, so when the switch trips again nothing is cancelled
  (`closed_loop.hpp:323`, against `:43`).

Statements of the repository that are written in the modules and that no run lists, because the code breaks them;
naming one in the component's cfg shows the trace within seconds:

- `ExactGaps` (`MoldLink`): a heartbeat ahead of `expected_` declares a gap up
  to its number without looking at the reorder buffer, so messages that arrived
  are reported lost (`sequencer.hpp:111`, against `:30`).
- `TailReported` (`MoldLink`): the number in an end-of-session packet is ignored,
  so a lost tail is never declared (`sequencer.hpp:100`, against `:143`).
- `SamePrefix` (`ReaderThread`): messages in front of a truncated frame are handled by
  `parse()` and not by `parse_threaded()` when they share its chunk
  (`reader_thread.hpp:224`, against `:106`).
- `FokAllOrNone` (`Matcher`): `available()` counts the shares of the order's own
  owner, which self-trade prevention then refuses to trade with, so a
  fill-or-kill order is cancelled half filled (`matcher.hpp:409`, against
  `order_types.hpp:28`). Without self-trade prevention the promise holds.
- `ReplaceKeepsOne` (`Exchange`): the checks before a replace do not cover what
  `submit()` can refuse (a market order against an empty side), so the original is
  gone and the replacement is not there (`gateway.hpp:531`, against `:474`).

Others met on the way.

Feed path:

- A longer packet under a number already buffered is dropped
  (`sequencer.hpp:193`); `AllAccountedFor` and `PlainExactGaps` exclude clipping and
  retransmission for it.
- An empty block uses up a sequence number with neither a call nor a gap, and is not in
  `stats_.messages` either (`sequencer.hpp:170`); packets here hold messages only.
- A clipped packet that overlaps what was delivered pushes `expected_` beyond
  what was sent (`sequencer.hpp:182`); being never ahead excludes clipping.
- A straggler of an old session switches the sequencer back to it and is
  delivered again (`sequencer.hpp:92`); `AppliedOnce` excludes restarts for
  its first conjunct.
- `since_gap_` is not reset when the hole it counts is filled while packets
  stay buffered, so the next hole is given up early (`sequencer.hpp:194`).
- When the producer of `parse_threaded` throws, a length mismatch earlier in the
  unpublished chunk is masked by its error (`reader_thread.hpp:224`).

Order path:

- `peer_gone` is never cleared and the outgoing queue is not emptied on accept, so a
  client that connects after a disconnection is closed in the same iteration. `ECONNRESET`
  on read is treated like "nothing to read". The loop can end with orders
  resting (`exchange.cpp:446-640`).
- A login and a logout in one read end the session before the login is decided; states the
  header calls terminal are left when frames are still in the buffer; part of a frame resets the login timer.
- Cancels of orders that are already done are not answered, and malformed OUCH is only counted, against
  "answer every inbound message exactly once" (`docs/phase12-design.md` §7.2).
- The position limit ignores open orders, and a replace nets the original's open shares out of a
  position that never held them, so a replacement may exceed the limit by as much (`gateway.hpp:509`). The exchange never tells its kill switch of
  anything, so only an operator can trip it.

Books and recovery:

- `clear_orders()` resets the overflow peak but keeps the pending first prices and `recentre_checked_`, so a band
  that waited for its second side opens around a price from before the clear.
- A reference added twice orphans the first order. A first price of zero or less never opens a percentage band.
- `wire_to_book` keeps applying after the policy has halted; `mold_replay` stops.
- A window that is not a multiple of 16 covers fewer references than configured. A message whose locate
  is not its order's counts as resolved. Trusted after recovery does not mean whole:
  orders lost in the hole stay missing. A lost trading action leaves the
  state stale.
- The snapshot omits `cross_prices_`. `restart_check` asks whether the book is crossed at the
  transition, which `halt.hpp:150` warns against.
- A breach of the market-wide breaker is permanent, as `book_set.hpp` says itself.

Simulation:

- Lanes ask only for trading state `T` (`backtest.hpp:167`), so they fill before the open and
  after the close of the book's session where `docs/phase6-design.md` excludes it.
- Price-priority fills consume the whole reach again at each message. A trip caused by a
  message sent flattens at the next message (`backtest.hpp:205`).
- With two orders of ours at one price, the clamp can make a model more optimistic
  than the queue; orders that arrived at the same time both fill off one trade.
- `SymmetricTouchMaker` has no `state()`, so a resumed run uses its ids again. A cancel latency below the
  order latency can orphan a quote (`NoQuoteForgotten` excludes it). The order-by-order set is not
  recorded again after an iceberg refresh.
- The rate window covers 0.9 to 1.0 seconds (`SwitchHolds` states 0.9).
- A dip of the feed ring to empty is never seen by the backlog limit, which is asked only when
  something is ready, against `kill_switch.hpp:222`.
- `MidVolatility` writes its first difference at index 1 and reads from index 0, so until the ring wraps
  the estimate includes a zero nobody wrote and misses the newest (`as_maker.hpp:98`).
- The last interval of a halt is charged as exposure, because `observe()` takes the state at its
  end (`intensity.hpp:148`). A fill on the message after placement can fall in a bucket
  with no exposure, which the regression skips. Fills by taking reach the inventory path one message late.
- The ledger's decomposition is exact when the doubled mid is even, and loses half a unit otherwise (`Reconciles` says so).

Strategy process:

- It keeps quoting after the exchange is gone, though the comment there says to stop.
- It leaves half a second after the end of the feed with answers possibly on the wire; a login that is answered after the
  feed ended lets it quote after its logout; parked references that are never
  acknowledged are never counted; the end of a session does not release held messages
  before the loop ends.

## What is not modelled

See `components` in `PROJECT.json`. Left out for good: wire layouts (no state),
statistics that decide nothing, latency measurement, floating point (the regression over intensities,
the volatility estimate, which is a constant here), file and socket I/O, option parsing, reports,
the Python reference. Left out for now: the sustained limit on ring occupancy, the byte layout of snapshots, the retransmission
client (the repository has none).

## What could follow

Every part of the plan the project began with (feed path, order path, recovery, simulation, book, composition, strategy process) is
modelled and checked, and the safety properties of all but books and simulator are proved. What would add most from here:

1. Book: `EraseAt` keeps every other reference findable, for every table size; on it `BookKept`, then `NothingWrong`.
2. `KillSwitch`: the latch and the rate window as theorems of their own, which `SwitchHolds` would use.
3. Larger instances, where a scenario is now cut at its least: two clients on the
   exchange, a replay of more than two historical orders.
