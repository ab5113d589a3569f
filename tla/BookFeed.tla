------------------------------ MODULE BookFeed ------------------------------
(***************************************************************************)
(* The books a feed handler keeps, and what happens to them when the feed  *)
(* or the handler fails: book/book_set.hpp and book/dispatch.hpp apply     *)
(* messages, recover/gap_policy.hpp says what to do about a hole, and      *)
(* recover/snapshot.hpp brings a restarted process back.  The market that  *)
(* sends the messages is rest; messages may be lost, but the sequencer     *)
(* (module Sequencer) declares the loss before the next one is delivered.  *)
(***************************************************************************)
EXTENDS Book, OrderQueues

CONSTANTS
  Scenarios,   \* bounds: what may happen in each kind of day, see MCBookFeed
  Window,      \* GapConfig::recovery_window
  Tolerance,   \* GapConfig::recovery_tolerance
  MaxGaps,     \* GapConfig::max_gaps_before_halt
  Buckets      \* GapTracker::kBuckets

ASSUME BucketsAssumption == Buckets \in Nat \ {0}

VARIABLES
  scenario,  \* which kind of day this is
  sent,      \* how many messages the market has sent
  used,      \* how many order references it has used
  lost,      \* messages lost and not yet declared
  store,     \* Storage: the table, the pool and the orders in it
  books,     \* BookSet::books_
  dir,       \* BookSet::dir_
  session,   \* BookSet::session_
  gap,       \* GapTracker
  disk,      \* the snapshot file
  since,     \* the feed's messages from the snapshot's next_sequence on
  replayed,  \* how many of them the process has applied
  halt,      \* HaltTracker, one for each book
  phase,     \* the trading state the market itself is in, by book
  prints     \* every print applied, by book: the reference for the tape

feedVars == <<rest, sent, used, lost, phase>>
setVars == <<store, books, dir, session>>
vars == <<scenario, feedVars, setVars, gap, disk, since, replayed, halt, prints>>

day == Scenarios[scenario]
NoBook == [none |-> TRUE]
NoFile == [none |-> TRUE]
Made(b) == books[b] /= NoBook

NewSymbol == [directoried |-> FALSE, halted |-> FALSE, halts |-> 0, broken |-> 0]
NewSession == [event |-> "none", breached |-> 0, breaches |-> 0]
NewStore == [refs |-> NewRefMap(MinSlots), pool |-> NewPool, order |-> << >>]
NewHalt ==
  [session |-> "unknown", resuming |-> FALSE, halts |-> 0, resumes |-> 0,
   whileHalted |-> 0, whileTrading |-> 0, atResume |-> 0]
NewGap ==
  [state |-> "trusted", gaps |-> 0, recoveries |-> 0, buckets |-> [i \in 0..(Buckets - 1) |-> 0],
   head |-> 0, inBucket |-> 0, unknown |-> 0, refs |-> 0]

Init ==
  /\ scenario \in DOMAIN Scenarios
  /\ rest = [b \in Books |-> Empty] /\ sent = 0 /\ used = 0 /\ lost = 0
  /\ phase = [b \in Books |-> "unknown"] /\ halt = [b \in Books |-> NewHalt]
  /\ store = NewStore /\ books = [b \in Books |-> NoBook]
  /\ dir = [b \in Books |-> NewSymbol] /\ session = NewSession
  /\ gap = NewGap /\ disk = NoFile /\ since = << >> /\ replayed = 0
  /\ prints = [b \in Books |-> << >>]

-----------------------------------------------------------------------------
(* dispatch.hpp: one message.                                              *)

\* at(): the book of a locate is made by the first message for it, and joins
\* a session already under way.
Fresh(b) == [NewBook(b, day.levels) EXCEPT !.event = session.event]
View(b) ==
  [refs |-> store.refs, pool |-> store.pool, order |-> store.order,
   book |-> IF Made(b) THEN books[b] ELSE Fresh(b)]

Referring == {"E", "C", "X", "D", "U"}

Updated(v, m) ==
  IF m.type \in Referring /\ ~Resolves(v, m.ref) THEN Unresolved(v, m.ref)
  ELSE CASE m.type = "A" -> Added(v, m.ref, m.side, m.price, m.shares)
         [] m.type = "E" -> Executed(v, m.ref, m.shares)
         [] m.type = "C" -> ExecutedWith(v, m.ref, m.price, m.shares, m.printable)
         [] m.type = "X" -> Cancelled(v, m.ref, m.shares)
         [] m.type = "D" -> Removed(v, m.ref)
         [] m.type = "U" -> Replaced(v, m.ref, m.new, m.price, m.shares)
         [] m.type = "P" -> Traded(v, m.price, m.shares)
         [] m.type = "Q" -> Crossed(v, m.price, m.shares, m.code)
         [] m.type = "H" -> [v EXCEPT !.book.trading = m.code]

ToBook(m) ==
  \E v \in {Updated(View(m.book), m)} :
    /\ store' = [refs |-> v.refs, pool |-> v.pool, order |-> v.order]
    /\ books' = [books EXCEPT ![m.book] = v.book]
    /\ UNCHANGED <<dir, session>>

\* Messages about the market or the symbol make no book.
ToMarket(m) ==
  /\ store' = store
  /\ books' = IF m.type /= "S" THEN books
              ELSE [b \in Books |-> IF Made(b) THEN [books[b] EXCEPT !.event = m.code] ELSE books[b]]
  /\ session' = CASE m.type = "S" -> [session EXCEPT !.event = m.code]
                  [] m.type = "W" -> [session EXCEPT !.breached = m.shares, !.breaches = @ + 1]
                  [] OTHER -> session
  /\ dir' = IF m.type \in {"S", "W"} THEN dir
            ELSE [dir EXCEPT ![m.book] =
                    CASE m.type = "R" -> [@ EXCEPT !.directoried = TRUE]
                      [] m.type = "B" -> [@ EXCEPT !.broken = @ + 1]
                      [] m.type = "h" -> [@ EXCEPT !.halted = (m.code = "halt"),
                                            !.halts = IF m.code = "halt" /\ ~dir[m.book].halted
                                                      THEN @ + 1 ELSE @]]

ForSet == {"S", "W", "R", "B", "h"}

\* What the tape is to say of this message: nothing, or one print.
Prints(m) ==
  CASE m.type = "E" /\ Resolves(View(m.book), m.ref) ->
         <<[price |-> m.at, shares |-> m.shares]>>
    [] m.type = "C" /\ Resolves(View(m.book), m.ref) /\ m.printable -> <<[price |-> m.price, shares |-> m.shares]>>
    [] m.type \in {"P", "Q"} -> <<[price |-> m.price, shares |-> m.shares]>>
    [] OTHER -> << >>

-----------------------------------------------------------------------------
(* gap_policy.hpp: whether the books may be believed.                      *)

WindowReset(g) ==
  [g EXCEPT !.buckets = [i \in DOMAIN @ |-> 0], !.head = 0, !.inBucket = 0, !.unknown = 0, !.refs = 0]

OnGap(g) ==
  [WindowReset(g) EXCEPT !.gaps = @ + 1,
     !.state = IF day.policy = "halt" \/ g.gaps + 1 > MaxGaps THEN "halted" ELSE "recovering"]

BucketSize == Max({1, Window \div Buckets})

BucketTurned(g) ==
  LET h == (g.head + 1) % Buckets
  IN  [g EXCEPT !.inBucket = 0, !.head = h, !.unknown = @ - g.buckets[h], !.buckets[h] = 0]

OnReference(g, resolved) ==
  LET miss == IF resolved THEN 0 ELSE 1
      n == [g EXCEPT !.refs = @ + 1, !.buckets[g.head] = @ + miss, !.unknown = @ + miss,
                     !.inBucket = @ + 1]
      w == IF n.inBucket >= BucketSize THEN BucketTurned(n) ELSE n
  IN  IF g.state /= "recovering" THEN g
      ELSE IF w.refs >= Window /\ w.unknown <= Tolerance
      THEN [WindowReset(w) EXCEPT !.state = "trusted", !.recoveries = @ + 1] ELSE w

\* The stream is over; without its end-of-session marker it only stopped.
OnStreamEnd(g, marked) == IF marked THEN g ELSE [g EXCEPT !.state = "halted"]

-----------------------------------------------------------------------------
(* halt.hpp: whether a crossed book is a defect.                           *)

\* Mutant: every state but a halt counts as trading.
TradableUnlessHalted(state) == state /= "H"

Tradable(state) == state = "T"

\* Only a halt that was seen to begin is counted, so that a process started
\* in the middle of one invents nothing.
OnTradingAction(h, next) ==
  IF next = h.session THEN h
  ELSE LET resume == h.session /= "unknown" /\ ~Tradable(h.session) /\ Tradable(next)
       IN  [h EXCEPT !.session = next, !.resuming = @ \/ resume,
                     !.halts = @ + (IF Tradable(h.session) THEN 1 ELSE 0),
                     !.resumes = @ + (IF resume THEN 1 ELSE 0)]

CrossedBook(v) ==
  LET bid == Best(v.side["buy"]) ask == Best(v.side["sell"])
  IN  bid /= NoPrice /\ ask /= NoPrice /\ bid > ask

Observe(h, crossed) ==
  [h EXCEPT !.resuming = FALSE,
            !.atResume = @ + (IF crossed /\ h.resuming THEN 1 ELSE 0),
            !.whileTrading = @ + (IF crossed /\ Tradable(h.session) THEN 1 ELSE 0),
            !.whileHalted = @ + (IF crossed /\ ~Tradable(h.session) THEN 1 ELSE 0)]

-----------------------------------------------------------------------------
(* The feed.                                                               *)

Message(type, b) ==
  [type |-> type, book |-> b, ref |-> 0, side |-> "buy", price |-> 0, shares |-> 0, new |-> 0,
   printable |-> TRUE, code |-> "none", at |-> 0]

\* The messages the market may send next.  References are used once, in the
\* order the day gives them; at is where an executed order rested, which the
\* wire does not say.
Messages ==
  UNION {
    {[Message("A", b) EXCEPT !.ref = day.refs[used + 1], !.side = q[1], !.price = q[2], !.shares = n] :
       q \in IF used < Len(day.refs) THEN day.quotes ELSE {}, n \in day.sizes}
    \union UNION {
      {[Message("D", b) EXCEPT !.ref = r]}
      \union {[Message("E", b) EXCEPT !.ref = r, !.shares = n, !.at = PriceOf(rest[b], r)] : n \in 1..OrderOf(rest[b], r).shares}
      \union {[Message("X", b) EXCEPT !.ref = r, !.shares = n] : n \in 1..(OrderOf(rest[b], r).shares - 1)}
      \union {[Message("C", b) EXCEPT !.ref = r, !.shares = 1, !.price = PriceOf(rest[b], r) + 1, !.printable = p] :
                p \in BOOLEAN}
      \union {[Message("U", b) EXCEPT !.ref = r, !.new = day.refs[used + 1], !.price = q[2], !.shares = n] :
                q \in {x \in day.quotes : used < Len(day.refs) /\ x[1] = SideOf(rest[b], r)}, n \in day.sizes} :
      r \in Resting(rest[b])}
    \union {[Message("D", b) EXCEPT !.ref = r] :  \* under another symbol's locate
              r \in IF day.strays THEN UNION {Resting(rest[c]) : c \in day.books \ {b}} ELSE {}}
    \union {[Message("P", b) EXCEPT !.price = 1, !.shares = 1]}
    \union {[Message("Q", b) EXCEPT !.price = x, !.shares = x, !.code = c] : x \in {0, 2}, c \in CrossTypes}
    \union {[Message("H", b) EXCEPT !.code = c] : c \in {"T", "H", "Q"}}
    \union {Message("R", b), Message("B", b)}
    \union {[Message("h", b) EXCEPT !.code = c] : c \in {"halt", "resume"}}
    \union {[Message("S", b) EXCEPT !.code = "Q"], [Message("W", b) EXCEPT !.shares = 1]}
    : b \in day.books}

Sent(m) ==
  /\ rest' = [rest EXCEPT ![m.book] =
                CASE m.type = "A" -> Joined(@, m.ref, m.side, m.price, m.shares)
                  [] m.type \in {"E", "C", "X"} -> Shrunk(@, m.ref, m.shares)
                  [] m.type = "D" /\ m.ref \in Resting(@) -> Gone(@, m.ref)
                  [] m.type = "U" -> Requeued(@, m.ref, m.new, m.price, m.shares)
                  [] OTHER -> @]
  /\ sent' = sent + 1
  /\ used' = IF m.type \in {"A", "U"} THEN used + 1 ELSE used
  /\ phase' = IF m.type = "H" THEN [phase EXCEPT ![m.book] = m.code] ELSE phase

\* The book thread of wire_to_book applies whatever the policy says, and
\* mold_replay nothing more to a book that nobody may read.
Heeds == day.driver = "wire_to_book" \/ gap.state /= "halted"

Ignored == UNCHANGED <<setVars, halt, gap, prints>>

Applied(m) ==
  /\ IF m.type \in ForSet THEN ToMarket(m) ELSE ToBook(m)
  /\ halt' = IF m.type \in ForSet THEN halt
             ELSE [halt EXCEPT ![m.book] =
                     Observe(IF m.type = "H" THEN OnTradingAction(@, m.code) ELSE @,
                             CrossedBook(books'[m.book]))]
  /\ gap' = IF m.type \in Referring THEN OnReference(gap, Resolves(View(m.book), m.ref)) ELSE gap
  /\ prints' = [prints EXCEPT ![m.book] = @ \o Prints(m)]

CaughtUp == replayed = Len(since)

\* While it trades, a market executes what would cross; it resumes uncrossed.
CrossesAt(b, side, price) == \E p \in Quoted(rest[b], Opposite(side)) : ~Better(Opposite(side), price, p)
MayBeSent(m) ==
  /\ sent < day.messages /\ m.type \in day.kinds
  /\ m.type = "A" => phase[m.book] /= "T" \/ ~CrossesAt(m.book, m.side, m.price)
  /\ m.type = "U" => phase[m.book] /= "T" \/ ~CrossesAt(m.book, SideOf(rest[m.book], m.ref), m.price)
  /\ m.type = "H" =>
       \/ m.code /= "T"
       \/ \A p \in Quoted(rest[m.book], "buy"), q \in Quoted(rest[m.book], "sell") : p < q

\* A message is sent and delivered.
Deliver ==
  \E m \in Messages :
    /\ MayBeSent(m) /\ CaughtUp /\ lost = 0
    /\ Sent(m) /\ (IF Heeds THEN Applied(m) ELSE Ignored) /\ UNCHANGED <<scenario, lost, disk>>
    /\ IF disk = NoFile THEN UNCHANGED <<since, replayed>>
       ELSE since' = Append(since, m) /\ replayed' = replayed + 1

\* A message is sent and lost.
Lose ==
  \E m \in Messages :
    /\ MayBeSent(m) /\ lost < day.losses /\ gap.gaps < day.gaps
    /\ Sent(m) /\ lost' = lost + 1
    /\ UNCHANGED <<scenario, setVars, gap, disk, since, replayed, halt, prints>>

\* Every book is suspect, so every book is cleared; the tape stays.
Cleared ==
  LET clear(st, b) ==
        IF ~Made(b) THEN st
        ELSE LET v == ClearedOrders([refs |-> st.refs, pool |-> st.pool, order |-> st.order, book |-> st.books[b]])
             IN  [refs |-> v.refs, pool |-> v.pool, order |-> v.order, books |-> [st.books EXCEPT ![b] = v.book]]
  IN  FoldLeft(clear, [refs |-> store.refs, pool |-> store.pool, order |-> store.order, books |-> books],
               SetToSortSeq(Books, <))

DeclareGap ==
  /\ lost > 0 /\ lost' = 0
  /\ gap' = OnGap(gap)
  /\ IF OnGap(gap).state = "halted" THEN UNCHANGED <<store, books>>
     ELSE \E c \in {Cleared} :
            /\ store' = [refs |-> c.refs, pool |-> c.pool, order |-> c.order]
            /\ books' = c.books
  /\ UNCHANGED <<scenario, rest, sent, used, phase, dir, session, disk, since, replayed, halt, prints>>

-----------------------------------------------------------------------------
(* snapshot.hpp: one book, saved, lost and brought back.                   *)

\* Bids then asks, each in fill order: restoring them in that order rebuilds
\* every queue as it was.
Capture(b) ==
  LET v == View(b)
      record(n) == LET o == v.order[n] IN [ref |-> o.ref, side |-> o.side, price |-> o.price, shares |-> o.shares]
      nodes == InFillOrder(v, "buy") \o InFillOrder(v, "sell")
  IN  [orders |-> [i \in DOMAIN nodes |-> record(nodes[i])],
       tape |-> v.book.tape, unknown |-> v.book.unknown,
       trading |-> v.book.trading, event |-> v.book.event]

\* Mutant: the orders come back in the order of their references.
RestoredByRef(b, s) ==
  LET blank == NewStore @@ [book |-> NewBook(b, 0)]
      add(v, o) == Added(v, o.ref, o.side, o.price, o.shares)
      v == FoldLeft(add, blank, SortSeq(s.orders, LAMBDA x, y : x.ref < y.ref))
  IN  [v EXCEPT !.book.tape = s.tape, !.book.unknown = s.unknown, !.book.trading = s.trading, !.book.event = s.event]

Restored(b, s) ==
  LET blank == NewStore @@ [book |-> NewBook(b, 0)]
      add(v, o) == Added(v, o.ref, o.side, o.price, o.shares)
      v == FoldLeft(add, blank, s.orders)
  IN  [v EXCEPT !.book.tape = s.tape, !.book.unknown = s.unknown, !.book.trading = s.trading, !.book.event = s.event]

Save ==
  \E b \in day.books :
    /\ day.restarts > 0 /\ disk = NoFile /\ Made(b)
    /\ disk' = Capture(b) @@ [restarts |-> 0, prints |-> prints[b]]
    /\ UNCHANGED <<scenario, feedVars, setVars, gap, since, replayed, halt, prints>>

\* The process is gone; another restores the file and reads on from there.
Restart ==
  \E b \in day.books :
    /\ disk /= NoFile /\ disk.restarts < day.restarts
    /\ \E v \in {Restored(b, disk)} :
         /\ store' = [refs |-> v.refs, pool |-> v.pool, order |-> v.order]
         /\ books' = [books EXCEPT ![b] = v.book]
    /\ prints' = [prints EXCEPT ![b] = disk.prints]
    /\ halt' = [halt EXCEPT ![b] = NewHalt]
    /\ replayed' = 0 /\ disk' = [disk EXCEPT !.restarts = @ + 1]
    /\ UNCHANGED <<scenario, feedVars, dir, session, gap, since>>

Replay ==
  /\ replayed < Len(since) /\ replayed' = replayed + 1
  /\ Applied(since[replayed + 1])
  /\ UNCHANGED <<scenario, feedVars, disk, since>>

\* The feed ends on its marker, or with the last messages undelivered.
StreamEnd ==
  /\ sent = day.messages /\ CaughtUp /\ sent' = sent + 1
  /\ gap' = OnStreamEnd(gap, lost = 0)
  /\ UNCHANGED <<scenario, rest, used, lost, phase, setVars, disk, since, replayed, halt, prints>>

Next == Deliver \/ Lose \/ DeclareGap \/ Save \/ Restart \/ Replay \/ StreamEnd

Spec == Init /\ [][Next]_vars

-----------------------------------------------------------------------------
(* Properties.                                                             *)

\* The types of what the feed handler keeps besides its books.
TypeOK ==
  /\ gap.state \in {"trusted", "recovering", "halted"} /\ gap.head \in 0..(Buckets - 1)
  /\ store.refs.size \in Nat /\ replayed \in 0..Len(since) /\ lost \in Nat

Nodes(b, side) == {n \in DOMAIN store.order : store.order[n].locate = b /\ store.order[n].side = side}
QueueOf(b, side, price) ==
  IF ~Made(b) THEN << >>
  ELSE LET nodes == LevelAt(books[b].side[side], price).queue
       IN  [i \in DOMAIN nodes |-> [ref |-> store.order[nodes[i]].ref, shares |-> store.order[nodes[i]].shares]]

\* "The result holds NO WRONG ORDERS, only missing ones" (BookSet::
\* clear_all_orders): once every loss is declared, every queue of every book
\* is part of the market's own, in the market's order and with its sizes, and
\* is all of it when nothing was ever lost; through bands that open and move,
\* a gap on another symbol, and a process saved, killed and restored.
NothingWrong ==
  lost = 0 /\ CaughtUp /\ gap.state /= "halted" =>
    \A b \in Books, s \in Sides, p \in Prices :
      LET ours == QueueOf(b, s, p) theirs == rest[b][s][p]
      IN  PartOf(ours, theirs) /\ (gap.gaps = 0 => ours = theirs)

\* The cursor, the filled count, the overflow map and the running totals are
\* caches of the orders: Side::best and Side::top report exactly the prices
\* at which orders rest, best first, a level's total is the sum of its orders,
\* and the book's tallies count them, whatever band a price fell in.
BestIsBest ==
  \A b \in {x \in Books : Made(x)}, side \in Sides :
    LET s == books[b].side[side]
        nodes == Nodes(b, side)
        prices == {store.order[n].price : n \in nodes}
        sharesAt(p) == MapThenSumSet(LAMBDA n : store.order[n].shares,
                                     {n \in nodes : store.order[n].price = p})
    IN  /\ Best(s) = IF prices = {} THEN NoPrice ELSE Extreme(side, prices)
        /\ Top(s) = SetToSortSeq(prices, LAMBDA p, q : Better(side, p, q))
        /\ \A p \in prices : LevelAt(s, p).shares = sharesAt(p)
        /\ books[b].orders = Cardinality(nodes) + Cardinality(Nodes(b, Opposite(side)))
        /\ books[b].shares = MapThenSumSet(LAMBDA n : store.order[n].shares,
                                           nodes \union Nodes(b, Opposite(side)))

\* The table, the pool and the levels are one structure shared by every book:
\* a reference is found at its node and nowhere else, through growth and
\* deletions that shift entries back around the end of the table; a node is
\* either free or in exactly one queue; and clearing one book gives back its
\* own nodes only (RefMap::erase_at, Book::release_all_orders).
StorageExact ==
  /\ \A n \in DOMAIN store.order :
       LET o == store.order[n] IN
       /\ FindIndex(store.refs, o.ref) /= NoSlot
       /\ store.refs.slots[FindIndex(store.refs, o.ref)] = [ref |-> o.ref, node |-> n]
       /\ Cardinality({i \in DOMAIN QueueOf(o.locate, o.side, o.price) :
                         QueueOf(o.locate, o.side, o.price)[i].ref = o.ref}) = 1
  /\ store.refs.size = Cardinality(DOMAIN store.order)
  /\ store.refs.size = Cardinality({i \in DOMAIN store.refs.slots : store.refs.slots[i].node /= 0})
  /\ store.pool.live = store.refs.size
  /\ DOMAIN store.order = (1..store.pool.capacity) \ ToSet(store.pool.free)
  /\ Cardinality(ToSet(store.pool.free)) = Len(store.pool.free)

\* The book's two structures are what they are caches of.
BookKept == BestIsBest /\ StorageExact

\* The day's tape is exactly the prints that were applied, whatever the feed
\* lost and however often the process came back from its file: a gap clears
\* orders and not volume, a print of no shares is not a print, and a range
\* starts at the first real one (Book::record_trade, restore_tape).
TapeIsPrints ==
  \A b \in {x \in Books : Made(x)} :
    LET real == SelectSeq(prints[b], LAMBDA x : x.shares > 0)
        tape == books[b].tape
        sum(f(_)) == FoldLeft(LAMBDA n, x : n + f(x), 0, real)
    IN  /\ tape.volume = sum(LAMBDA x : x.shares)
        /\ tape.notional = sum(LAMBDA x : x.price * x.shares)
        /\ tape.trades = Len(real)
        /\ real /= << >> =>
             LET prices == {real[i].price : i \in DOMAIN real}
             IN  /\ tape.open = real[1].price /\ tape.close = Last(real).price
                 /\ tape.high = Max(prices) /\ tape.low = Min(prices)

\* "Crossed while TRADING is a defect - in the book, the parser, or the feed"
\* (halt.hpp:21): on a feed that lost nothing the alarm stays silent, though
\* the book is crossed through a halt, before the open, or after a restart in
\* the middle of either.
NoFalseAlarm ==
  gap.gaps = 0 => \A b \in Books : halt[b].whileTrading = 0 /\ halt[b].atResume = 0
=============================================================================
