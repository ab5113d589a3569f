-------------------------------- MODULE Book --------------------------------
(***************************************************************************)
(* book/book.hpp, level.hpp and pool.hpp: how one order book keeps its     *)
(* orders.  A price inside a side's band has a level in a dense array with *)
(* a cursor at the best of them, any other price has one in a sorted map.  *)
(* Orders are nodes of a pool and are found by reference in an open-       *)
(* addressed table; both are shared by every book of the feed.             *)
(*                                                                         *)
(* A book's operations are functions of a view: the table, the pool, the   *)
(* nodes handed out and the book itself.  Nodes are numbers, 0 is nullptr. *)
(* The intrusive list of a level is the sequence of its nodes.             *)
(***************************************************************************)
EXTENDS Sides, Sequences, SequencesExt, FiniteSetsExt

CONSTANTS
  MinSlots,        \* RefMap: the smallest table, 16
  FirstChunk,      \* Pool: nodes of the first chunk
  MaxChunk,        \* Pool: nodes of the largest chunk
  Tick,            \* Book: tick_
  BandPct,         \* Book: band_pct_
  MaxDense,        \* kMaxDenseLevels
  RecentreWindow,  \* kRecentreWindow
  RecentrePercent  \* kRecentrePercent

-----------------------------------------------------------------------------
(* RefMap: linear probing from ref % capacity, and no tombstones.          *)

NoSlot == -1
Vacant == [ref |-> 0, node |-> 0]
NewRefMap(capacity) == [slots |-> [i \in 0..(capacity - 1) |-> Vacant], size |-> 0]

Capacity(m) == Cardinality(DOMAIN m.slots)
Home(m, ref) == ref % Capacity(m)
After(m, i, d) == (i + d) % Capacity(m)

\* Where the probe for ref stops: at its slot, or at the first vacant one.
Probed(m, ref) ==
  LET stops == {d \in 0..(Capacity(m) - 1) :
                  LET s == m.slots[After(m, Home(m, ref), d)] IN s.node = 0 \/ s.ref = ref}
  IN  After(m, Home(m, ref), Min(stops))

FindIndex(m, ref) == IF m.slots[Probed(m, ref)].node = 0 THEN NoSlot ELSE Probed(m, ref)

\* A reference already there is pointed at the new node.
Put(m, ref, node) ==
  [slots |-> [m.slots EXCEPT ![Probed(m, ref)] = [ref |-> ref, node |-> node]],
   size |-> m.size + (IF FindIndex(m, ref) = NoSlot THEN 1 ELSE 0)]

Grown(m) ==
  FoldLeft(LAMBDA n, i : IF m.slots[i].node = 0 THEN n ELSE Put(n, m.slots[i].ref, m.slots[i].node),
           NewRefMap(2 * Capacity(m)), [i \in 1..Capacity(m) |-> i - 1])

Insert(m, ref, node) ==
  Put(IF (m.size + 1) * 2 > Capacity(m) THEN Grown(m) ELSE m, ref, node)

\* Mutant: the wrap at the end of the table forgotten.
MovableUnwrapped(hole, home, j) == home <= hole \/ home > j

\* Algorithm R.  The entry at j may fill the hole unless its home lies
\* cyclically after the hole and up to j.
Movable(hole, home, j) ==
  IF j > hole THEN home <= hole \/ home > j ELSE home <= hole /\ home > j

EraseAt(m, i) ==
  LET length == Min({d \in 1..(Capacity(m) - 1) : m.slots[After(m, i, d)].node = 0} \union {Capacity(m)})
      run == [d \in 1..(length - 1) |-> After(m, i, d)]
      shift(st, j) ==
        IF Movable(st.hole, Home(m, st.slots[j].ref), j)
        THEN [slots |-> [st.slots EXCEPT ![st.hole] = st.slots[j], ![j] = Vacant], hole |-> j]
        ELSE st
  IN  [slots |-> FoldLeft(shift, [slots |-> [m.slots EXCEPT ![i] = Vacant], hole |-> i], run).slots,
       size |-> m.size - 1]

-----------------------------------------------------------------------------
(* Pool: a free list over chunks that double up to a cap.                  *)

NewPool == [free |-> << >>, capacity |-> 0, chunk |-> FirstChunk, live |-> 0]

GrownPool(p) ==
  [p EXCEPT !.free = [i \in 1..p.chunk |-> p.capacity + i] \o @, !.capacity = @ + p.chunk,
            !.chunk = Min({2 * @, MaxChunk})]

\* allocate() in two steps: a chunk when the list is empty, then its head.
Stocked(p) == IF p.free = << >> THEN GrownPool(p) ELSE p
Allocated(p) == [p EXCEPT !.free = Tail(@), !.live = @ + 1]
Deallocated(p, node) == [p EXCEPT !.free = <<node>> \o @, !.live = @ - 1]

-----------------------------------------------------------------------------
(* Level: the nodes of one price, oldest first, and their total.           *)

NoLevel == [queue |-> << >>, shares |-> 0]
IsEmpty(l) == l.queue = << >>
PushedBack(l, node, shares) == [queue |-> Append(l.queue, node), shares |-> l.shares + shares]
Unlinked(l, node, shares) == [queue |-> Remove(l.queue, node), shares |-> l.shares - shares]
Resized(l, from, to) == [l EXCEPT !.shares = @ - from + to]

-----------------------------------------------------------------------------
(* Side: the band, the cursor and the overflow map.                        *)

Overflow == -1   \* kOverflowLevel
NoPrice == -1
NewSide(side) ==
  [side |-> side, base |-> 0, dense |-> << >>, over |-> << >>, cursor |-> -1, filled |-> 0, peak |-> 0]

Width(s) == Cardinality(DOMAIN s.dense)
Banded(s) == Width(s) > 0
PriceAt(s, i) == s.base + i * Tick
ResetCursor(s) == [s EXCEPT !.cursor = IF s.side = "buy" THEN -1 ELSE Width(s)]
CursorValid(s) == s.cursor \in DOMAIN s.dense
Extreme(side, S) == CHOOSE p \in S : \A q \in S \ {p} : Better(side, p, q)

\* A price off the tick grid has no slot: two prices never share a level.
IndexOf(s, price) ==
  IF \/ ~Banded(s) \/ price < s.base \/ (price - s.base) % Tick /= 0
     \/ (price - s.base) \div Tick >= Width(s)
  THEN Overflow ELSE (price - s.base) \div Tick

\* The base is snapped to the grid: half a tick off it, every price overflows.
BandSlots(s, centre, levels) ==
  LET low == Max({0, centre - (levels \div 2) * Tick})
  IN  IF centre <= 0 \/ levels = 0 THEN s
      ELSE ResetCursor([s EXCEPT !.base = low - (low % Tick), !.filled = 0,
                                 !.dense = [i \in 0..(levels - 1) |-> NoLevel]])

SetBand(s, centre) ==
  LET half == Max({1, ((centre * BandPct) \div 100) \div Tick})
  IN  IF centre <= 0 \/ Banded(s) THEN s ELSE BandSlots(s, centre, Min({2 * half + 1, MaxDense}))

ClearedLevels(s) == ResetCursor([s EXCEPT !.dense = << >>, !.over = << >>, !.filled = 0])

LevelFilled(s, i) ==
  [s EXCEPT !.filled = @ + 1,
            !.cursor = IF s.filled = 0 \/ ~CursorValid(s) \/ Better(s.side, PriceAt(s, i), PriceAt(s, @))
                       THEN i ELSE @]

\* From an emptied best level the cursor walks outward to the next.
LevelEmptied(s, i) ==
  LET t == [s EXCEPT !.filled = @ - 1]
      worse == {k \in DOMAIN s.dense : Better(s.side, PriceAt(s, i), PriceAt(s, k)) /\ ~IsEmpty(s.dense[k])}
  IN  IF t.filled = 0 THEN ResetCursor(t)
      ELSE IF i /= s.cursor THEN t
      ELSE IF worse = {} THEN ResetCursor(t)
      ELSE [t EXCEPT !.cursor = IF s.side = "buy" THEN Max(worse) ELSE Min(worse)]

OverflowLevel(s, price) == IF price \in DOMAIN s.over THEN s.over[price] ELSE NoLevel
WithOverflow(s, price, l) ==
  LET keys == IF IsEmpty(l) THEN DOMAIN s.over \ {price} ELSE DOMAIN s.over \union {price}
  IN  [s EXCEPT !.over = [p \in keys |-> IF p = price THEN l ELSE s.over[p]],
                !.peak = Max({@, Cardinality(keys)})]

PushOnSide(s, node, o) ==
  LET i == IndexOf(s, o.price)
  IN  IF i = Overflow
      THEN WithOverflow(s, o.price, PushedBack(OverflowLevel(s, o.price), node, o.shares))
      ELSE LET t == [s EXCEPT !.dense[i] = PushedBack(@, node, o.shares)]
           IN  IF IsEmpty(s.dense[i]) THEN LevelFilled(t, i) ELSE t

\* The order remembers its level: a side is not asked for its price again.
PopFromSide(s, node, o) ==
  IF o.level = Overflow
  THEN WithOverflow(s, o.price, Unlinked(OverflowLevel(s, o.price), node, o.shares))
  ELSE LET t == [s EXCEPT !.dense[o.level] = Unlinked(@, node, o.shares)]
       IN  IF IsEmpty(t.dense[o.level]) THEN LevelEmptied(t, o.level) ELSE t

Best(s) ==
  LET ends == (IF s.filled > 0 /\ CursorValid(s) THEN {PriceAt(s, s.cursor)} ELSE {})
                \union (IF DOMAIN s.over = {} THEN {} ELSE {Extreme(s.side, DOMAIN s.over)})
  IN  IF ends = {} THEN NoPrice ELSE Extreme(s.side, ends)

LevelAt(s, price) ==
  IF IndexOf(s, price) = Overflow THEN OverflowLevel(s, price) ELSE s.dense[IndexOf(s, price)]

\* The prices top() reports, best first: the band from the cursor outward and
\* the map, merged.
Top(s) ==
  LET outward == {i \in DOMAIN s.dense : /\ s.filled > 0 /\ CursorValid(s) /\ ~IsEmpty(s.dense[i])
                                         /\ ~Better(s.side, PriceAt(s, i), PriceAt(s, s.cursor))}
  IN  SetToSortSeq({PriceAt(s, i) : i \in outward} \union DOMAIN s.over,
                   LAMBDA p, q : Better(s.side, p, q))

\* Every node of a side: the band from its low end, then the map.
Collected(s) ==
  LET low == SetToSortSeq({i \in DOMAIN s.dense : ~IsEmpty(s.dense[i])}, <)
      seen == SubSeq(low, 1, Min({s.filled, Len(low)}))
      join(q, l) == q \o l.queue
  IN  FoldLeft(join, << >>, [k \in DOMAIN seen |-> s.dense[seen[k]]])
        \o FoldLeft(join, << >>, LET ps == SetToSortSeq(DOMAIN s.over, <)
                                 IN  [k \in DOMAIN ps |-> s.over[ps[k]]])

-----------------------------------------------------------------------------
(* Book.                                                                   *)

CrossTypes == {"open", "close"}
NewTape ==
  [volume |-> 0, notional |-> 0, trades |-> 0, hidden |-> 0, cross |-> 0,
   open |-> -1, high |-> -1, low |-> -1, close |-> -1]

\* levels is set_band_levels(): 0 for the percentage band around the first price.
NewBook(locate, levels) ==
  [locate |-> locate, levels |-> levels, side |-> [s \in Sides |-> NewSide(s)],
   pending |-> [s \in Sides |-> NoPrice], checked |-> FALSE, orders |-> 0, shares |-> 0,
   adds |-> 0, offBand |-> 0, recentres |-> 0, unknown |-> 0, mismatch |-> 0,
   tape |-> NewTape, crosses |-> [c \in CrossTypes |-> NoPrice], trading |-> "none", event |-> "none"]

\* Mutant: an auction that did not happen is recorded at its price of zero.
RecordedAlways(tape, price, shares) ==
  [tape EXCEPT !.volume = @ + shares, !.notional = @ + price * shares, !.trades = @ + 1,
     !.open = IF @ < 0 THEN price ELSE @, !.close = price,
     !.high = IF @ < 0 \/ price > @ THEN price ELSE @,
     !.low = IF @ < 0 \/ price < @ THEN price ELSE @]

\* A print of no shares is not a print.
Recorded(tape, price, shares) ==
  IF shares = 0 THEN tape
  ELSE [tape EXCEPT !.volume = @ + shares, !.notional = @ + price * shares, !.trades = @ + 1,
          !.open = IF @ < 0 THEN price ELSE @, !.close = price,
          !.high = IF @ < 0 \/ price > @ THEN price ELSE @,
          !.low = IF @ < 0 \/ price < @ THEN price ELSE @]

Pushed(v, node) ==
  LET o == v.order[node] IN
  [v EXCEPT !.book.side[o.side] = PushOnSide(@, node, o),
            !.order[node].level = IndexOf(v.book.side[o.side], o.price)]

\* Mutant: the orders go back newest first.
BandMovedReversed(v, centre) ==
  LET bare == [v EXCEPT !.book.side =
                 [s \in Sides |-> BandSlots(ClearedLevels(@[s]), centre, v.book.levels)]]
  IN  FoldLeft(Pushed, bare, Reverse(Collected(v.book.side["buy"]) \o Collected(v.book.side["sell"])))

\* Every order is collected before the levels are thrown away, and pushed
\* again in that order, so a queue keeps its priority.
BandMoved(v, centre) ==
  LET bare == [v EXCEPT !.book.side =
                 [s \in Sides |-> BandSlots(ClearedLevels(@[s]), centre, v.book.levels)]]
  IN  FoldLeft(Pushed, bare, Collected(v.book.side["buy"]) \o Collected(v.book.side["sell"]))

Midway(p, q) == (p + q) \div 2

OpenedWhenTwoSided(v, side, price) ==
  LET held == v.book.pending[side]
      w == [v EXCEPT !.book.pending[side] =
              IF held < 0 \/ Better(side, price, held) THEN price ELSE held]
      quote == w.book.pending
  IN  IF \E s \in Sides : quote[s] < 0 THEN w
      ELSE BandMoved(w, Midway(quote["buy"], quote["sell"]))

BandOpened(v, side, price) ==
  IF Banded(v.book.side["buy"]) THEN v
  ELSE IF v.book.levels = 0
       THEN [v EXCEPT !.book.side = [s \in Sides |-> SetBand(@[s], price)]]
       ELSE OpenedWhenTwoSided(v, side, price)

\* One move per session, when too many of the first orders fell off the band.
Recentred(v) ==
  LET b == v.book
      c == [v EXCEPT !.book.checked = TRUE]
      bid == Best(b.side["buy"])
      ask == Best(b.side["sell"])
  IN  IF b.levels = 0 \/ b.checked \/ ~Banded(b.side["buy"]) \/ b.adds < RecentreWindow THEN v
      ELSE IF b.offBand * 100 < b.adds * RecentrePercent \/ bid = NoPrice \/ ask = NoPrice THEN c
      ELSE [BandMoved(c, Midway(bid, ask)) EXCEPT !.book.recentres = @ + 1]

Seated(v, o) ==
  LET node == Head(v.pool.free)
      off == IF IndexOf(v.book.side[o.side], o.price) = Overflow THEN 1 ELSE 0
  IN  Pushed([v EXCEPT !.order = [n \in DOMAIN @ \union {node} |-> IF n = node THEN o ELSE @[n]],
                       !.pool = Allocated(@), !.refs = Insert(@, o.ref, node),
                       !.book.orders = @ + 1, !.book.adds = @ + 1, !.book.offBand = @ + off,
                       !.book.shares = @ + o.shares], node)

Added(v, ref, side, price, shares) ==
  Recentred(Seated([BandOpened(v, side, price) EXCEPT !.pool = Stocked(@)],
                   [ref |-> ref, shares |-> shares, price |-> price, locate |-> v.book.locate,
                    side |-> side, level |-> Overflow]))

Freed(v, node) ==
  [v EXCEPT !.pool = Deallocated(@, node), !.order = [n \in DOMAIN @ \ {node} |-> @[n]]]

Destroyed(v, node) ==
  LET o == v.order[node] IN
  Freed([v EXCEPT !.book.shares = @ - o.shares, !.book.orders = @ - 1,
                  !.book.side[o.side] = PopFromSide(@, node, o),
                  !.refs = EraseAt(@, FindIndex(@, o.ref))], node)

Shortened(s, o, by) ==
  IF o.level = Overflow
  THEN WithOverflow(s, o.price, Resized(OverflowLevel(s, o.price), o.shares, o.shares - by))
  ELSE [s EXCEPT !.dense[o.level] = Resized(@, o.shares, o.shares - by)]

Reduced(v, node, by) ==
  LET o == v.order[node] IN
  IF by >= o.shares THEN Destroyed(v, node)
  ELSE [v EXCEPT !.book.side[o.side] = Shortened(@, o, by), !.book.shares = @ - by,
                 !.order[node].shares = @ - by]

\* resolve(): a reference nobody holds and one that is another symbol's are
\* counted apart, and neither touches the book.
NodeOf(v, ref) == IF FindIndex(v.refs, ref) = NoSlot THEN 0 ELSE v.refs.slots[FindIndex(v.refs, ref)].node
Resolves(v, ref) == NodeOf(v, ref) /= 0 /\ v.order[NodeOf(v, ref)].locate = v.book.locate
Unresolved(v, ref) ==
  IF NodeOf(v, ref) = 0 THEN [v EXCEPT !.book.unknown = @ + 1] ELSE [v EXCEPT !.book.mismatch = @ + 1]

\* 'E', trading at the order's own price; 'C', at a stated one, which counts
\* for the tape only when printable; 'X', a cancel of some of the shares; 'D'.
ExecutedWith(v, ref, price, shares, printable) ==
  LET r == Reduced(v, NodeOf(v, ref), shares)
  IN  IF printable THEN [r EXCEPT !.book.tape = Recorded(@, price, shares)] ELSE r
Executed(v, ref, shares) == ExecutedWith(v, ref, v.order[NodeOf(v, ref)].price, shares, TRUE)
Cancelled(v, ref, shares) == Reduced(v, NodeOf(v, ref), shares)
Removed(v, ref) == Destroyed(v, NodeOf(v, ref))

\* 'U': the new order inherits the side and joins the back of its queue.
Replaced(v, ref, new, price, shares) ==
  Added(Removed(v, ref), new, v.order[NodeOf(v, ref)].side, price, shares)

Traded(v, price, shares) ==
  [v EXCEPT !.book.tape = Recorded([@ EXCEPT !.hidden = @ + shares], price, shares)]
Crossed(v, price, shares, type) ==
  [v EXCEPT !.book.tape = Recorded([@ EXCEPT !.cross = @ + shares], price, shares),
            !.book.crosses[type] = IF shares > 0 THEN price ELSE @]

\* clear_orders(): only this book's orders leave the shared table and pool.
Released(v, node) ==
  Freed([v EXCEPT !.refs = EraseAt(@, FindIndex(@, v.order[node].ref))], node)
ClearedOrders(v) ==
  LET all == Collected(v.book.side["buy"]) \o Collected(v.book.side["sell"])
  IN  [FoldLeft(Released, v, all) EXCEPT !.book.side = [s \in Sides |-> NewSide(s)],
         !.book.orders = 0, !.book.shares = 0]

\* Every resting order in the order the exchange would fill them.
InFillOrder(v, side) ==
  LET s == v.book.side[side] ps == Top(s)
  IN  FoldLeft(LAMBDA q, p : q \o LevelAt(s, p).queue, << >>, ps)
=============================================================================
