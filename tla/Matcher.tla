------------------------------ MODULE Matcher ------------------------------
(***************************************************************************)
(* engine/matcher.hpp: price-time matching for the orders of this venue on *)
(* a book that may also hold historical orders of a replayed feed.         *)
(* submit() parks a stop or runs an order: match() trades it against the   *)
(* front of the other side, one resting order per step here, the rest of   *)
(* it then rests, is cancelled or is filled, and fire_stops() runs every   *)
(* stop the trades have elected, each of which may trade in turn.  No      *)
(* other call is accepted until the engine is quiet.                       *)
(*                                                                         *)
(* fire_stops() calls run(), which ends in fire_stops(): when the inner    *)
(* call returns nothing elected is left and the outer scan starts over, so *)
(* the recursion is a loop.  An order is its number; submitting a number   *)
(* again is refused and changes nothing.  The fill records are left out.   *)
(***************************************************************************)
EXTENDS Naturals, Sequences, SequencesExt, PriceTime

CONSTANTS
  Markets,  \* name |-> [requests, historical, orders, feed]: what a run may see
  MaxOrders \* bound: orders submitted in any market

Types == {"limit", "market", "ioc", "fok", "stop_market", "stop_limit"}
Request == [owner : Nat, side : Sides, type : Types, price : Nat, stop : Nat,
            quantity : Nat, display : Nat,
            stp : {"none", "newest", "oldest", "both"}]
Feed == [side : Sides, price : Nat, shares : Nat \ {0}]

ASSUME MarketAssumption ==
  /\ MaxOrders \in Nat
  /\ \A m \in DOMAIN Markets :
       /\ Markets[m].requests \subseteq Request /\ Markets[m].requests /= {}
       /\ Markets[m].historical \subseteq Feed
       /\ Markets[m].orders \in 0..MaxOrders  \* bound: orders submitted
       /\ Markets[m].feed \in Nat             \* bound: historical orders

VARIABLES
  market,
  orders,      \* orders_: what the engine knows of each order
  book,        \* book_
  parked,      \* pending_stops_
  seq,         \* seq_
  lastTrade,   \* last_trade_, or 0 before the first trade
  totals,      \* submitted_, filled_total_, cancelled_total_
  taker,       \* the order in match(), how it trades and what is left of it
  loop,        \* "idle", "match" or "stops"
  historical   \* historical orders the feed has added

vars == <<market, orders, book, parked, seq, lastTrade, totals, taker, loop, historical>>

Ids == 1..MaxOrders
Owned(e) == e.ref \in Ids

Unknown(req) ==
  [req |-> req, state |-> "Unknown", filled |-> 0, cancelled |-> 0, resting |-> 0,
   hidden |-> 0, sequence |-> 0, inBook |-> FALSE, entered |-> FALSE]
NoTaker == [id |-> 0, type |-> "market", remaining |-> 0]
Known(id) == orders[id].state /= "Unknown"
Terminal(id) == orders[id].state \in {"Filled", "Cancelled", "Rejected"}

Init ==
  /\ market \in DOMAIN Markets
  /\ orders = [id \in Ids |-> Unknown(CHOOSE r \in Markets[market].requests : TRUE)]
  /\ book = {} /\ parked = << >> /\ seq = 0 /\ lastTrade = 0
  /\ totals = [submitted |-> 0, filled |-> 0, cancelled |-> 0]
  /\ taker = NoTaker /\ loop = "idle" /\ historical = 0

-----------------------------------------------------------------------------
(* Submission.                                                             *)

IsStop(type) == type \in {"stop_market", "stop_limit"}
Effective(type) == CASE type = "stop_market" -> "market"
                     [] type = "stop_limit" -> "limit"
                     [] OTHER -> type

Valid(req) ==
  /\ req.quantity > 0 /\ req.display <= req.quantity
  /\ req.type \notin {"market", "stop_market"} => req.price > 0
  /\ IsStop(req.type) => req.stop > 0

\* A buy stop when the last trade reaches up to it, a sell stop when it falls
\* to it.
Elected(req) ==
  /\ lastTrade /= 0
  /\ IF req.side = "buy" THEN lastTrade >= req.stop ELSE lastTrade <= req.stop

Crosses(req, type, price) ==
  \/ type = "market"
  \/ IF req.side = "buy" THEN req.price >= price ELSE req.price <= price

\* Mutant: every price counts.
AvailableAnyPrice(req, type) ==
  SumFunction([e \in {f \in book : f.side = Opposite(req.side)} |-> e.shares])

\* Displayed shares within the order's price; the code reads 64 levels of them.
Reachable(req, type) ==
  {e \in book : e.side = Opposite(req.side) /\ Crosses(req, type, e.price)}
Available(req, type) == SumFunction([e \in Reachable(req, type) |-> e.shares])

\* run() refuses before a share is counted in.
Refused(req, type) ==
  \/ type = "fok" /\ Available(req, type) < req.quantity
  \/ type = "market" /\ ~\E e \in book : e.side = Opposite(req.side)

\* Mutant: a refused stop is rejected, though it was accepted long ago.
RefusalRejects(m) == "Rejected"

Refusal(m) == IF m.state = "New" THEN "Rejected" ELSE "Cancelled"

\* run(): refused, or counted in and on its way through match().
Run(id, m, type) ==
  IF Refused(m.req, type)
    THEN /\ orders' = [orders EXCEPT ![id] = [m EXCEPT !.state = Refusal(m)]]
         /\ UNCHANGED <<totals, taker, loop>>
    ELSE /\ orders' = [orders EXCEPT ![id] = [m EXCEPT !.entered = TRUE]]
         /\ totals' = [totals EXCEPT !.submitted = @ + m.req.quantity]
         /\ taker' = [id |-> id, type |-> type, remaining |-> m.req.quantity]
         /\ loop' = "match"

Fresh(id) == ~Known(id) /\ \A j \in 1..(id - 1) : Known(j)

\* A request that fails validate() is recorded as rejected.
SubmitInvalid ==
  /\ loop = "idle"
  /\ \E id \in 1..Markets[market].orders : \E req \in Markets[market].requests :
       /\ Fresh(id) /\ ~Valid(req)
       /\ orders' = [orders EXCEPT ![id] = [Unknown(req) EXCEPT !.state = "Rejected"]]
  /\ UNCHANGED <<market, book, parked, seq, lastTrade, totals, taker, loop, historical>>

Submit ==
  /\ loop = "idle"
  /\ \E id \in 1..Markets[market].orders : \E req \in Markets[market].requests :
       /\ Fresh(id) /\ Valid(req)
       /\ seq' = seq + 1
       /\ LET m == [Unknown(req) EXCEPT !.state = "New", !.sequence = seq']
          IN  IF IsStop(req.type) /\ ~Elected(req)
                THEN /\ orders' = [orders EXCEPT ![id] = [m EXCEPT !.state = "Accepted"]]
                     /\ parked' = Append(parked, id)
                     /\ UNCHANGED <<totals, taker, loop>>
                ELSE /\ Run(id, m, Effective(req.type))
                     /\ UNCHANGED parked
  /\ UNCHANGED <<market, book, lastTrade, historical>>

-----------------------------------------------------------------------------
(* Cancellation.                                                           *)

\* Mutant: the shares an iceberg hides are dropped.
WithDisplayedCancelled(m) ==
  [m EXCEPT !.cancelled = @ + m.resting, !.resting = 0, !.hidden = 0,
            !.inBook = FALSE, !.state = "Cancelled"]

\* cancel_meta(): what it displays, hides or waits with is gone.
WithCancelled(m) ==
  [m EXCEPT !.cancelled = @ + m.resting + m.hidden, !.resting = 0, !.hidden = 0,
            !.inBook = FALSE, !.state = "Cancelled"]

\* Mutant: the order stays in the book.
CancelMetaKeepsBook(id) ==
  /\ book' = book
  /\ totals' = [totals EXCEPT !.cancelled = @ + orders[id].resting + orders[id].hidden]
  /\ parked' = RemoveFirst(parked, id)

CancelMeta(id) ==
  /\ book' = Removed(book, id)
  /\ totals' = [totals EXCEPT !.cancelled = @ + orders[id].resting + orders[id].hidden]
  /\ parked' = RemoveFirst(parked, id)

Cancel ==
  /\ loop = "idle"
  /\ \E id \in Ids :
       /\ Known(id) /\ ~Terminal(id)
       /\ CancelMeta(id)
       /\ orders' = [orders EXCEPT ![id] = WithCancelled(@)]
  /\ UNCHANGED <<market, seq, lastTrade, taker, loop, historical>>

-----------------------------------------------------------------------------
(* Matching.                                                               *)

LeastOf(a, b) == IF a <= b THEN a ELSE b

\* The resting order the taker meets next.
Meets(e) ==
  /\ loop = "match" /\ taker.remaining > 0
  /\ IsFront(book, Opposite(orders[taker.id].req.side), e)
  /\ Crosses(orders[taker.id].req, taker.type, e.price)

SelfTrade(e) ==
  /\ Owned(e)
  /\ orders[taker.id].req.stp /= "none"
  /\ orders[e.ref].req.owner = orders[taker.id].req.owner

\* A filled slice of an iceberg is followed by the next one, at the back of
\* the queue and with a sequence number of its own.
Refreshes(m, qty) == qty = m.resting /\ m.hidden > 0
Slice(m) == LeastOf(m.hidden, m.req.display)

SequenceAfter(m, qty) == IF Refreshes(m, qty) THEN seq + 1 ELSE seq

MakerFilled(m, qty) ==
  IF Refreshes(m, qty)
    THEN [m EXCEPT !.filled = @ + qty, !.resting = Slice(m), !.hidden = @ - Slice(m),
                   !.sequence = SequenceAfter(m, qty), !.state = "PartiallyFilled"]
    ELSE [m EXCEPT !.filled = @ + qty, !.resting = @ - qty, !.inBook = qty < m.resting,
                   !.state = IF qty < m.resting THEN "PartiallyFilled" ELSE "Filled"]

BookFilled(e, m, qty) ==
  IF Refreshes(m, qty)
    THEN Added(Reduced(book, e, qty), e.ref, e.side, e.price, Slice(m))
    ELSE Reduced(book, e, qty)

\* A maker of this engine: both orders are credited.
Trade ==
  \E e \in book :
    /\ Meets(e) /\ Owned(e) /\ ~SelfTrade(e)
    /\ LET m == orders[e.ref]
           qty == LeastOf(taker.remaining, e.shares)
       IN  /\ orders' = [orders EXCEPT ![e.ref] = MakerFilled(m, qty),
                                       ![taker.id].filled = @ + qty]
           /\ book' = BookFilled(e, m, qty)
           /\ seq' = SequenceAfter(m, qty)
           /\ totals' = [totals EXCEPT !.filled = @ + 2 * qty]
           /\ taker' = [taker EXCEPT !.remaining = @ - qty]
    /\ lastTrade' = e.price
    /\ UNCHANGED <<market, parked, loop, historical>>

\* A historical maker: one side of the trade is ours.
TradeExternal ==
  \E e \in book :
    /\ Meets(e) /\ ~Owned(e)
    /\ LET qty == LeastOf(taker.remaining, e.shares)
       IN  /\ orders' = [orders EXCEPT ![taker.id].filled = @ + qty]
           /\ book' = Reduced(book, e, qty)
           /\ totals' = [totals EXCEPT !.filled = @ + qty]
           /\ taker' = [taker EXCEPT !.remaining = @ - qty]
    /\ lastTrade' = e.price
    /\ UNCHANGED <<market, parked, seq, loop, historical>>

\* match() is over: the taker's record becomes m, with gone shares cancelled.
Settle(m, gone) ==
  /\ orders' = [orders EXCEPT ![taker.id] = m]
  /\ totals' = [totals EXCEPT !.cancelled = @ + gone]
  /\ taker' = NoTaker /\ loop' = "stops"

RemainderCancelled ==
  [orders[taker.id] EXCEPT !.cancelled = @ + taker.remaining, !.state = "Cancelled"]

\* Self-trade prevention.
CancelNewest ==
  /\ \E e \in book : Meets(e) /\ SelfTrade(e)
  /\ orders[taker.id].req.stp = "newest"
  /\ Settle(RemainderCancelled, taker.remaining)
  /\ UNCHANGED <<market, book, parked, seq, lastTrade, historical>>

CancelOldest ==
  \E e \in book :
    /\ Meets(e) /\ SelfTrade(e)
    /\ orders[taker.id].req.stp = "oldest"
    /\ CancelMeta(e.ref)
    /\ orders' = [orders EXCEPT ![e.ref] = WithCancelled(@)]
    /\ UNCHANGED <<market, seq, lastTrade, taker, loop, historical>>

CancelBoth ==
  \E e \in book :
    /\ Meets(e) /\ SelfTrade(e)
    /\ orders[taker.id].req.stp = "both"
    /\ book' = Removed(book, e.ref)
    /\ orders' = [orders EXCEPT ![e.ref] = WithCancelled(@), ![taker.id] = RemainderCancelled]
    /\ totals' = [totals EXCEPT !.cancelled =
                    @ + orders[e.ref].resting + orders[e.ref].hidden + taker.remaining]
    /\ taker' = NoTaker /\ loop' = "stops"
    /\ UNCHANGED <<market, parked, seq, lastTrade, historical>>

EndFilled ==
  /\ loop = "match" /\ taker.remaining = 0
  /\ Settle([orders[taker.id] EXCEPT !.state = "Filled"], 0)
  /\ UNCHANGED <<market, book, parked, seq, lastTrade, historical>>

MeetsNone == loop = "match" /\ taker.remaining > 0 /\ ~\E e \in book : Meets(e)

\* Only a limit order rests, and an iceberg shows its first slice.
EndRests ==
  /\ MeetsNone /\ taker.type = "limit"
  /\ LET m == orders[taker.id]
         slice == IF m.req.display > 0 THEN LeastOf(m.req.display, taker.remaining)
                  ELSE taker.remaining
     IN  /\ Settle([m EXCEPT !.resting = slice, !.hidden = taker.remaining - slice,
                             !.inBook = TRUE,
                             !.state = IF m.filled > 0 THEN "PartiallyFilled" ELSE "Accepted"],
                   0)
         /\ book' = Added(book, taker.id, m.req.side, m.req.price, slice)
  /\ UNCHANGED <<market, parked, seq, lastTrade, historical>>

EndCancelled ==
  /\ MeetsNone /\ taker.type /= "limit"
  /\ Settle(RemainderCancelled, taker.remaining)
  /\ UNCHANGED <<market, book, parked, seq, lastTrade, historical>>

Match ==
  \/ Trade \/ TradeExternal \/ CancelNewest \/ CancelOldest \/ CancelBoth
  \/ EndFilled \/ EndRests \/ EndCancelled

-----------------------------------------------------------------------------
(* Stops.                                                                  *)

FirstElected(i) ==
  /\ i \in 1..Len(parked) /\ Elected(orders[parked[i]].req)
  /\ \A j \in 1..(i - 1) : ~Elected(orders[parked[j]].req)

Unparked(i) == RemoveAt(parked, i)

\* The first stop elected joins the market now, so it queues from now.
FireStop ==
  /\ loop = "stops"
  /\ \E i \in 1..Len(parked) :
       /\ FirstElected(i)
       /\ parked' = Unparked(i)
       /\ seq' = seq + 1
       /\ LET m == orders[parked[i]]
          IN  Run(parked[i], [m EXCEPT !.sequence = seq'], Effective(m.req.type))
  /\ UNCHANGED <<market, book, lastTrade, historical>>

\* Mutant: the scan ends with the stops the first trade elected.
StopsQuietEarly ==
  /\ loop = "stops"
  /\ loop' = "idle"
  /\ UNCHANGED <<market, orders, book, parked, seq, lastTrade, totals, taker, historical>>

StopsQuiet ==
  /\ loop = "stops" /\ ~\E i \in 1..Len(parked) : FirstElected(i)
  /\ loop' = "idle"
  /\ UNCHANGED <<market, orders, book, parked, seq, lastTrade, totals, taker, historical>>

-----------------------------------------------------------------------------
(* The replayed feed, which shares the book (replay/split.hpp).            *)

FeedAdd ==
  /\ loop = "idle" /\ historical < Markets[market].feed
  /\ \E h \in Markets[market].historical :
       book' = Added(book, MaxOrders + historical + 1, h.side, h.price, h.shares)
  /\ historical' = historical + 1
  /\ UNCHANGED <<market, orders, parked, seq, lastTrade, totals, taker, loop>>

\* A historical order trades with the feed, shrinks or goes.
FeedReduce ==
  /\ loop = "idle"
  /\ \E e \in book : \E n \in 1..e.shares :
       /\ ~Owned(e)
       /\ book' = Reduced(book, e, n)
  /\ UNCHANGED <<market, orders, parked, seq, lastTrade, totals, taker, loop, historical>>

\* apply_external_fill(): the feed executes a historical order, and the first
\* of our orders in front of it takes the shares instead.  Stops are armed
\* and not fired.
ApplyExternalFill ==
  /\ loop = "idle"
  /\ \E e, f \in book : \E shares \in 1..e.shares :
       /\ Owned(e) /\ ~Owned(f)
       /\ f.side = e.side /\ f.price = e.price /\ e.place < f.place
       /\ ~\E g \in book : Owned(g) /\ g.side = e.side /\ g.price = e.price /\ g.place < e.place
       /\ LET m == orders[e.ref]
              qty == LeastOf(shares, m.resting)
          IN  /\ orders' = [orders EXCEPT ![e.ref] = MakerFilled(m, qty)]
              /\ book' = BookFilled(e, m, qty)
              /\ seq' = SequenceAfter(m, qty)
              /\ totals' = [totals EXCEPT !.filled = @ + qty]
              /\ lastTrade' = e.price
  /\ UNCHANGED <<market, parked, taker, loop, historical>>

\* pump_stops(), when the feed is between messages.
PumpStops ==
  /\ loop = "idle" /\ parked /= << >>
  /\ loop' = "stops"
  /\ UNCHANGED <<market, orders, book, parked, seq, lastTrade, totals, taker, historical>>

Engine == Match \/ FireStop \/ StopsQuiet

Next ==
  \/ SubmitInvalid \/ Submit \/ Cancel
  \/ Engine
  \/ FeedAdd \/ FeedReduce \/ ApplyExternalFill \/ PumpStops

Spec == Init /\ [][Next]_vars

\* The thread that made a call is in it until it returns.
FairSpec == Spec /\ WF_vars(Engine)

-----------------------------------------------------------------------------
(* Properties.                                                             *)

States == {"Unknown", "New", "Accepted", "PartiallyFilled", "Filled", "Cancelled", "Rejected"}
Requests == UNION {Markets[m].requests : m \in DOMAIN Markets}
Meta == [req : Requests, state : States, filled : Nat, cancelled : Nat, resting : Nat,
         hidden : Nat, sequence : Nat, inBook : BOOLEAN, entered : BOOLEAN]
Entry == [ref : Nat, side : Sides, price : Nat, shares : Nat \ {0}, place : Nat]

TypeOK ==
  /\ market \in DOMAIN Markets
  /\ orders \in [Ids -> Meta]
  /\ book \subseteq Entry /\ IsFiniteSet(book)
  /\ parked \in Seq(Ids) /\ seq \in Nat /\ lastTrade \in Nat
  /\ totals \in [submitted : Nat, filled : Nat, cancelled : Nat]
  /\ taker \in [id : Nat, type : Types, remaining : Nat]
  /\ loop \in {"idle", "match", "stops"} /\ historical \in Nat

InFlight(id) == IF loop = "match" /\ taker.id = id THEN taker.remaining ELSE 0

\* Every share that entered is filled, cancelled, resting or still in match(),
\* order by order, and the book holds exactly what the engine thinks it does
\* (matcher.hpp:250, conserves_shares() and agrees_with_book()).
ConservesShares ==
  \A id \in Ids :
    LET m == orders[id]
    IN  /\ m.filled + m.cancelled + m.resting + m.hidden + InFlight(id) =
             IF m.entered THEN m.req.quantity ELSE 0
        /\ {e.shares : e \in {f \in book : f.ref = id}} = IF m.inBook THEN {m.resting} ELSE {}
        /\ m.resting > 0 <=> m.inBook
        /\ m.hidden > 0 => m.inBook

\* What the engine counts in all agrees with what its orders say, with two
\* sides of a trade between orders of ours and one of a trade with the feed.
TotalsBalance ==
  /\ totals.filled = SumFunction([id \in Ids |-> orders[id].filled])
  /\ totals.cancelled = SumFunction([id \in Ids |-> orders[id].cancelled])
  /\ totals.submitted = totals.filled + totals.cancelled
       + SumFunction([id \in Ids |-> orders[id].resting + orders[id].hidden + InFlight(id)])

\* Within a price the queue is in the order of arrival, where a refreshed slice
\* and a fired stop arrive when they join, and stops wait in the order they
\* were submitted (order_types.hpp:147, matcher.hpp:559).
ArrivalOrder ==
  /\ \A e, f \in book :
       Owned(e) /\ Owned(f) /\ e.side = f.side /\ e.price = f.price /\ e.place < f.place
         => orders[e.ref].sequence < orders[f.ref].sequence
  /\ \A i, j \in 1..Len(parked) : i < j => parked[i] < parked[j]

\* When the engine is quiet no two of its orders could trade with each other.
Uncrossed ==
  loop = "idle" =>
    \A e, f \in book :
      Owned(e) /\ Owned(f) /\ e.side = "buy" /\ f.side = "sell" => e.price < f.price

\* Fill-or-kill: "all of it right now, or none of it" (order_types.hpp:28).
AllOrNone(id) ==
  orders[id].req.type = "fok" /\ InFlight(id) = 0 => orders[id].filled \in {0, orders[id].req.quantity}
FokAllOrNone == \A id \in Ids : AllOrNone(id)

\* The same without self-trade prevention, which available() knows nothing of.
FokAllOrNoneAmongStrangers ==
  \A id \in Ids : orders[id].req.stp = "none" => AllOrNone(id)

\* A stop the market has traded through does not stay parked once the engine
\* is quiet: the scan repeats until nothing is elected (matcher.hpp:559).  A
\* stop elected by the feed waits for pump_stops().
NoElectedStopParked ==
  loop = "idle" /\ historical = 0 =>
    \A i \in 1..Len(parked) : ~Elected(orders[parked[i]].req)

\* What a call leaves behind: totals that balance, queues in the order of
\* arrival, no two orders that could trade and no stop that should have fired
\* (match, refresh_iceberg, cancel_meta and fire_stops).
QuietBook == TotalsBalance /\ ArrivalOrder /\ Uncrossed /\ NoElectedStopParked

\* Orders change state only as legal_transition() allows, which transition()
\* asserts (order_types.hpp:63).
Legal(from, to) ==
  \/ from = to
  \/ from \in {"Unknown", "New"} /\ to \in States \ {"Unknown"}
  \/ from = "Accepted" /\ to \in {"PartiallyFilled", "Filled", "Cancelled"}
  \/ from = "PartiallyFilled" /\ to \in {"Filled", "Cancelled"}
LegalMoves == [][\A id \in Ids : Legal(orders[id].state, orders'[id].state)]_vars

\* A call returns: trades, icebergs that show slice after slice, and stops
\* that elect stops come to an end.
CallReturns == loop /= "idle" ~> loop = "idle"
=============================================================================
