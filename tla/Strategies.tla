----------------------------- MODULE Strategies -----------------------------
(***************************************************************************)
(* sim/strategies.hpp, parity_maker.hpp and as_maker.hpp: what a strategy  *)
(* decides when it sees the market.  Its view is the touch, whether the    *)
(* mid can be trusted and the number of messages so far; it sees neither   *)
(* its fills nor its queues.  AsMaker, run in a closed loop, sees its      *)
(* position and that it was filled.  What a strategy keeps is the record   *)
(* `mind`; a decision is the mind after it and the intents in order.       *)
(***************************************************************************)
EXTENDS Sides, Sequences

CONSTANTS
  Size,      \* shares of a quote
  Patience,  \* PatientMaker: how far the touch may walk
  Every,     \* Crosser and ParityMaker: messages between two orders
  Offset,    \* ParityMaker: how far behind the bid it quotes
  MaxOrders, \* ParityMaker: orders of the day
  Skew,      \* AsMaker: how far one share held moves the reservation price
  MaxTicks   \* AsMaker: max_ticks_from_mid

Fresh == [next |-> 1, bidId |-> 0, askId |-> 0, bid |-> 0, ask |-> 0, buyNext |-> TRUE,
          armed |-> FALSE, sent |-> 0, lastAt |-> 0, filled |-> FALSE]

Quote(id, side, price) ==
  [kind |-> "quote", id |-> id, side |-> side, price |-> price, quantity |-> Size, display |-> 0]
Cancel(id) == [kind |-> "cancel", id |-> id, side |-> "buy", price |-> 0, quantity |-> 0, display |-> 0]
Take(id, side, price) == [Quote(id, side, price) EXCEPT !.kind = "take"]

Decision(mind, intents) == [mind |-> mind, intents |-> intents]
Pass(mind) == Decision(mind, << >>)

\* What all but ParityMaker ask for before they look at the touch.
Quotable(v) == v.tradable /\ v.mid.ok /\ v.bid < v.ask

\* One side of a maker: the old quote is cancelled and a new one sent.
Requoted(d, side, price) ==
  LET old == IF side = "buy" THEN d.mind.bidId ELSE d.mind.askId
      id == d.mind.next
      moved == IF side = "buy" THEN [d.mind EXCEPT !.next = id + 1, !.bidId = id, !.bid = price]
               ELSE [d.mind EXCEPT !.next = id + 1, !.askId = id, !.ask = price]
  IN  Decision(moved, d.intents \o (IF old /= 0 THEN << Cancel(old) >> ELSE << >>)
                        \o << Quote(id, side, price) >>)

Gap(a, b) == IF a > b THEN a - b ELSE b - a

\* A quote on each side at the touch, moved whenever the touch moves.
TouchMaker(v, mind) ==
  LET bought == IF v.bid /= mind.bid THEN Requoted(Pass(mind), "buy", v.bid) ELSE Pass(mind)
  IN  IF ~Quotable(v) THEN Pass(mind)
      ELSE IF v.ask /= mind.ask THEN Requoted(bought, "sell", v.ask) ELSE bought

\* The same, moved only when the touch has walked away from it.
PatientMaker(v, mind) ==
  LET bought == IF mind.bidId = 0 \/ Gap(v.bid, mind.bid) > Patience
                THEN Requoted(Pass(mind), "buy", v.bid) ELSE Pass(mind)
  IN  IF ~Quotable(v) THEN Pass(mind)
      ELSE IF mind.askId = 0 \/ Gap(v.ask, mind.ask) > Patience THEN Requoted(bought, "sell", v.ask)
           ELSE bought

\* Pays the spread every so many messages, a buy and a sell in turn.
Crosser(v, mind) ==
  IF ~Quotable(v) \/ v.index = 0 \/ v.index % Every /= 0 THEN Pass(mind)
  ELSE Decision([mind EXCEPT !.next = @ + 1, !.buyNext = ~@],
                << IF mind.buyNext THEN Take(mind.next, "buy", v.ask) ELSE Take(mind.next, "sell", v.bid) >>)

\* The live strategy mirrored: buys behind the bid at a stride, never
\* cancels, and asks for neither a session nor a mid.
ParityMaker(v, mind) ==
  LET base == IF v.bid > 0 /\ v.ask > 0 /\ v.ask - 1 < v.bid THEN v.ask - 1 ELSE v.bid
      px == base - Offset
  IN  IF mind.sent >= MaxOrders THEN Pass(mind)
      ELSE IF ~mind.armed THEN Pass([mind EXCEPT !.armed = TRUE, !.lastAt = v.index])
      ELSE IF v.index - mind.lastAt < Every \/ base <= 0 \/ px <= 0 THEN Pass(mind)
      ELSE Decision([mind EXCEPT !.next = @ + 1, !.sent = @ + 1, !.lastAt = v.index],
                    << Quote(mind.next, "buy", px) >>)

\* Under the closed loop: both sides are moved when either touch moves, and
\* a mid is not asked for.
SymmetricTouchMaker(v, mind) ==
  IF \/ ~v.tradable \/ v.bid = 0 \/ v.ask = 0
     \/ mind.bidId /= 0 /\ v.bid = mind.bid /\ v.ask = mind.ask
  THEN Pass(mind)
  ELSE Decision([mind EXCEPT !.next = @ + 2, !.bidId = mind.next, !.askId = mind.next + 1,
                             !.bid = v.bid, !.ask = v.ask],
                (IF mind.bidId = 0 THEN << >> ELSE << Cancel(mind.bidId), Cancel(mind.askId) >>)
                  \o << Quote(mind.next, "buy", v.bid), Quote(mind.next + 1, "sell", v.ask) >>)

\* No further than MaxTicks from the mid, and never at or below zero.
ClampToBook(px, mid, side) ==
  LET near == IF side = "buy" /\ px < mid - MaxTicks THEN mid - MaxTicks
              ELSE IF side = "sell" /\ px > mid + MaxTicks THEN mid + MaxTicks ELSE px
  IN  IF near < 1 THEN 1 ELSE near

\* The model: the mid less the risk of what is held, and half a spread, both
\* doubled.  Volatility, the fill intensity and the time left are constants:
\* a share held moves the price by Skew, and half the spread is one tick.
AsQuote(twoMid, position) == [reservation |-> twoMid - 2 * Skew * position, half |-> 2]

\* Quotes a tick either side of a reservation price that leans against the
\* position, moved when that price moves by a tick or after a fill.  Prices
\* are rounded outwards; mind.bid keeps the last reservation price.
AsMaker(v, mind) ==
  LET quote == AsQuote(v.mid.two, v.position)
      reservation == quote.reservation
      bid == ClampToBook((reservation - quote.half) \div 2, v.mid.two \div 2, "buy")
      ask == ClampToBook((reservation + quote.half + 1) \div 2, v.mid.two \div 2, "sell")
  IN  IF \/ ~v.tradable \/ ~v.mid.ok
         \/ mind.bidId /= 0 /\ ~mind.filled /\ Gap(reservation, mind.bid) < 2
         \/ bid >= ask
      THEN Pass(mind)
      ELSE Decision([mind EXCEPT !.next = @ + 2, !.bidId = mind.next, !.askId = mind.next + 1,
                                 !.bid = reservation, !.filled = FALSE],
                    (IF mind.bidId = 0 THEN << >> ELSE << Cancel(mind.bidId), Cancel(mind.askId) >>)
                      \o << Quote(mind.next, "buy", bid), Quote(mind.next + 1, "sell", ask) >>)

OnEvent(strategy, v, mind) ==
  CASE strategy = "touch" -> TouchMaker(v, mind)
    [] strategy = "patient" -> PatientMaker(v, mind)
    [] strategy = "cross" -> Crosser(v, mind)
    [] strategy = "parity" -> ParityMaker(v, mind)
    [] strategy = "symmetric" -> SymmetricTouchMaker(v, mind)
    [] strategy = "as" -> AsMaker(v, mind)
    [] OTHER -> Pass(mind)
=============================================================================
