----------------------------- MODULE MCExchange -----------------------------
(***************************************************************************)
(* The exchange in small: a market in which a client and the feed trade,   *)
(* a session that lives by the clock, punctual or not, and a second client *)
(* that connects while the first is still there.                           *)
(***************************************************************************)
EXTENDS Exchange

Order(side, price, shares) ==
  [side |-> side, price |-> price, shares |-> shares, market |-> FALSE, stock |-> TRUE]
AtMarket(order) == [order EXCEPT !.market = TRUE, !.price = 0]
Past(side, price, shares) == [side |-> side, price |-> price, shares |-> shares]

Quiet ==
  [tears |-> FALSE, history |-> {}, feedEnds |-> FALSE, shortWrites |-> FALSE,
   connections |-> 1, tokens |-> 1, orders |-> {}, replacements |-> {}, entered |-> 0,
   answers |-> 3, burst |-> 1,
   last |-> {}, leave |-> {}, trips |-> FALSE, clock |-> FALSE, punctual |-> FALSE]

\* Orders that wait in a queue with the history and are traded from there.
Resting ==
  [Quiet EXCEPT !.history = {Past("buy", 2, 2)}, !.tokens = 2, !.entered = 2,
     !.orders = {Order("buy", 2, 1)}, !.replacements = {Order("buy", 2, 2)}]

\* Orders that trade on arrival with the history and with each other.
Crossing ==
  [Quiet EXCEPT !.history = {Past("sell", 3, 1)}, !.tokens = 2, !.entered = 2, !.answers = 2,
     !.trips = TRUE, !.orders = {Order("buy", 3, 2), Order("buy", 5, 1), Order("sell", 2, 1)},
     !.replacements = {Order("buy", 3, 2), AtMarket(Order("buy", 1, 1))}]

\* A session with one order whose client may be late, log out, or leave.
Session ==
  [Quiet EXCEPT !.clock = TRUE, !.answers = 1,
     !.orders = {Order("buy", 2, 1)}, !.entered = 1, !.last = {"O", "junk"},
     !.leave = {"closed", "silent"}]

\* The same session in time, with torn and coalesced frames and short writes.
OnTime ==
  [Session EXCEPT !.punctual = TRUE, !.burst = 2, !.answers = 3, !.tears = TRUE,
     !.shortWrites = TRUE, !.feedEnds = TRUE, !.leave = {}]

AllScenarios ==
  [resting |-> Resting, crossing |-> Crossing, session |-> Session, ontime |-> OnTime]

\* A client that connects again before its old session was found dead.
Again == [again |-> [Quiet EXCEPT !.connections = 2, !.clock = TRUE,
                       !.orders = {Order("buy", 2, 1)}, !.entered = 1, !.leave = {"silent"}]]
=============================================================================
