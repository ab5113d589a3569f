----------------------------- MODULE MCMatcher -----------------------------
(***************************************************************************)
(* Small markets, one for each thing the engine must get right: an order   *)
(* of each kind against icebergs, stops that elect each other, two owners  *)
(* with every kind of self-trade prevention, and a book shared with the    *)
(* feed.                                                                   *)
(***************************************************************************)
EXTENDS Matcher

Order(side, type, price, quantity) ==
  [owner |-> 1, side |-> side, type |-> type, price |-> price, stop |-> 0,
   quantity |-> quantity, display |-> 0, stp |-> "none"]
Stop(side, type, stop, price) == [Order(side, type, price, 1) EXCEPT !.stop = stop]
Iceberg(side, price, quantity) == [Order(side, "limit", price, quantity) EXCEPT !.display = 1]
By(owner, stp, order) == [order EXCEPT !.owner = owner, !.stp = stp]

Slices ==
  [requests |-> {Iceberg("sell", 1, 3), Iceberg("buy", 2, 2), Order("sell", "limit", 2, 1),
                 Order("buy", "limit", 2, 2), Order("buy", "ioc", 1, 2),
                 Order("buy", "fok", 1, 2), Order("sell", "market", 0, 2),
                 Order("buy", "limit", 0, 1)},
   historical |-> {}, orders |-> 4, feed |-> 0]

Stops ==
  [requests |-> {Order("sell", "limit", 2, 2), Order("buy", "limit", 2, 1),
                 Stop("buy", "stop_limit", 2, 2), Stop("buy", "stop_market", 1, 0),
                 Stop("sell", "stop_limit", 2, 1)},
   historical |-> {}, orders |-> 5, feed |-> 0]

Owners ==
  [requests |-> {By(1, "none", Order("sell", "limit", 1, 1)),
                 By(1, "none", Iceberg("sell", 1, 2)),
                 By(2, "none", Order("sell", "limit", 1, 1)),
                 By(1, "newest", Order("buy", "limit", 1, 2)),
                 By(1, "oldest", Order("buy", "limit", 1, 2)),
                 By(1, "both", Order("buy", "ioc", 1, 2)),
                 By(1, "newest", Order("buy", "fok", 1, 2))},
   historical |-> {}, orders |-> 4, feed |-> 0]

Shared ==
  [requests |-> {Order("buy", "limit", 1, 1), Iceberg("buy", 1, 2),
                 Order("sell", "limit", 1, 2), Stop("sell", "stop_market", 1, 0)},
   historical |-> {[side |-> "buy", price |-> 1, shares |-> 2],
                   [side |-> "sell", price |-> 1, shares |-> 1]},
   orders |-> 3, feed |-> 2]

AllMarkets == [slices |-> Slices, stops |-> Stops, owners |-> Owners, shared |-> Shared]
=============================================================================
