----------------------------- MODULE MCBacktest -----------------------------
(***************************************************************************)
(* ClosedLoop and Backtest on small markets: four prices, a handful of     *)
(* orders, and one scenario for each thing a run can be asked to do.       *)
(***************************************************************************)
EXTENDS ClosedLoop

Bell == [type |-> "S", code |-> "Q"]
Add(ref, side, price, shares) == [type |-> "A", ref |-> ref, side |-> side, price |-> price, shares |-> shares]

\* The bell and a market two wide.
Market == << Bell, Add(1, "buy", 2, 2), Add(2, "sell", 4, 1) >>

Plain ==
  [driver |-> "backtest", strategy |-> "touch", models |-> Models, opening |-> Market, menu |-> {"A", "E", "D"},
   gaps |-> {1}, sizes |-> {1}, fifo |-> TRUE, orderNs |-> 0, cancelNs |-> 0, lim |-> NoLimits, maxPosition |-> 0,
   orders |-> << >>, restarts |-> 0]

Order(id, side, price, quantity, display, after) ==
  [kind |-> "quote", id |-> id, side |-> side, price |-> price, quantity |-> quantity, display |-> display, after |-> after]

\* Orders given in advance, one of them an iceberg and one of them pulled.
Icebergs ==
  [Plain EXCEPT !.driver = "queue_sim", !.strategy = "none", !.opening = << Bell, Add(1, "buy", 2, 2) >>,
                !.menu = {"A", "E", "X", "D", "H"}, !.sizes = {1, 2},
                !.orders = << Order(1, "buy", 2, 2, 1, 2), Order(2, "sell", 3, 1, 0, 2), Order(3, "buy", 2, 1, 0, 3),
                              [Order(2, "sell", 3, 1, 0, 5) EXCEPT !.kind = "cancel"] >>]

Touch == [Plain EXCEPT !.gaps = {1, 3}, !.orderNs = 2, !.cancelNs = 2]
Patient == [Plain EXCEPT !.strategy = "patient", !.menu = {"A", "E", "C", "X", "U", "P"}]
Slides == [Plain EXCEPT !.strategy = "parity", !.fifo = FALSE, !.menu = {"A", "E", "C", "U", "P"}]
Halts == [Plain EXCEPT !.menu = {"A", "E", "D", "H", "S"}]

\* The limits: a taker that sends too much, a maker that holds too much.
Crosses ==
  [Plain EXCEPT !.strategy = "cross", !.models = {"mbo"}, !.gaps = {1, 3}, !.sizes = {2}, !.menu = {"A", "D"},
                !.lim = [NoLimits EXCEPT !.rate = 2, !.ratio = 3, !.ratioMin = 3]]
Holds ==
  [Plain EXCEPT !.models = {"naive", "mbo"}, !.sizes = {2},
                !.lim = [NoLimits EXCEPT !.position = 1, !.notional = 5, !.drawdown = 2]]
Rated ==
  [Plain EXCEPT !.models = {"mbo"}, !.gaps = {1, 2, 4}, !.menu = {"A", "D"}, !.lim = [NoLimits EXCEPT !.rate = 4]]
Bounded == [Plain EXCEPT !.strategy = "cross", !.models = {"optimistic"}, !.maxPosition = 1]

\* A run that sees its fills, and is resumed.
Loop ==
  [Plain EXCEPT !.driver = "closed_loop", !.strategy = "as", !.models = {"mbo"}, !.restarts = 1,
                !.orderNs = 1, !.cancelNs = 2]
LoopTouch == [Loop EXCEPT !.strategy = "symmetric", !.models = {"pessimistic"}, !.gaps = {1, 2}, !.restarts = 0]
LoopLimited ==
  [Loop EXCEPT !.orderNs = 0, !.cancelNs = 0, !.sizes = {2}, !.lim = [NoLimits EXCEPT !.rate = 2]]

\* The same with a market that moves by a tick first.
LoopMoved ==
  [LoopLimited EXCEPT !.menu = {"A", "D"},
     !.opening = Market \o << Add(3, "sell", 3, 1), [type |-> "D", ref |-> 1], Add(4, "buy", 1, 1) >>]

MCScenarios == {Icebergs, Touch, Patient, Slides, Halts, Crosses, Holds, Rated, Bounded, Loop, LoopTouch,
                [LoopLimited EXCEPT !.restarts = 0]}
RearmScenarios == {LoopMoved}

MCBooks == {Stock}
MCMakerFee == -1
=============================================================================
