------------------------------ MODULE Backtest ------------------------------
(***************************************************************************)
(* sim/backtest.hpp: one strategy, one feed, four fill models.  A message  *)
(* sets the session, changes the book, goes to every lane and then to the  *)
(* strategy, whose intents travel for the latency of the model and reach   *)
(* every lane after the message at whose time they arrive.                 *)
(* tools/queue_sim.cpp drives the same lanes with orders given in advance  *)
(* and with a session rule of its own.                                     *)
(*                                                                         *)
(* The feed is the market's own: orders never cross each other, trades     *)
(* take the front of the best price unless the scenario says otherwise,    *)
(* and nothing trades while the symbol is halted.  Our orders are not in   *)
(* it.  `script` is the opening of the feed that the scenario fixes.       *)
(***************************************************************************)
EXTENDS Lanes, Strategies

CONSTANTS
  Stock,      \* the one book
  Scenarios,  \* what is run: the options of the program and the feed
  MaxEvents   \* bound: messages of a run

VARIABLES
  cfg,      \* the scenario
  script,   \* the messages the feed must still begin with
  session,  \* in_continuous_ and trading_state_
  lanes,    \* lanes_, by model
  flight,   \* pending_: decided, not yet at the exchange
  mind,     \* what the strategy keeps
  lastMid,  \* last_good_mid_
  now,      \* the time of the last message
  events,   \* event_index_
  added,    \* orders the feed has added
  met       \* history: what rested at an order's price when it arrived

simVars == <<cfg, script, session, lanes, flight, mind, lastMid, now, events, added, met>>
vars == <<rest, simVars>>

market == rest[Stock]

-----------------------------------------------------------------------------
(* The feed.                                                               *)

Applied(m, qs) ==
  CASE m.type = "A" -> Joined(qs, m.ref, m.side, m.price, m.shares)
    [] m.type \in {"E", "C", "X"} -> Shrunk(qs, m.ref, m.shares)
    [] m.type = "D" -> Gone(qs, m.ref)
    [] m.type = "U" -> Requeued(qs, m.ref, m.new, m.price, m.shares)
    [] OTHER -> qs

Stands(side, price, qs) ==
  LET against == Quoted(qs, Opposite(side))
  IN  against = {} \/ ~AtOrThrough(side, price, BestOf(Opposite(side), against))

\* What the mid and the strategy go by.
Tradable(s) == s.state = "T" /\ (s.continuous \/ cfg.driver = "queue_sim")

\* What the lanes go by: set_trading_state(tradable ? 'T' : trading_state_)
\* is 'T' whenever the trading state is, in the session or out of it.
LaneTradable(s) == s.state = "T"

Hittable ==
  IF ~cfg.fifo THEN Resting(market)
  ELSE {market[s][BestOf(s, Quoted(market, s))][1].ref : s \in {t \in Sides : Quoted(market, t) /= {}}}

Fresher == added + 1

Messages ==
  LET adds == {[type |-> "A", ref |-> Fresher, side |-> s, price |-> p, shares |-> n] :
                 s \in Sides, p \in Prices, n \in cfg.sizes}
      trades == UNION {{[type |-> "E", ref |-> r, shares |-> n] : n \in 1..OrderOf(market, r).shares} : r \in Hittable}
      priced == {[type |-> "C", ref |-> r, shares |-> OrderOf(market, r).shares, price |-> p, printable |-> y] :
                   r \in Hittable, p \in Prices, y \in BOOLEAN}
      shrinks == {[type |-> "X", ref |-> r, shares |-> 1] : r \in {q \in Resting(market) : OrderOf(market, q).shares > 1}}
      deletes == {[type |-> "D", ref |-> r] : r \in Resting(market)}
      moves == {[type |-> "U", ref |-> r, new |-> Fresher, price |-> p, shares |-> 1] : r \in Resting(market), p \in Prices}
      hidden == {[type |-> "P", price |-> p, shares |-> 1] : p \in Prices}
      halts == {[type |-> "H", state |-> s] : s \in {"T", "H"}}
      phases == {[type |-> "S", code |-> c] : c \in {"Q", "M"}}
  IN  {m \in adds \cup trades \cup priced \cup shrinks \cup deletes \cup moves \cup hidden \cup halts \cup phases :
         /\ m.type \in cfg.menu
         /\ m.type \in {"A", "U"} => Fresher \in Refs
         /\ m.type = "A" => Stands(m.side, m.price, market)
         /\ m.type = "U" => Stands(SideOf(market, m.ref), m.price, market)
         /\ m.type \in {"E", "P"} \/ (m.type = "C" /\ m.printable) => LaneTradable(session)}

Coming == IF script = << >> THEN Messages ELSE {Head(script)}

-----------------------------------------------------------------------------
(* One message.                                                            *)

\* queue_sim has no phase: the bell itself opens and closes the trading.
SessionAfter(s, m) ==
  CASE m.type = "H" -> [s EXCEPT !.state = m.state]
    [] m.type = "S" /\ m.code = "Q" -> [continuous |-> TRUE, state |-> "T"]
    [] m.type = "S" /\ m.code = "M" ->
         [continuous |-> FALSE, state |-> IF cfg.driver = "queue_sim" THEN "none" ELSE s.state]
    [] OTHER -> s

Latency(in) == IF in.kind = "cancel" THEN cfg.cancelNs ELSE cfg.orderNs

View(qs, tradable, mid, position) ==
  [tradable |-> tradable, mid |-> mid, index |-> events, position |-> position,
   bid |-> IF Quoted(qs, "buy") = {} THEN 0 ELSE BestOf("buy", Quoted(qs, "buy")),
   ask |-> IF Quoted(qs, "sell") = {} THEN 0 ELSE BestOf("sell", Quoted(qs, "sell"))]

\* The orders and cancels queue_sim was given, each at its message.
Given(index) == SelectSeq(cfg.orders, LAMBDA o : o.after = index + 1)

Decided(qs, tradable, mid, position, thinking) ==
  IF cfg.driver = "queue_sim" THEN Decision(thinking, Given(events))
  ELSE OnEvent(cfg.strategy, View(qs, tradable, mid, position), thinking)

Sending(intents, ts) == [i \in DOMAIN intents |-> [at |-> ts + Latency(intents[i]), intent |-> intents[i]]]

Arrived(queue, ts) == SelectSeq(queue, LAMBDA a : a.at <= ts)
StillOut(queue, ts) == SelectSeq(queue, LAMBDA a : a.at > ts)

Landed(model, lane, arrived, qs, mid) ==
  FoldLeft(LAMBDA l, a : IntentApplied(cfg.lim, cfg.maxPosition, model, l, a.intent, qs, a.at, mid), lane, arrived)

LiveIds(ls) == UNION {{ls[md].entries[i].id : i \in DOMAIN ls[md].entries} : md \in DOMAIN ls}
PlaceTaken(ls, id) ==
  LET md == CHOOSE md \in DOMAIN ls : \E i \in DOMAIN ls[md].entries : ls[md].entries[i].id = id
  IN  ls[md].entries[CHOOSE i \in DOMAIN ls[md].entries : ls[md].entries[i].id = id]
Met(ls, qs, before) ==
  [id \in LiveIds(ls) |->
     IF id \in DOMAIN before THEN before[id]
     ELSE RefsAt(qs, PlaceTaken(ls, id).side, PlaceTaken(ls, id).price)]

\* The lanes, the strategy and what has arrived, in the order of the code.
Handle(m, ts, position, thinking, after) ==
  \E tradable \in {Tradable(after)}, qs \in {Applied(m, market)} :
  \E mid \in {MidOf(qs, tradable)} :
  \E good \in {IF mid.ok THEN mid ELSE lastMid}, r \in {Resolve(m, market)} :
  \E d \in {Decided(qs, tradable, mid, position, thinking)} :
  \E queue \in {flight \o Sending(d.intents, ts)} :
    /\ rest' = [rest EXCEPT ![Stock] = qs]
    /\ lastMid' = good
    /\ mind' = d.mind
    /\ flight' = StillOut(queue, ts)
    /\ lanes' = [md \in DOMAIN lanes |->
                   Landed(md, LaneOnMessage(cfg.lim, md, LaneTradable(after), lanes[md], r, qs, ts, mid),
                          Arrived(queue, ts), qs, good)]
    /\ met' = Met(lanes', qs, met)

Feed(m) ==
  /\ script' = IF script = << >> THEN script ELSE Tail(script)
  /\ session' = SessionAfter(session, m)
  /\ added' = IF m.type \in {"A", "U"} THEN Fresher ELSE added
  /\ events' = events + 1

OnMessage(m) ==
  /\ cfg.driver /= "closed_loop" /\ events < MaxEvents
  /\ Feed(m)
  /\ \E ts \in {now + g : g \in cfg.gaps} :
       /\ now' = ts
       /\ Handle(m, ts, 0, mind, session')
  /\ UNCHANGED cfg

InitBacktest ==
  /\ cfg \in Scenarios
  /\ script = cfg.opening
  /\ rest = [b \in Books |-> Empty]
  /\ session = [continuous |-> FALSE, state |-> "none"]
  /\ lanes = [md \in cfg.models |-> NewLane]
  /\ flight = << >> /\ mind = Fresh /\ lastMid = NoMid
  /\ now = 0 /\ events = 0 /\ added = 0
  /\ met = [id \in {} |-> {}]
=============================================================================
