----------------------------- MODULE ClosedLoop -----------------------------
(***************************************************************************)
(* sim/closed_loop.hpp: one lane and a strategy that is told of its fills. *)
(* The lane goes by the same rules as a lane of backtest.hpp; what is new  *)
(* is that a fill reaches the position tracker and the strategy before the *)
(* strategy sees the market, and that a run can be stopped between two     *)
(* messages and resumed from its state in a new process.                   *)
(***************************************************************************)
EXTENDS Backtest, Recorders

CONSTANT MaxRestarts  \* bound: restarts of a run

VARIABLES
  tracker,  \* tracker_: the position the strategy is shown
  exposed,  \* intensity_: how long our orders rested, and what they traded
  path,     \* inventory_: the position over time
  restarts  \* how often the run was resumed

recorded == <<tracker, exposed, path>>
loopVars == <<vars, recorded, restarts>>

loop == cfg.driver = "closed_loop"
TheModel == CHOOSE md \in cfg.models : TRUE

\* Strategies with state() and restore().
Stateful == {"as"}

\* The fills a lane has had since.
NewFills(before, after) == SubSeq(after.ledger.log, Len(before.ledger.log) + 1, Len(after.ledger.log))

\* PositionTracker: a position of its own, moved by each fill delivered.
Tracked(position, fills) == FoldLeft(LAMBDA acc, f : acc + Signed(f), position, fills)

\* What the intents that arrived after the decision took from the book.
TakenFills(lane, after) == NewFills(lane, after)

\* The strategy hears of the fill.
Delivered(thinking, fills) == [thinking EXCEPT !.filled = @ \/ fills /= << >>]

\* Fills of this message are known to the decision it provokes, and what
\* filled is exposed no longer.  A taker fill comes after the decision
\* and reaches the tracker alone: no strategy that takes hears of its fills.
OnLoopMessage(m) ==
  /\ loop /\ events < MaxEvents
  /\ Feed(m)
  /\ \E ts \in {now + g : g \in cfg.gaps}, mid \in {MidOf(Applied(m, market), Tradable(session'))} :
     \E lane \in {LaneTraded(cfg.lim, TheModel, LaneTradable(session'), lanes[TheModel], Resolve(m, market),
                             Applied(m, market), ts, mid)} :
     \E fills \in {NewFills(lanes[TheModel], lane)} :
       /\ now' = ts
       /\ Handle(m, ts, Tracked(tracker, fills), Delivered(mind, fills), session')
       /\ tracker' = Tracked(Tracked(tracker, fills), TakenFills(lane, lanes'[TheModel]))
       /\ exposed' = Exposed(FoldLeft(LAMBDA r, f : IntensityOnFill(r, f, mid), exposed, fills), ts, mid,
                             lane.entries, Tradable(session'))
       /\ path' = Held(path, ts, Tracked(tracker, fills))
  /\ UNCHANGED <<cfg, restarts>>

\* What the file holds of a lane, and the lane that is made of it: no
\* markout and no switch travels, and whether the switch was seen to trip
\* does.
LaneState(lane) == [queue |-> QueueState(lane.entries), ledger |-> lane.ledger, seen |-> lane.seen]

LaneRestored(s) ==
  [NewLane EXCEPT !.entries = QueueRestored(s.queue), !.ledger = s.ledger, !.seen = s.seen,
                  !.markout.from = Len(s.ledger.log)]

Resumed ==
  /\ loop /\ restarts < MaxRestarts /\ restarts < cfg.restarts
  /\ restarts' = restarts + 1
  /\ lanes' = [md \in DOMAIN lanes |-> LaneRestored(LaneState(lanes[md]))]
  /\ mind' = IF cfg.strategy \in Stateful THEN mind ELSE Fresh
  /\ UNCHANGED <<rest, cfg, script, session, lastMid, now, events, added, met>>

\* Mutant: what was decided and had not arrived is lost with the process.
RestartDropsFlight == Resumed /\ flight' = << >> /\ UNCHANGED recorded

\* The process dies and another takes up its state.  The book comes back
\* with the market's snapshot.
Restart == Resumed /\ UNCHANGED <<flight, recorded>>

Init == InitBacktest /\ tracker = 0 /\ exposed = NewIntensity /\ path = NewPath /\ restarts = 0
Next ==
  \/ \E m \in Coming : OnMessage(m) /\ UNCHANGED <<recorded, restarts>>
  \/ \E m \in Coming : OnLoopMessage(m)
  \/ Restart
Spec == Init /\ [][Next]_loopVars

-----------------------------------------------------------------------------
(* What makes the simulation right.                                        *)

Unlimited == cfg.lim = NoLimits /\ cfg.maxPosition = 0

\* queue_model.hpp cancel_is_ahead: the optimistic model fills every order at
\* least as much as the mbo model and that one at least as much as the
\* pessimistic one, after every message, whatever was cancelled, halted or
\* printed in between (the band of docs/phase6-design.md is a band).
Bracketed ==
  {"optimistic", "mbo", "pessimistic"} \subseteq cfg.models /\ Unlimited =>
    \A id \in UNION {FilledIds(lanes[md]) : md \in DOMAIN lanes} :
      /\ FilledBy(lanes["optimistic"], id) >= FilledBy(lanes["mbo"], id)
      /\ FilledBy(lanes["mbo"], id) >= FilledBy(lanes["pessimistic"], id)

AheadOf(e) ==
  MapThenSumSet(LAMBDA r : OrderOf(market, r).shares, met[e.id] \cap RefsAt(market, e.side, e.price))

\* queue_model.hpp note_trade_for_mbo, halted_commit and clamp_all: while the
\* market trades from the front, the mbo model's `ahead` is exactly what
\* rested at the price when the order arrived and still does; the other two
\* are on either side of it.
MboIsExact ==
  cfg.fifo =>
    \A md \in DOMAIN lanes \ {"naive"} : \A i \in DOMAIN lanes[md].entries :
      LET e == lanes[md].entries[i]
      IN  ~e.jumped => CASE md = "mbo" -> e.ahead = AheadOf(e)
                         [] md = "optimistic" -> e.ahead <= AheadOf(e)
                         [] OTHER -> e.ahead >= AheadOf(e)

\* kill_switch.hpp, backtest.hpp and closed_loop.hpp: a lane whose switch has
\* tripped has nothing resting, at the latest one message after the trip.
TripFlattens ==
  [][\A md \in DOMAIN lanes :
       ~Live(lanes[md].kill) /\ ~Live(lanes'[md].kill) => lanes'[md].entries = << >>]_loopVars

\* kill_switch.hpp check_position and RateWindow: while a switch is live the
\* position is within its limit, and so are the messages of any nine tenths
\* of a second, over however many buckets they were sent.
SwitchHolds ==
  \A md \in DOMAIN lanes :
    LET lane == lanes[md]
    IN  Live(lane.kill) =>
          /\ cfg.lim.position > 0 => Magnitude(lane.ledger.position) <= cfg.lim.position
          /\ cfg.lim.rate > 0 =>
               \A i \in DOMAIN lane.sentAt :
                 Cardinality({j \in DOMAIN lane.sentAt :
                    lane.sentAt[j] <= lane.sentAt[i] /\ lane.sentAt[i] - lane.sentAt[j] <= (Buckets - 1) * BucketNs})
                   <= cfg.lim.rate

\* backtest.hpp apply_arrived and closed_loop.hpp restore: until its switch
\* trips, whatever a lane has resting is an order the strategy still counts as
\* its quote or one whose cancel is on its way; none is forgotten in flight,
\* by a fill or by a restart.
NoQuoteForgotten ==
  cfg.strategy \in {"touch", "patient", "symmetric", "as"} /\ cfg.cancelNs >= cfg.orderNs =>
    \A md \in {model \in DOMAIN lanes : Live(lanes[model].kill)} : \A i \in DOMAIN lanes[md].entries :
      LET id == lanes[md].entries[i].id
      IN  \/ id \in {mind.bidId, mind.askId}
          \/ \E j \in DOMAIN flight : flight[j].intent.kind = "cancel" /\ flight[j].intent.id = id

\* What the fills that met no mid are worth against the mark.
TwoUnexplained(ledger, twoMark) ==
  FoldLeft(LAMBDA acc, f : acc + (IF f.mid.ok THEN 0 ELSE Signed(f) * (twoMark - 2 * f.price)), 0, ledger.log)

\* ledger.hpp, PositionTracker and InventoryPath: the money is where the
\* decomposition says it came from, edge and drift less fees, to the last
\* unit, but for the fills that met no mid; whatever traded, at what rate of
\* fees and in how many lives of the process.  The position the strategy is
\* shown is the ledger's, and the inventory path is the ledger's position
\* over all the time since each fill.
Reconciles ==
  \A md \in DOMAIN lanes :
    LET ledger == lanes[md].ledger
    IN  /\ lastMid.two % 2 = 0 =>
              2 * Equity(ledger, MarkOf(lastMid)) =
                ledger.twoEdge + TwoDrift(ledger, lastMid.two) + TwoUnexplained(ledger, lastMid.two) - 2 * ledger.fees
        /\ loop => tracker = ledger.position
        /\ loop => path.sum = FoldLeft(LAMBDA acc, f : acc + Signed(f) * (now - f.at), 0, ledger.log)

RestingIds(lane) == {lane.entries[i].id : i \in DOMAIN lane.entries}
Exposure(r) == MapThenSumSet(LAMBDA d : r.exposure[d], Depths)

\* intensity.hpp observe and restore: between two messages every order that
\* rested throughout is charged for the time, no order that did not rest at
\* its beginning is, and nobody is when the depth cannot be told; a process
\* that took over in between charges the same.  Every fill is at one depth
\* or counted as having none.
ExposureCharged ==
  [][loop /\ events' /= events /\ events > 0 =>
       LET dt == now' - now
           before == Cardinality(RestingIds(lanes[TheModel]))
           stayed == Cardinality(RestingIds(lanes[TheModel]) \cap RestingIds(lanes'[TheModel]))
           charged == Exposure(exposed') - Exposure(exposed)
       IN  /\ IF MidOf(market', Tradable(session')).ok
                THEN charged \in (dt * stayed)..(dt * before) /\ exposed'.untradable = exposed.untradable
                ELSE charged = 0 /\ exposed'.untradable = exposed.untradable + dt
           /\ MapThenSumSet(LAMBDA d : exposed'.fills[d], Depths) + exposed'.withoutMid
                = Len(lanes'[TheModel].ledger.log)]_loopVars

\* markout.hpp observe: a fill is looked at over each horizon at the first
\* message with a usable mid when the horizon has passed, no earlier, no
\* later and only once; the cursors that find it, one to a horizon, miss
\* nothing.
MarkedOnTime ==
  [][events' /= events =>
       \A md \in DOMAIN lanes : \A h \in Horizons : \A i \in DOMAIN Samples(lanes'[md]) :
         LET before == lanes[md].markout.seen[h]
             after == lanes'[md].markout.seen[h]
             mid == MidOf(market', Tradable(session'))
             known == i <= Len(Samples(lanes[md])) \/ Samples(lanes'[md])[i].at = now'
         IN  /\ i <= Len(before) => after[i] = before[i]
             /\ known /\ i > Len(before) =>
                  (i <= Len(after) <=> mid.ok /\ now' >= Samples(lanes'[md])[i].at + h)
             /\ i > Len(before) /\ i <= Len(after) => after[i] = mid.two]_loopVars

\* markout.hpp and intensity.hpp: what is measured over time is measured over
\* the right time.
MeasuredOverTime == MarkedOnTime /\ ExposureCharged
=============================================================================
