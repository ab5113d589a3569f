------------------------------- MODULE Lanes -------------------------------
(***************************************************************************)
(* sim/backtest.hpp and ledger.hpp: one lane of a simulated run, which is  *)
(* our orders under one fill model, the ledger of what they traded and the *)
(* kill switch that watches it.  A message and an intent that has arrived  *)
(* each take a lane to the lane after it.                                  *)
(***************************************************************************)
EXTENDS QueueModel, KillSwitch

CONSTANTS
  MakerFee,  \* FeeSchedule: a share we added, negative when it is a rebate
  TakerFee,  \* FeeSchedule: a share we removed
  SellFee,   \* FeeSchedule: regulatory, on a share sold
  Horizons   \* kHorizons: how long after a fill the mid is looked at

-----------------------------------------------------------------------------
(* The ledger.  Money is in units of price times shares, mids and what is  *)
(* measured against them are doubled.  `log` is the log of the fills.      *)

NoMid == [ok |-> FALSE, two |-> 0]

MidOf(qs, tradable) ==
  LET bids == Quoted(qs, "buy")
      asks == Quoted(qs, "sell")
  IN  IF ~tradable \/ bids = {} \/ asks = {} THEN NoMid
      ELSE IF BestOf("buy", bids) > BestOf("sell", asks) THEN NoMid
      ELSE [ok |-> TRUE, two |-> BestOf("buy", bids) + BestOf("sell", asks)]

MarkOf(mid) == IF mid.ok THEN mid.two \div 2 ELSE 0

FeeOf(f) ==
  f.shares * ((IF f.trigger = "taking" THEN TakerFee ELSE MakerFee) + (IF f.side = "sell" THEN SellFee ELSE 0))

Signed(f) == IF f.side = "buy" THEN f.shares ELSE -f.shares

NewLedger == [cash |-> 0, position |-> 0, fees |-> 0, twoEdge |-> 0, log |-> << >>]

\* Mutant: a fill with no mid is set against a mid of zero.
LedgerOnFillAnyMid(ledger, f, at, mid) ==
  [cash |-> (ledger.cash - f.price * Signed(f)) - FeeOf(f),
   position |-> ledger.position + Signed(f),
   fees |-> ledger.fees + FeeOf(f),
   twoEdge |-> ledger.twoEdge + Signed(f) * (mid.two - 2 * f.price),
   log |-> Append(ledger.log, [id |-> f.id, at |-> at, side |-> f.side, price |-> f.price, shares |-> f.shares,
                               mid |-> mid])]

\* A fill with no usable mid moves cash and position and is left out of the
\* edge.
LedgerOnFill(ledger, f, at, mid) ==
  [cash |-> (ledger.cash - f.price * Signed(f)) - FeeOf(f),
   position |-> ledger.position + Signed(f),
   fees |-> ledger.fees + FeeOf(f),
   twoEdge |-> ledger.twoEdge + (IF mid.ok THEN Signed(f) * (mid.two - 2 * f.price) ELSE 0),
   log |-> Append(ledger.log, [id |-> f.id, at |-> at, side |-> f.side, price |-> f.price, shares |-> f.shares,
                               mid |-> mid])]

Equity(ledger, mark) == ledger.cash + ledger.position * mark

\* Where the mid went after each fill that had one.
TwoDrift(ledger, twoMark) ==
  FoldLeft(LAMBDA acc, f : acc + (IF f.mid.ok THEN Signed(f) * (twoMark - f.mid.two) ELSE 0), 0, ledger.log)

FilledIds(lane) == {lane.ledger.log[i].id : i \in DOMAIN lane.ledger.log}
FilledBy(lane, id) ==
  FoldLeft(LAMBDA acc, f : acc + (IF f.id = id THEN f.shares ELSE 0), 0, lane.ledger.log)

-----------------------------------------------------------------------------
(* The markouts.  A sample is a fill that had a mid; seen[h] is the mids   *)
(* recorded for the samples resolved at horizon h, which are resolved in   *)
(* order: its length is the cursor next_[h].  Samples are those of the log *)
(* past `from`: a restart begins with none.                                *)

NewMarkout == [from |-> 0, seen |-> [h \in Horizons |-> << >>]]

Samples(lane) ==
  SelectSeq(SubSeq(lane.ledger.log, lane.markout.from + 1, Len(lane.ledger.log)), LAMBDA f : f.mid.ok)

\* Mutant: the horizons share one cursor, which is the shortest's.
ResolvedTogether(lane, now, mid) ==
  IF ~mid.ok THEN lane
  ELSE LET first == CHOOSE h \in Horizons : \A g \in Horizons : h <= g
           cursor == Len(lane.markout.seen[first])
           due == SelectSeq(SubSeq(Samples(lane), cursor + 1, Len(Samples(lane))), LAMBDA s : now >= s.at + first)
       IN  [lane EXCEPT !.markout.seen = [h \in Horizons |-> @[h] \o [i \in DOMAIN due |-> mid.two]]]

\* Each cursor moves over the samples whose time has come, and stops at the
\* first whose has not.  A mid that cannot be used records nothing.
ResolvedDue(lane, now, mid) ==
  LET samples == Samples(lane)
      Due(h) == {i \in (Len(lane.markout.seen[h]) + 1)..Len(samples) :
                   \A j \in (Len(lane.markout.seen[h]) + 1)..i : now >= samples[j].at + h}
  IN  IF ~mid.ok THEN lane
      ELSE [lane EXCEPT !.markout.seen =
              [h \in Horizons |-> @[h] \o [i \in 1..Cardinality(Due(h)) |-> mid.two]]]

-----------------------------------------------------------------------------
\* RiskLimits: an order that would take the position past the limit.
Blocks(maxPosition, position, side, quantity) ==
  maxPosition > 0 /\ Magnitude(position + (IF side = "buy" THEN quantity ELSE -quantity)) > maxPosition

-----------------------------------------------------------------------------
(* `sentAt` (history) is the times of the messages the lane sent, kept     *)
(* when a limit on them is set.                                            *)

NewLane == [entries |-> << >>, ledger |-> NewLedger, markout |-> NewMarkout, kill |-> Armed, seen |-> FALSE,
            sentAt |-> << >>]

\* A fill reaches the ledger first, and the switch hears of the ledger.
Booked(lim, lane, f, at, mid) ==
  LET ledger == LedgerOnFill(lane.ledger, f, at, mid)
  IN  [lane EXCEPT !.ledger = ledger,
                   !.kill = OnFill(lim, @, ledger.position, Equity(ledger, MarkOf(mid)), MarkOf(mid))]

Marks(lim, lane, mid) ==
  IF ~mid.ok THEN lane
  ELSE [lane EXCEPT !.kill = Observe(lim, @, lane.ledger.position, Equity(lane.ledger, MarkOf(mid)), MarkOf(mid))]

\* Mutant: tripping does not flatten.
FlattenedNever(lane) == [lane EXCEPT !.seen = @ \/ ~Live(lane.kill)]

\* Once, after every path that can trip: what rests is pulled.
Flattened(lane) ==
  IF Live(lane.kill) \/ lane.seen THEN lane ELSE [lane EXCEPT !.seen = TRUE, !.entries = << >>]

\* The fills of a message, before the switch is acted on.
LaneTraded(lim, model, tradable, lane, r, post, now, mid) ==
  LET queue == PricePriority(tradable, Commit(model, tradable, lane.entries, r, post), post)
      booked == FoldLeft(LAMBDA l, f : Booked(lim, l, f, now, mid), [lane EXCEPT !.entries = queue.entries],
                         queue.fills)
  IN  Marks(lim, ResolvedDue(booked, now, mid), mid)

LaneOnMessage(lim, model, tradable, lane, r, post, now, mid) ==
  Flattened(LaneTraded(lim, model, tradable, lane, r, post, now, mid))

-----------------------------------------------------------------------------
(* An intent reaches the exchange, at `now` and with the book of now.      *)

Sent(lim, lane, in, now) ==
  [lane EXCEPT !.kill = OnMessageSent(lim, @, now, in.kind /= "cancel"),
               !.sentAt = IF lim.rate = 0 THEN @ ELSE Append(@, now)]

Taken(lim, lane, in, qs, now, mid) ==
  LET shares == Least(in.quantity, SharesAt(qs, Opposite(in.side), in.price))
  IN  IF shares = 0 THEN lane
      ELSE Booked(lim, lane, [id |-> in.id, side |-> in.side, price |-> in.price, shares |-> shares,
                              trigger |-> "taking"], now, mid)

\* A lane whose switch has tripped sends nothing further.
IntentApplied(lim, maxPosition, model, lane, in, qs, now, mid) ==
  CASE ~Live(lane.kill) -> lane
    [] Live(lane.kill) /\ in.kind = "cancel" ->
         [Sent(lim, lane, in, now) EXCEPT !.entries = Cancelled(@, in.id)]
    [] Live(lane.kill) /\ in.kind = "quote" /\ ~Blocks(maxPosition, lane.ledger.position, in.side, in.quantity) ->
         [Sent(lim, lane, in, now) EXCEPT !.entries = Placed(model, @, qs, in, now)]
    [] Live(lane.kill) /\ in.kind = "take" /\ ~Blocks(maxPosition, lane.ledger.position, in.side, in.quantity) ->
         Taken(lim, Sent(lim, lane, in, now), in, qs, now, mid)
    [] OTHER -> Sent(lim, lane, in, now)
=============================================================================
