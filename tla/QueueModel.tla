----------------------------- MODULE QueueModel -----------------------------
(***************************************************************************)
(* sim/resolve.hpp and sim/queue_model.hpp: where our resting order sits   *)
(* in the queue at its price, and when it would have filled.  A feed       *)
(* message is resolved against the queues before it is applied; a lane is  *)
(* our orders under one of four models, which differ in one question: was  *)
(* this cancel ahead of us?                                                *)
(***************************************************************************)
EXTENDS OrderQueues, FiniteSetsExt

Models == {"naive", "optimistic", "mbo", "pessimistic"}

AtOrThrough(side, limit, px) == ~Better(side, px, limit)
StrictlyThrough(side, limit, px) == Better(side, limit, px)

-----------------------------------------------------------------------------
(* What a message means for a queue.  An order named by reference is       *)
(* looked up in the queues as they were before the message.                *)

Nothing == [class |-> "none", known |-> FALSE, ref |-> 0, side |-> "buy", price |-> 0,
            shares |-> 0, printable |-> FALSE, print |-> 0]

Named(pre, m, class, shares, printable, print) ==
  [class |-> class, known |-> TRUE, ref |-> m.ref, side |-> SideOf(pre, m.ref),
   price |-> PriceOf(pre, m.ref), shares |-> shares, printable |-> printable, print |-> print]

\* A C trades at our level only if it is printable and printed at the price
\* the order rested at.
Resolve(m, pre) ==
  CASE m.type = "E" -> Named(pre, m, "trade", m.shares, TRUE, PriceOf(pre, m.ref))
    [] m.type = "C" ->
         Named(pre, m, IF m.printable /\ m.price = PriceOf(pre, m.ref) THEN "trade" ELSE "cancel",
               m.shares, m.printable, m.price)
    [] m.type = "X" -> Named(pre, m, "cancel", m.shares, FALSE, 0)
    [] m.type \in {"D", "U"} -> Named(pre, m, "cancel", OrderOf(pre, m.ref).shares, FALSE, 0)
    [] m.type = "P" -> [Nothing EXCEPT !.class = "trade", !.price = m.price, !.shares = m.shares,
                                       !.printable = TRUE, !.print = m.price]
    [] OTHER -> Nothing

-----------------------------------------------------------------------------
(* A lane's orders, oldest first.  An order that was filled or cancelled   *)
(* is gone: every loop skips it until reap lets go of it.  `set` is the    *)
(* mbo model's record of what was ahead at arrival, and empty for the      *)
(* others; `jumped` is history: what is ahead is not only the market's.     *)

NoSet == [r \in {} |-> 0]
QueueAt(qs, side, price) == IF price \in Prices THEN qs[side][price] ELSE << >>
SharesAt(qs, side, price) == SharesOf(QueueAt(qs, side, price))
RefsAt(qs, side, price) ==
  LET queue == QueueAt(qs, side, price) IN {queue[i].ref : i \in DOMAIN queue}
Least(a, b) == IF a < b THEN a ELSE b

OwnAhead(entries, e) ==
  MapThenSumSet(LAMBDA i : entries[i].display,
    {i \in DOMAIN entries : entries[i].side = e.side /\ entries[i].price = e.price /\ entries[i].at < e.at})

Recorded(model, qs, side, price) ==
  IF model /= "mbo" THEN NoSet
  ELSE [r \in RefsAt(qs, side, price) |-> OrderOf(qs, r).shares]

Placed(model, entries, qs, order, now) ==
  LET shown == IF order.display > 0 /\ order.display < order.quantity THEN order.display ELSE order.quantity
      e == [id |-> order.id, side |-> order.side, price |-> order.price, display |-> shown,
            slice |-> shown, hidden |-> order.quantity - shown, ahead |-> 0, at |-> now,
            set |-> Recorded(model, qs, order.side, order.price), jumped |-> FALSE]
  IN  Append(entries, [e EXCEPT !.ahead = SharesAt(qs, e.side, e.price) + OwnAhead(entries, e),
                                !.jumped = OwnAhead(entries, e) > 0])

Cancelled(entries, id) == SelectSeq(entries, LAMBDA e : e.id /= id)

-----------------------------------------------------------------------------
(* One message.  A lane in progress is its entries and the fills so far.   *)

\* An iceberg whose slice is gone shows the next one, at the back.
Refreshed(lane, i, post) ==
  LET e == lane.entries[i]
      slice == Least(e.hidden, e.slice)
  IN  IF e.display > 0 \/ e.hidden = 0 THEN lane
      ELSE [lane EXCEPT !.entries[i] =
              [e EXCEPT !.hidden = @ - slice, !.display = slice, !.jumped = TRUE,
                        !.ahead = SharesAt(post, e.side, e.price) + OwnAhead(lane.entries, e)]]

Filled(lane, i, shares, how) ==
  LET e == lane.entries[i]
  IN  [lane EXCEPT !.entries[i] = [e EXCEPT !.display = @ - shares],
                   !.fills = Append(@, [id |-> e.id, side |-> e.side, price |-> e.price,
                                        shares |-> shares, trigger |-> how])]

\* Shares that traded eat the queue ahead, and the rest of them fills us.
TradeClass(lane, i, removed, how, post) ==
  LET e == lane.entries[i]
      moved == [lane EXCEPT !.entries[i].ahead = @ - Least(removed, @),
                            !.entries[i].jumped = @ \/ how /= "execution"]
      fill == Least(removed - Least(removed, e.ahead), e.display)
  IN  IF fill = 0 THEN moved ELSE Refreshed(Filled(moved, i, fill, how), i, post)

\* Mutant: the outer models have changed places.
CancelIsAheadSwapped(model, e, ref) ==
  \/ model = "pessimistic"
  \/ model = "mbo" /\ ref \in DOMAIN e.set

\* The line that separates the models.
CancelIsAhead(model, e, ref) ==
  \/ model = "optimistic"
  \/ model = "mbo" /\ ref \in DOMAIN e.set

CancelClass(model, lane, i, r) ==
  IF CancelIsAhead(model, lane.entries[i], r.ref)
  THEN [lane EXCEPT !.entries[i].ahead = @ - Least(r.shares, @)] ELSE lane

\* Mutant: a partial execution takes the whole order out of the record.
NotedErased(model, lane, i, r) ==
  LET set == lane.entries[i].set
  IN  IF model /= "mbo" \/ r.ref \notin DOMAIN set THEN lane
      ELSE [lane EXCEPT !.entries[i].set = [q \in DOMAIN set \ {r.ref} |-> set[q]]]

\* The mbo model's record after a trade: an order that is used up leaves it.
Noted(model, lane, i, r) ==
  LET set == lane.entries[i].set
  IN  IF model /= "mbo" \/ r.ref \notin DOMAIN set THEN lane
      ELSE [lane EXCEPT !.entries[i].set =
              IF r.shares >= set[r.ref] THEN [q \in DOMAIN set \ {r.ref} |-> set[q]]
              ELSE [set EXCEPT ![r.ref] = @ - r.shares]]

OppositeReaches(e, post) ==
  LET other == Opposite(e.side)
  IN  Quoted(post, other) /= {} /\ AtOrThrough(e.side, e.price, BestOf(other, Quoted(post, other)))

AtOurLevel(e, r) == r.known /\ r.side = e.side /\ r.price = e.price

NaiveCommit(lane, i, r, post) ==
  LET e == lane.entries[i]
      fill == Least(r.shares, e.display)
  IN  IF r.class = "trade" /\ r.printable /\ AtOrThrough(e.side, e.price, r.print)
      THEN Refreshed(Filled(lane, i, fill, "naive"), i, post) ELSE lane

\* A print strictly through our limit would have hit us first, unless the
\* other side has already reached us and the flow is counted there.
ThroughUs(e, r, post) ==
  /\ r.class = "trade" /\ r.printable
  /\ StrictlyThrough(e.side, e.price, r.print)
  /\ r.known => r.side = e.side
  /\ ~OppositeReaches(e, post)

QueuedCommit(model, lane, i, r, post) ==
  LET e == lane.entries[i]
  IN  CASE ThroughUs(e, r, post) -> TradeClass(lane, i, r.shares, "through", post)
        [] ~ThroughUs(e, r, post) /\ AtOurLevel(e, r) /\ r.class = "trade" ->
             Noted(model, TradeClass(lane, i, r.shares, "execution", post), i, r)
        [] ~ThroughUs(e, r, post) /\ AtOurLevel(e, r) /\ r.class = "cancel" ->
             CancelClass(model, lane, i, r)
        [] OTHER -> lane

\* Nothing fills while the symbol is halted, but what was ahead of us can go.
HaltedCommit(model, lane, i, r) ==
  IF AtOurLevel(lane.entries[i], r) /\ r.class = "cancel" /\ model /= "naive"
  THEN CancelClass(model, lane, i, r) ELSE lane

CommitOne(model, tradable, lane, i, r, post) ==
  CASE ~tradable -> HaltedCommit(model, lane, i, r)
    [] tradable /\ model = "naive" -> NaiveCommit(lane, i, r, post)
    [] OTHER -> QueuedCommit(model, lane, i, r, post)

\* No more can be ahead of us than rests at our price, ours included.
Clamped(lane, post) ==
  [lane EXCEPT !.entries =
     [i \in DOMAIN @ |-> [@[i] EXCEPT !.ahead =
        Least(@, SharesAt(post, lane.entries[i].side, lane.entries[i].price)
                 + OwnAhead(lane.entries, lane.entries[i]))]]]

Reaped(lane) == [lane EXCEPT !.entries = SelectSeq(@, LAMBDA e : e.display > 0)]

Commit(model, tradable, entries, r, post) ==
  Reaped(Clamped(FoldLeft(LAMBDA lane, i : CommitOne(model, tradable, lane, i, r, post),
                          [entries |-> entries, fills |-> << >>], [i \in DOMAIN entries |-> i]), post))

\* All that rests on the other side at or through our price.
Reach(e, post) ==
  MapThenSumSet(LAMBDA p : SharesAt(post, Opposite(e.side), p),
                {p \in Prices : AtOrThrough(e.side, e.price, p)})

\* After every message: the other side has come to us.
PricePriority(tradable, lane, post) ==
  IF ~tradable THEN lane
  ELSE Reaped(FoldLeft(LAMBDA l, i : IF Reach(l.entries[i], post) = 0 THEN l
                                     ELSE TradeClass(l, i, Reach(l.entries[i], post), "lock", post),
                       lane, [i \in DOMAIN lane.entries |-> i]))

-----------------------------------------------------------------------------
(* What a restart carries of a queue: the orders, each with what is ahead  *)
(* of it, and beside them the mbo model's records by order.                *)

QueueState(entries) ==
  [entries |-> [i \in DOMAIN entries |-> [entries[i] EXCEPT !.set = NoSet]],
   sets |-> [id \in {entries[i].id : i \in {j \in DOMAIN entries : entries[j].set /= NoSet}} |->
               entries[CHOOSE i \in DOMAIN entries : entries[i].id = id].set]]

QueueRestored(s) ==
  [i \in DOMAIN s.entries |->
     IF s.entries[i].id \in DOMAIN s.sets THEN [s.entries[i] EXCEPT !.set = s.sets[s.entries[i].id]]
     ELSE s.entries[i]]
=============================================================================
