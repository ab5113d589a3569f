----------------------------- MODULE KillSwitch -----------------------------
(***************************************************************************)
(* risk/kill_switch.hpp: the control that stops trading.  It is told of    *)
(* every message sent, every fill and every mark, checks the limits that   *)
(* are set (zero is no limit) and latches on the first that is breached.   *)
(* The limit on the depth of the feed ring is in WirePipeline's program    *)
(* and is not used by the drivers modelled over this module.               *)
(***************************************************************************)
EXTENDS Integers, FiniteSetsExt

CONSTANTS
  Buckets,  \* kBuckets
  BucketNs  \* kBucketNs

NoLimits == [position |-> 0, notional |-> 0, rate |-> 0, ratio |-> 0, ratioMin |-> 0, drawdown |-> 0]

Never == -1
Armed ==
  [trip |-> "none", orders |-> 0, fills |-> 0,
   window |-> [s \in 0..(Buckets - 1) |-> [epoch |-> Never, count |-> 0]], now |-> Never,
   peakSeen |-> FALSE, peak |-> 0, last |-> 0]

Live(k) == k.trip = "none"

Magnitude(n) == IF n < 0 THEN -n ELSE n

-----------------------------------------------------------------------------
(* The window of one second: a bucket's epoch says whether it is stale.    *)

\* Mutant: every message starts its bucket again.
CountedAfresh(k, ts) ==
  LET idx == ts \div BucketNs
  IN  [k EXCEPT !.window[idx % Buckets] = [epoch |-> idx, count |-> 1], !.now = IF idx > @ THEN idx ELSE @]

Counted(k, ts) ==
  LET idx == ts \div BucketNs
      slot == idx % Buckets
  IN  [k EXCEPT !.window[slot] = [epoch |-> idx, count |-> IF @.epoch = idx THEN @.count + 1 ELSE 1],
                !.now = IF idx > @ THEN idx ELSE @]

Rate(k) ==
  MapThenSumSet(LAMBDA s : k.window[s].count,
                {s \in DOMAIN k.window : k.window[s].epoch /= Never /\ k.now - k.window[s].epoch < Buckets})

-----------------------------------------------------------------------------
(* The checks.  The first breach is the one recorded.                      *)

Tripped(k, reason, breached) ==
  IF breached /\ k.trip = "none" THEN [k EXCEPT !.trip = reason] ELSE k

CheckPosition(lim, k, position) ==
  Tripped(k, "position", lim.position > 0 /\ Magnitude(position) > lim.position)

CheckNotional(lim, k, position, mark) ==
  Tripped(k, "notional", lim.notional > 0 /\ mark > 0 /\ Magnitude(position) * mark > lim.notional)

CheckRate(lim, k) == Tripped(k, "rate", lim.rate > 0 /\ Rate(k) > lim.rate)

CheckRatio(lim, k) ==
  Tripped(k, "ratio", /\ lim.ratio > 0 /\ k.orders >= lim.ratioMin
                      /\ k.orders > lim.ratio * (IF k.fills = 0 THEN 1 ELSE k.fills))

CheckDrawdown(lim, k) ==
  Tripped(k, "drawdown", lim.drawdown > 0 /\ k.peakSeen /\ k.peak - k.last > lim.drawdown)

Marked(k, equity) ==
  [k EXCEPT !.peakSeen = TRUE, !.peak = IF equity > @ \/ ~k.peakSeen THEN equity ELSE @, !.last = equity]

-----------------------------------------------------------------------------
(* What the switch is told.                                                *)

OnMessageSent(lim, k, ts, isOrder) ==
  CheckRatio(lim, CheckRate(lim, Counted([k EXCEPT !.orders = @ + (IF isOrder THEN 1 ELSE 0)], ts)))

Observe(lim, k, position, equity, mark) ==
  CheckDrawdown(lim, CheckNotional(lim, CheckPosition(lim, Marked(k, equity), position), position, mark))

OnFill(lim, k, position, equity, mark) ==
  Observe(lim, [k EXCEPT !.fills = @ + 1], position, equity, mark)
=============================================================================
