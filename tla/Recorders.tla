----------------------------- MODULE Recorders -----------------------------
(***************************************************************************)
(* sim/intensity.hpp and InventoryPath of inventory_strategies.hpp: what a *)
(* closed-loop run records of itself, integrated over time from message to *)
(* message.  The fill intensity at a depth is the fills our resting orders *)
(* had there over the order-seconds they were exposed there; the inventory *)
(* is weighted by how long it was held.  Both travel with a restart.       *)
(***************************************************************************)
EXTENDS Integers, Sequences, SequencesExt

CONSTANT MaxDepth  \* max_depth_ticks: what is deeper is pooled in one bucket

Depths == 0..(MaxDepth + 1)

\* index_for and depth_ticks: an order on the wrong side of the mid is at 0.
DepthOf(side, price, mid) ==
  LET away == IF side = "buy" THEN mid - price ELSE price - mid
  IN  IF away < 0 THEN 0 ELSE IF away > MaxDepth THEN MaxDepth + 1 ELSE away

NewIntensity ==
  [started |-> FALSE, last |-> 0, exposure |-> [d \in Depths |-> 0], fills |-> [d \in Depths |-> 0],
   untradable |-> 0, withoutMid |-> 0]

Charged(exposure, entries, mid, dt) ==
  FoldLeft(LAMBDA acc, e : [acc EXCEPT ![DepthOf(e.side, e.price, mid.two \div 2)] = @ + dt], exposure,
           SelectSeq(entries, LAMBDA e : e.display > 0))

\* The time since the last message is charged to each order that rests, at
\* the depth it has now; to nobody when there is no telling the depth.  The
\* first message starts the clock.
Exposed(r, ts, mid, entries, tradable) ==
  IF ~r.started THEN [r EXCEPT !.started = TRUE, !.last = ts]
  ELSE IF ~tradable \/ ~mid.ok THEN [r EXCEPT !.last = ts, !.untradable = @ + (ts - r.last)]
  ELSE [r EXCEPT !.last = ts, !.exposure = Charged(@, entries, mid, ts - r.last)]

\* A resting order's fill, at the depth it had when it happened.
IntensityOnFill(r, f, mid) ==
  IF ~mid.ok THEN [r EXCEPT !.withoutMid = @ + 1]
  ELSE [r EXCEPT !.fills[DepthOf(f.side, f.price, mid.two \div 2)] = @ + 1]

-----------------------------------------------------------------------------
NewPath ==
  [started |-> FALSE, last |-> 0, position |-> 0, total |-> 0, sum |-> 0, squares |-> 0, long |-> 0, short |-> 0]

Larger(a, b) == IF a > b THEN a ELSE b
Smaller(a, b) == IF a < b THEN a ELSE b

\* What was held over the interval is what was held at its beginning.
Held(path, ts, position) ==
  LET dt == ts - path.last
      p == path.position
  IN  IF ~path.started THEN [path EXCEPT !.started = TRUE, !.last = ts, !.position = position]
      ELSE IF dt = 0 THEN [path EXCEPT !.position = position]
      ELSE [path EXCEPT !.last = ts, !.position = position, !.total = @ + dt, !.sum = @ + dt * p,
                        !.squares = @ + dt * p * p, !.long = Larger(@, p), !.short = Smaller(@, p)]
=============================================================================
