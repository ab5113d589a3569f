---------------------------- MODULE OrderQueues ----------------------------
(***************************************************************************)
(* What a feed of orders says of the market: for every book, side and      *)
(* price, the orders resting there, oldest first.  An order joins the back *)
(* of the queue at its price, shrinks without losing its place, and leaves *)
(* or is replaced by one that joins the back again.  Nothing else moves.   *)
(* Book/BookFeed keep this in bands, maps and pools; Backtest trades in it.*)
(***************************************************************************)
EXTENDS Sides, Sequences, SequencesExt

CONSTANTS
  Books,   \* the stock locates
  Prices,  \* bound: the prices orders rest at
  Refs     \* order references, unique over the whole feed

VARIABLE rest  \* what rests, by book, side and price

Empty == [s \in Sides |-> [p \in Prices |-> << >>]]

Resting(qs) == UNION {{qs[s][p][i].ref : i \in DOMAIN qs[s][p]} : <<s, p>> \in Sides \X Prices}
SideOf(qs, ref) == CHOOSE s \in Sides : \E p \in Prices : \E i \in DOMAIN qs[s][p] : qs[s][p][i].ref = ref
PriceOf(qs, ref) ==
  LET s == SideOf(qs, ref) IN CHOOSE p \in Prices : \E i \in DOMAIN qs[s][p] : qs[s][p][i].ref = ref
PlaceOf(queue, ref) == CHOOSE i \in DOMAIN queue : queue[i].ref = ref
OrderOf(qs, ref) ==
  LET queue == qs[SideOf(qs, ref)][PriceOf(qs, ref)] IN queue[PlaceOf(queue, ref)]

Joined(qs, ref, side, price, shares) ==
  [qs EXCEPT ![side][price] = Append(@, [ref |-> ref, shares |-> shares])]
Shrunk(qs, ref, by) ==
  [qs EXCEPT ![SideOf(qs, ref)][PriceOf(qs, ref)] =
     LET i == PlaceOf(@, ref)
     IN  IF by >= @[i].shares THEN RemoveAt(@, i) ELSE [@ EXCEPT ![i].shares = @ - by]]
Gone(qs, ref) == Shrunk(qs, ref, OrderOf(qs, ref).shares)
Requeued(qs, ref, new, price, shares) ==
  Joined(Gone(qs, ref), new, SideOf(qs, ref), price, shares)

\* The prices with something resting, and the best of them.
Quoted(qs, side) == {p \in Prices : qs[side][p] /= << >>}
BestOf(side, S) == CHOOSE p \in S : \A q \in S \ {p} : Better(side, p, q)
SharesOf(queue) == FoldLeft(LAMBDA n, o : n + o.shares, 0, queue)

\* One queue holds part of another: the same orders, with the same shares and
\* in the same places among themselves.
PartOf(few, all) ==
  few = SelectSeq(all, LAMBDA o : \E i \in DOMAIN few : few[i].ref = o.ref)
=============================================================================
