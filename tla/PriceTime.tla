----------------------------- MODULE PriceTime -----------------------------
(***************************************************************************)
(* What book/book.hpp promises of resting orders: one queue per side and   *)
(* price, the best price first, and within a price the order that joined   *)
(* first.  A book is a set of entries; an entry's place is its position    *)
(* among those it joined behind.  How the code finds the best price (a     *)
(* band with a cursor, and a map beside it) is not part of the promise.    *)
(***************************************************************************)
EXTENDS Naturals, FiniteSetsExt, Sides

\* The order price-time priority says trades next: best_order().
IsFront(book, side, e) ==
  /\ e \in book /\ e.side = side
  /\ \A f \in book : f.side = side /\ f /= e =>
       Better(side, e.price, f.price) \/ (e.price = f.price /\ e.place < f.place)

\* add(): the order joins the back of the queue at its price.
Added(book, ref, side, price, shares) ==
  book \union {[ref |-> ref, side |-> side, price |-> price, shares |-> shares,
                place |-> 1 + Max({0} \union {e.place : e \in book})]}

\* take(), cancel(): fewer shares in the same place, or none and no order.
Reduced(book, e, shares) ==
  (book \ {e}) \union
    (IF shares >= e.shares THEN {} ELSE {[e EXCEPT !.shares = e.shares - shares]})

\* remove().
Removed(book, ref) == {e \in book : e.ref /= ref}
=============================================================================
