------------------------------- MODULE Sides -------------------------------
(***************************************************************************)
(* The two sides of a market and which of two prices goes first on each.   *)
(***************************************************************************)
EXTENDS Integers

Sides == {"buy", "sell"}
Opposite(side) == IF side = "buy" THEN "sell" ELSE "buy"

Better(side, p, q) == IF side = "buy" THEN p > q ELSE p < q
=============================================================================
