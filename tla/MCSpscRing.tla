----------------------------- MODULE MCSpscRing -----------------------------
(***************************************************************************)
(* The ring on a small instance: Capacity 4 allows batches of up to four   *)
(* slots, and nine messages are more than two laps, so every slot is       *)
(* overwritten at least once and the first twice.  Word is any modulus     *)
(* larger than twice the capacity: an underflow is then far outside the    *)
(* range of an honest answer, as it is in the code.                        *)
(***************************************************************************)
EXTENDS SpscRing
=============================================================================
