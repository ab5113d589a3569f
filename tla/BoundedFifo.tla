---------------------------- MODULE BoundedFifo ----------------------------
(***************************************************************************)
(* What a single-producer single-consumer ring promises, with no indices,  *)
(* no caches and no memory order: a queue of at most Capacity messages.    *)
(* The producer's i-th message is the number i, so "nothing lost, nothing  *)
(* duplicated, nothing reordered" reads as "out is 0, 1, 2, ...".          *)
(***************************************************************************)
EXTENDS Naturals, Sequences

CONSTANT Capacity

VARIABLES queue,  \* messages published and not yet consumed, oldest first
          out     \* every message the consumer has taken, in order

fifoVars == <<queue, out>>

Init ==
  /\ queue = << >>
  /\ out = << >>

\* The next n messages of the stream: those after everything put so far.
Fresh(n) == [j \in 1..n |-> Len(out) + Len(queue) + j - 1]

Put(n) ==
  /\ Len(queue) + n <= Capacity
  /\ queue' = queue \o Fresh(n)
  /\ UNCHANGED out

Take(n) ==
  /\ out' = out \o SubSeq(queue, 1, n)
  /\ queue' = SubSeq(queue, n + 1, Len(queue))

Next ==
  \/ \E n \in 1..Capacity : Put(n)
  \/ \E n \in 1..Len(queue) : Take(n)

Spec == Init /\ [][Next]_fifoVars
=============================================================================
