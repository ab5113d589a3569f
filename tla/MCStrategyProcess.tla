-------------------------- MODULE MCStrategyProcess --------------------------
(***************************************************************************)
(* StrategyProcess for TLC: two tapes of two symbols.  Locate 1 is ours.   *)
(***************************************************************************)
EXTENDS StrategyProcess

Directory(locate) == [type |-> "R", locate |-> locate, ref |-> 0, shares |-> 0]
Add(ref, locate, side, price, shares) ==
  [type |-> "A", ref |-> ref, locate |-> locate, side |-> side, price |-> price,
   shares |-> shares]
End == [type |-> "end"]

\* A book that is made, crossed for a while, and uncrossed.
Crossed == <<Directory(1), Add(1, 1, "buy", 7, 2), Add(2, 1, "sell", 6, 1),
             Message("E", 1, 1), Message("D", 2, 0), End>>

\* The other symbol speaks first, and ours is offered before it is bid for.
Foreign == <<Add(1, 2, "buy", 9, 1), Add(2, 1, "sell", 8, 1), Add(3, 1, "buy", 6, 1), End>>

Scenario(messages, delay, max, shares, faulty) ==
  [tape |-> messages, ackDelay |-> delay, maxOrders |-> max, quoteShares |-> shares,
   maxFaults |-> faulty]

\* One order of two shares, with a fault or without, or two orders of one.
MCScenarios ==
  {Scenario(Crossed, 0, 1, 2, 0), Scenario(Crossed, 2, 1, 2, 1), Scenario(Foreign, 2, 1, 2, 0),
   Scenario(Foreign, 0, 1, 2, 1), Scenario(Foreign, 2, 2, 1, 0)}
=============================================================================
