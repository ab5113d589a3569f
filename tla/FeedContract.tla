---------------------------- MODULE FeedContract ----------------------------
(***************************************************************************)
(* What a sequenced feed promises its handler, with no packets, no reorder *)
(* buffer and no patience: within one session the sequence numbers come    *)
(* out in order, each exactly once, as a message or inside one declared    *)
(* gap; a new session starts a new sequence space.                         *)
(***************************************************************************)
EXTENDS Naturals, Sequences

CONSTANT NoSession  \* before the first packet

VARIABLES session,  \* the session the feed is in
          next,     \* the next sequence number the handler will hear about
          log       \* what it has heard of the current session

contractVars == <<session, next, log>>

Msg(n) == [kind |-> "msg", first |-> n, count |-> 1]
Gap(n, k) == [kind |-> "gap", first |-> n, count |-> k]

\* The calls for got messages from n on, and for missed lost ones after them.
Messages(n, got) == [i \in 1..got |-> Msg(n + i - 1)]
Losses(n, missed) == IF missed = 0 THEN << >> ELSE <<Gap(n, missed)>>

Init == session = NoSession /\ next = 0 /\ log = << >>

StartSession == session' /= session /\ log' = << >> /\ next' \in Nat

Advance ==
  /\ session' = session
  /\ \E got \in 0..Len(log') :
       \E missed \in 0..(next' - next) :
         /\ next' = next + got + missed
         /\ log' = log \o Messages(next, got) \o Losses(next + got, missed)

\* The first packet of a session starts it and is already reported.
StartAndAdvance ==
  /\ session' /= session
  /\ \E got \in 0..Len(log') :
       \E missed \in 0..next' :
         /\ next' >= got + missed
         /\ LET n == next' - got - missed
            IN  log' = Messages(n, got) \o Losses(n + got, missed)

Next == StartSession \/ Advance \/ StartAndAdvance

Spec == Init /\ [][Next]_contractVars
=============================================================================
