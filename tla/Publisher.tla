----------------------------- MODULE Publisher -----------------------------
(***************************************************************************)
(* mold/publisher.hpp: packs messages into datagrams under a session and a *)
(* running sequence number.  send_ hands a datagram to the network, which  *)
(* is the set of everything that ever left; what arrives, how often and in *)
(* what order is the composition's business.  Messages have one size, so   *)
(* the mtu is a number of messages, at least one (publisher.hpp:59).       *)
(***************************************************************************)
EXTENDS Naturals, MoldPacket

CONSTANT PerPacket  \* messages that fit a datagram

ASSUME PerPacketAssumption == PerPacket \in Nat \ {0}

VARIABLES
  pubSession,  \* session_, as the number of times the sender was started
  sequence,    \* sequence_: number of the first message of the open packet
  count,       \* count_: messages in the open packet
  pubEnded,    \* ended_
  net          \* every datagram sent

pubVars == <<pubSession, sequence, count, pubEnded, net>>

PubInit ==
  /\ pubSession = 1
  /\ sequence = 1 /\ count = 0 /\ pubEnded = FALSE
  /\ net = {}

Datagram(seq, n, m) ==
  [session |-> pubSession, sequence |-> seq, count |-> n, blocks |-> m]

\* What flush() sends: nothing when the packet is empty.
Flushed == IF count = 0 THEN {} ELSE {Datagram(sequence, count, count)}

Full == count = PerPacket \/ count = EndOfSession - 1

\* add(): flushes first when the message would not fit.
Add ==
  /\ IF Full
       THEN /\ net' = net \union Flushed
            /\ sequence' = sequence + count
            /\ count' = 1
       ELSE /\ count' = count + 1
            /\ UNCHANGED <<sequence, net>>
  /\ UNCHANGED <<pubSession, pubEnded>>

FlushPacket ==
  /\ count > 0
  /\ net' = net \union Flushed
  /\ sequence' = sequence + count
  /\ count' = 0
  /\ UNCHANGED <<pubSession, pubEnded>>

\* maybe_heartbeat() once its period is over: the number it carries is the
\* next one that will be sent.
SendHeartbeat ==
  /\ net' = net \union Flushed \union {Datagram(sequence + count, 0, 0)}
  /\ sequence' = sequence + count
  /\ count' = 0
  /\ UNCHANGED <<pubSession, pubEnded>>

\* end_of_session(): its callers call it once (exchange.cpp:588); nothing in
\* the class stops messages and heartbeats after it.
SendEndOfSession ==
  /\ ~pubEnded
  /\ net' = net \union Flushed \union {Datagram(sequence + count, EndOfSession, 0)}
  /\ sequence' = sequence + count
  /\ count' = 0
  /\ pubEnded' = TRUE
  /\ UNCHANGED pubSession

\* The sender's process is started again under its next session name.
Reopen ==
  /\ pubSession' = pubSession + 1
  /\ sequence' = 1 /\ count' = 0 /\ pubEnded' = FALSE
  /\ UNCHANGED net

PubTypeOK ==
  /\ pubSession \in Nat /\ sequence \in Nat \ {0} /\ count \in Nat
  /\ pubEnded \in BOOLEAN

\* No datagram can be read as something it is not: a data packet's count is
\* never the end-of-session marker, and packets of a session do not overlap
\* (publisher.hpp:60 and :94).
Unambiguous ==
  \A d \in net :
    /\ d.blocks > 0 => d.count = d.blocks /\ d.count /= EndOfSession
    /\ d.blocks > 0 /\ d.session = pubSession => d.sequence + d.count <= sequence
    /\ \A e \in net : (e /= d /\ e.session = d.session /\ d.blocks > 0 /\ e.blocks > 0)
         => e.sequence + e.count <= d.sequence \/ d.sequence + d.count <= e.sequence
=============================================================================
