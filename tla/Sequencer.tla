----------------------------- MODULE Sequencer -----------------------------
(***************************************************************************)
(* mold/sequencer.hpp: turns datagrams that may be lost, early, repeated,  *)
(* overlapping or clipped into one ordered stream of messages and declared *)
(* gaps.  on_packet() classifies a datagram and acts on it; drain() is a   *)
(* loop that hands over what the reorder buffer now allows, one iteration  *)
(* per step here, and flush() repeats "declare, drain" until the buffer is *)
(* empty.  No packet is accepted while a loop runs.                        *)
(*                                                                         *)
(* Every counter of SequencerStats is a function of what the log and the   *)
(* steps show and is left out.                                             *)
(*                                                                         *)
(* A block holds a message: none is empty.  deliver() counts the number of *)
(* an empty block and calls nobody for it (sequencer.hpp:170), so for a    *)
(* sender that frames empty blocks a "msg" entry of the log reads "the     *)
(* number has been handed over", and not "the handler has been called".   *)
(***************************************************************************)
EXTENDS Naturals, Sequences, FiniteSets, MoldPacket

CONSTANTS
  Sessions,      \* session names
  NoSession,     \* the name before the first packet: started_ is false
  Numbers,       \* sequence numbers a header may carry
  Counts,        \* message counts a header may carry
  Depth,         \* cfg.reorder_depth
  Patience       \* cfg.reorder_patience

ASSUME SessionAssumption == NoSession \notin Sessions
ASSUME HeaderAssumption ==
  /\ Numbers \subseteq Nat /\ Counts \subseteq Nat
  /\ EndOfSession \notin Counts
ASSUME PolicyAssumption == Depth \in Nat \ {0} /\ Patience \in Nat

VARIABLES
  session,   \* session_, NoSession until started_
  expected,  \* expected_: the next sequence number to hand over
  buffer,    \* buffer_: early packets, at most one per sequence number
  sinceGap,  \* since_gap_: early packets since the last declared gap
  ended,     \* ended_
  loop,      \* "idle", or the loop the receiver thread is in
  log        \* history: the handler's calls for the current session

vars == <<session, expected, buffer, sinceGap, ended, loop, log>>

\* blocks: how many blocks the bytes hold, each with a message in it.
DataPacket ==
  [session : Sessions, sequence : Numbers, count : Counts,
   blocks : UNION {0..c : c \in Counts}]
ControlPacket ==
  [session : Sessions, sequence : Numbers, count : {0, EndOfSession}, blocks : {0}]
Packet == {p \in DataPacket : p.count > 0 /\ p.blocks <= p.count} \union ControlPacket

Msg(n) == [kind |-> "msg", first |-> n, count |-> 1]
Gap(n, k) == [kind |-> "gap", first |-> n, count |-> k]

Init ==
  /\ session = NoSession /\ expected = 0
  /\ buffer = {} /\ sinceGap = 0
  /\ ended = FALSE /\ loop = "idle" /\ log = << >>

-----------------------------------------------------------------------------
(* deliver() and declare_gap(), on the part of the state they change.      *)

Current == [expected |-> expected, sinceGap |-> sinceGap, log |-> log]

Become(s) ==
  /\ expected' = s.expected
  /\ sinceGap' = s.sinceGap
  /\ log' = s.log

DeclareGap(s, upTo) ==
  IF upTo <= s.expected
    THEN s
    ELSE [expected |-> upTo, sinceGap |-> 0,
          log |-> Append(s.log, Gap(s.expected, upTo - s.expected))]

\* Messages the iterator yields after the first skip, and the blocks the
\* header promised that the bytes do not hold: lost, and counted as such.
Yielded(p, skip) == IF p.blocks > skip THEN p.blocks - skip ELSE 0
Unconsumed(p) == p.count - p.blocks

\* Mutant: an overlapping retransmission is applied whole.
DeliverWhole(s, p, skip) ==
  LET missing == Unconsumed(p)
      messages == [i \in 1..p.blocks |-> Msg(p.sequence + i - 1)]
      lost == IF missing = 0 THEN << >> ELSE <<Gap(s.expected + p.blocks, missing)>>
  IN  [expected |-> s.expected + p.blocks + missing, sinceGap |-> s.sinceGap,
       log |-> s.log \o messages \o lost]

\* Mutant: the clipped blocks are reported and expected_ is left short.
DeliverShort(s, p, skip) ==
  LET got == Yielded(p, skip)
      missing == Unconsumed(p)
      messages == [i \in 1..got |-> Msg(p.sequence + skip + i - 1)]
      lost == IF missing = 0 THEN << >> ELSE <<Gap(s.expected + got, missing)>>
  IN  [expected |-> s.expected + got, sinceGap |-> s.sinceGap,
       log |-> s.log \o messages \o lost]

\* msg_len > 0 holds of every block, so each one handed over is one call.
Deliver(s, p, skip) ==
  LET got == Yielded(p, skip)
      missing == Unconsumed(p)
      messages == [i \in 1..got |-> Msg(p.sequence + skip + i - 1)]
      lost == IF missing = 0 THEN << >> ELSE <<Gap(s.expected + got, missing)>>
  IN  [expected |-> s.expected + got + missing, sinceGap |-> s.sinceGap,
       log |-> s.log \o messages \o lost]

-----------------------------------------------------------------------------
(* on_packet(p), by the kind of packet.                                    *)

\* A new session is a new sequence space: expectation and buffer start over,
\* since_gap_ does not.
AfterSession(p) ==
  IF p.session = session
    THEN Current
    ELSE [expected |-> p.sequence, sinceGap |-> sinceGap, log |-> << >>]
HeldAfterSession(p) == IF p.session = session THEN buffer ELSE {}

OnEndOfSession(p) ==
  /\ loop = "idle" /\ p.count = EndOfSession
  /\ session' = p.session
  /\ Become(AfterSession(p))
  /\ buffer' = HeldAfterSession(p)
  /\ ended' = TRUE
  /\ UNCHANGED loop

OnHeartbeat(p) ==
  /\ loop = "idle" /\ p.count = 0
  /\ session' = p.session
  /\ Become(DeclareGap(AfterSession(p), p.sequence))
  /\ buffer' = HeldAfterSession(p)
  /\ UNCHANGED <<ended, loop>>

\* At the expected number, or a retransmission that overlaps it: the tail is
\* new.  drain() follows.
OnNext(p) ==
  LET s == AfterSession(p)
  IN  /\ loop = "idle" /\ IsData(p)
      /\ p.sequence <= s.expected /\ End(p) > s.expected
      /\ session' = p.session
      /\ Become(Deliver(s, p, s.expected - p.sequence))
      /\ buffer' = HeldAfterSession(p)
      /\ loop' = "drain"
      /\ UNCHANGED ended

OnDuplicate(p) ==
  /\ loop = "idle" /\ IsData(p)
  /\ p.session = session /\ End(p) <= expected
  /\ UNCHANGED vars

\* Mutant: the last buffered packet taken for the first.
ForemostLast(held, f) == f \in held /\ \A q \in held : q.sequence <= f.sequence

Foremost(held, f) == f \in held /\ \A q \in held : f.sequence <= q.sequence

\* Mutant: the buffer is allowed to reach its depth and stay there.
OnAheadOverDepth(p) ==
  /\ loop = "idle" /\ IsData(p)
  /\ p.session = session /\ p.sequence > expected
  /\ buffer' = IF \E q \in buffer : q.sequence = p.sequence
                 THEN buffer ELSE buffer \union {p}
  /\ LET s == [Current EXCEPT !.sinceGap = @ + 1]
     IN  IF Cardinality(buffer') > Depth \/ s.sinceGap > Patience
           THEN /\ \E f \in buffer' : /\ Foremost(buffer', f)
                                      /\ Become(DeclareGap(s, f.sequence))
                /\ loop' = "drain"
           ELSE /\ Become(s)
                /\ UNCHANGED loop
  /\ UNCHANGED <<session, ended>>

\* Ahead of us: loss or reordering.  Held, until the buffer is full or has
\* waited too long; then what is missing in front of it is declared lost.
OnAhead(p) ==
  /\ loop = "idle" /\ IsData(p)
  /\ p.session = session /\ p.sequence > expected
  /\ buffer' = IF \E q \in buffer : q.sequence = p.sequence
                 THEN buffer ELSE buffer \union {p}
  /\ LET s == [Current EXCEPT !.sinceGap = @ + 1]
     IN  IF Cardinality(buffer') >= Depth \/ s.sinceGap > Patience
           THEN /\ \E f \in buffer' : /\ Foremost(buffer', f)
                                      /\ Become(DeclareGap(s, f.sequence))
                /\ loop' = "drain"
           ELSE /\ Become(s)
                /\ UNCHANGED loop
  /\ UNCHANGED <<session, ended>>

OnPacket(p) ==
  \/ OnEndOfSession(p) \/ OnHeartbeat(p)
  \/ OnNext(p) \/ OnDuplicate(p) \/ OnAhead(p)

-----------------------------------------------------------------------------
(* The loops.                                                              *)

Draining == loop \in {"drain", "flush_drain"}
AfterDrain == IF loop = "drain" THEN "idle" ELSE "flush"

\* Mutant: a superseded packet is skipped and not erased.
DrainStaleKept(f) ==
  /\ End(f) <= expected
  /\ UNCHANGED <<buffer, expected, sinceGap, log, loop>>

\* Wholly superseded while it waited.
DrainStale(f) ==
  /\ End(f) <= expected
  /\ buffer' = buffer \ {f}
  /\ UNCHANGED <<expected, sinceGap, log, loop>>

DrainDeliver(f) ==
  /\ f.sequence <= expected /\ End(f) > expected
  /\ Become(Deliver(Current, f, expected - f.sequence))
  /\ buffer' = buffer \ {f}
  /\ UNCHANGED loop

\* Still a hole in front of it: the loop ends.
DrainBlocked(f) ==
  /\ f.sequence > expected /\ End(f) > expected
  /\ loop' = AfterDrain
  /\ UNCHANGED <<expected, sinceGap, log, buffer>>

DrainEmpty ==
  /\ buffer = {}
  /\ sinceGap' = 0
  /\ loop' = AfterDrain
  /\ UNCHANGED <<expected, log, buffer>>

Drain ==
  /\ Draining
  /\ \/ DrainEmpty
     \/ \E f \in buffer :
          /\ Foremost(buffer, f)
          /\ DrainStale(f) \/ DrainDeliver(f) \/ DrainBlocked(f)
  /\ UNCHANGED <<session, ended>>

\* flush(): the receiver calls it once, when it has stopped reading.
StartFlush ==
  /\ loop = "idle"
  /\ loop' = "flush"
  /\ UNCHANGED <<session, expected, buffer, sinceGap, ended, log>>

\* Mutant: flush() declares the first hole and does not drain behind it.
FlushOnce ==
  /\ loop = "flush"
  /\ \/ /\ buffer = {}
        /\ UNCHANGED <<expected, sinceGap, log>>
     \/ /\ \E f \in buffer : /\ Foremost(buffer, f)
                             /\ Become(DeclareGap(Current, f.sequence))
  /\ loop' = "closed"
  /\ UNCHANGED <<session, buffer, ended>>

Flush ==
  /\ loop = "flush"
  /\ \/ /\ buffer = {}
        /\ loop' = "closed"
        /\ UNCHANGED <<expected, sinceGap, log>>
     \/ /\ \E f \in buffer : /\ Foremost(buffer, f)
                             /\ Become(DeclareGap(Current, f.sequence))
        /\ loop' = "flush_drain"
  /\ UNCHANGED <<session, buffer, ended>>

Next == (\E p \in Packet : OnPacket(p)) \/ Drain \/ StartFlush \/ Flush

Spec == Init /\ [][Next]_vars

\* The receiver thread runs its loops to their end.
Fairness == WF_vars(Drain) /\ WF_vars(Flush)
FairSpec == Spec /\ Fairness

-----------------------------------------------------------------------------
(* Properties.                                                             *)

Call == [kind : {"msg", "gap"}, first : Nat, count : Nat \ {0}]

TypeOK ==
  /\ session \in Sessions \union {NoSession}
  /\ expected \in Nat
  /\ buffer \subseteq Packet
  /\ sinceGap \in Nat
  /\ ended \in BOOLEAN
  /\ loop \in {"idle", "drain", "flush", "flush_drain", "closed"}
  /\ log \in Seq(Call)

\* Each handler call continues exactly where the one before it stopped, and
\* expected_ is where the last one stopped: nothing is delivered twice, out of
\* order, or silently skipped, whatever packets of messages arrive
\* (sequencer.hpp:8-18).  The number of an empty block would be passed over
\* with neither a call nor a gap.
CallEnd(c) == c.first + c.count
Contiguous ==
  /\ \A i \in 1..(Len(log) - 1) : log[i + 1].first = CallEnd(log[i])
  /\ log /= << >> => CallEnd(log[Len(log)]) = expected

\* Between packets the buffer is below its depth; it holds one packet per
\* sequence number, and only packets of the current session
\* (sequencer.hpp:46, :90, :193).
BufferBounded ==
  /\ loop = "idle" => Cardinality(buffer) < Depth
  /\ \A p, q \in buffer : p.sequence = q.sequence => p = q
  /\ \A p \in buffer : p.session = session

\* The sequencer implements the contract of an ordered feed.
Contract == INSTANCE FeedContract WITH next <- expected
ContractSpec == Contract!Spec

\* drain() and flush() come to an end: the thread goes back to its socket, and
\* a flush leaves nothing behind in the buffer (sequencer.hpp:143).
LoopsEnd ==
  /\ loop = "drain" ~> loop = "idle"
  /\ loop = "flush" ~> (loop = "closed" /\ buffer = {})
=============================================================================
