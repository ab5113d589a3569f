------------------------------ MODULE MoldLink ------------------------------
(***************************************************************************)
(* A MoldUDP64 publisher, a multicast network and the sequencer.  The      *)
(* network may lose, delay, repeat and reorder any datagram.  What else    *)
(* can happen is the weather, chosen once: whether the sender paces        *)
(* heartbeats, whether datagrams arrive clipped, whether a retransmission  *)
(* server repeats runs of messages under packet boundaries of its own, and *)
(* how often the sender is started again under a new session.              *)
(***************************************************************************)
EXTENDS Sequencer, Publisher

CONSTANT Weathers  \* the weathers to explore

ASSUME WeatherAssumption ==
  Weathers \subseteq [heartbeats : BOOLEAN, clipping : BOOLEAN, retransmits : BOOLEAN,
                      starts : Nat \ {0},  \* times the sender is started
                      messages : Nat]      \* bound: messages of one session

\* A header can carry everything the sender puts in one.
ASSUME AlphabetAssumption ==
  /\ \A w \in Weathers : 1..w.starts \subseteq Sessions /\ 1..(w.messages + 1) \subseteq Numbers
  /\ {c \in 1..PerPacket : c < EndOfSession} \subseteq Counts

VARIABLES
  weather,
  arrived,  \* history: <<session, number>> of every message that arrived
  past      \* history: those delivered before the current session began

linkVars == <<vars, pubVars, weather, arrived, past>>

LinkInit ==
  /\ Init /\ PubInit
  /\ weather \in Weathers
  /\ arrived = {} /\ past = {}

Delivered == {<<session, c.first>> : c \in {log[i] : i \in {j \in 1..Len(log) : log[j].kind = "msg"}}}
Lost == {<<session, n>> : n \in UNION {log[i].first..(CallEnd(log[i]) - 1) :
                                         i \in {j \in 1..Len(log) : log[j].kind = "gap"}}}

-----------------------------------------------------------------------------
(* The sender.                                                             *)

Send ==
  /\ \/ sequence + count <= weather.messages /\ Add
     \/ FlushPacket
     \/ weather.heartbeats /\ SendHeartbeat
     \/ SendEndOfSession
     \/ pubSession < weather.starts /\ Reopen
  /\ UNCHANGED vars /\ UNCHANGED <<weather, arrived, past>>

-----------------------------------------------------------------------------
(* The network and the receiver.                                           *)

\* Any run of messages of the open session that have left the sender.
Retransmission ==
  {p \in [session : {pubSession}, sequence : 1..sequence, count : Counts,
          blocks : Counts] :
     p.blocks = p.count /\ p.sequence + p.count <= sequence}

Sent == net \union (IF weather.retransmits THEN Retransmission ELSE {})

\* A datagram as it arrives: whole, or with its last blocks cut off.
Arriving(d) ==
  {d} \union (IF weather.clipping /\ d.blocks > 0
                THEN {[d EXCEPT !.blocks = b] : b \in 0..(d.blocks - 1)} ELSE {})

Receive ==
  \E d \in Sent : \E p \in Arriving(d) :
    /\ OnPacket(p)
    /\ arrived' = arrived \union {<<p.session, n>> : n \in p.sequence..(p.sequence + p.blocks - 1)}
    /\ past' = IF p.session = session THEN past ELSE past \union Delivered
    /\ UNCHANGED <<pubVars, weather>>

\* A loop of the sequencer takes a step.
Work ==
  /\ Drain \/ StartFlush \/ Flush
  /\ UNCHANGED <<pubVars, weather, arrived, past>>

LinkNext == Send \/ Receive \/ Work

LinkSpec == LinkInit /\ [][LinkNext]_linkVars

-----------------------------------------------------------------------------
(* Properties.                                                             *)

\* The receiver is never ahead of the sender: no number that was not sent is
\* delivered, expected or declared lost (sequencer.hpp:30).  Clipped datagrams
\* are the exception: deliver() counts blocks in front of expected_ as missing
\* when a clipped packet overlaps what was delivered.
NeverAhead ==
  /\ session = pubSession /\ ~weather.clipping => expected <= sequence
  /\ Delivered \subseteq arrived

\* Once the receiver has flushed, everything that arrived after the first
\* packet has been handed over or declared lost: nothing is left behind in the
\* buffer (sequencer.hpp:143).  Two exceptions: a sender started again, where
\* the log starts over when a straggler flips the session back, and a packet
\* clipped or retransmitted under other boundaries, where the longer packet of
\* two with one sequence number is dropped when the shorter is held
\* (sequencer.hpp:193).
Accounted ==
  loop = "closed" /\ weather.starts = 1 /\ ~weather.clipping /\ ~weather.retransmits =>
    \A m \in arrived : m[1] = session /\ log /= << >> /\ m[2] >= log[1].first
                         => m \in Delivered \union Lost

\* What the receiver knows is neither more nor less than what was sent to it,
\* and no packet of the sender reads as another kind of packet
\* (publisher.hpp:60).
AllAccountedFor == NeverAhead /\ Accounted /\ Unambiguous

\* No message is applied twice, in this session or across sessions
\* (sequencer.hpp:16, "Applying it twice double-counts every execution"),
\* as long as no straggler of an earlier session can arrive.
AppliedOnce ==
  /\ weather.starts = 1 => Delivered \intersect past = {}
  /\ \A i, j \in 1..Len(log) :
       log[i].kind = "msg" /\ log[j].kind = "msg" /\ i /= j => log[i].first /= log[j].first

\* A number declared lost has not arrived: what is reported is the exact range
\* of what is missing (sequencer.hpp:30, "reports the exact range of missing
\* sequence numbers").
Exactly == session' = session => (Lost' \ Lost) \intersect arrived = {}
ExactGaps == [][Exactly]_linkVars

\* The same for a feed without heartbeats, clipping, retransmissions and
\* restarts, each of which breaks it: see the README.
IsPlain == ~weather.heartbeats /\ ~weather.clipping /\ ~weather.retransmits /\ weather.starts = 1
PlainExactGaps == [][IsPlain => Exactly]_linkVars

\* A stream that ended cannot finish looking clean when its tail is missing: a
\* receiver that saw the end of the session and flushed has delivered or
\* reported every message in front of it (sequencer.hpp:143, "a gap that is
\* still open at end-of-day is still a gap").
TailReported ==
  loop = "closed" /\ ended =>
    \A d \in net : d.session = session /\ d.count = EndOfSession => d.sequence <= expected
=============================================================================
