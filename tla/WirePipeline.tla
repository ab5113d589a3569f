---------------------------- MODULE WirePipeline ----------------------------
(***************************************************************************)
(* tools/wire_to_book.cpp: a receiver thread feeds datagrams to the        *)
(* sequencer, whose calls it stages into ring slots and publishes once per *)
(* packet, and a book thread applies the slots.  The room checked for one  *)
(* packet is all that packet may stage, though closing a reorder gap can   *)
(* release far more; what does not fit becomes a debt, and a marker that   *)
(* carries the debt must be staged before anything else is.                *)
(*                                                                         *)
(* The sequencer is what MoldProofs shows it to be, an ordered feed        *)
(* with declared gaps: within a feed or a flush it may hand over any next  *)
(* message or gap.  The ring is the queue SpscRing implements, with the    *)
(* producer's stale copy of tail_ kept because wire_to_book publishes      *)
(* against more than one kind of room.  A session is one run of numbers.   *)
(***************************************************************************)
EXTENDS Naturals, Sequences

CONSTANTS
  Capacity,     \* slots in the ring
  Word,         \* 2^64 in the code: the modulus of size_t arithmetic
  MaxPacket,    \* most messages a header promises
  MaxSequence,  \* bound: the sequence numbers of the run
  BookMayDie    \* the book thread can stop for good (wire_to_book.cpp:707)

ASSUME CapacityAssumption == Capacity \in Nat /\ Capacity >= 2
ASSUME WordAssumption == Word \in Nat /\ Word > 2 * Capacity
ASSUME StreamAssumption ==
  MaxPacket \in Nat \ {0} /\ MaxSequence \in Nat /\ BookMayDie \in BOOLEAN

VARIABLES
  expected,    \* the sequencer's next number
  receiver,    \* "poll", "feed", "flush", "pay" or "done"
  budget,      \* slots this delivery may use
  staged,      \* slots it has written, not yet published
  owed,        \* missing messages the book has not been told about
  head,        \* slots published
  tail,        \* slots given back
  cachedTail,  \* the producer's stale copy of tail
  queue,       \* the published slots not given back
  book,        \* "poll", "empty", "walk", "ended" or "dead"
  ready,       \* slots in the batch the book thread is walking
  walked,      \* of which it has done
  applied      \* history: every slot it has done, in order

receiverVars == <<expected, receiver, budget, staged, owed, cachedTail>>
bookVars == <<book, ready, walked, applied>>
vars == <<receiverVars, head, tail, queue, bookVars>>

\* A slot is a message or a gap marker.  The code's marker holds its count
\* only; where the hole starts is history.
Msg(n) == [kind |-> "msg", first |-> n, count |-> 1]
Gap(n, k) == [kind |-> "gap", first |-> n, count |-> k]

Minus(a, b) == IF a >= b THEN a - b ELSE a + Word - b
FreeSlots(copy) == Minus(Capacity, Minus(head, copy))

Init ==
  /\ expected = 1 /\ receiver = "poll"
  /\ budget = 0 /\ staged = << >> /\ owed = 0
  /\ head = 0 /\ tail = 0 /\ cachedTail = 0 /\ queue = << >>
  /\ book = "poll" /\ ready = 0 /\ walked = 0 /\ applied = << >>

-----------------------------------------------------------------------------
(* The receiver's handler, ToRing.                                         *)

Settled(stage, debt) == debt = 0 \/ Len(stage) < budget

\* Mutant, and what --break-gap-markers restores: a marker with no room for it
\* is thrown away.
AfterSettleDiscards(stage, debt, hole) ==
  IF debt > 0 /\ Len(stage) < budget
    THEN [staged |-> Append(stage, Gap(hole, debt)), owed |-> 0]
    ELSE [staged |-> stage, owed |-> 0]

\* settle(): the marker for a debt, when there is room for it.
AfterSettle(stage, debt, hole) ==
  IF debt > 0 /\ Len(stage) < budget
    THEN [staged |-> Append(stage, Gap(hole, debt)), owed |-> 0]
    ELSE [staged |-> stage, owed |-> debt]

Delivering == receiver \in {"feed", "flush"}

\* on_message(): staged behind the marker for whatever is owed, or refused
\* and owed.
OnMessage ==
  /\ Delivering /\ expected <= MaxSequence
  /\ expected' = expected + 1
  /\ LET s == AfterSettle(staged, owed, expected - owed)
     IN  IF Settled(staged, owed) /\ Len(s.staged) < budget
           THEN staged' = Append(s.staged, Msg(expected)) /\ owed' = 0
           ELSE staged' = s.staged /\ owed' = s.owed + 1
  /\ UNCHANGED <<receiver, budget, cachedTail, head, tail, queue, bookVars>>

\* A message no slot can hold is a hole, announced like any other.
OnOversize ==
  /\ Delivering /\ expected <= MaxSequence
  /\ expected' = expected + 1
  /\ owed' = owed + 1
  /\ UNCHANGED <<receiver, budget, staged, cachedTail, head, tail, queue, bookVars>>

\* Mutant: a declared gap is counted and not owed.
OnGapUncounted ==
  /\ Delivering
  /\ \E count \in 1..MaxSequence :
       /\ expected + count <= MaxSequence + 1
       /\ expected' = expected + count
  /\ UNCHANGED <<receiver, budget, staged, owed, cachedTail, head, tail, queue, bookVars>>

OnGap ==
  /\ Delivering
  /\ \E count \in 1..MaxSequence :
       /\ expected + count <= MaxSequence + 1
       /\ expected' = expected + count
       /\ LET s == AfterSettle(staged, owed + count, expected - owed)
          IN  staged' = s.staged /\ owed' = s.owed
  /\ UNCHANGED <<receiver, budget, cachedTail, head, tail, queue, bookVars>>

-----------------------------------------------------------------------------
(* The receiver's loop.                                                    *)

\* free_slots(need): writable() when that is enough, writable_exact() if not.
Refreshed == IF FreeSlots(cachedTail) = 0 THEN tail ELSE cachedTail
CopyFor(need) == IF FreeSlots(Refreshed) >= need THEN Refreshed ELSE tail

\* A packet that promises need messages: refused whole when the ring has no
\* room for it, and then the sequencer never sees it.
Packet ==
  /\ receiver = "poll"
  /\ \E need \in 1..MaxPacket :
       /\ cachedTail' = CopyFor(need)
       /\ IF FreeSlots(cachedTail') < need
            THEN UNCHANGED <<receiver, budget, staged>>
            ELSE /\ receiver' = "feed"
                 /\ budget' = FreeSlots(cachedTail')
                 /\ staged' = << >>
  /\ UNCHANGED <<expected, owed, head, tail, queue, bookVars>>

Publish(slots) ==
  /\ head' = head + Len(slots)
  /\ queue' = queue \o slots

EndFeed ==
  /\ receiver = "feed"
  /\ Publish(staged)
  /\ receiver' = "poll"
  /\ staged' = << >>
  /\ UNCHANGED <<expected, budget, owed, cachedTail, tail, bookVars>>

\* End of session, timeout or socket error: one exit, and its budget is not a
\* figure writable() issued.
StartFlush ==
  /\ receiver = "poll"
  /\ receiver' = "flush"
  /\ budget' = Capacity - Minus(head, tail)
  /\ staged' = << >>
  /\ UNCHANGED <<expected, owed, cachedTail, head, tail, queue, bookVars>>

EndFlush ==
  /\ receiver = "flush"
  /\ Publish(staged)
  /\ receiver' = IF owed = 0 THEN "done" ELSE "pay"
  /\ staged' = << >>
  /\ UNCHANGED <<expected, budget, owed, cachedTail, tail, bookVars>>

\* The debt is paid before the stream ends: one slot, from an exact figure.
PayDebt ==
  /\ receiver = "pay"
  /\ cachedTail' = tail
  /\ FreeSlots(tail) > 0
  /\ budget' = FreeSlots(tail)
  /\ Publish(<<Gap(expected - owed, owed)>>)
  /\ owed' = 0
  /\ receiver' = "done"
  /\ UNCHANGED <<expected, staged, tail, bookVars>>

\* Mutant: no deadline on the wait for a slot.
GiveUpNever ==
  /\ receiver = "pay" /\ book = "ended"
  /\ receiver' = "done"
  /\ UNCHANGED <<expected, budget, staged, owed, cachedTail, head, tail, queue, bookVars>>

\* The five seconds run out, which a book thread that drains does not allow.
GiveUp ==
  /\ receiver = "pay" /\ book = "dead"
  /\ receiver' = "done"
  /\ UNCHANGED <<expected, budget, staged, owed, cachedTail, head, tail, queue, bookVars>>

-----------------------------------------------------------------------------
(* The book thread.                                                        *)

Poll ==
  /\ book = "poll"
  /\ IF queue = << >>
       THEN book' = "empty" /\ UNCHANGED ready
       ELSE book' = "walk" /\ ready' \in 1..Len(queue)
  /\ walked' = 0
  /\ UNCHANGED <<receiverVars, head, tail, queue, applied>>

\* done is looked at after an empty poll, and the ring once more after done.
CheckDone ==
  /\ book = "empty"
  /\ book' = IF receiver = "done" /\ queue = << >> THEN "ended" ELSE "poll"
  /\ UNCHANGED <<receiverVars, head, tail, queue, ready, walked, applied>>

Apply ==
  /\ book = "walk" /\ walked < ready
  /\ applied' = Append(applied, queue[walked + 1])
  /\ walked' = walked + 1
  /\ UNCHANGED <<receiverVars, head, tail, queue, book, ready>>

Consume ==
  /\ book = "walk" /\ walked = ready
  /\ tail' = tail + ready
  /\ queue' = SubSeq(queue, ready + 1, Len(queue))
  /\ book' = "poll"
  /\ walked' = 0
  /\ UNCHANGED <<receiverVars, head, ready, applied>>

Die ==
  /\ BookMayDie /\ book \notin {"ended", "dead"}
  /\ book' = "dead"
  /\ UNCHANGED <<receiverVars, head, tail, queue, ready, walked, applied>>

Receiver ==
  \/ OnMessage \/ OnOversize \/ OnGap
  \/ Packet \/ EndFeed \/ StartFlush \/ EndFlush \/ PayDebt \/ GiveUp
Book == Poll \/ CheckDone \/ Apply \/ Consume

Next == Receiver \/ Book \/ Die

Spec == Init /\ [][Next]_vars

\* Both threads keep running; the stream stops at some point, because the
\* socket has a receive timeout (wire_to_book.cpp:627).
Fairness ==
  /\ WF_vars(EndFeed) /\ WF_vars(EndFlush) /\ WF_vars(PayDebt) /\ WF_vars(GiveUp)
  /\ SF_vars(StartFlush)
  /\ WF_vars(Book)

FairSpec == Spec /\ Fairness

-----------------------------------------------------------------------------
(* Properties.                                                             *)

Call == [kind : {"msg", "gap"}, first : Nat, count : Nat \ {0}]
CallEnd(c) == c.first + c.count

TypeOK ==
  /\ expected \in Nat /\ owed \in Nat /\ budget \in 0..Capacity
  /\ receiver \in {"poll", "feed", "flush", "pay", "done"}
  /\ book \in {"poll", "empty", "walk", "ended", "dead"}
  /\ staged \in Seq(Call) /\ queue \in Seq(Call) /\ applied \in Seq(Call)
  /\ head \in Nat /\ tail \in Nat /\ cachedTail \in Nat
  /\ ready \in 0..Capacity /\ walked \in 0..Capacity

\* A hole always has a marker in front of it: along what the book has done,
\* the ring and the staged slots, each slot starts where the one before it
\* ended, and what is missing at the end is exactly what is owed
\* (wire_to_book.cpp:312).
Stream == applied \o SubSeq(queue, walked + 1, Len(queue)) \o staged
MarkedHoles ==
  /\ \A i \in 1..Len(Stream) :
       Stream[i].first = IF i = 1 THEN 1 ELSE CallEnd(Stream[i - 1])
  /\ expected = owed + (IF Stream = << >> THEN 1 ELSE CallEnd(Stream[Len(Stream)]))

\* Staging never reaches a slot the book thread has not given back, and the
\* producer's view of the consumer is one writable() can subtract from
\* whenever it is called (wire_to_book.cpp:344 and :586).
RoomIsReal ==
  /\ head - tail = Len(queue)
  /\ Len(queue) + Len(staged) <= Capacity
  /\ Delivering => Len(queue) + budget <= Capacity
  /\ receiver \in {"poll", "feed"} => head - cachedTail <= Capacity

\* When both threads have finished, the book has been told of every number of
\* the stream, as a message or inside a marker (wire_to_book.cpp:700).
ToldAll ==
  book = "ended" =>
    /\ owed = 0
    /\ expected = IF applied = << >> THEN 1 ELSE CallEnd(applied[Len(applied)])

\* No hole goes by in silence: not one a marker had no room for, not one made
\* by staging over an unread slot, and not the last (ToRing, free_slots and
\* the shutdown of the receiver).
NoSilentHole == MarkedHoles /\ RoomIsReal /\ ToldAll

\* The book thread sees the ordered feed the sequencer promises its handler.
Position == IF applied = << >> THEN 0 ELSE CallEnd(applied[Len(applied)])
Contract == INSTANCE FeedContract
  WITH NoSession <- 0, session <- IF applied = << >> THEN 0 ELSE 1,
       next <- Position, log <- applied
ContractSpec == Contract!Spec

\* A full ring delays the last marker and never deadlocks the shutdown; a
\* book thread that died is reported, not waited for (wire_to_book.cpp:705).
Terminates == <>(receiver = "done") /\ <>(book \in {"ended", "dead"})
=============================================================================
