------------------------------ MODULE SpscRing ------------------------------
(***************************************************************************)
(* pipe/spsc_ring.hpp: a ring of Capacity slots between one producer       *)
(* thread and one consumer thread, with two counting indices, two stale    *)
(* copies of them, and a release/acquire pair in each direction.           *)
(*                                                                         *)
(* The memory model is what the header's comments argue about, so it is    *)
(* explicit: a slot the producer writes goes to its store buffer and       *)
(* reaches memory at any later time, in any order; a release store of      *)
(* head_ takes effect only after every buffered slot has landed.  The      *)
(* consumer's mirror image is that tail_ is released only after the reads  *)
(* of the slots it gives back.                                             *)
(*                                                                         *)
(* The producer's i-th message is the number i.  The counters are 64 bits  *)
(* wide and do not wrap in a run (spsc_ring.hpp:50); the differences the   *)
(* code takes of them are unsigned and do, which is what Minus models.     *)
(***************************************************************************)
EXTENDS Naturals, Sequences

CONSTANTS
  Capacity,     \* slots in the ring
  Word,         \* 2^64 in the code: the modulus of size_t arithmetic
  MaxMessages,  \* bound: messages the producer has to send
  Empty         \* what a slot holds before it is first written

ASSUME CapacityAssumption == Capacity \in Nat /\ Capacity >= 2
ASSUME WordAssumption == Word \in Nat /\ Word > 2 * Capacity
ASSUME MaxMessagesAssumption == MaxMessages \in Nat
ASSUME EmptyAssumption == Empty \notin Nat

VARIABLES
  head,        \* head_: messages published
  tail,        \* tail_: messages consumed
  cachedTail,  \* cached_tail_: the producer's stale copy of tail_
  cachedHead,  \* cached_head_: the consumer's stale copy of head_
  slots,       \* slots_ as memory holds them
  stores,      \* message numbers whose slot write is still in the store buffer
  offered,     \* what the last writable() or writable_exact() returned
  staged,      \* slots of the current batch the producer has written
  ready,       \* what the last readable() returned
  seen,        \* the messages the consumer has read since then
  out          \* history: every message consumed, in order

producerVars == <<head, cachedTail, offered, staged>>
consumerVars == <<tail, cachedHead, ready, seen, out>>
vars == <<head, tail, cachedTail, cachedHead, slots, stores,
          offered, staged, ready, seen, out>>

SlotOf(i) == i % Capacity

\* a - b in size_t.
Minus(a, b) == IF a >= b THEN a - b ELSE a + Word - b

FreeSlots(cached) == Minus(Capacity, Minus(head, cached))

Init ==
  /\ head = 0 /\ tail = 0 /\ cachedTail = 0 /\ cachedHead = 0
  /\ slots = [k \in 0..(Capacity - 1) |-> Empty]
  /\ stores = {}
  /\ offered = 0 /\ staged = 0
  /\ ready = 0 /\ seen = << >> /\ out = << >>

-----------------------------------------------------------------------------
(* The producer.                                                           *)

\* writable(): the cached answer unless it is "none", then one acquire load.
Writable ==
  /\ staged = 0
  /\ cachedTail' = IF FreeSlots(cachedTail) = 0 THEN tail ELSE cachedTail
  /\ offered' = FreeSlots(cachedTail')
  /\ UNCHANGED <<head, staged, slots, stores>> /\ UNCHANGED consumerVars

\* writable_exact(): always the acquire load, and the cache keeps it.
WritableExact ==
  /\ staged = 0
  /\ cachedTail' = tail
  /\ offered' = FreeSlots(cachedTail')
  /\ UNCHANGED <<head, staged, slots, stores>> /\ UNCHANGED consumerVars

\* write_slot(staged): the write enters the store buffer.
WriteSlot ==
  /\ staged < offered
  /\ head + staged < MaxMessages
  /\ stores' = stores \union {head + staged}
  /\ staged' = staged + 1
  /\ UNCHANGED <<head, cachedTail, offered, slots>> /\ UNCHANGED consumerVars

\* The memory system: one buffered slot write reaches memory.
StoreLands ==
  /\ \E i \in stores :
       /\ slots' = [slots EXCEPT ![SlotOf(i)] = i]
       /\ stores' = stores \ {i}
  /\ UNCHANGED producerVars /\ UNCHANGED consumerVars

\* Mutant: a relaxed store of head_, which overtakes the slot writes.
PublishRelaxed ==
  /\ staged > 0
  /\ head' = head + staged
  /\ staged' = 0 /\ offered' = 0
  /\ UNCHANGED <<cachedTail, slots, stores>> /\ UNCHANGED consumerVars

\* publish(staged): the release store of head_.
Publish ==
  /\ staged > 0
  /\ stores = {}
  /\ head' = head + staged
  /\ staged' = 0 /\ offered' = 0
  /\ UNCHANGED <<cachedTail, slots, stores>> /\ UNCHANGED consumerVars

-----------------------------------------------------------------------------
(* The consumer.                                                           *)

\* Mutant: the cached answer, never refreshed.
ReadableStale ==
  /\ seen = << >>
  /\ ready' = Minus(cachedHead, tail)
  /\ UNCHANGED <<tail, cachedHead, seen, out, slots, stores>> /\ UNCHANGED producerVars

\* readable(): the cached answer unless it is "none", then one acquire load.
Readable ==
  /\ seen = << >>
  /\ cachedHead' = IF Minus(cachedHead, tail) = 0 THEN head ELSE cachedHead
  /\ ready' = Minus(cachedHead', tail)
  /\ UNCHANGED <<tail, seen, out, slots, stores>> /\ UNCHANGED producerVars

\* read_slot(n) for the next n of the batch.
ReadSlot ==
  /\ Len(seen) < ready
  /\ seen' = Append(seen, slots[SlotOf(tail + Len(seen))])
  /\ UNCHANGED <<tail, cachedHead, ready, out, slots, stores>>
  /\ UNCHANGED producerVars

\* Mutant: the whole batch is given back after the first reads of it.
ConsumeEarly ==
  /\ seen /= << >>
  /\ tail' = tail + ready
  /\ out' = out \o seen
  /\ ready' = 0 /\ seen' = << >>
  /\ UNCHANGED <<cachedHead, slots, stores>> /\ UNCHANGED producerVars

\* Mutant: one slot too many is given back.
ConsumeOneTooMany ==
  /\ seen /= << >>
  /\ tail' = tail + Len(seen) + 1
  /\ out' = out \o seen
  /\ ready' = 0 /\ seen' = << >>
  /\ UNCHANGED <<cachedHead, slots, stores>> /\ UNCHANGED producerVars

\* consume(n) of the n slots read: the release store of tail_.
Consume ==
  /\ seen /= << >>
  /\ tail' = tail + Len(seen)
  /\ out' = out \o seen
  /\ ready' = 0 /\ seen' = << >>
  /\ UNCHANGED <<cachedHead, slots, stores>> /\ UNCHANGED producerVars

Next ==
  \/ Writable \/ WritableExact \/ WriteSlot \/ StoreLands \/ Publish
  \/ Readable \/ ReadSlot \/ Consume

Spec == Init /\ [][Next]_vars

\* The consumer polls and drains for ever (reader_thread.hpp:230,
\* wire_to_book.cpp:774), the producer finishes a batch it has begun and polls
\* for room (reader_thread.hpp:144), and a store buffer drains.
Fairness ==
  /\ WF_vars(Readable) /\ WF_vars(ReadSlot) /\ WF_vars(Consume)
  /\ WF_vars(Writable) /\ WF_vars(Publish) /\ WF_vars(StoreLands)

FairSpec == Spec /\ Fairness

-----------------------------------------------------------------------------
(* Properties.                                                             *)

TypeOK ==
  /\ head \in Nat /\ tail \in Nat /\ cachedTail \in Nat /\ cachedHead \in Nat
  /\ slots \in [0..(Capacity - 1) -> Nat \union {Empty}]
  /\ stores \in SUBSET Nat
  /\ offered \in 0..Capacity /\ staged \in 0..Capacity
  /\ ready \in 0..Capacity
  /\ seen \in Seq(Nat \union {Empty})
  /\ out \in Seq(Nat \union {Empty})

\* Counters: each stale copy is behind the truth, the ring never holds more
\* than Capacity, and what writable() and readable() return is a lower bound
\* on what the other thread would confirm (spsc_ring.hpp:96 and :203).
LowerBounds ==
  /\ cachedTail <= tail /\ tail <= cachedHead /\ cachedHead <= head
  /\ head - tail <= Capacity
  /\ offered <= Capacity - (head - tail)
  /\ ready <= head - tail

\* A slot the consumer may still read holds the message published in it: the
\* producer has not lapped it, in memory or in its store buffer.
UnreadIntact ==
  /\ \A i \in tail..(head - 1) : slots[SlotOf(i)] = i
  /\ \A i \in stores : \A j \in tail..(head - 1) : SlotOf(i) /= SlotOf(j)

\* What comes out is what went in: no message is lost, duplicated, reordered
\* or read before it was written.
InOrder ==
  /\ Len(out) = tail
  /\ \A k \in 1..Len(out) : out[k] = k - 1
  /\ \A k \in 1..Len(seen) : seen[k] = tail + k - 1

\* The ring implements the bounded queue.
Fifo == INSTANCE BoundedFifo
          WITH queue <- [k \in 1..(head - tail) |-> slots[SlotOf(tail + k - 1)]]

FifoSpec == Fifo!Spec

\* Nothing published is stranded behind a stale copy of head_, and a producer
\* that found the ring full is not stranded behind a stale copy of tail_.
NoStarvation ==
  /\ \A i \in 1..MaxMessages : (head >= i) ~> (Len(out) >= i)
  /\ (head - tail = Capacity /\ staged = 0) ~> (offered > 0)
=============================================================================
