--------------------------- MODULE SpscRingProofs ---------------------------
(***************************************************************************)
(* For every capacity of at least two: the ring's type invariant, its      *)
(* counter bounds, that no unread slot is overwritten, and that what the   *)
(* consumer reads is what the producer wrote, in order.                    *)
(***************************************************************************)
EXTENDS SpscRing, Integers, SequenceTheorems, TLAPS

(***************************************************************************)
(* The inductive strengthening.  The published bounds speak of the true    *)
(* tail; the code only ever compares with its stale copy, so the copy must *)
(* itself never make head - cachedTail pass Capacity, and neither may the  *)
(* batch being staged.  Window says what each message between tail and the *)
(* write cursor is: still in the store buffer, or in its slot.             *)
(***************************************************************************)
Counters ==
  /\ head - cachedTail <= Capacity
  /\ offered <= Capacity - (head - cachedTail)
  /\ staged <= offered
  /\ ready <= cachedHead - tail
  /\ Len(seen) <= ready

Window ==
  /\ \A i \in stores : head <= i /\ i < head + staged
  /\ \A i \in Nat : tail <= i /\ i < head + staged
                      => i \in stores \/ slots[SlotOf(i)] = i

IInv == TypeOK /\ LowerBounds /\ Counters /\ Window /\ InOrder

-----------------------------------------------------------------------------
\* Two messages less than a lap apart never share a slot: the reason masking
\* the counters is enough (spsc_ring.hpp:39).
LEMMA SlotsDistinct ==
  ASSUME NEW i \in Nat, NEW j \in Nat, i < j, j - i < Capacity
  PROVE  SlotOf(i) /= SlotOf(j)
<1> USE CapacityAssumption DEF SlotOf
<1> SUFFICES ASSUME i % Capacity = j % Capacity
             PROVE  FALSE
  OBVIOUS
<1> DEFINE qi == i \div Capacity
           qj == j \div Capacity
<1>1. /\ qi \in Int /\ qj \in Int
      /\ i = Capacity * qi + (i % Capacity)
      /\ j = Capacity * qj + (j % Capacity)
  BY Z3
<1> HIDE DEF qi, qj
<1>2. PICK d \in Int : d = qj - qi
  BY <1>1
<1>3. j - i = Capacity * d
  BY <1>1, <1>2, Z3
<1>4. CASE d <= 0
  BY <1>3, <1>4, Z3
<1>5. CASE d >= 1
  BY <1>3, <1>5, Z3
<1> QED BY <1>4, <1>5, <1>2

LEMMA SlotInRange ==
  ASSUME NEW i \in Nat
  PROVE  SlotOf(i) \in 0..(Capacity - 1)
BY CapacityAssumption, Z3 DEF SlotOf

-----------------------------------------------------------------------------
LEMMA InitIInv == Init => IInv
<1> USE CapacityAssumption, WordAssumption
<1> SUFFICES ASSUME Init PROVE IInv
  OBVIOUS
<1>1. TypeOK
  BY DEF Init, TypeOK
<1>2. LowerBounds /\ Counters /\ Window /\ InOrder
  BY DEF Init, LowerBounds, Counters, Window, InOrder
<1> QED BY <1>1, <1>2 DEF IInv

\* What the two availability questions answer, given the invariant: the
\* unsigned differences never wrap.
LEMMA NoUnderflow ==
  ASSUME IInv
  PROVE  /\ Minus(cachedHead, tail) = cachedHead - tail
         /\ Minus(head, tail) = head - tail
         /\ FreeSlots(cachedTail) = Capacity - (head - cachedTail)
         /\ FreeSlots(tail) = Capacity - (head - tail)
BY CapacityAssumption
   DEF IInv, TypeOK, LowerBounds, Counters, FreeSlots, Minus

LEMMA WritableKeeps == IInv /\ (Writable \/ WritableExact) => IInv'
<1> USE CapacityAssumption
<1> SUFFICES ASSUME IInv, Writable \/ WritableExact PROVE IInv'
  OBVIOUS
<1>1. /\ cachedTail' \in {tail, cachedTail}
      /\ offered' = Capacity - (head - cachedTail')
      /\ staged = 0
      /\ UNCHANGED <<head, staged, slots, stores>> /\ UNCHANGED consumerVars
  BY NoUnderflow DEF Writable, WritableExact, FreeSlots
<1>2. TypeOK' /\ LowerBounds' /\ Counters'
  BY <1>1 DEF IInv, TypeOK, LowerBounds, Counters, consumerVars
<1>3. Window' /\ InOrder'
  BY <1>1 DEF IInv, Window, InOrder, consumerVars
<1> QED BY <1>2, <1>3 DEF IInv

LEMMA WriteSlotKeeps == IInv /\ WriteSlot => IInv'
<1> USE CapacityAssumption
<1> SUFFICES ASSUME IInv, WriteSlot PROVE IInv'
  OBVIOUS
<1>1. TypeOK' /\ LowerBounds' /\ Counters'
  BY DEF IInv, TypeOK, LowerBounds, Counters, WriteSlot, consumerVars
<1>2. Window'
  BY DEF IInv, TypeOK, Window, WriteSlot, consumerVars
<1>3. InOrder'
  BY DEF IInv, InOrder, WriteSlot, consumerVars
<1> QED BY <1>1, <1>2, <1>3 DEF IInv

\* A landing slot write cannot hit a slot the consumer still reads, because
\* everything between tail and the write cursor is less than a lap.
LEMMA StoreLandsKeeps == IInv /\ StoreLands => IInv'
<1> USE CapacityAssumption
<1> SUFFICES ASSUME IInv, NEW i \in stores,
                    slots' = [slots EXCEPT ![SlotOf(i)] = i],
                    stores' = stores \ {i},
                    UNCHANGED producerVars, UNCHANGED consumerVars
             PROVE  IInv'
  BY DEF StoreLands
<1> USE DEF producerVars, consumerVars
<1>1. i \in Nat /\ tail <= i /\ i < head + staged
  BY DEF IInv, TypeOK, LowerBounds, Window
<1>2. SlotOf(i) \in 0..(Capacity - 1)
  BY <1>1, SlotInRange
<1>3. TypeOK' /\ LowerBounds' /\ Counters'
  BY <1>1 DEF IInv, TypeOK, LowerBounds, Counters
<1>4. \A k \in Nat : tail <= k /\ k < head + staged
                       => k \in stores' \/ slots'[SlotOf(k)] = k
  <2> SUFFICES ASSUME NEW k \in Nat, tail <= k, k < head + staged,
                      k \notin stores'
               PROVE  slots'[SlotOf(k)] = k
    OBVIOUS
  <2>1. CASE k = i
    BY <2>1, <1>2 DEF IInv, TypeOK
  <2>2. CASE k /= i
    <3>1. slots[SlotOf(k)] = k
      BY <2>2 DEF IInv, Window
    <3>2. head + staged - tail <= Capacity
      BY DEF IInv, TypeOK, LowerBounds, Counters
    <3>3. k < i \/ i < k
      BY <2>2, <1>1
    <3>4. SlotOf(k) /= SlotOf(i)
      BY <1>1, <3>2, <3>3, SlotsDistinct DEF IInv, TypeOK
    <3> QED BY <3>1, <3>4 DEF IInv, TypeOK
  <2> QED BY <2>1, <2>2
<1>5. Window'
  BY <1>4 DEF IInv, Window
<1>6. InOrder'
  BY DEF IInv, InOrder
<1> QED BY <1>3, <1>5, <1>6 DEF IInv

LEMMA PublishKeeps == IInv /\ Publish => IInv'
<1> USE CapacityAssumption DEF consumerVars
<1> SUFFICES ASSUME IInv, Publish PROVE IInv'
  OBVIOUS
<1>1. TypeOK' /\ LowerBounds' /\ Counters'
  BY DEF IInv, TypeOK, LowerBounds, Counters, Publish
<1>2. Window'
  BY DEF IInv, TypeOK, Window, Publish
<1>3. InOrder'
  BY DEF IInv, InOrder, Publish
<1> QED BY <1>1, <1>2, <1>3 DEF IInv

LEMMA ReadableKeeps == IInv /\ Readable => IInv'
<1> USE CapacityAssumption DEF producerVars
<1> SUFFICES ASSUME IInv, Readable PROVE IInv'
  OBVIOUS
<1>1. cachedHead' \in {head, cachedHead} /\ ready' = cachedHead' - tail
  BY NoUnderflow DEF Readable
<1>2. TypeOK' /\ LowerBounds' /\ Counters'
  BY <1>1 DEF IInv, TypeOK, LowerBounds, Counters, Readable
<1>3. Window' /\ InOrder'
  BY DEF IInv, Window, InOrder, Readable
<1> QED BY <1>2, <1>3 DEF IInv

LEMMA ReadSlotKeeps == IInv /\ ReadSlot => IInv'
<1> USE CapacityAssumption DEF producerVars
<1> SUFFICES ASSUME IInv, ReadSlot PROVE IInv'
  OBVIOUS
<1> DEFINE i == tail + Len(seen)
<1>1. /\ i \in Nat /\ tail <= i /\ i < head /\ i < head + staged
      /\ i \notin stores
  BY DEF IInv, TypeOK, LowerBounds, Counters, Window, ReadSlot
<1>2. slots[SlotOf(i)] = i
  BY <1>1 DEF IInv, Window
<1>3. seen' = Append(seen, i)
  BY <1>2 DEF ReadSlot
<1> HIDE DEF i
<1>4. TypeOK' /\ LowerBounds' /\ Counters'
  BY <1>1, <1>3 DEF IInv, TypeOK, LowerBounds, Counters, ReadSlot
<1>5. Window'
  BY DEF IInv, Window, ReadSlot
<1>6. /\ Len(seen') = Len(seen) + 1
      /\ \A k \in 1..Len(seen) : seen'[k] = seen[k]
      /\ seen'[Len(seen) + 1] = i
  BY <1>1, <1>3, AppendProperties DEF IInv, TypeOK
<1>7. \A k \in 1..Len(seen') : seen'[k] = tail + k - 1
  <2> SUFFICES ASSUME NEW k \in 1..Len(seen') PROVE seen'[k] = tail + k - 1
    OBVIOUS
  <2>1. CASE k \in 1..Len(seen)
    BY <1>6, <2>1 DEF IInv, InOrder
  <2>2. CASE k = Len(seen) + 1
    BY <1>6, <2>2 DEF i, IInv, TypeOK
  <2> QED BY <1>6, <2>1, <2>2 DEF IInv, TypeOK
<1>8. InOrder'
  BY <1>7 DEF IInv, InOrder, ReadSlot
<1> QED BY <1>4, <1>5, <1>8 DEF IInv

LEMMA ConsumeKeeps == IInv /\ Consume => IInv'
<1> USE CapacityAssumption DEF producerVars
<1> SUFFICES ASSUME IInv, Consume PROVE IInv'
  OBVIOUS
<1>1. TypeOK' /\ LowerBounds' /\ Counters'
  BY DEF IInv, TypeOK, LowerBounds, Counters, Consume
<1>2. Window'
  BY DEF IInv, TypeOK, Window, Consume
<1>3. /\ Len(out') = Len(out) + Len(seen)
      /\ \A k \in 1..Len(out) : out'[k] = out[k]
      /\ \A k \in 1..Len(seen) : out'[Len(out) + k] = seen[k]
  BY ConcatProperties DEF IInv, TypeOK, Consume
<1>4. \A k \in 1..Len(out') : out'[k] = k - 1
  <2> SUFFICES ASSUME NEW k \in 1..Len(out') PROVE out'[k] = k - 1
    OBVIOUS
  <2>1. CASE k \in 1..Len(out)
    BY <1>3, <2>1 DEF IInv, InOrder
  <2>2. CASE k > Len(out)
    <3> DEFINE m == k - Len(out)
    <3>1. m \in 1..Len(seen) /\ k = Len(out) + m
      BY <1>3, <2>2 DEF IInv, TypeOK
    <3> HIDE DEF m
    <3>2. out'[k] = seen[m]
      BY <1>3, <3>1
    <3> QED BY <3>1, <3>2 DEF IInv, TypeOK, InOrder
  <2> QED BY <2>1, <2>2 DEF IInv, TypeOK
<1>5. InOrder'
  BY <1>3, <1>4 DEF IInv, InOrder, Consume
<1> QED BY <1>1, <1>2, <1>5 DEF IInv

LEMMA NextIInv == IInv /\ [Next]_vars => IInv'
<1> SUFFICES ASSUME IInv, [Next]_vars PROVE IInv'
  OBVIOUS
<1>1. CASE Writable \/ WritableExact  BY <1>1, WritableKeeps
<1>2. CASE WriteSlot   BY <1>2, WriteSlotKeeps
<1>3. CASE StoreLands  BY <1>3, StoreLandsKeeps
<1>4. CASE Publish     BY <1>4, PublishKeeps
<1>5. CASE Readable    BY <1>5, ReadableKeeps
<1>6. CASE ReadSlot    BY <1>6, ReadSlotKeeps
<1>7. CASE Consume     BY <1>7, ConsumeKeeps
<1>8. CASE UNCHANGED vars
  BY <1>8 DEF vars, IInv, TypeOK, LowerBounds, Counters, Window, InOrder
<1> QED BY <1>1, <1>2, <1>3, <1>4, <1>5, <1>6, <1>7, <1>8 DEF Next

THEOREM RingInvariant == Spec => []IInv
<1>1. Init => IInv
  BY InitIInv
<1>2. IInv /\ [Next]_vars => IInv'
  BY NextIInv
<1> QED BY <1>1, <1>2, PTL DEF Spec

-----------------------------------------------------------------------------
\* The variables always have their types.
THEOREM RingTypeCorrect == Spec => []TypeOK
<1>1. IInv => TypeOK
  BY DEF IInv
<1> QED BY <1>1, RingInvariant, PTL

\* The stale copies are behind the truth, occupancy never passes Capacity,
\* and an availability answer is never more than the other thread confirms.
THEOREM RingLowerBounds == Spec => []LowerBounds
<1>1. IInv => LowerBounds
  BY DEF IInv
<1> QED BY <1>1, RingInvariant, PTL

\* No slot the consumer has still to read is overwritten, in memory or in the
\* producer's store buffer.
THEOREM RingUnreadIntact == Spec => []UnreadIntact
<1>1. ASSUME IInv PROVE UnreadIntact
  <2> USE <1>1
  <2>1. ASSUME NEW i \in tail..(head - 1) PROVE slots[SlotOf(i)] = i
    BY DEF IInv, TypeOK, Window
  <2>2. ASSUME NEW i \in stores, NEW j \in tail..(head - 1)
        PROVE  SlotOf(i) /= SlotOf(j)
    <3>1. i \in Nat /\ j \in Nat /\ j < i /\ i - j < Capacity
      BY CapacityAssumption
         DEF IInv, TypeOK, LowerBounds, Counters, Window
    <3> QED BY <3>1, SlotsDistinct
  <2> QED BY <2>1, <2>2 DEF UnreadIntact
<1> QED BY <1>1, RingInvariant, PTL

\* The consumer's k-th message is the producer's k-th message.
THEOREM RingInOrder == Spec => []InOrder
<1>1. IInv => InOrder
  BY DEF IInv
<1> QED BY <1>1, RingInvariant, PTL

-----------------------------------------------------------------------------
(***************************************************************************)
(* The refinement.  Given the invariant the mapped queue is the run of     *)
(* numbers tail, ..., head - 1; publish() appends to it and consume()      *)
(* removes from its front, and no other step touches it.                   *)
(***************************************************************************)
Queue == [k \in 1..(head - tail) |-> slots[SlotOf(tail + k - 1)]]
Run(a, b) == [k \in 1..(b - a) |-> a + k - 1]

LEMMA QueueIsRun == IInv => Queue = Run(tail, head)
<1> SUFFICES ASSUME IInv, NEW k \in 1..(head - tail)
             PROVE  slots[SlotOf(tail + k - 1)] = tail + k - 1
  BY DEF Queue, Run
<1>1. /\ tail + k - 1 \in Nat /\ tail <= tail + k - 1 /\ tail + k - 1 < head
      /\ tail + k - 1 < head + staged /\ tail + k - 1 \notin stores
  BY DEF IInv, TypeOK, LowerBounds, Window
<1> QED BY <1>1 DEF IInv, Window

LEMMA RunIsSeq ==
  ASSUME NEW a \in Nat, NEW b \in Nat, a <= b
  PROVE  Run(a, b) \in Seq(Nat) /\ Len(Run(a, b)) = b - a
<1>1. b - a \in Nat /\ \A k \in 1..(b - a) : a + k - 1 \in Nat
  OBVIOUS
<1> QED BY <1>1 DEF Run

\* publish(n) is Put(n).
LEMMA PublishIsPut == IInv /\ Publish => \E n \in 1..Capacity : Fifo!Put(n)
<1> SUFFICES ASSUME IInv, Publish PROVE Fifo!Put(staged) /\ staged \in 1..Capacity
  OBVIOUS
<1>1. /\ head' = head + staged /\ tail' = tail /\ out' = out
      /\ head \in Nat /\ tail \in Nat /\ tail <= head
      /\ staged \in 1..Capacity /\ head + staged - tail <= Capacity
      /\ Len(out) = tail
  BY CapacityAssumption
     DEF IInv, TypeOK, LowerBounds, Counters, InOrder, Publish, consumerVars
<1>2. Queue = Run(tail, head) /\ Queue' = Run(tail, head + staged)
  <2>1. IInv'
    BY PublishKeeps
  <2>2. (IInv => Queue = Run(tail, head))'
    BY QueueIsRun, PTL
  <2>3. Queue' = Run(tail', head')
    BY <2>1, <2>2 DEF Run
  <2> QED BY <1>1, <2>3, QueueIsRun
<1>3. Run(tail, head) \in Seq(Nat) /\ Len(Run(tail, head)) = head - tail
  BY <1>1, RunIsSeq
<1>4. Fifo!Fresh(staged) = Run(head, head + staged)
  BY <1>1, <1>2, <1>3 DEF Fifo!Fresh, Run, Queue
<1>5. /\ Run(head, head + staged) \in Seq(Nat)
      /\ Len(Run(head, head + staged)) = staged
  <2>1. /\ head + staged \in Nat /\ head <= head + staged
        /\ (head + staged) - head = staged
    BY <1>1
  <2> QED BY <1>1, <2>1, RunIsSeq
<1>6. Run(tail, head + staged) = Run(tail, head) \o Run(head, head + staged)
  BY <1>1, <1>3, <1>5 DEF Run
<1>7. Len(Queue) + staged <= Capacity
  BY <1>1, <1>2, <1>3
<1> QED BY <1>1, <1>2, <1>4, <1>6, <1>7 DEF Fifo!Put, Queue

\* consume(n) is Take(n).
LEMMA ConsumeIsTake ==
  IInv /\ Consume => \E n \in 1..Len(Queue) : Fifo!Take(n)
<1> SUFFICES ASSUME IInv, Consume
             PROVE  Fifo!Take(Len(seen)) /\ Len(seen) \in 1..Len(Queue)
  BY DEF Queue
<1> DEFINE n == Len(seen)
<1>1. /\ head' = head /\ tail' = tail + n /\ out' = out \o seen
      /\ head \in Nat /\ tail \in Nat /\ tail <= head
      /\ n \in 1..(head - tail)
      /\ seen \in Seq(Nat \union {Empty})
  BY DEF IInv, TypeOK, LowerBounds, Counters, Consume, producerVars
<1>2. Queue = Run(tail, head) /\ Queue' = Run(tail + n, head)
  <2>1. IInv'
    BY ConsumeKeeps
  <2>2. (IInv => Queue = Run(tail, head))'
    BY QueueIsRun, PTL
  <2>3. Queue' = Run(tail', head')
    BY <2>1, <2>2 DEF Run
  <2> QED BY <1>1, <2>3, QueueIsRun
<1>3. Run(tail, head) \in Seq(Nat) /\ Len(Run(tail, head)) = head - tail
  BY <1>1, RunIsSeq
<1>4. \A k \in 1..n : seen[k] = tail + k - 1
  BY DEF IInv, InOrder
<1> HIDE DEF n
<1>5. SubSeq(Run(tail, head), 1, n) = seen
  <2> DEFINE front == SubSeq(Run(tail, head), 1, n)
  <2>1. \A i \in 1..n : Run(tail, head)[i] = tail + i - 1
    BY <1>1 DEF Run
  <2>2. /\ front \in Seq(Nat) /\ Len(front) = n
        /\ \A i \in 1..n : front[i] = tail + i - 1
    BY <1>1, <1>3, <2>1, SubSeqProperties
  <2>3. /\ seen \in Seq(Nat \union {Empty}) /\ Len(seen) = n
        /\ front \in Seq(Nat \union {Empty})
    BY <1>1, <2>2 DEF n
  <2> HIDE DEF front
  <2>4. \A i \in 1..Len(front) : front[i] = seen[i]
    BY <1>4, <2>2
  <2>5. front = seen
    BY <2>2, <2>3, <2>4, SeqEqual
  <2> QED BY <2>5 DEF front
<1>6. SubSeq(Run(tail, head), n + 1, head - tail) = Run(tail + n, head)
  BY <1>1, <1>3 DEF Run
<1>7. n \in 1..Len(Queue)
  BY <1>1, <1>2, <1>3
<1> QED BY <1>1, <1>2, <1>3, <1>5, <1>6, <1>7 DEF Fifo!Take, Queue, n

\* Every other step leaves the mapped queue alone; for a landing slot write
\* that is UnreadIntact at work.
LEMMA OthersStutter ==
  IInv /\ [Next]_vars /\ ~Publish /\ ~Consume
    => Queue' = Queue /\ out' = out
<1> SUFFICES ASSUME IInv, [Next]_vars, ~Publish, ~Consume
             PROVE  Queue' = Queue /\ out' = out
  OBVIOUS
<1>1. head' = head /\ tail' = tail /\ out' = out
  BY DEF Next, vars, Writable, WritableExact, WriteSlot, StoreLands, Readable,
         ReadSlot, producerVars, consumerVars
<1>2. IInv'
  BY NextIInv
<1>3. (IInv => Queue = Run(tail, head))'
  BY QueueIsRun, PTL
<1>4. Queue' = Run(tail', head')
  BY <1>2, <1>3 DEF Run
<1> QED BY <1>1, <1>4, QueueIsRun

\* The ring with its caches and its store buffer implements the bounded queue.
THEOREM RingImplementsFifo == Spec => FifoSpec
<1>1. Init => Fifo!Init
  BY DEF Init, Fifo!Init
<1>2. IInv /\ [Next]_vars => [Fifo!Next]_Fifo!fifoVars
  <2> SUFFICES ASSUME IInv, [Next]_vars PROVE [Fifo!Next]_Fifo!fifoVars
    OBVIOUS
  <2>1. CASE Publish
    BY <2>1, PublishIsPut DEF Fifo!Next
  <2>2. CASE Consume
    BY <2>2, ConsumeIsTake DEF Fifo!Next, Queue
  <2>3. CASE ~Publish /\ ~Consume
    BY <2>3, OthersStutter DEF Queue, Fifo!fifoVars
  <2> QED BY <2>1, <2>2, <2>3
<1> QED BY <1>1, <1>2, RingInvariant, PTL DEF Spec, FifoSpec, Fifo!Spec
=============================================================================
