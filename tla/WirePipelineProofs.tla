------------------------- MODULE WirePipelineProofs -------------------------
(***************************************************************************)
(* Proofs about the pipeline for every capacity, every size of packet and  *)
(* whether or not the book thread can die.  The invariant says where the   *)
(* room a delivery was given comes from: during a feed from a copy of      *)
(* tail_ that is never ahead of it, so that what is staged fits beside     *)
(* what is published whatever the book thread has given back since.        *)
(***************************************************************************)
EXTENDS WirePipeline, Integers, SequenceTheorems, TLAPS

-----------------------------------------------------------------------------
(* The invariant.                                                          *)

\* A slot as ToRing writes it: one message, or a marker for some.
Slot == {c \in Call : c.kind = "msg" => c.count = 1}

Types ==
  /\ expected \in Nat /\ owed \in Nat /\ budget \in 0..Capacity
  /\ receiver \in {"poll", "feed", "flush", "pay", "done"}
  /\ book \in {"poll", "empty", "walk", "ended", "dead"}
  /\ staged \in Seq(Slot) /\ queue \in Seq(Slot) /\ applied \in Seq(Slot)
  /\ head \in Nat /\ tail \in Nat /\ cachedTail \in Nat
  /\ ready \in 0..Capacity /\ walked \in 0..Capacity

\* The producer's copy of tail_ is behind it, and the room it was given
\* counts from the copy during a feed, and from tail_ during a flush.
Room ==
  /\ head = tail + Len(queue)
  /\ cachedTail <= tail
  /\ Len(queue) + Len(staged) <= Capacity
  /\ Delivering => Len(queue) + budget <= Capacity /\ Len(staged) <= budget
  /\ receiver \in {"poll", "feed"} => head - cachedTail <= Capacity
  /\ receiver = "feed" => (head - cachedTail) + budget <= Capacity
  /\ ~Delivering => staged = << >>

\* Where the book thread is in the ring.
Walk ==
  /\ walked <= Len(queue)
  /\ book = "walk" => walked <= ready /\ ready <= Len(queue)
  /\ book \in {"poll", "empty", "ended"} => walked = 0

\* l starts at 1, has no break, and ends in front of n.
Unbroken(l, n) ==
  /\ \A i \in 1..Len(l) : l[i].first = IF i = 1 THEN 1 ELSE CallEnd(l[i - 1])
  /\ n = IF l = << >> THEN 1 ELSE CallEnd(l[Len(l)])

Told == owed <= expected /\ Unbroken(Stream, expected - owed)

\* Nobody leaves while a live book thread has not been told of a debt.
Leaves ==
  /\ receiver = "done" /\ book /= "dead" => owed = 0
  /\ receiver = "pay" => owed > 0
  /\ book = "ended" => receiver = "done" /\ queue = << >>

IInv == Types /\ Room /\ Walk /\ Told /\ Leaves

-----------------------------------------------------------------------------
(* Sequences.                                                              *)

LEMMA ConcatAppend ==
  ASSUME NEW S, NEW s \in Seq(S), NEW t \in Seq(S), NEW e \in S
  PROVE  s \o Append(t, e) = Append(s \o t, e)
<1>1. /\ s \o t \in Seq(S) /\ Append(t, e) \in Seq(S) /\ <<e>> \in Seq(S)
      /\ Append(t, e) = t \o <<e>> /\ Append(s \o t, e) = (s \o t) \o <<e>>
  BY ConcatProperties
<1> QED BY <1>1, ConcatAssociative

LEMMA AppendConcat ==
  ASSUME NEW S, NEW s \in Seq(S), NEW t \in Seq(S), NEW e \in S
  PROVE  Append(s, e) \o t = s \o (<<e>> \o t)
<1>1. <<e>> \in Seq(S) /\ Append(s, e) = s \o <<e>>
  OBVIOUS
<1>2. (s \o <<e>>) \o t = s \o (<<e>> \o t)
  BY <1>1, ConcatAssociative
<1> QED BY <1>1, <1>2

\* What is behind position w, when the position moves, when the front is cut
\* off there, and when more is put at the end.
LEMMA SuffixProperties ==
  ASSUME NEW S, NEW q \in Seq(S), NEW w \in 0..Len(q)
  PROVE  /\ SubSeq(q, w + 1, Len(q)) \in Seq(S)
         /\ Len(SubSeq(q, w + 1, Len(q))) = Len(q) - w
         /\ \A i \in 1..(Len(q) - w) : SubSeq(q, w + 1, Len(q))[i] = q[w + i]
<1>1. Len(q) \in Nat /\ \A i \in (w + 1)..Len(q) : q[i] \in S
  BY ElementOfSeq
<1>2. /\ SubSeq(q, w + 1, Len(q)) \in Seq(S)
      /\ Len(SubSeq(q, w + 1, Len(q))) = IF w + 1 <= Len(q) THEN Len(q) - (w + 1) + 1 ELSE 0
      /\ \A i \in 1..(Len(q) - (w + 1) + 1) : SubSeq(q, w + 1, Len(q))[i] = q[w + 1 + i - 1]
  BY <1>1, SubSeqProperties
<1>3. ASSUME NEW i \in 1..(Len(q) - w) PROVE SubSeq(q, w + 1, Len(q))[i] = q[w + i]
  <2>1. i \in 1..(Len(q) - (w + 1) + 1) /\ w + 1 + i - 1 = w + i
    BY <1>1
  <2> QED BY <1>2, <2>1
<1> QED BY <1>1, <1>2, <1>3

LEMMA SuffixStep ==
  ASSUME NEW S, NEW a \in Seq(S), NEW q \in Seq(S), NEW w \in 0..Len(q), w < Len(q)
  PROVE  Append(a, q[w + 1]) \o SubSeq(q, w + 2, Len(q)) = a \o SubSeq(q, w + 1, Len(q))
<1>1. /\ Len(q) \in Nat /\ w + 1 \in 1..Len(q) /\ Len(q) \in (w + 1)..Len(q) /\ w + 1 \in 0..Len(q)
      /\ (w + 1) + 1 = w + 2
  OBVIOUS
<1>2. SubSeq(q, w + 1, Len(q)) = <<q[w + 1]>> \o SubSeq(q, w + 2, Len(q))
  <2>1. SubSeq(q, w + 1, Len(q)) = <<q[w + 1]>> \o SubSeq(q, (w + 1) + 1, Len(q))
    BY <1>1, SubSeqRecursiveFirst
  <2> QED BY <1>1, <2>1
<1>3. q[w + 1] \in S
  BY <1>1
<1>4. SubSeq(q, (w + 1) + 1, Len(q)) \in Seq(S)
  <2>1. w + 1 \in 0..Len(q)
    BY <1>1
  <2> QED BY <2>1, SuffixProperties
<1>5. SubSeq(q, w + 2, Len(q)) \in Seq(S)
  <2>1. (w + 1) + 1 = w + 2
    BY <1>1
  <2> QED BY <1>4, <2>1
<1>6. Append(a, q[w + 1]) \o SubSeq(q, w + 2, Len(q)) = a \o (<<q[w + 1]>> \o SubSeq(q, w + 2, Len(q)))
  <2> DEFINE x == q[w + 1]
             r == SubSeq(q, w + 2, Len(q))
  <2>1. a \in Seq(S) /\ x \in S /\ r \in Seq(S)
    BY <1>3, <1>5
  <2> HIDE DEF x, r
  <2>2. Append(a, x) \o r = a \o (<<x>> \o r)
    BY <2>1, AppendConcat
  <2> QED BY <2>2 DEF x, r
<1> QED BY <1>2, <1>6

LEMMA SuffixOfSuffix ==
  ASSUME NEW S, NEW q \in Seq(S), NEW w \in 0..Len(q), NEW r, r = SubSeq(q, w + 1, Len(q))
  PROVE  SubSeq(r, 1, Len(r)) = r
BY SuffixProperties, SubSeqFull

LEMMA SuffixConcat ==
  ASSUME NEW S, NEW q \in Seq(S), NEW t \in Seq(S), NEW w \in 0..Len(q)
  PROVE  SubSeq(q \o t, w + 1, Len(q \o t)) = SubSeq(q, w + 1, Len(q)) \o t
<1> DEFINE u == SubSeq(q \o t, w + 1, Len(q \o t))
           v == SubSeq(q, w + 1, Len(q)) \o t
<1>1. /\ Len(q) \in Nat /\ Len(t) \in Nat /\ q \o t \in Seq(S) /\ Len(q \o t) = Len(q) + Len(t)
      /\ \A i \in 1..(Len(q) + Len(t)) : (q \o t)[i] = IF i <= Len(q) THEN q[i] ELSE t[i - Len(q)]
  BY ConcatProperties
<1>2. /\ u \in Seq(S) /\ Len(u) = (Len(q) + Len(t)) - w
      /\ \A i \in 1..((Len(q) + Len(t)) - w) : u[i] = (q \o t)[w + i]
  <2>1. w \in 0..Len(q \o t)
    BY <1>1
  <2> QED BY <1>1, <2>1, SuffixProperties
<1>3. /\ v \in Seq(S) /\ Len(v) = (Len(q) - w) + Len(t)
      /\ \A i \in 1..((Len(q) - w) + Len(t)) :
           v[i] = IF i <= Len(q) - w THEN q[w + i] ELSE t[i - (Len(q) - w)]
  <2>1. /\ SubSeq(q, w + 1, Len(q)) \in Seq(S)
        /\ Len(SubSeq(q, w + 1, Len(q))) = Len(q) - w
        /\ \A i \in 1..(Len(q) - w) : SubSeq(q, w + 1, Len(q))[i] = q[w + i]
    BY SuffixProperties
  <2>2. /\ v \in Seq(S) /\ Len(v) = (Len(q) - w) + Len(t)
        /\ \A i \in 1..((Len(q) - w) + Len(t)) :
             v[i] = IF i <= Len(q) - w THEN SubSeq(q, w + 1, Len(q))[i] ELSE t[i - (Len(q) - w)]
    <3> DEFINE r == SubSeq(q, w + 1, Len(q))
    <3>1. r \in Seq(S) /\ Len(r) = Len(q) - w
      BY <2>1
    <3> HIDE DEF r
    <3>2. /\ r \o t \in Seq(S) /\ Len(r \o t) = Len(r) + Len(t)
          /\ \A i \in 1..(Len(r) + Len(t)) : (r \o t)[i] = IF i <= Len(r) THEN r[i] ELSE t[i - Len(r)]
      BY <3>1, ConcatProperties
    <3>3. /\ r \o t \in Seq(S) /\ Len(r \o t) = (Len(q) - w) + Len(t)
          /\ \A i \in 1..((Len(q) - w) + Len(t)) :
               (r \o t)[i] = IF i <= Len(q) - w THEN r[i] ELSE t[i - (Len(q) - w)]
      BY <3>1, <3>2
    <3> QED BY <3>3 DEF r
  <2>3. ASSUME NEW i \in 1..((Len(q) - w) + Len(t)), i <= Len(q) - w
        PROVE  SubSeq(q, w + 1, Len(q))[i] = q[w + i]
    BY <1>1, <2>1, <2>3
  <2> QED BY <2>2, <2>3
<1>4. ASSUME NEW i \in 1..Len(u) PROVE u[i] = v[i]
  <2>1. /\ i \in 1..((Len(q) + Len(t)) - w) /\ i \in 1..((Len(q) - w) + Len(t))
        /\ w + i \in 1..(Len(q) + Len(t)) /\ (w + i <= Len(q) <=> i <= Len(q) - w)
        /\ (w + i) - Len(q) = i - (Len(q) - w)
    BY <1>1, <1>2
  <2> QED BY <1>1, <1>2, <1>3, <2>1
<1>5. Len(u) = Len(v)
  BY <1>1, <1>2, <1>3
<1> HIDE DEF u, v
<1>6. u = v
  BY <1>2, <1>3, <1>4, <1>5, SeqEqual
<1> QED BY <1>6 DEF u, v

\* A slot that starts where l ends prolongs it.
LEMMA UnbrokenAppend ==
  ASSUME NEW l \in Seq(Slot), NEW n \in Nat, NEW c \in Slot, Unbroken(l, n), c.first = n
  PROVE  Unbroken(Append(l, c), CallEnd(c))
<1> DEFINE k == Append(l, c)
<1>1. /\ Len(l) \in Nat /\ k \in Seq(Slot) /\ Len(k) = Len(l) + 1 /\ k[Len(l) + 1] = c
      /\ \A i \in 1..Len(l) : k[i] = l[i]
  OBVIOUS
<1>2. k /= << >>
  BY <1>1, EmptySeq
<1>3. ASSUME NEW i \in 1..Len(k)
      PROVE  k[i].first = IF i = 1 THEN 1 ELSE CallEnd(k[i - 1])
  <2>1. CASE i = Len(l) + 1
    <3>1. CASE l = << >>
      BY <1>1, <2>1, <3>1 DEF Unbroken
    <3>2. CASE l /= << >>
      <4>1. Len(l) > 0
        BY <3>2, EmptySeq
      <4>2. i /= 1 /\ i - 1 = Len(l) /\ k[i - 1] = l[Len(l)] /\ k[i] = c
        BY <1>1, <2>1, <4>1
      <4> QED BY <3>2, <4>2 DEF Unbroken
    <3> QED BY <3>1, <3>2
  <2>2. CASE i \in 1..Len(l)
    <3>1. k[i] = l[i] /\ (i /= 1 => k[i - 1] = l[i - 1])
      BY <1>1, <2>2
    <3> QED BY <2>2, <3>1 DEF Unbroken
  <2>3. i = Len(l) + 1 \/ i \in 1..Len(l)
    BY <1>1
  <2> QED BY <2>1, <2>2, <2>3
<1> HIDE DEF k
<1> QED BY <1>1, <1>2, <1>3 DEF Unbroken, k

LEMMA SlotTypes ==
  /\ \A n \in Nat : Msg(n) \in Slot /\ Msg(n).first = n /\ CallEnd(Msg(n)) = n + 1
  /\ \A n \in Nat : \A k \in Nat \ {0} :
       Gap(n, k) \in Slot /\ Gap(n, k).first = n /\ CallEnd(Gap(n, k)) = n + k
BY DEF Msg, Gap, Slot, Call, CallEnd

-----------------------------------------------------------------------------
(* The stream: what the book has done, the ring and what is staged.        *)

LEMMA StreamTypes ==
  ASSUME Types, Walk
  PROVE  /\ applied \o SubSeq(queue, walked + 1, Len(queue)) \in Seq(Slot)
         /\ Stream \in Seq(Slot)
         /\ Len(queue) \in Nat /\ Len(staged) \in Nat /\ Len(applied) \in Nat
         /\ walked \in 0..Len(queue)
<1>1. walked \in 0..Len(queue) /\ SubSeq(queue, walked + 1, Len(queue)) \in Seq(Slot)
  BY SuffixProperties DEF Types, Walk
<1>2. applied \o SubSeq(queue, walked + 1, Len(queue)) \in Seq(Slot)
  BY <1>1, ConcatProperties DEF Types
<1> QED BY <1>1, <1>2, ConcatProperties DEF Types, Stream

\* Staging one slot more.
LEMMA StreamStaged ==
  ASSUME Types, Walk, NEW c \in Slot
  PROVE  (applied \o SubSeq(queue, walked + 1, Len(queue))) \o Append(staged, c) = Append(Stream, c)
<1> DEFINE b == applied \o SubSeq(queue, walked + 1, Len(queue))
<1>1. b \in Seq(Slot) /\ staged \in Seq(Slot)
  BY StreamTypes DEF Types
<1> HIDE DEF b
<1>2. b \o Append(staged, c) = Append(b \o staged, c)
  BY <1>1, ConcatAppend
<1> QED BY <1>2 DEF b, Stream

\* Publishing moves slots from one part of the stream to another.
LEMMA StreamPublished ==
  ASSUME Types, Walk, NEW t \in Seq(Slot)
  PROVE  (applied \o SubSeq(queue \o t, walked + 1, Len(queue \o t))) \o << >>
           = (applied \o SubSeq(queue, walked + 1, Len(queue))) \o t
<1>1. walked \in 0..Len(queue) /\ queue \in Seq(Slot) /\ applied \in Seq(Slot)
  BY StreamTypes DEF Types
<1>2. SubSeq(queue, walked + 1, Len(queue)) \in Seq(Slot)
  BY <1>1, SuffixProperties
<1>3. SubSeq(queue \o t, walked + 1, Len(queue \o t)) = SubSeq(queue, walked + 1, Len(queue)) \o t
  BY <1>1, SuffixConcat
<1>4. SubSeq(queue, walked + 1, Len(queue)) \o t \in Seq(Slot)
  BY <1>2, ConcatProperties
<1> DEFINE r == SubSeq(queue, walked + 1, Len(queue))
<1>5. r \in Seq(Slot) /\ r \o t \in Seq(Slot)
  BY <1>2, <1>4
<1> HIDE DEF r
<1>6. applied \o (r \o t) \in Seq(Slot)
  BY <1>1, <1>5, ConcatProperties
<1>7. (applied \o (r \o t)) \o << >> = applied \o (r \o t)
  BY <1>6, ConcatEmptySeq
<1>8. (applied \o r) \o t = applied \o (r \o t)
  BY <1>1, <1>5, ConcatAssociative
<1> QED BY <1>3, <1>7, <1>8 DEF r

LEMMA FreeSlotsExact ==
  ASSUME head \in Nat, NEW copy \in Nat, copy <= head, head - copy <= Capacity
  PROVE  FreeSlots(copy) = Capacity - (head - copy)
BY CapacityAssumption DEF FreeSlots, Minus

-----------------------------------------------------------------------------
(* The receiver's steps.                                                   *)

LEMMA InitInv == Init => IInv
<1> SUFFICES ASSUME Init PROVE IInv
  OBVIOUS
<1>1. /\ << >> \in Seq(Slot) /\ Len(<< >>) = 0 /\ SubSeq(<< >>, 0 + 1, 0) = << >>
      /\ << >> \o << >> = << >>
  <2>1. << >> \in Seq(Slot) /\ Len(<< >>) = 0
    BY EmptySeq
  <2>2. SubSeq(<< >>, 1, 0) = << >>
    BY SubSeqEmpty
  <2>3. << >> \o << >> = << >>
    BY <2>1, ConcatEmptySeq
  <2> QED BY <2>1, <2>2, <2>3
<1>2. Types /\ Room /\ Walk /\ Leaves
  BY <1>1, CapacityAssumption DEF Init, Types, Room, Walk, Leaves, Delivering
<1>3. Stream = << >>
  BY <1>1 DEF Init, Stream
<1>4. Told
  BY <1>1, <1>3 DEF Init, Told, Unbroken
<1> QED BY <1>2, <1>4 DEF IInv

\* What a call of the handler may do.
LEMMA Staging ==
  ASSUME IInv, Delivering,
         UNCHANGED <<receiver, budget, cachedTail, head, tail, queue, bookVars>>,
         expected' \in Nat, owed' \in Nat, owed' <= expected',
         staged' \in Seq(Slot), Len(staged') <= budget,
         Unbroken(Stream', expected' - owed')
  PROVE  IInv'
<1>1. Types'
  BY DEF IInv, Types, bookVars
<1>2. Len(queue) \in Nat /\ Len(staged') \in Nat /\ budget \in Nat
  BY CapacityAssumption DEF IInv, Types
<1>3. Room'
  BY <1>2, CapacityAssumption DEF IInv, Room, Delivering
<1>4. Walk' /\ Leaves'
  BY DEF IInv, Walk, Leaves, Delivering, bookVars
<1>5. Told'
  BY DEF Told
<1> QED BY <1>1, <1>3, <1>4, <1>5 DEF IInv

\* The stream with slots staged behind it, in a step that publishes nothing.
LEMMA StreamBehind ==
  ASSUME IInv, UNCHANGED <<queue, bookVars>>
  PROVE  /\ staged' = staged => Stream' = Stream
         /\ \A c \in Slot : staged' = Append(staged, c) => Stream' = Append(Stream, c)
         /\ \A c, d \in Slot : staged' = Append(Append(staged, c), d)
                                 => Stream' = Append(Append(Stream, c), d)
<1> DEFINE b == applied \o SubSeq(queue, walked + 1, Len(queue))
<1>1. b \in Seq(Slot) /\ staged \in Seq(Slot) /\ Stream = b \o staged /\ Stream \in Seq(Slot)
  BY StreamTypes DEF IInv, Types, Stream
<1>2. Stream' = b \o staged'
  BY DEF Stream, bookVars
<1> HIDE DEF b
<1>3. \A c \in Slot : b \o Append(staged, c) = Append(Stream, c) /\ Append(staged, c) \in Seq(Slot)
  BY <1>1, ConcatAppend
<1>4. \A c, d \in Slot : b \o Append(Append(staged, c), d) = Append(b \o Append(staged, c), d)
  BY <1>3, <1>1, ConcatAppend
<1> QED BY <1>1, <1>2, <1>3, <1>4

LEMMA OnMessageInv == ASSUME IInv, OnMessage PROVE IInv'
<1> DEFINE g == Gap(expected - owed, owed)
           m == Msg(expected)
<1>0. /\ Delivering /\ expected' = expected + 1
      /\ UNCHANGED <<receiver, budget, cachedTail, head, tail, queue, bookVars>>
      /\ expected \in Nat /\ owed \in Nat /\ budget \in Nat /\ owed <= expected
      /\ expected - owed \in Nat /\ Len(staged) \in Nat /\ Len(staged) <= budget
      /\ staged \in Seq(Slot) /\ Stream \in Seq(Slot) /\ Unbroken(Stream, expected - owed)
  BY StreamTypes, CapacityAssumption DEF OnMessage, IInv, Types, Room, Told
<1>1. m \in Slot /\ m.first = expected /\ CallEnd(m) = expected + 1
  BY <1>0, SlotTypes
<1>2. owed > 0 => g \in Slot /\ g.first = expected - owed /\ CallEnd(g) = expected
  <2> SUFFICES ASSUME owed > 0 PROVE g \in Slot /\ g.first = expected - owed /\ CallEnd(g) = expected
    OBVIOUS
  <2>1. owed \in Nat \ {0} /\ (expected - owed) + owed = expected
    BY <1>0
  <2>2. g \in Slot /\ g.first = expected - owed /\ CallEnd(g) = (expected - owed) + owed
    BY <1>0, <2>1, SlotTypes
  <2> QED BY <2>1, <2>2
<1>3. /\ staged' = staged => Stream' = Stream
      /\ \A c \in Slot : staged' = Append(staged, c) => Stream' = Append(Stream, c)
      /\ \A c, d \in Slot : staged' = Append(Append(staged, c), d)
                              => Stream' = Append(Append(Stream, c), d)
  BY <1>0, StreamBehind
<1> HIDE DEF g, m
<1>4. CASE owed = 0 /\ Len(staged) < budget
  <2>1. staged' = Append(staged, m) /\ owed' = 0
    BY <1>4 DEF OnMessage, AfterSettle, Settled, m
  <2>2. Stream' = Append(Stream, m)
    BY <1>1, <1>3, <2>1
  <2>3. Unbroken(Stream', expected + 1)
    BY <1>0, <1>1, <1>4, <2>2, UnbrokenAppend
  <2>4. staged' \in Seq(Slot) /\ Len(staged') = Len(staged) + 1
    BY <1>0, <1>1, <2>1
  <2>5. Len(staged') <= budget /\ expected' - owed' = expected + 1 /\ owed' <= expected'
        /\ expected' \in Nat /\ owed' \in Nat
    BY <1>0, <1>4, <2>1, <2>4
  <2> QED BY <1>0, <2>3, <2>4, <2>5, Staging
<1>5. CASE ~(Len(staged) < budget)
  <2>1. staged' = staged /\ owed' = owed + 1
    BY <1>0, <1>5 DEF OnMessage, AfterSettle, Settled
  <2>2. /\ Unbroken(Stream', expected' - owed') /\ expected' \in Nat /\ owed' \in Nat /\ owed' <= expected'
    <3>1. expected' - owed' = expected - owed
      BY <1>0, <2>1
    <3> QED BY <1>0, <1>3, <2>1, <3>1
  <2> QED BY <1>0, <2>1, <2>2, Staging
<1>6. CASE owed > 0 /\ Len(staged) < budget
  <2>1. /\ g \in Slot /\ Append(staged, g) \in Seq(Slot) /\ Len(Append(staged, g)) = Len(staged) + 1
    BY <1>0, <1>2, <1>6
  <2>2. Unbroken(Append(Stream, g), expected) /\ Append(Stream, g) \in Seq(Slot)
    BY <1>0, <1>2, <1>6, UnbrokenAppend
  <2>3. CASE Len(staged) + 1 < budget
    <3>1. staged' = Append(Append(staged, g), m) /\ owed' = 0
      BY <1>0, <1>6, <2>1, <2>3 DEF OnMessage, AfterSettle, Settled, g, m
    <3>2. Stream' = Append(Append(Stream, g), m)
      BY <1>1, <1>3, <2>1, <3>1
    <3>3. Unbroken(Stream', expected + 1)
      BY <1>0, <1>1, <2>2, <3>2, UnbrokenAppend
    <3>4. staged' \in Seq(Slot) /\ Len(staged') = Len(staged) + 2
      BY <1>0, <1>1, <2>1, <3>1
    <3>5. Len(staged') <= budget /\ expected' - owed' = expected + 1 /\ owed' <= expected'
          /\ expected' \in Nat /\ owed' \in Nat
      BY <1>0, <2>3, <3>1, <3>4
    <3> QED BY <1>0, <3>3, <3>4, <3>5, Staging
  <2>4. CASE ~(Len(staged) + 1 < budget)
    <3>1. staged' = Append(staged, g) /\ owed' = 1
      BY <1>0, <1>6, <2>1, <2>4 DEF OnMessage, AfterSettle, Settled, g
    <3>2. Stream' = Append(Stream, g)
      BY <1>3, <2>1, <3>1
    <3>3. Len(staged') <= budget /\ expected' - owed' = expected /\ owed' <= expected'
          /\ expected' \in Nat /\ owed' \in Nat /\ staged' \in Seq(Slot)
      BY <1>0, <1>6, <2>1, <3>1
    <3> QED BY <1>0, <2>2, <3>2, <3>3, Staging
  <2> QED BY <2>3, <2>4
<1> QED BY <1>0, <1>4, <1>5, <1>6

LEMMA OnOversizeInv == ASSUME IInv, OnOversize PROVE IInv'
<1>0. /\ Delivering /\ expected' = expected + 1 /\ owed' = owed + 1 /\ staged' = staged
      /\ UNCHANGED <<receiver, budget, cachedTail, head, tail, queue, bookVars>>
      /\ expected \in Nat /\ owed \in Nat /\ owed <= expected
      /\ Len(staged) <= budget /\ staged \in Seq(Slot) /\ Unbroken(Stream, expected - owed)
  BY DEF OnOversize, IInv, Types, Room, Told
<1>1. expected' - owed' = expected - owed /\ owed' <= expected' /\ expected' \in Nat /\ owed' \in Nat
  BY <1>0
<1>2. Stream' = Stream
  BY <1>0, StreamBehind
<1> QED BY <1>0, <1>1, <1>2, Staging

LEMMA OnGapInv == ASSUME IInv, OnGap PROVE IInv'
<1>1. PICK count \in 1..MaxSequence :
        /\ expected' = expected + count
        /\ LET s == AfterSettle(staged, owed + count, expected - owed)
           IN  staged' = s.staged /\ owed' = s.owed
  BY DEF OnGap
<1> DEFINE g == Gap(expected - owed, owed + count)
<1>0. /\ Delivering /\ count \in Nat \ {0}
      /\ UNCHANGED <<receiver, budget, cachedTail, head, tail, queue, bookVars>>
      /\ expected \in Nat /\ owed \in Nat /\ budget \in Nat /\ owed <= expected
      /\ expected - owed \in Nat /\ Len(staged) \in Nat /\ Len(staged) <= budget
      /\ staged \in Seq(Slot) /\ Stream \in Seq(Slot) /\ Unbroken(Stream, expected - owed)
  BY StreamTypes, CapacityAssumption, StreamAssumption DEF OnGap, IInv, Types, Room, Told
<1>2. g \in Slot /\ g.first = expected - owed /\ CallEnd(g) = expected + count
  <2>1. owed + count \in Nat \ {0} /\ (expected - owed) + (owed + count) = expected + count
    BY <1>0
  <2>2. g \in Slot /\ g.first = expected - owed /\ CallEnd(g) = (expected - owed) + (owed + count)
    BY <1>0, <2>1, SlotTypes
  <2> QED BY <2>1, <2>2
<1> HIDE DEF g
<1>3. CASE Len(staged) < budget
  <2>1. staged' = Append(staged, g) /\ owed' = 0
    BY <1>0, <1>1, <1>3 DEF AfterSettle, g
  <2>2. Stream' = Append(Stream, g)
    BY <1>0, <1>2, <2>1, StreamBehind
  <2>3. Unbroken(Stream', expected + count)
    BY <1>0, <1>2, <2>2, UnbrokenAppend
  <2>4. Len(staged') = Len(staged) + 1 /\ staged' \in Seq(Slot)
    BY <1>0, <1>2, <2>1
  <2>5. expected' - owed' = expected + count /\ owed' <= expected' /\ expected' \in Nat /\ owed' \in Nat
    BY <1>0, <1>1, <2>1
  <2>6. Len(staged') <= budget
    BY <1>0, <1>3, <2>4
  <2> QED BY <1>0, <2>3, <2>4, <2>5, <2>6, Staging
<1>4. CASE ~(Len(staged) < budget)
  <2>1. staged' = staged /\ owed' = owed + count
    BY <1>0, <1>1, <1>4 DEF AfterSettle
  <2>2. expected' - owed' = expected - owed /\ owed' <= expected' /\ expected' \in Nat /\ owed' \in Nat
    BY <1>0, <1>1, <2>1
  <2>3. Stream' = Stream
    BY <1>0, <2>1, StreamBehind
  <2> QED BY <1>0, <2>1, <2>2, <2>3, Staging
<1> QED BY <1>3, <1>4

\* A copy of tail_ that free_slots() leaves behind is one writable() can
\* subtract from.
LEMMA PacketInv == ASSUME IInv, Packet PROVE IInv'
<1>0. /\ receiver = "poll" /\ UNCHANGED <<expected, owed, head, tail, queue, bookVars>>
      /\ head \in Nat /\ tail \in Nat /\ cachedTail \in Nat /\ cachedTail <= tail
      /\ tail <= head /\ head - tail <= Capacity /\ head - cachedTail <= Capacity
      /\ staged = << >> /\ Len(queue) \in Nat /\ head = tail + Len(queue) /\ Capacity \in Nat
  <2>1. receiver = "poll" /\ UNCHANGED <<expected, owed, head, tail, queue, bookVars>>
    BY DEF Packet
  <2>2. /\ head \in Nat /\ tail \in Nat /\ cachedTail \in Nat /\ cachedTail <= tail
        /\ head - cachedTail <= Capacity /\ Len(queue) \in Nat /\ head = tail + Len(queue)
        /\ Capacity \in Nat /\ staged = << >>
    BY <2>1, CapacityAssumption DEF IInv, Types, Room, Delivering
  <2> QED BY <2>1, <2>2
<1>1. PICK need \in 1..MaxPacket :
        /\ cachedTail' = CopyFor(need)
        /\ IF FreeSlots(cachedTail') < need
             THEN UNCHANGED <<receiver, budget, staged>>
             ELSE /\ receiver' = "feed" /\ budget' = FreeSlots(cachedTail') /\ staged' = << >>
  BY DEF Packet
<1>2. cachedTail' \in {cachedTail, tail}
  BY <1>1 DEF CopyFor, Refreshed
<1>3. /\ cachedTail' \in Nat /\ cachedTail' <= tail /\ head - cachedTail' <= Capacity
      /\ FreeSlots(cachedTail') = Capacity - (head - cachedTail')
  BY <1>0, <1>2, FreeSlotsExact
<1>4. /\ staged' = << >>
      /\ \/ receiver' = receiver /\ budget' = budget
         \/ receiver' = "feed" /\ budget' = Capacity - (head - cachedTail')
  <2>1. CASE FreeSlots(cachedTail') < need
    <3>1. UNCHANGED <<receiver, budget, staged>>
      BY <1>1, <2>1
    <3> QED BY <1>0, <3>1
  <2>2. CASE ~(FreeSlots(cachedTail') < need)
    <3>1. receiver' = "feed" /\ budget' = FreeSlots(cachedTail') /\ staged' = << >>
      BY <1>1, <2>2
    <3> QED BY <1>3, <3>1
  <2> QED BY <2>1, <2>2
<1>5. Types'
  <2>1. budget' \in 0..Capacity
    <3>1. CASE budget' = budget
      BY <3>1 DEF IInv, Types
    <3>2. CASE budget' = Capacity - (head - cachedTail')
      <4>1. head \in Nat /\ cachedTail' \in Nat /\ tail \in Nat /\ tail <= head /\ Capacity \in Nat
        BY <1>0, <1>3
      <4>2. cachedTail' <= tail /\ head - cachedTail' <= Capacity
        BY <1>3
      <4>3. \A c, h, t, k \in Nat : t <= h /\ k <= t /\ h - k <= c => c - (h - k) \in 0..c
        OBVIOUS
      <4> QED BY <4>1, <4>2, <4>3, <3>2
    <3> QED BY <1>4, <3>1, <3>2
  <2>2. receiver' \in {"poll", "feed"} /\ staged' \in Seq(Slot)
    BY <1>0, <1>4, EmptySeq
  <2> QED BY <1>0, <1>3, <2>1, <2>2 DEF IInv, Types, bookVars
<1>6. Room'
  <2>1. Len(staged') = 0 /\ Len(queue') = Len(queue) /\ head' = head /\ tail' = tail
    BY <1>0, <1>4, EmptySeq
  <2>2. CASE receiver' = "poll"
    BY <1>0, <1>3, <1>4, <2>1, <2>2 DEF Room, Delivering
  <2>3. CASE receiver' = "feed" /\ budget' = Capacity - (head - cachedTail')
    <3>1. budget' \in Nat /\ Len(queue) + budget' <= Capacity /\ (head - cachedTail') + budget' <= Capacity
      <4>1. /\ head \in Nat /\ cachedTail' \in Nat /\ tail \in Nat /\ Capacity \in Nat /\ Len(queue) \in Nat
            /\ cachedTail' <= tail /\ head = tail + Len(queue) /\ head - cachedTail' <= Capacity
            /\ budget' = Capacity - (head - cachedTail')
        BY <1>0, <1>3, <2>3
      <4>2. /\ head - cachedTail' \in Nat /\ Len(queue) <= head - cachedTail'
        BY <4>1
      <4>3. \A c, d, q, b \in Nat : d <= c /\ q <= d /\ b = c - d => q + b <= c /\ d + b <= c
        OBVIOUS
      <4>4. budget' \in Nat
        BY <4>1, <4>2
      <4> QED BY <4>1, <4>2, <4>3, <4>4
    <3> QED BY <1>0, <1>3, <1>4, <2>1, <2>3, <3>1 DEF Room, Delivering
  <2> QED BY <1>0, <1>4, <2>2, <2>3
<1>7. Walk' /\ Leaves'
  BY <1>0, <1>4 DEF IInv, Walk, Leaves, bookVars
<1>8. Told'
  <2>1. Stream' = Stream
    BY <1>0, <1>4, StreamBehind
  <2> QED BY <1>0, <2>1 DEF IInv, Told
<1> QED BY <1>5, <1>6, <1>7, <1>8 DEF IInv

\* Publishing t in one go, while nothing is staged or with what is.
LEMMA PublishInv ==
  ASSUME IInv, NEW t \in Seq(Slot), Publish(t), staged' = << >>,
         UNCHANGED <<expected, tail, bookVars>>,
         receiver' \in {"poll", "pay", "done"}, budget' \in 0..Capacity,
         Len(queue) + Len(t) <= Capacity,
         cachedTail' \in Nat, cachedTail' <= tail,
         receiver' = "poll" => head + Len(t) - cachedTail' <= Capacity,
         owed' \in Nat, owed' <= expected,
         Unbroken((applied \o SubSeq(queue, walked + 1, Len(queue))) \o t, expected - owed'),
         receiver' = "done" => owed' = 0, receiver' = "pay" => owed' > 0,
         book /= "ended"
  PROVE  IInv'
<1>1. /\ queue \in Seq(Slot) /\ Len(queue) \in Nat /\ Len(t) \in Nat
      /\ queue' = queue \o t /\ queue' \in Seq(Slot) /\ Len(queue') = Len(queue) + Len(t)
      /\ head' = head + Len(t) /\ head \in Nat /\ tail \in Nat /\ Capacity \in Nat
      /\ << >> \in Seq(Slot) /\ Len(<< >>) = 0
  BY ConcatProperties, EmptySeq, CapacityAssumption DEF IInv, Types, Publish
<1>2. Types'
  BY <1>1 DEF IInv, Types, bookVars
<1>3. Room'
  BY <1>1 DEF IInv, Room, Delivering
<1>4. Walk'
  <2>1. walked \in Nat /\ ready \in Nat
    BY <1>1 DEF IInv, Types
  <2> QED BY <1>1, <2>1 DEF IInv, Walk, bookVars
<1>5. Leaves'
  BY DEF Leaves, bookVars
<1>6. Told'
  <2>1. Stream' = (applied \o SubSeq(queue, walked + 1, Len(queue))) \o t
    BY <1>1, StreamPublished DEF IInv, Stream, bookVars
  <2> QED BY <2>1 DEF Told
<1> QED BY <1>2, <1>3, <1>4, <1>5, <1>6 DEF IInv

LEMMA EndFeedInv == ASSUME IInv, EndFeed PROVE IInv'
<1>1. /\ receiver = "feed" /\ Delivering /\ receiver' = "poll" /\ Publish(staged) /\ staged' = << >>
      /\ UNCHANGED <<expected, budget, owed, cachedTail, tail, bookVars>>
  BY DEF EndFeed, Delivering
<1>2. /\ staged \in Seq(Slot) /\ budget \in 0..Capacity /\ cachedTail \in Nat /\ cachedTail <= tail
      /\ Len(queue) + Len(staged) <= Capacity /\ owed \in Nat /\ owed <= expected
      /\ Len(staged) <= budget /\ (head - cachedTail) + budget <= Capacity
      /\ Unbroken(Stream, expected - owed) /\ book /= "ended"
  BY <1>1 DEF IInv, Types, Room, Told, Leaves
<1>3. head + Len(staged) - cachedTail <= Capacity
  <2>1. head \in Nat /\ Len(staged) \in Nat /\ Capacity \in Nat /\ budget \in Nat
    BY <1>2, CapacityAssumption DEF IInv, Types
  <2> QED BY <1>2, <2>1
<1>4. Unbroken((applied \o SubSeq(queue, walked + 1, Len(queue))) \o staged, expected - owed')
  BY <1>1, <1>2 DEF Stream
<1> QED BY <1>1, <1>2, <1>3, <1>4, PublishInv

LEMMA StartFlushInv == ASSUME IInv, StartFlush PROVE IInv'
<1>0. /\ receiver = "poll" /\ receiver' = "flush" /\ staged = << >> /\ staged' = << >>
      /\ UNCHANGED <<expected, owed, cachedTail, head, tail, queue, bookVars>>
      /\ budget' = Capacity - Minus(head, tail)
      /\ head \in Nat /\ tail \in Nat /\ Len(queue) \in Nat /\ head = tail + Len(queue)
      /\ Len(queue) <= Capacity /\ Capacity \in Nat /\ Len(<< >>) = 0
  <2>1. /\ receiver = "poll" /\ receiver' = "flush" /\ staged' = << >>
        /\ UNCHANGED <<expected, owed, cachedTail, head, tail, queue, bookVars>>
        /\ budget' = Capacity - Minus(head, tail)
    BY DEF StartFlush
  <2> QED BY <2>1, EmptySeq, CapacityAssumption DEF IInv, Types, Room, Delivering
<1>1. budget' = Capacity - Len(queue)
  BY <1>0 DEF Minus
<1>2. Types'
  BY <1>0, <1>1 DEF IInv, Types, bookVars
<1>3. Room'
  BY <1>0, <1>1 DEF IInv, Room, Delivering
<1>4. Walk' /\ Leaves'
  BY <1>0 DEF IInv, Walk, Leaves, bookVars
<1>5. Told'
  <2>1. Stream' = Stream
    BY <1>0, StreamBehind
  <2> QED BY <1>0, <2>1 DEF IInv, Told
<1> QED BY <1>2, <1>3, <1>4, <1>5 DEF IInv

LEMMA EndFlushInv == ASSUME IInv, EndFlush PROVE IInv'
<1>1. /\ receiver = "flush" /\ receiver' = IF owed = 0 THEN "done" ELSE "pay"
      /\ Publish(staged) /\ staged' = << >>
      /\ UNCHANGED <<expected, budget, owed, cachedTail, tail, bookVars>>
  BY DEF EndFlush
<1>2. /\ staged \in Seq(Slot) /\ budget \in 0..Capacity /\ cachedTail \in Nat /\ cachedTail <= tail
      /\ Len(queue) + Len(staged) <= Capacity /\ owed \in Nat /\ owed <= expected
      /\ Unbroken(Stream, expected - owed) /\ book /= "ended"
  BY <1>1 DEF IInv, Types, Room, Told, Leaves
<1>3. Unbroken((applied \o SubSeq(queue, walked + 1, Len(queue))) \o staged, expected - owed')
  BY <1>1, <1>2 DEF Stream
<1> QED BY <1>1, <1>2, <1>3, PublishInv

LEMMA PayDebtInv == ASSUME IInv, PayDebt PROVE IInv'
<1> DEFINE g == Gap(expected - owed, owed)
<1>1. /\ receiver = "pay" /\ receiver' = "done" /\ cachedTail' = tail /\ FreeSlots(tail) > 0
      /\ budget' = FreeSlots(tail) /\ Publish(<<g>>) /\ owed' = 0
      /\ UNCHANGED <<expected, staged, tail, bookVars>>
  BY DEF PayDebt
<1>2. /\ head \in Nat /\ tail \in Nat /\ Len(queue) \in Nat /\ head = tail + Len(queue)
      /\ Len(queue) <= Capacity /\ Capacity \in Nat /\ staged = << >>
      /\ expected \in Nat /\ owed \in Nat \ {0} /\ owed <= expected /\ expected - owed \in Nat
      /\ Unbroken(Stream, expected - owed) /\ Stream \in Seq(Slot) /\ book /= "ended"
  <2>1. staged = << >> /\ Len(<< >>) = 0
    BY <1>1, EmptySeq DEF IInv, Room, Delivering
  <2> QED BY <1>1, <2>1, StreamTypes, CapacityAssumption DEF IInv, Types, Room, Told, Leaves
<1>3. FreeSlots(tail) = Capacity - Len(queue)
  BY <1>2, FreeSlotsExact
<1>4. g \in Slot /\ g.first = expected - owed /\ CallEnd(g) = expected
  <2>1. g \in Slot /\ g.first = expected - owed /\ CallEnd(g) = (expected - owed) + owed
    BY <1>2, SlotTypes
  <2> QED BY <1>2, <2>1
<1> HIDE DEF g
<1>5. <<g>> \in Seq(Slot) /\ Len(<<g>>) = 1 /\ Append(<< >>, g) = <<g>>
  BY <1>4
<1>6. (applied \o SubSeq(queue, walked + 1, Len(queue))) \o <<g>> = Append(Stream, g)
  BY <1>2, <1>4, <1>5, StreamStaged DEF IInv
<1>7. Unbroken(Append(Stream, g), expected)
  BY <1>2, <1>4, UnbrokenAppend
<1>8. /\ budget' \in 0..Capacity /\ Len(queue) + Len(<<g>>) <= Capacity /\ cachedTail' \in Nat
      /\ cachedTail' <= tail /\ owed' \in Nat /\ owed' <= expected /\ expected - owed' = expected
  BY <1>1, <1>2, <1>3, <1>5
<1> QED BY <1>1, <1>2, <1>5, <1>6, <1>7, <1>8, PublishInv

LEMMA GiveUpInv == ASSUME IInv, GiveUp PROVE IInv'
<1>0. /\ receiver = "pay" /\ book = "dead" /\ receiver' = "done"
      /\ UNCHANGED <<expected, budget, staged, owed, cachedTail, head, tail, queue, bookVars>>
  BY DEF GiveUp
<1>1. Types' /\ Room' /\ Walk' /\ Leaves'
  BY <1>0 DEF IInv, Types, Room, Walk, Leaves, Delivering, bookVars
<1>2. Told'
  <2>1. Stream' = Stream
    BY <1>0, StreamBehind
  <2> QED BY <1>0, <2>1 DEF IInv, Told
<1> QED BY <1>1, <1>2 DEF IInv

-----------------------------------------------------------------------------
(* The book thread's steps.                                                *)

LEMMA PollInv == ASSUME IInv, Poll PROVE IInv'
<1>0. /\ book = "poll" /\ walked = 0 /\ walked' = 0
      /\ UNCHANGED <<receiverVars, head, tail, queue, applied>>
      /\ book' \in {"empty", "walk"} /\ ready' \in 0..Capacity
      /\ book' = "walk" => ready' \in 1..Len(queue)
      /\ Len(queue) \in Nat /\ Capacity \in Nat
  <2>1. /\ book = "poll" /\ walked' = 0 /\ UNCHANGED <<receiverVars, head, tail, queue, applied>>
        /\ book' \in {"empty", "walk"} /\ (book' = "walk" => ready' \in 1..Len(queue))
        /\ book' = "empty" => ready' = ready
    BY DEF Poll
  <2>2. /\ walked = 0 /\ Len(queue) \in Nat /\ Len(queue) <= Capacity /\ Capacity \in Nat
        /\ ready \in 0..Capacity
    BY <2>1, CapacityAssumption DEF IInv, Types, Room, Walk
  <2> QED BY <2>1, <2>2
<1>1. Types' /\ Room'
  BY <1>0 DEF IInv, Types, Room, Delivering, receiverVars
<1>2. Walk' /\ Leaves'
  BY <1>0 DEF IInv, Walk, Leaves, receiverVars
<1>3. Told'
  <2>1. Stream' = Stream
    BY <1>0 DEF Stream, receiverVars
  <2> QED BY <1>0, <2>1 DEF IInv, Told, receiverVars
<1> QED BY <1>1, <1>2, <1>3 DEF IInv

LEMMA CheckDoneInv == ASSUME IInv, CheckDone PROVE IInv'
<1>0. /\ book = "empty" /\ book' \in {"ended", "poll"}
      /\ book' = "ended" => receiver = "done" /\ queue = << >>
      /\ UNCHANGED <<receiverVars, head, tail, queue, ready, walked, applied>>
  BY DEF CheckDone
<1>1. Types' /\ Room' /\ Walk' /\ Leaves'
  BY <1>0 DEF IInv, Types, Room, Walk, Leaves, Delivering, receiverVars
<1>2. Told'
  <2>1. Stream' = Stream
    BY <1>0 DEF Stream, receiverVars
  <2> QED BY <1>0, <2>1 DEF IInv, Told, receiverVars
<1> QED BY <1>1, <1>2 DEF IInv

\* The stream is the same when the book thread has done one slot of it more.
LEMMA ApplyStream ==
  ASSUME IInv, Apply
  PROVE  /\ Stream' = Stream /\ walked \in 0..Len(queue) /\ walked < Len(queue)
         /\ Len(queue) \in Nat /\ queue[walked + 1] \in Slot /\ applied' \in Seq(Slot)
<1>1. /\ book = "walk" /\ walked < ready /\ applied' = Append(applied, queue[walked + 1])
      /\ walked' = walked + 1 /\ UNCHANGED <<receiverVars, queue>>
  BY DEF Apply
<1>2. /\ queue \in Seq(Slot) /\ applied \in Seq(Slot) /\ Len(queue) \in Nat /\ walked \in 0..Len(queue)
      /\ walked < Len(queue)
  <2>1. walked \in Nat /\ ready \in Nat /\ Len(queue) \in Nat /\ ready <= Len(queue)
    BY <1>1, CapacityAssumption DEF IInv, Types, Walk
  <2> QED BY <1>1, <2>1 DEF IInv, Types
<1>3. queue[walked + 1] \in Slot
  BY <1>2, ElementOfSeq
<1>4. Append(applied, queue[walked + 1]) \o SubSeq(queue, walked + 2, Len(queue))
        = applied \o SubSeq(queue, walked + 1, Len(queue))
  BY <1>2, SuffixStep
<1>5. walked' + 1 = walked + 2
  BY <1>1, <1>2
<1>6. Stream' = Stream
  BY <1>1, <1>4, <1>5 DEF Stream, receiverVars
<1> QED BY <1>1, <1>2, <1>3, <1>6

LEMMA ApplyInv == ASSUME IInv, Apply PROVE IInv'
<1>0. /\ book = "walk" /\ walked < ready /\ walked' = walked + 1
      /\ UNCHANGED <<receiverVars, head, tail, queue, book, ready>>
      /\ walked \in Nat /\ ready \in 0..Capacity /\ Capacity \in Nat
  BY CapacityAssumption DEF Apply, IInv, Types
<1>1. /\ Stream' = Stream /\ walked < Len(queue) /\ Len(queue) \in Nat /\ applied' \in Seq(Slot)
  BY ApplyStream
<1>2. Types'
  <2>1. walked' \in 0..Capacity
    BY <1>0
  <2> QED BY <1>0, <1>1, <2>1 DEF IInv, Types, receiverVars
<1>3. Room'
  BY <1>0 DEF IInv, Room, Delivering, receiverVars
<1>4. Walk' /\ Leaves'
  BY <1>0, <1>1 DEF IInv, Walk, Leaves, receiverVars
<1>5. Told'
  BY <1>0, <1>1 DEF IInv, Told, receiverVars
<1> QED BY <1>2, <1>3, <1>4, <1>5 DEF IInv

LEMMA ConsumeInv == ASSUME IInv, Consume PROVE IInv'
<1>0. /\ book = "walk" /\ walked = ready /\ tail' = tail + ready /\ book' = "poll" /\ walked' = 0
      /\ queue' = SubSeq(queue, walked + 1, Len(queue))
      /\ UNCHANGED <<receiverVars, head, ready, applied>>
  BY DEF Consume
<1>1. /\ queue \in Seq(Slot) /\ Len(queue) \in Nat /\ walked \in 0..Len(queue) /\ tail \in Nat
      /\ Capacity \in Nat /\ walked \in Nat
  <2>1. walked \in Nat /\ Len(queue) \in Nat
    BY CapacityAssumption DEF IInv, Types
  <2> QED BY <2>1, CapacityAssumption DEF IInv, Types, Walk
<1>2. queue' \in Seq(Slot) /\ Len(queue') = Len(queue) - walked
  BY <1>0, <1>1, SuffixProperties
<1>3. Types'
  BY <1>0, <1>1, <1>2 DEF IInv, Types, receiverVars
<1>4. Room'
  <2>1. /\ head \in Nat /\ cachedTail \in Nat /\ budget \in Nat /\ Len(staged) \in Nat
        /\ UNCHANGED <<head, cachedTail, budget, staged, receiver>>
    BY <1>0, <1>1 DEF IInv, Types, receiverVars
  <2>2. /\ head = tail + Len(queue) /\ cachedTail <= tail /\ Len(queue) + Len(staged) <= Capacity
        /\ Delivering => Len(queue) + budget <= Capacity /\ Len(staged) <= budget
        /\ receiver \in {"poll", "feed"} => head - cachedTail <= Capacity
        /\ receiver = "feed" => (head - cachedTail) + budget <= Capacity
        /\ ~Delivering => staged = << >>
    BY DEF IInv, Room
  <2>3. /\ tail' = tail + walked /\ Len(queue') = Len(queue) - walked
        /\ Delivering' = Delivering
    BY <1>0, <1>2, <2>1 DEF Delivering
  <2>4. head = tail' + Len(queue') /\ cachedTail <= tail' /\ Len(queue') + Len(staged) <= Capacity
    BY <1>1, <2>1, <2>2, <2>3
  <2>5. Delivering => Len(queue') + budget <= Capacity
    BY <1>1, <2>1, <2>2, <2>3
  <2> QED BY <2>1, <2>2, <2>3, <2>4, <2>5 DEF Room
<1>5. Walk' /\ Leaves'
  BY <1>0, <1>1, <1>2 DEF IInv, Walk, Leaves, receiverVars
<1>6. Told'
  <2>1. SubSeq(queue', 1, Len(queue')) = queue'
    BY <1>0, <1>1, SuffixOfSuffix
  <2>2. SubSeq(queue', walked' + 1, Len(queue')) = SubSeq(queue, walked + 1, Len(queue))
    <3>1. walked' + 1 = 1
      BY <1>0
    <3> QED BY <1>0, <2>1, <3>1
  <2>3. Stream' = Stream
    BY <1>0, <2>2 DEF Stream, receiverVars
  <2> QED BY <1>0, <2>3 DEF IInv, Told, receiverVars
<1> QED BY <1>3, <1>4, <1>5, <1>6 DEF IInv

LEMMA DieInv == ASSUME IInv, Die PROVE IInv'
<1>0. /\ book \notin {"ended", "dead"} /\ book' = "dead"
      /\ UNCHANGED <<receiverVars, head, tail, queue, ready, walked, applied>>
  BY DEF Die
<1>1. Types' /\ Room' /\ Walk' /\ Leaves'
  BY <1>0 DEF IInv, Types, Room, Walk, Leaves, Delivering, receiverVars
<1>2. Told'
  <2>1. Stream' = Stream
    BY <1>0 DEF Stream, receiverVars
  <2> QED BY <1>0, <2>1 DEF IInv, Told, receiverVars
<1> QED BY <1>1, <1>2 DEF IInv

LEMMA StepInv == IInv /\ [Next]_vars => IInv'
<1> SUFFICES ASSUME IInv, [Next]_vars PROVE IInv'
  OBVIOUS
<1>1. CASE UNCHANGED vars
  <2>1. UNCHANGED <<receiverVars, head, tail, queue, bookVars>>
    BY <1>1 DEF vars
  <2>2. Stream' = Stream
    BY <2>1 DEF Stream, receiverVars, bookVars
  <2>3. Told'
    BY <2>1, <2>2 DEF IInv, Told, receiverVars
  <2> QED BY <2>1, <2>3 DEF IInv, Types, Room, Walk, Leaves, Delivering, receiverVars, bookVars
<1>2. CASE Receiver
  BY <1>2, OnMessageInv, OnOversizeInv, OnGapInv, PacketInv, EndFeedInv, StartFlushInv, EndFlushInv,
     PayDebtInv, GiveUpInv DEF Receiver
<1>3. CASE Book
  BY <1>3, PollInv, CheckDoneInv, ApplyInv, ConsumeInv DEF Book
<1>4. CASE Die
  BY <1>4, DieInv
<1> QED BY <1>1, <1>2, <1>3, <1>4 DEF Next

THEOREM PipelineInvariant == Spec => []IInv
<1> QED BY InitInv, StepInv, PTL DEF Spec

-----------------------------------------------------------------------------
(* What it gives.                                                          *)

LEMMA InvToldAll == IInv => ToldAll
<1> SUFFICES ASSUME IInv, book = "ended"
             PROVE  owed = 0 /\ expected = IF applied = << >> THEN 1 ELSE CallEnd(applied[Len(applied)])
  BY DEF ToldAll
<1>1. owed = 0 /\ queue = << >> /\ staged = << >> /\ walked = 0
  BY DEF IInv, Leaves, Room, Walk, Delivering
<1>2. SubSeq(<< >>, 1, 0) = << >> /\ Len(<< >>) = 0 /\ << >> \in Seq(Slot)
  BY SubSeqEmpty, EmptySeq
<1>3. Stream = applied
  <2>1. SubSeq(queue, walked + 1, Len(queue)) = << >>
    BY <1>1, <1>2
  <2>2. applied \in Seq(Slot)
    BY DEF IInv, Types
  <2> QED BY <1>1, <2>1, <2>2, ConcatEmptySeq DEF Stream
<1>4. expected \in Nat /\ Unbroken(applied, expected - owed)
  BY <1>3 DEF IInv, Types, Told
<1> QED BY <1>1, <1>4 DEF Unbroken

\* No hole goes by in silence, whatever the capacity, the packets, the
\* interleaving of the two threads and whether or not the book thread dies:
\* every missing number is in a marker or owed, no marker is staged over a slot
\* still in use, and nobody ends owing anything (ToRing, wire_to_book.cpp:312).
THEOREM PipelineNoSilentHole == Spec => []NoSilentHole
<1>1. IInv => MarkedHoles
  <2> SUFFICES ASSUME IInv PROVE MarkedHoles
    OBVIOUS
  <2>1. expected \in Nat /\ owed \in Nat /\ Unbroken(Stream, expected - owed) /\ Stream \in Seq(Slot)
    BY StreamTypes DEF IInv, Types, Told
  <2>2. expected = owed + (expected - owed)
    BY <2>1
  <2> QED BY <2>1, <2>2 DEF MarkedHoles, Unbroken
<1>2. IInv => RoomIsReal
  BY DEF IInv, Types, Room, RoomIsReal
<1>3. IInv => NoSilentHole
  BY <1>1, <1>2, InvToldAll DEF NoSilentHole
<1> QED BY <1>3, PipelineInvariant, PTL

-----------------------------------------------------------------------------
(* The refinement: only Apply changes what the contract sees, and it does   *)
(* what Advance does with one message or one gap.                           *)

\* The next slot of the stream starts where the book thread has got to.
LEMMA ApplyFirst ==
  ASSUME IInv, Apply
  PROVE  queue[walked + 1].first = IF applied = << >> THEN 1 ELSE CallEnd(applied[Len(applied)])
<1> DEFINE c == queue[walked + 1]
           r == SubSeq(queue, walked + 1, Len(queue))
<1>1. /\ walked \in 0..Len(queue) /\ walked < Len(queue) /\ Len(queue) \in Nat /\ queue \in Seq(Slot)
      /\ applied \in Seq(Slot) /\ staged \in Seq(Slot) /\ Len(applied) \in Nat
  BY ApplyStream, StreamTypes DEF IInv, Types
<1>2. r \in Seq(Slot) /\ Len(r) = Len(queue) - walked /\ r[1] = c
  <2>1. 1 \in 1..(Len(queue) - walked)
    BY <1>1
  <2> QED BY <1>1, <2>1, SuffixProperties
<1>3. Stream = applied \o r \o staged
  BY DEF Stream
<1> HIDE DEF r
<1>4. /\ applied \o r \in Seq(Slot) /\ Len(applied \o r) = Len(applied) + Len(r)
      /\ \A i \in 1..(Len(applied) + Len(r)) :
           (applied \o r)[i] = IF i <= Len(applied) THEN applied[i] ELSE r[i - Len(applied)]
  BY <1>1, <1>2, ConcatProperties
<1> DEFINE b == applied \o r
<1>5. b \in Seq(Slot) /\ Len(b) = Len(applied) + Len(r)
  BY <1>4
<1>6. b[Len(applied) + 1] = c /\ (Len(applied) > 0 => b[Len(applied)] = applied[Len(applied)])
  <2>1. /\ Len(applied) + 1 \in 1..(Len(applied) + Len(r)) /\ (Len(applied) + 1) - Len(applied) = 1
        /\ ~(Len(applied) + 1 <= Len(applied))
        /\ Len(applied) > 0 => Len(applied) \in 1..(Len(applied) + Len(r))
    BY <1>1, <1>2
  <2> QED BY <1>2, <1>4, <2>1
<1>7. Stream = b \o staged
  BY <1>3
<1> HIDE DEF b
<1>8. /\ Len(b \o staged) = Len(b) + Len(staged) /\ Len(staged) \in Nat /\ Len(b) \in Nat
      /\ \A i \in 1..(Len(b) + Len(staged)) :
           (b \o staged)[i] = IF i <= Len(b) THEN b[i] ELSE staged[i - Len(b)]
  <2>1. b \in Seq(Slot) /\ staged \in Seq(Slot)
    BY <1>1, <1>5
  <2>2. Len(staged) \in Nat /\ Len(b) \in Nat
    BY <2>1
  <2> QED BY <2>1, <2>2, ConcatProperties
<1>9. /\ Len(applied) + 1 \in 1..Len(Stream) /\ Stream[Len(applied) + 1] = c
      /\ Len(applied) > 0 => Stream[Len(applied)] = applied[Len(applied)]
  <2>1. /\ Len(applied) + 1 \in 1..(Len(b) + Len(staged)) /\ Len(applied) + 1 <= Len(b)
        /\ Len(applied) > 0 => Len(applied) \in 1..(Len(b) + Len(staged)) /\ Len(applied) <= Len(b)
    <3>1. Len(r) \in Nat /\ Len(r) > 0
      BY <1>1, <1>2
    <3> QED BY <1>1, <1>5, <1>8, <3>1
  <2> QED BY <1>6, <1>7, <1>8, <2>1
<1>10. Stream[Len(applied) + 1].first
         = IF Len(applied) + 1 = 1 THEN 1 ELSE CallEnd(Stream[(Len(applied) + 1) - 1])
  <2>1. Unbroken(Stream, expected - owed)
    BY DEF IInv, Told
  <2> QED BY <1>9, <2>1 DEF Unbroken
<1>11. CASE applied = << >>
  <2>1. Len(applied) = 0
    BY <1>11, EmptySeq
  <2> QED BY <1>9, <1>10, <1>11, <2>1
<1>12. CASE applied /= << >>
  <2>1. Len(applied) > 0
    BY <1>1, <1>12, EmptySeq
  <2>2. Len(applied) + 1 /= 1 /\ (Len(applied) + 1) - 1 = Len(applied)
    BY <1>1, <2>1
  <2> QED BY <1>9, <1>10, <1>12, <2>1, <2>2
<1> QED BY <1>11, <1>12

\* One slot, as the contract writes it.
LEMMA SlotReports ==
  ASSUME NEW c \in Slot
  PROVE  \E got \in {0, 1}, missed \in Nat :
           /\ c.count = got + missed
           /\ Contract!Messages(c.first, got) \in Seq(Slot)
           /\ Contract!Losses(c.first + got, missed) \in Seq(Slot)
           /\ Contract!Messages(c.first, got) \o Contract!Losses(c.first + got, missed) = <<c>>
<1>1. /\ c.first \in Nat /\ c.count \in Nat \ {0} /\ c.kind \in {"msg", "gap"}
      /\ c.kind = "msg" => c.count = 1
      /\ c = [kind |-> c.kind, first |-> c.first, count |-> c.count]
  BY DEF Slot, Call
<1>2. <<c>> \in Seq(Slot) /\ << >> \in Seq(Slot)
  OBVIOUS
<1>3. CASE c.kind = "msg"
  <2>1. Contract!Msg(c.first + 1 - 1) = c
    <3>1. c.first + 1 - 1 = c.first
      BY <1>1
    <3> QED BY <1>1, <1>3, <3>1 DEF Contract!Msg
  <2>2. Contract!Messages(c.first, 1) = <<c>>
    <3>1. Contract!Messages(c.first, 1) = [i \in 1..1 |-> c]
      BY <2>1 DEF Contract!Messages
    <3> QED BY <3>1
  <2>3. Contract!Losses(c.first + 1, 0) = << >>
    BY DEF Contract!Losses
  <2>4. <<c>> \o << >> = <<c>>
    BY <1>2, ConcatEmptySeq
  <2>5. c.count = 1 + 0
    BY <1>1, <1>3
  <2> QED BY <1>2, <2>2, <2>3, <2>4, <2>5
<1>4. CASE c.kind = "gap"
  <2>1. Contract!Messages(c.first, 0) = << >>
    <3>1. Contract!Messages(c.first, 0) \in [1..0 -> {Contract!Msg(c.first + i - 1) : i \in 1..0}]
      BY DEF Contract!Messages
    <3> QED BY EmptySeq DEF Contract!Messages
  <2>2. Contract!Losses(c.first + 0, c.count) = <<c>>
    <3>1. c.first + 0 = c.first /\ c.count /= 0
      BY <1>1
    <3> QED BY <1>1, <1>4, <3>1 DEF Contract!Losses, Contract!Gap
  <2>3. << >> \o <<c>> = <<c>>
    BY <1>2, ConcatEmptySeq
  <2>4. c.count = 0 + c.count
    BY <1>1
  <2> QED BY <1>1, <1>2, <2>1, <2>2, <2>3, <2>4
<1> QED BY <1>1, <1>3, <1>4

LEMMA ApplyAdvances == ASSUME IInv, Apply PROVE Contract!Next
<1> DEFINE c == queue[walked + 1]
<1>1. c \in Slot /\ applied \in Seq(Slot) /\ applied' = Append(applied, c)
  BY ApplyStream DEF Apply, IInv, Types
<1>2. c.first = IF applied = << >> THEN 1 ELSE CallEnd(applied[Len(applied)])
  BY ApplyFirst
<1> HIDE DEF c
<1>3. PICK got \in {0, 1}, missed \in Nat :
        /\ c.count = got + missed
        /\ Contract!Messages(c.first, got) \in Seq(Slot)
        /\ Contract!Losses(c.first + got, missed) \in Seq(Slot)
        /\ Contract!Messages(c.first, got) \o Contract!Losses(c.first + got, missed) = <<c>>
  BY <1>1, SlotReports
<1>4. /\ applied' = applied \o <<c>> /\ Len(applied') = Len(applied) + 1 /\ Len(applied) \in Nat
      /\ applied' /= << >> /\ applied'[Len(applied')] = c
  <2>1. Append(applied, c) = applied \o <<c>> /\ Len(Append(applied, c)) = Len(applied) + 1
        /\ Append(applied, c)[Len(applied) + 1] = c /\ Len(applied) \in Nat
    BY <1>1
  <2> QED BY <1>1, <2>1, EmptySeq
<1>5. Position' = c.first + c.count /\ c.first \in Nat /\ c.count \in Nat
  BY <1>1, <1>4 DEF Position, CallEnd, Slot, Call
<1>6. got \in 0..Len(applied') /\ Position' = c.first + got + missed
  <2>1. got \in 0..Len(applied')
    BY <1>4
  <2>2. c.first + c.count = c.first + got + missed
    BY <1>3, <1>5
  <2> QED BY <1>5, <2>1, <2>2
<1>7. CASE applied = << >>
  <2>1. missed \in 0..Position' /\ Position' >= got + missed /\ Position' - got - missed = c.first
    <3>1. \A x, y, z, w \in Nat : w = x + y + z => z \in 0..w /\ w >= y + z /\ w - y - z = x
      OBVIOUS
    <3>2. Position' \in Nat /\ got \in Nat /\ missed \in Nat
      BY <1>5
    <3> QED BY <1>5, <1>6, <3>1, <3>2
  <2>2. << >> \o <<c>> = <<c>>
    BY <1>1, ConcatEmptySeq
  <2>3. applied' = <<c>>
    BY <1>4, <1>7, <2>2
  <2>4. (IF applied' = << >> THEN 0 ELSE 1) /= (IF applied = << >> THEN 0 ELSE 1)
    BY <1>4, <1>7
  <2> QED BY <1>3, <1>6, <2>1, <2>3, <2>4 DEF Contract!Next, Contract!StartAndAdvance
<1>8. CASE applied /= << >>
  <2>1. Position = c.first
    BY <1>2, <1>8 DEF Position
  <2>2. missed \in 0..(Position' - Position)
    BY <1>3, <1>5, <1>6, <2>1
  <2>3. (IF applied' = << >> THEN 0 ELSE 1) = (IF applied = << >> THEN 0 ELSE 1)
    BY <1>4, <1>8
  <2> DEFINE m == Contract!Messages(Position, got)
             g == Contract!Losses(Position + got, missed)
  <2>4. m \o g = <<c>>
    BY <1>3, <2>1
  <2>5. m \in Seq(Slot) /\ g \in Seq(Slot)
    BY <1>3, <2>1
  <2> HIDE DEF m, g
  <2>6. (applied \o m) \o g = applied \o (m \o g)
    BY <1>1, <2>5, ConcatAssociative
  <2>7. applied' = (applied \o m) \o g
    BY <1>4, <2>4, <2>6
  <2> QED BY <1>6, <2>1, <2>2, <2>3, <2>7 DEF Contract!Next, Contract!Advance, m, g
<1> QED BY <1>7, <1>8

\* The book thread is handed an ordered feed with declared gaps: the ring, the
\* debts and the two threads add nothing to and take nothing from what the
\* sequencer promises its handler.
THEOREM PipelineImplementsContract == Spec => ContractSpec
<1>1. Init => Contract!Init
  BY DEF Init, Contract!Init, Position
<1>2. IInv /\ [Next]_vars => [Contract!Next]_(Contract!contractVars)
  <2> SUFFICES ASSUME IInv, [Next]_vars
               PROVE  [Contract!Next]_(Contract!contractVars)
    OBVIOUS
  <2>1. CASE Apply
    BY <2>1, ApplyAdvances
  <2>2. CASE UNCHANGED applied
    BY <2>2 DEF Contract!contractVars, Position
  <2>3. Apply \/ UNCHANGED applied
    BY DEF Next, Receiver, Book, OnMessage, OnOversize, OnGap, Packet, EndFeed, StartFlush, EndFlush,
           PayDebt, GiveUp, Poll, CheckDone, Consume, Die, vars, bookVars
  <2> QED BY <2>1, <2>2, <2>3
<1> QED BY <1>1, <1>2, PipelineInvariant, PTL DEF Spec, ContractSpec, Contract!Spec
=============================================================================
