----------------------------- MODULE MoldProofs -----------------------------
(***************************************************************************)
(* Proofs about the MoldUDP64 side, in two parts.                          *)
(*                                                                         *)
(* The sequencer, for every packet a header can describe, every depth and  *)
(* every patience.  The invariant needs, beside what the properties say,   *)
(* that the buffer only ever holds data packets of the current session and *)
(* that it reaches its depth only on the way into a drain that is sure to  *)
(* remove something.                                                       *)
(*                                                                         *)
(* The link, for every weather, every size of datagram and every alphabet  *)
(* of headers that covers what the sender sends.  The sequencer of the     *)
(* link takes no step the sequencer alone could not take, so that all the  *)
(* first part shows carries over; what is new is where the numbers come    *)
(* from.  The invariant follows each of them from the sender through the   *)
(* network into the log or the reorder buffer.                             *)
(***************************************************************************)
EXTENDS MoldLink, Integers, SequenceTheorems, FiniteSetTheorems, TLAPS

-----------------------------------------------------------------------------
(* Chains of handler calls: l reports exactly the numbers a .. b - 1.      *)

Chain(l, a, b) ==
  /\ l \in Seq(Call)
  /\ l = << >> => a = b
  /\ l /= << >> => l[1].first = a /\ CallEnd(l[Len(l)]) = b
  /\ \A i \in 1..(Len(l) - 1) : l[i + 1].first = CallEnd(l[i])

LEMMA ChainConcat ==
  ASSUME NEW l, NEW m, NEW a, NEW b, NEW c, Chain(l, a, b), Chain(m, b, c)
  PROVE  Chain(l \o m, a, c)
<1> DEFINE k == l \o m
<1>1. /\ l \in Seq(Call) /\ m \in Seq(Call) /\ k \in Seq(Call)
      /\ Len(l) \in Nat /\ Len(m) \in Nat /\ Len(k) = Len(l) + Len(m)
      /\ \A i \in 1..Len(l) : k[i] = l[i]
      /\ \A i \in (Len(l) + 1)..Len(k) : k[i] = m[i - Len(l)]
  BY ConcatProperties DEF Chain
<1>2. CASE l = << >>
  BY <1>1, <1>2 DEF Chain
<1>3. CASE m = << >>
  BY <1>1, <1>3 DEF Chain
<1>4. CASE l /= << >> /\ m /= << >>
  <2>1. Len(l) > 0 /\ Len(m) > 0
    BY <1>1, <1>4, EmptySeq
  <2>2. k /= << >> /\ k[1].first = a
    BY <1>1, <1>4, <2>1, EmptySeq DEF Chain
  <2>3. CallEnd(k[Len(k)]) = c
    BY <1>1, <1>4, <2>1 DEF Chain
  <2>4. ASSUME NEW i \in 1..(Len(k) - 1) PROVE k[i + 1].first = CallEnd(k[i])
    <3>1. CASE i < Len(l)
      BY <1>1, <3>1 DEF Chain
    <3>2. CASE i = Len(l)
      BY <1>1, <1>4, <2>1, <3>2 DEF Chain
    <3>3. CASE i > Len(l)
      <4>1. /\ i - Len(l) \in 1..(Len(m) - 1)
            /\ k[i] = m[i - Len(l)] /\ k[i + 1] = m[(i - Len(l)) + 1]
        BY <1>1, <3>3
      <4> QED BY <4>1 DEF Chain
    <3> QED BY <1>1, <3>1, <3>2, <3>3
  <2> QED BY <1>1, <2>2, <2>3, <2>4 DEF Chain
<1> QED BY <1>2, <1>3, <1>4

LEMMA MessagesChain ==
  ASSUME NEW n \in Nat, NEW got \in Nat
  PROVE  Chain([i \in 1..got |-> Msg(n + i - 1)], n, n + got)
<1> DEFINE m == [i \in 1..got |-> Msg(n + i - 1)]
<1>1. \A i \in 1..got : Msg(n + i - 1) \in Call
  BY DEF Msg, Call
<1>2. m \in Seq(Call) /\ Len(m) = got
  BY <1>1
<1>3. m = << >> => n = n + got
  BY <1>2, EmptySeq
<1>4. m /= << >> => m[1].first = n /\ CallEnd(m[Len(m)]) = n + got
  <2> SUFFICES ASSUME m /= << >> PROVE m[1].first = n /\ CallEnd(m[Len(m)]) = n + got
    OBVIOUS
  <2>1. got > 0
    BY <1>2, EmptySeq
  <2> QED BY <1>2, <2>1 DEF Msg, CallEnd
<1>5. \A i \in 1..(Len(m) - 1) : m[i + 1].first = CallEnd(m[i])
  BY <1>2 DEF Msg, CallEnd
<1> QED BY <1>2, <1>3, <1>4, <1>5 DEF Chain

LEMMA GapChain ==
  ASSUME NEW n \in Nat, NEW k \in Nat \ {0}
  PROVE  Chain(<<Gap(n, k)>>, n, n + k)
<1>1. Gap(n, k) \in Call
  BY DEF Gap, Call
<1> QED BY <1>1 DEF Chain, Gap, CallEnd

LEMMA NoCallsChain == ASSUME NEW n PROVE Chain(<< >>, n, n)
BY DEF Chain

-----------------------------------------------------------------------------
(* declare_gap() and deliver() extend the chain up to the new expected_.   *)

\* The part of the state both work on, with a chain from a behind it.
Chained(s, a) ==
  /\ s = [expected |-> s.expected, sinceGap |-> s.sinceGap, log |-> s.log]
  /\ s.expected \in Nat /\ s.sinceGap \in Nat
  /\ Chain(s.log, a, s.expected)

Data(p) ==
  p \in Packet /\ p.sequence \in Nat /\ p.count \in Nat \ {0} /\ p.blocks \in 0..p.count

LEMMA PacketFields ==
  ASSUME NEW p \in Packet
  PROVE  /\ p.session \in Sessions /\ p.sequence \in Nat
         /\ IsData(p) => Data(p)
<1>1. Numbers \subseteq Nat /\ Counts \subseteq Nat
  BY HeaderAssumption
<1>2. p.session \in Sessions /\ p.sequence \in Nat
  BY <1>1 DEF Packet, DataPacket, ControlPacket
<1>3. ASSUME IsData(p) PROVE Data(p)
  <2>1. p \in DataPacket /\ p.count > 0 /\ p.blocks <= p.count
    BY <1>3 DEF IsData, Packet, ControlPacket
  <2>2. p.count \in Nat /\ p.blocks \in UNION {0..c : c \in Counts}
    BY <1>1, <2>1 DEF DataPacket
  <2>3. p.blocks \in Nat
    BY <1>1, <2>2
  <2> QED BY <1>2, <2>1, <2>2, <2>3 DEF Data
<1> QED BY <1>2, <1>3

LEMMA DeclareGapChained ==
  ASSUME NEW s, NEW a, NEW upTo \in Nat, Chained(s, a)
  PROVE  /\ Chained(DeclareGap(s, upTo), a)
         /\ DeclareGap(s, upTo).expected >= upTo
         /\ DeclareGap(s, upTo).expected >= s.expected
<1>1. CASE upTo <= s.expected
  BY <1>1 DEF DeclareGap, Chained
<1>2. CASE upTo > s.expected
  <2> DEFINE k == upTo - s.expected
             t == [expected |-> upTo, sinceGap |-> 0,
                   log |-> Append(s.log, Gap(s.expected, k))]
  <2>1. DeclareGap(s, upTo) = t
    BY <1>2 DEF DeclareGap, Chained
  <2>2. s.expected \in Nat /\ k \in Nat \ {0} /\ s.expected + k = upTo
    BY <1>2 DEF Chained
  <2>3. Chain(<<Gap(s.expected, k)>>, s.expected, upTo)
    BY <2>2, GapChain
  <2>4. s.log \o <<Gap(s.expected, k)>> = Append(s.log, Gap(s.expected, k))
    <3>1. s.log \in Seq(Call) /\ Gap(s.expected, k) \in Call
      BY <2>2 DEF Chained, Chain, Gap, Call
    <3> QED BY <3>1
  <2>5. Chain(t.log, a, t.expected)
    BY <2>3, <2>4, ChainConcat DEF Chained
  <2> QED BY <1>2, <2>1, <2>2, <2>5 DEF Chained
<1> QED BY <1>1, <1>2 DEF Chained

\* With the skip the code computes, the messages handed over are the ones
\* expected_ stands for.
LEMMA DeliverChained ==
  ASSUME NEW s, NEW a, NEW p, Chained(s, a), Data(p), p.sequence <= s.expected
  PROVE  /\ Chained(Deliver(s, p, s.expected - p.sequence), a)
         /\ Yielded(p, s.expected - p.sequence) \in Nat /\ Unconsumed(p) \in Nat
         /\ Deliver(s, p, s.expected - p.sequence) =
              [expected |-> s.expected + Yielded(p, s.expected - p.sequence) + Unconsumed(p),
               sinceGap |-> s.sinceGap,
               log |-> s.log
                       \o [i \in 1..Yielded(p, s.expected - p.sequence) |->
                             Msg(s.expected + i - 1)]
                       \o (IF Unconsumed(p) = 0 THEN << >>
                           ELSE <<Gap(s.expected + Yielded(p, s.expected - p.sequence),
                                      Unconsumed(p))>>)]
<1> DEFINE skip == s.expected - p.sequence
           got == Yielded(p, skip)
           missing == Unconsumed(p)
           messages == [i \in 1..got |-> Msg(s.expected + i - 1)]
           lost == IF missing = 0 THEN << >> ELSE <<Gap(s.expected + got, missing)>>
           t == [expected |-> s.expected + got + missing, sinceGap |-> s.sinceGap,
                 log |-> s.log \o messages \o lost]
<1>1. /\ s.expected \in Nat /\ skip \in Nat /\ p.sequence + skip = s.expected
      /\ got \in Nat /\ missing \in Nat
  BY DEF Chained, Data, Yielded, Unconsumed
<1>2. Deliver(s, p, skip) = t
  <2>1. [i \in 1..got |-> Msg(p.sequence + skip + i - 1)] = messages
    BY <1>1
  <2> QED BY <2>1 DEF Deliver
<1>3. Chain(messages, s.expected, s.expected + got)
  BY <1>1, MessagesChain
<1>4. Chain(lost, s.expected + got, s.expected + got + missing)
  <2>1. CASE missing = 0
    BY <1>1, <2>1, NoCallsChain
  <2>2. CASE missing /= 0
    BY <1>1, <2>2, GapChain
  <2> QED BY <2>1, <2>2
<1> HIDE DEF got, missing, messages, lost
<1>5. Chain(s.log \o messages \o lost, a, s.expected + got + missing)
  <2>1. Chain(s.log \o messages, a, s.expected + got)
    BY <1>3, ChainConcat DEF Chained
  <2> QED BY <1>4, <2>1, ChainConcat
<1>6. Chained(t, a)
  <2>1. s.expected + got + missing \in Nat /\ s.sinceGap \in Nat
    BY <1>1 DEF Chained
  <2> QED BY <1>5, <2>1 DEF Chained
<1> QED BY <1>1, <1>2, <1>6 DEF got, missing, messages, lost

-----------------------------------------------------------------------------
(* The invariant.                                                          *)

\* The buffer: early data packets of this session, one per sequence number,
\* and full only when the drain about to run can remove the foremost one.
Held ==
  /\ \A p \in buffer : Data(p) /\ p.session = session
  /\ \A p, q \in buffer : p.sequence = q.sequence => p = q
  /\ IsFiniteSet(buffer) /\ Cardinality(buffer) <= Depth
  /\ Cardinality(buffer) = Depth =>
       /\ loop = "drain"
       /\ \A f \in buffer : Foremost(buffer, f) => f.sequence <= expected

IInv ==
  /\ TypeOK
  /\ \E a \in Nat : Chained(Current, a)
  /\ Held

LEMMA InitIInv == Init => IInv
<1> SUFFICES ASSUME Init PROVE IInv
  OBVIOUS
<1>1. Chained(Current, 0)
  BY NoCallsChain DEF Init, Current, Chained
<1>2. TypeOK
  <2>1. log \in Seq(Call)
    BY EmptySeq DEF Init
  <2> QED BY <2>1 DEF Init, TypeOK
<1>3. Held
  BY FS_EmptySet, PolicyAssumption DEF Init, Held
<1> QED BY <1>1, <1>2, <1>3 DEF IInv

\* Become(s) with a chained s keeps the two chain-related parts.
LEMMA BecomeChained ==
  ASSUME NEW s, NEW a \in Nat, Chained(s, a), Become(s)
  PROVE  /\ expected' = s.expected /\ expected' \in Nat
         /\ sinceGap' \in Nat /\ log' \in Seq(Call)
         /\ (\E b \in Nat : Chained(Current, b))'
<1>1. Current' = s
  BY DEF Become, Current, Chained
<1>2. Chained(Current', a)
  BY <1>1
<1>3. (\E b \in Nat : Chained(Current, b))'
  BY <1>2 DEF Chained, Chain, CallEnd
<1> QED BY <1>3 DEF Become, Chained, Chain

\* The state a packet's own handling starts from.
LEMMA AfterSessionChained ==
  ASSUME IInv, NEW p \in Packet
  PROVE  \E a \in Nat : Chained(AfterSession(p), a)
<1>1. CASE p.session = session
  BY <1>1 DEF IInv, AfterSession
<1>2. CASE p.session /= session
  <2>1. p.sequence \in Nat /\ sinceGap \in Nat
    BY PacketFields DEF IInv, TypeOK
  <2>2. Chained(AfterSession(p), p.sequence)
    BY <1>2, <2>1, NoCallsChain DEF AfterSession, Chained
  <2> QED BY <2>1, <2>2
<1> QED BY <1>1, <1>2

\* Every packet but an early one leaves the buffer as it is or empties it.
LEMMA HeldAfterSessionHeld ==
  ASSUME IInv, NEW p \in Packet, loop = "idle",
         session' = p.session, buffer' = HeldAfterSession(p)
  PROVE  Held' /\ buffer' \subseteq Packet
<1>1. CASE p.session = session
  <2>1. buffer' = buffer /\ session' = session /\ Cardinality(buffer) /= Depth
    BY <1>1 DEF HeldAfterSession, IInv, Held
  <2> QED BY <2>1 DEF IInv, Held, TypeOK, Data
<1>2. CASE p.session /= session
  <2>1. buffer' = {}
    BY <1>2 DEF HeldAfterSession
  <2> QED BY <2>1, FS_EmptySet, PolicyAssumption DEF Held, Data
<1> QED BY <1>1, <1>2

LEMMA EndOfSessionKeeps ==
  ASSUME IInv, NEW p \in Packet, OnEndOfSession(p)
  PROVE  IInv'
<1>1. PICK a \in Nat : Chained(AfterSession(p), a)
  BY AfterSessionChained
<1>2. Held' /\ buffer' \subseteq Packet
  BY HeldAfterSessionHeld DEF OnEndOfSession
<1>3. /\ expected' \in Nat /\ sinceGap' \in Nat /\ log' \in Seq(Call)
      /\ (\E b \in Nat : Chained(Current, b))'
  BY <1>1, BecomeChained DEF OnEndOfSession
<1>4. TypeOK'
  BY <1>2, <1>3, PacketFields DEF OnEndOfSession, IInv, TypeOK
<1> QED BY <1>2, <1>3, <1>4 DEF IInv

LEMMA HeartbeatKeeps ==
  ASSUME IInv, NEW p \in Packet, OnHeartbeat(p)
  PROVE  IInv'
<1>1. PICK a \in Nat : Chained(AfterSession(p), a)
  BY AfterSessionChained
<1>2. Held' /\ buffer' \subseteq Packet
  BY HeldAfterSessionHeld DEF OnHeartbeat
<1>3. Chained(DeclareGap(AfterSession(p), p.sequence), a)
  BY <1>1, PacketFields, DeclareGapChained
<1>4. /\ expected' \in Nat /\ sinceGap' \in Nat /\ log' \in Seq(Call)
      /\ (\E b \in Nat : Chained(Current, b))'
  BY <1>3, BecomeChained DEF OnHeartbeat
<1>5. TypeOK'
  BY <1>2, <1>4, PacketFields DEF OnHeartbeat, IInv, TypeOK
<1> QED BY <1>2, <1>4, <1>5 DEF IInv

LEMMA NextKeeps ==
  ASSUME IInv, NEW p \in Packet, OnNext(p)
  PROVE  IInv'
<1> DEFINE s == AfterSession(p)
<1>1. PICK a \in Nat : Chained(s, a)
  BY AfterSessionChained
<1>2. Held' /\ buffer' \subseteq Packet
  BY HeldAfterSessionHeld DEF OnNext
<1>3. Chained(Deliver(s, p, s.expected - p.sequence), a)
  <2>1. Data(p) /\ p.sequence <= s.expected
    BY PacketFields DEF OnNext
  <2> HIDE DEF s
  <2> QED BY <1>1, <2>1, DeliverChained
<1>4. /\ expected' \in Nat /\ sinceGap' \in Nat /\ log' \in Seq(Call)
      /\ (\E b \in Nat : Chained(Current, b))'
  BY <1>3, BecomeChained DEF OnNext
<1>5. TypeOK'
  BY <1>2, <1>4, PacketFields DEF OnNext, IInv, TypeOK
<1> QED BY <1>2, <1>4, <1>5 DEF IInv

LEMMA AheadKeeps ==
  ASSUME IInv, NEW p \in Packet, OnAhead(p)
  PROVE  IInv'
<1> DEFINE s == [Current EXCEPT !.sinceGap = @ + 1]
           full == Cardinality(buffer') >= Depth \/ s.sinceGap > Patience
<1>1. /\ Data(p) /\ p.session = session /\ session' = session
      /\ loop = "idle" /\ ended' = ended
  BY PacketFields DEF OnAhead
<1>2. PICK a \in Nat : Chained(Current, a)
  BY DEF IInv
<1>3. Chained(s, a)
  <2>1. /\ s.expected = expected /\ s.sinceGap = sinceGap + 1 /\ s.log = log
        /\ s = [expected |-> expected, sinceGap |-> sinceGap + 1, log |-> log]
    BY DEF Current
  <2>2. sinceGap + 1 \in Nat /\ expected \in Nat /\ Chain(log, a, expected)
    BY <1>2 DEF IInv, TypeOK, Chained, Current
  <2> QED BY <2>1, <2>2 DEF Chained
<1>4. /\ buffer' \subseteq Packet /\ IsFiniteSet(buffer')
      /\ Cardinality(buffer') \in Nat /\ Cardinality(buffer') <= Depth
      /\ \A q \in buffer' : Data(q) /\ q.session = session'
      /\ \A q, r \in buffer' : q.sequence = r.sequence => q = r
  <2>1. IsFiniteSet(buffer) /\ Cardinality(buffer) \in Nat /\ Cardinality(buffer) < Depth
    BY <1>1, FS_CardinalityType, PolicyAssumption DEF IInv, Held
  <2>2. CASE \E q \in buffer : q.sequence = p.sequence
    <3>1. buffer' = buffer
      BY <2>2 DEF OnAhead
    <3> QED BY <1>1, <2>1, <3>1 DEF IInv, Held, TypeOK
  <2>3. CASE ~ \E q \in buffer : q.sequence = p.sequence
    <3>1. buffer' = buffer \union {p} /\ p \notin buffer
      BY <2>3 DEF OnAhead
    <3>2. IsFiniteSet(buffer') /\ Cardinality(buffer') = Cardinality(buffer) + 1
      BY <2>1, <3>1, FS_AddElement
    <3>3. Cardinality(buffer') \in Nat /\ Cardinality(buffer') <= Depth
      BY <2>1, <3>2, PolicyAssumption
    <3>4. buffer' \subseteq Packet
      BY <3>1 DEF IInv, TypeOK
    <3>5. \A q \in buffer' : Data(q) /\ q.session = session'
      BY <1>1, <3>1 DEF IInv, Held
    <3>6. \A q, r \in buffer' : q.sequence = r.sequence => q = r
      BY <2>3, <3>1 DEF IInv, Held
    <3> QED BY <3>2, <3>3, <3>4, <3>5, <3>6
  <2> QED BY <2>2, <2>3
<1>5. CASE full
  <2>1. PICK f \in buffer' : Foremost(buffer', f) /\ Become(DeclareGap(s, f.sequence))
    BY <1>5 DEF OnAhead
  <2>2. loop' = "drain"
    BY <1>5 DEF OnAhead
  <2>3. f.sequence \in Nat
    BY <1>4 DEF Data
  <2> HIDE DEF s
  <2>4. Chained(DeclareGap(s, f.sequence), a) /\ DeclareGap(s, f.sequence).expected >= f.sequence
    BY <1>3, <2>3, DeclareGapChained
  <2>5. /\ expected' = DeclareGap(s, f.sequence).expected
        /\ expected' \in Nat /\ sinceGap' \in Nat /\ log' \in Seq(Call)
        /\ (\E b \in Nat : Chained(Current, b))'
    BY <2>1, <2>4, BecomeChained
  <2>6. ASSUME NEW g \in buffer', Foremost(buffer', g) PROVE g.sequence <= expected'
    BY <1>4, <2>1, <2>3, <2>4, <2>5, <2>6 DEF Foremost, Data
  <2>7. Held'
    BY <1>4, <2>2, <2>6 DEF Held, Foremost, Data
  <2>8. TypeOK'
    BY <1>1, <1>4, <2>2, <2>5 DEF IInv, TypeOK
  <2> QED BY <2>5, <2>7, <2>8 DEF IInv
<1>6. CASE ~full
  <2>1. Become(s) /\ loop' = "idle"
    BY <1>1, <1>6 DEF OnAhead
  <2>2. Cardinality(buffer') /= Depth
    BY <1>4, <1>6, PolicyAssumption
  <2> HIDE DEF s
  <2>3. /\ expected' \in Nat /\ sinceGap' \in Nat /\ log' \in Seq(Call)
        /\ (\E b \in Nat : Chained(Current, b))'
    BY <1>3, <2>1, BecomeChained
  <2>4. Held'
    BY <1>4, <2>2 DEF Held, Data
  <2>5. TypeOK'
    BY <1>1, <1>4, <2>1, <2>3 DEF IInv, TypeOK
  <2> QED BY <2>3, <2>4, <2>5 DEF IInv
<1> QED BY <1>5, <1>6

LEMMA DrainKeeps == IInv /\ Drain => IInv'
<1> SUFFICES ASSUME IInv, Drain PROVE IInv'
  OBVIOUS
<1>1. /\ session' = session /\ ended' = ended
      /\ loop \in {"drain", "flush_drain"} /\ AfterDrain \in {"idle", "flush"}
      /\ expected \in Nat /\ sinceGap \in Nat /\ log \in Seq(Call)
  BY DEF Drain, Draining, AfterDrain, IInv, TypeOK
<1>2. PICK a \in Nat : Chained(Current, a)
  BY DEF IInv
\* One packet fewer, and nothing else about the buffer.
<1>3. ASSUME NEW f \in buffer, buffer' = buffer \ {f} PROVE Held' /\ buffer' \subseteq Packet
  <2>1. IsFiniteSet(buffer) /\ Cardinality(buffer) \in Nat /\ Cardinality(buffer) <= Depth
    BY FS_CardinalityType DEF IInv, Held
  <2>2. IsFiniteSet(buffer') /\ Cardinality(buffer') = Cardinality(buffer) - 1
    BY <1>3, <2>1, FS_RemoveElement
  <2>3. Cardinality(buffer') < Depth
    BY <2>1, <2>2, PolicyAssumption
  <2>4. buffer' \subseteq Packet /\ Cardinality(buffer') /= Depth /\ Cardinality(buffer') <= Depth
    BY <1>3, <2>1, <2>2, <2>3, PolicyAssumption DEF IInv, TypeOK
  <2>5. \A p \in buffer' : Data(p) /\ p.session = session'
    BY <1>1, <1>3 DEF IInv, Held
  <2>6. \A p, q \in buffer' : p.sequence = q.sequence => p = q
    BY <1>3 DEF IInv, Held
  <2> QED BY <2>2, <2>4, <2>5, <2>6 DEF Held, Data
\* The state deliver() and declare_gap() work on is as it was.
<1>4. ASSUME expected' = expected, log' = log, sinceGap' \in Nat
      PROVE  (\E b \in Nat : Chained(Current, b))'
  <2>1. Chained(Current', a)
    BY <1>1, <1>2, <1>4 DEF Chained, Current
  <2> QED BY <2>1 DEF Chained, Chain, CallEnd
<1>5. CASE DrainEmpty
  <2>1. Held' /\ buffer' \subseteq Packet
    BY <1>5, FS_EmptySet, PolicyAssumption DEF DrainEmpty, Held
  <2>2. TypeOK'
    BY <1>1, <1>5, <2>1 DEF DrainEmpty, IInv, TypeOK
  <2> QED BY <1>4, <1>5, <2>1, <2>2 DEF DrainEmpty, IInv
<1>6. ASSUME NEW f \in buffer, Foremost(buffer, f), DrainStale(f) PROVE IInv'
  <2>1. Held' /\ buffer' \subseteq Packet
    BY <1>3, <1>6 DEF DrainStale
  <2>2. TypeOK'
    BY <1>1, <1>6, <2>1 DEF DrainStale, IInv, TypeOK
  <2> QED BY <1>1, <1>4, <1>6, <2>1, <2>2 DEF DrainStale, IInv
<1>7. ASSUME NEW f \in buffer, Foremost(buffer, f), DrainDeliver(f) PROVE IInv'
  <2>1. Held' /\ buffer' \subseteq Packet
    BY <1>3, <1>7 DEF DrainDeliver
  <2>2. Data(f) /\ f.sequence <= Current.expected
    BY <1>7 DEF DrainDeliver, IInv, Held, Current
  <2>3. Chained(Deliver(Current, f, expected - f.sequence), a)
    <3>1. Current.expected = expected
      BY DEF Current
    <3>2. Chained(Deliver(Current, f, Current.expected - f.sequence), a)
      BY <1>2, <2>2, DeliverChained
    <3> QED BY <3>1, <3>2
  <2>4. /\ expected' \in Nat /\ sinceGap' \in Nat /\ log' \in Seq(Call)
        /\ (\E b \in Nat : Chained(Current, b))'
    BY <1>7, <2>3, BecomeChained DEF DrainDeliver
  <2>5. TypeOK'
    BY <1>1, <1>7, <2>1, <2>4 DEF DrainDeliver, IInv, TypeOK
  <2> QED BY <2>1, <2>4, <2>5 DEF IInv
<1>8. ASSUME NEW f \in buffer, Foremost(buffer, f), DrainBlocked(f) PROVE IInv'
  <2>1. Cardinality(buffer) /= Depth
    <3>1. f.sequence \in Nat /\ f.sequence > expected
      BY <1>8 DEF DrainBlocked, IInv, Held, Data
    <3> QED BY <1>1, <1>8, <3>1 DEF IInv, Held
  <2>2. Held'
    BY <1>1, <1>8, <2>1 DEF DrainBlocked, IInv, Held, Data
  <2>3. TypeOK'
    BY <1>1, <1>8 DEF DrainBlocked, IInv, TypeOK
  <2> QED BY <1>1, <1>4, <1>8, <2>2, <2>3 DEF DrainBlocked, IInv
<1> QED BY <1>5, <1>6, <1>7, <1>8 DEF Drain

LEMMA FlushKeeps == IInv /\ (StartFlush \/ Flush) => IInv'
<1> SUFFICES ASSUME IInv, StartFlush \/ Flush PROVE IInv'
  OBVIOUS
<1>1. /\ session' = session /\ ended' = ended /\ buffer' = buffer
      /\ loop \in {"idle", "flush"} /\ loop' \in {"flush", "closed", "flush_drain"}
  BY DEF StartFlush, Flush
<1>2. PICK a \in Nat : Chained(Current, a)
  BY DEF IInv
<1>3. Held'
  <2>1. Cardinality(buffer) /= Depth
    BY <1>1 DEF IInv, Held
  <2> QED BY <1>1, <2>1 DEF IInv, Held, Data
<1>4. CASE UNCHANGED <<expected, sinceGap, log>>
  <2>1. Chained(Current', a)
    BY <1>2, <1>4 DEF Current
  <2>2. (\E b \in Nat : Chained(Current, b))'
    BY <2>1 DEF Chained, Chain, CallEnd
  <2>3. TypeOK'
    BY <1>1, <1>4 DEF IInv, TypeOK
  <2> QED BY <1>3, <2>2, <2>3 DEF IInv
<1>5. ASSUME NEW f \in buffer, Become(DeclareGap(Current, f.sequence)) PROVE IInv'
  <2>1. f.sequence \in Nat
    BY DEF IInv, Held, Data
  <2>2. Chained(DeclareGap(Current, f.sequence), a)
    BY <1>2, <2>1, DeclareGapChained
  <2>3. /\ expected' \in Nat /\ sinceGap' \in Nat /\ log' \in Seq(Call)
        /\ (\E b \in Nat : Chained(Current, b))'
    BY <1>5, <2>2, BecomeChained
  <2>4. TypeOK'
    BY <1>1, <2>3 DEF IInv, TypeOK
  <2> QED BY <1>3, <2>3, <2>4 DEF IInv
<1> QED BY <1>4, <1>5 DEF StartFlush, Flush

LEMMA NextIInv == IInv /\ [Next]_vars => IInv'
<1> SUFFICES ASSUME IInv, [Next]_vars PROVE IInv'
  OBVIOUS
<1>1. CASE UNCHANGED vars
  BY <1>1 DEF vars, IInv, TypeOK, Held, Current, Chained, Chain, CallEnd, Foremost, Data
<1>2. ASSUME NEW p \in Packet, OnPacket(p) PROVE IInv'
  <2>1. CASE OnDuplicate(p)
    BY <1>1, <2>1 DEF OnDuplicate
  <2> QED BY <1>2, <2>1, EndOfSessionKeeps, HeartbeatKeeps, NextKeeps, AheadKeeps
          DEF OnPacket
<1> QED BY <1>1, <1>2, DrainKeeps, FlushKeeps DEF Next

THEOREM SequencerInvariant == Spec => []IInv
<1> QED BY InitIInv, NextIInv, PTL DEF Spec

-----------------------------------------------------------------------------
(* What it gives.                                                          *)

\* Every variable keeps its type, for every depth, patience and packet.
THEOREM SequencerTypeCorrect == Spec => []TypeOK
<1>1. IInv => TypeOK
  BY DEF IInv
<1> QED BY <1>1, SequencerInvariant, PTL

\* The handler hears of consecutive numbers: no duplicate, no silent skip.
THEOREM SequencerContiguous == Spec => []Contiguous
<1>1. IInv => Contiguous
  BY DEF IInv, Chained, Chain, Contiguous, Current
<1> QED BY <1>1, SequencerInvariant, PTL

\* The reorder buffer is below its depth whenever a packet can arrive, holds
\* one packet per number, and nothing of an earlier session.
THEOREM SequencerBufferBounded == Spec => []BufferBounded
<1>1. IInv => BufferBounded
  <2> SUFFICES ASSUME IInv PROVE BufferBounded
    OBVIOUS
  <2>1. Cardinality(buffer) \in Nat /\ Cardinality(buffer) <= Depth
    BY FS_CardinalityType DEF IInv, Held
  <2>2. loop = "idle" => Cardinality(buffer) /= Depth
    BY DEF IInv, Held
  <2> QED BY <2>1, <2>2, PolicyAssumption DEF IInv, Held, BufferBounded
<1> QED BY <1>1, SequencerInvariant, PTL

-----------------------------------------------------------------------------
(***************************************************************************)
(* The refinement.  Reports(s, t) says that t adds to s what one Advance   *)
(* of the contract adds; declare_gap() and deliver() both do, and a packet *)
(* of a new session does so from an empty log.                             *)
(***************************************************************************)
Reports(s, t) ==
  \E got \in Nat, missed \in Nat :
    /\ t.expected = s.expected + got + missed
    /\ t.log = s.log \o Contract!Messages(s.expected, got)
                     \o Contract!Losses(s.expected + got, missed)

LEMMA MessagesIsSeq ==
  ASSUME NEW n \in Nat, NEW got \in Nat
  PROVE  /\ Contract!Messages(n, got) = [i \in 1..got |-> Msg(n + i - 1)]
         /\ Contract!Messages(n, got) \in Seq(Call)
         /\ Len(Contract!Messages(n, got)) = got
<1>1. Contract!Messages(n, got) = [i \in 1..got |-> Msg(n + i - 1)]
  BY DEF Contract!Messages, Contract!Msg, Msg
<1>2. [i \in 1..got |-> Msg(n + i - 1)] \in Seq(Call)
  BY MessagesChain DEF Chain
<1> QED BY <1>1, <1>2

LEMMA LossesIsSeq ==
  ASSUME NEW n \in Nat, NEW k \in Nat
  PROVE  /\ Contract!Losses(n, k) = IF k = 0 THEN << >> ELSE <<Gap(n, k)>>
         /\ Contract!Losses(n, k) \in Seq(Call)
<1>1. k /= 0 => <<Gap(n, k)>> \in Seq(Call)
  BY DEF Gap, Call
<1> QED BY <1>1, EmptySeq DEF Contract!Losses, Contract!Gap, Gap

LEMMA DeclareGapReports ==
  ASSUME NEW s, NEW a, NEW upTo \in Nat, Chained(s, a)
  PROVE  Reports(s, DeclareGap(s, upTo))
<1>1. s.expected \in Nat /\ s.log \in Seq(Call)
  BY DEF Chained, Chain
<1>2. Contract!Messages(s.expected, 0) = << >>
  BY <1>1, MessagesIsSeq, EmptySeq
<1>3. s.log \o << >> = s.log
  BY <1>1, ConcatEmptySeq
<1>4. CASE upTo <= s.expected
  <2>1. DeclareGap(s, upTo) = s /\ Contract!Losses(s.expected, 0) = << >>
    BY <1>1, <1>4, LossesIsSeq DEF DeclareGap
  <2>2. s.expected + 0 = s.expected /\ s.expected + 0 + 0 = s.expected
    BY <1>1
  <2>3. s.log = s.log \o Contract!Messages(s.expected, 0)
                      \o Contract!Losses(s.expected + 0, 0)
    BY <1>2, <1>3, <2>1, <2>2
  <2> QED BY <2>1, <2>2, <2>3 DEF Reports
<1>5. CASE upTo > s.expected
  <2> DEFINE k == upTo - s.expected
  <2>1. k \in Nat \ {0} /\ s.expected + 0 = s.expected /\ s.expected + 0 + k = upTo
    BY <1>1, <1>5
  <2>2. /\ DeclareGap(s, upTo).expected = upTo
        /\ DeclareGap(s, upTo).log = Append(s.log, Gap(s.expected, k))
    BY <1>1, <1>5 DEF DeclareGap
  <2>3. Contract!Losses(s.expected, k) = <<Gap(s.expected, k)>>
    BY <1>1, <2>1, LossesIsSeq
  <2>4. Append(s.log, Gap(s.expected, k)) = s.log \o <<Gap(s.expected, k)>>
    <3>1. Gap(s.expected, k) \in Call
      BY <1>1, <2>1 DEF Gap, Call
    <3> QED BY <1>1, <3>1
  <2> HIDE DEF k
  <2>5. DeclareGap(s, upTo).log = s.log \o Contract!Messages(s.expected, 0)
                                        \o Contract!Losses(s.expected + 0, k)
    BY <1>2, <1>3, <2>1, <2>2, <2>3, <2>4
  <2> QED BY <2>1, <2>2, <2>5 DEF Reports
<1> QED BY <1>1, <1>4, <1>5

LEMMA DeliverReports ==
  ASSUME NEW s, NEW a, NEW p, Chained(s, a), Data(p), p.sequence <= s.expected
  PROVE  Reports(s, Deliver(s, p, s.expected - p.sequence))
<1> DEFINE got == Yielded(p, s.expected - p.sequence)
           missed == Unconsumed(p)
<1>1. s.expected \in Nat /\ got \in Nat /\ missed \in Nat /\ s.expected + got \in Nat
  <2>1. got \in Nat /\ missed \in Nat
    BY DeliverChained
  <2>2. s.expected \in Nat
    BY DEF Chained
  <2> QED BY <2>1, <2>2
<1>2. /\ Deliver(s, p, s.expected - p.sequence).expected = s.expected + got + missed
      /\ Deliver(s, p, s.expected - p.sequence).log =
           s.log \o [i \in 1..got |-> Msg(s.expected + i - 1)]
                 \o (IF missed = 0 THEN << >> ELSE <<Gap(s.expected + got, missed)>>)
  <2> DEFINE d == Deliver(s, p, s.expected - p.sequence)
  <2>1. d = [expected |-> s.expected + got + missed, sinceGap |-> s.sinceGap,
             log |-> s.log \o [i \in 1..got |-> Msg(s.expected + i - 1)]
                     \o (IF missed = 0 THEN << >> ELSE <<Gap(s.expected + got, missed)>>)]
    BY DeliverChained
  <2> HIDE DEF d, got, missed
  <2>2. /\ d.expected = s.expected + got + missed
        /\ d.log = s.log \o [i \in 1..got |-> Msg(s.expected + i - 1)]
                   \o (IF missed = 0 THEN << >> ELSE <<Gap(s.expected + got, missed)>>)
    BY <2>1
  <2> QED BY <2>2 DEF d
<1> HIDE DEF got, missed
<1>3. /\ Contract!Messages(s.expected, got) = [i \in 1..got |-> Msg(s.expected + i - 1)]
      /\ Contract!Losses(s.expected + got, missed) =
           IF missed = 0 THEN << >> ELSE <<Gap(s.expected + got, missed)>>
  BY <1>1, MessagesIsSeq, LossesIsSeq
<1> QED BY <1>1, <1>2, <1>3 DEF Reports

\* A report on the current session is an Advance of the contract.
LEMMA ReportAdvances ==
  ASSUME NEW t, NEW a, Chained(Current, a), Reports(Current, t), Become(t),
         session' = session
  PROVE  Contract!Next
<1>1. /\ expected \in Nat /\ log \in Seq(Call)
      /\ Current.expected = expected /\ Current.log = log
  BY DEF Chained, Chain, Current
<1>2. PICK got \in Nat, missed \in Nat :
        /\ expected' = expected + got + missed
        /\ log' = log \o Contract!Messages(expected, got)
                      \o Contract!Losses(expected + got, missed)
  BY <1>1 DEF Reports, Become
<1> DEFINE m == Contract!Messages(expected, got)
           g == Contract!Losses(expected + got, missed)
<1>3. m \in Seq(Call) /\ Len(m) = got /\ g \in Seq(Call)
  <2>1. expected + got \in Nat
    BY <1>1
  <2> QED BY <1>1, <2>1, MessagesIsSeq, LossesIsSeq
<1> HIDE DEF m, g
<1>4. Len((log \o m) \o g) = Len(log) + got + Len(g) /\ Len(log) \in Nat /\ Len(g) \in Nat
  BY <1>1, <1>3
<1>5. log' = (log \o m) \o g
  BY <1>2 DEF m, g
<1>6. got \in 0..Len(log')
  BY <1>4, <1>5
<1>7. missed \in 0..(expected' - expected)
  BY <1>1, <1>2
<1> QED BY <1>2, <1>6, <1>7 DEF Contract!Next, Contract!Advance

\* A report on a session that starts with this packet.
LEMMA ReportStarts ==
  ASSUME IInv, NEW p \in Packet, p.session /= session, NEW t,
         Reports(AfterSession(p), t), Become(t), session' = p.session
  PROVE  Contract!Next
<1> DEFINE n == p.sequence
<1>1. n \in Nat /\ AfterSession(p).expected = n /\ AfterSession(p).log = << >>
  BY PacketFields DEF AfterSession
<1>2. PICK got \in Nat, missed \in Nat :
        /\ expected' = n + got + missed
        /\ log' = << >> \o Contract!Messages(n, got)
                        \o Contract!Losses(n + got, missed)
  BY <1>1 DEF Reports, Become
<1> HIDE DEF n
<1> DEFINE m == Contract!Messages(n, got)
           g == Contract!Losses(n + got, missed)
<1>3. m \in Seq(Call) /\ Len(m) = got /\ g \in Seq(Call)
  <2>1. n + got \in Nat
    BY <1>1
  <2> QED BY <1>1, <2>1, MessagesIsSeq, LossesIsSeq
<1>4. log' = m \o g
  BY <1>2, <1>3, ConcatEmptySeq
<1>5. n = expected' - got - missed /\ expected' >= got + missed
      /\ missed \in 0..expected'
  BY <1>1, <1>2
<1>6. got \in 0..Len(log')
  <2> HIDE DEF m, g
  <2>1. Len(m \o g) = got + Len(g) /\ Len(g) \in Nat
    BY <1>3
  <2> QED BY <1>4, <2>1
<1> QED BY <1>4, <1>5, <1>6 DEF Contract!Next, Contract!StartAndAdvance

\* A step that reports nothing about the current session.
LEMMA QuietStutters ==
  ASSUME UNCHANGED <<session, expected, log>> PROVE UNCHANGED Contract!contractVars
BY DEF Contract!contractVars

LEMMA PacketRefines ==
  ASSUME IInv, NEW p \in Packet, OnPacket(p)
  PROVE  [Contract!Next]_(Contract!contractVars)
<1> DEFINE s == AfterSession(p)
<1>1. PICK a \in Nat : Chained(s, a)
  BY AfterSessionChained
<1>2. p.sequence \in Nat
  BY PacketFields
<1>3. ASSUME NEW t, Reports(s, t), Become(t), session' = p.session
      PROVE  Contract!Next
  <2>1. CASE p.session = session
    <3>1. s = Current
      BY <2>1 DEF AfterSession
    <3> HIDE DEF s
    <3>2. Chained(Current, a) /\ Reports(Current, t) /\ session' = session
      BY <1>1, <1>3, <2>1, <3>1
    <3> QED BY <1>3, <3>2, ReportAdvances
  <2>2. CASE p.session /= session
    BY <1>3, <2>2, ReportStarts
  <2> QED BY <2>1, <2>2
<1>4. CASE OnEndOfSession(p)
  <2>1. CASE p.session = session
    BY <1>4, <2>1 DEF OnEndOfSession, AfterSession, Become, Current,
                      Contract!contractVars
  <2>2. CASE p.session /= session
    BY <1>2, <1>4, <2>2 DEF OnEndOfSession, AfterSession, Become,
                            Contract!Next, Contract!StartSession
  <2> QED BY <2>1, <2>2
<1>5. CASE OnHeartbeat(p)
  <2>1. Become(DeclareGap(s, p.sequence)) /\ session' = p.session
    BY <1>5 DEF OnHeartbeat
  <2>2. Reports(s, DeclareGap(s, p.sequence))
    BY <1>1, <1>2, DeclareGapReports
  <2> HIDE DEF s
  <2> QED BY <1>3, <2>1, <2>2
<1>6. CASE OnNext(p)
  <2>1. /\ Become(Deliver(s, p, s.expected - p.sequence))
        /\ p.sequence <= s.expected /\ session' = p.session
    BY <1>6 DEF OnNext
  <2>2. Data(p)
    BY <1>6, PacketFields DEF OnNext
  <2> HIDE DEF s
  <2>3. Reports(s, Deliver(s, p, s.expected - p.sequence))
    BY <1>1, <2>1, <2>2, DeliverReports
  <2> QED BY <1>3, <2>1, <2>3
<1>7. CASE OnDuplicate(p)
  BY <1>7 DEF OnDuplicate, vars, Contract!contractVars
<1>8. CASE OnAhead(p)
  <2> DEFINE u == [Current EXCEPT !.sinceGap = @ + 1]
  <2>1. /\ u.expected = expected /\ u.log = log /\ u.sinceGap = sinceGap + 1
        /\ u = [expected |-> expected, sinceGap |-> sinceGap + 1, log |-> log]
        /\ Current.expected = expected /\ Current.log = log
        /\ s = Current
    BY <1>8 DEF Current, OnAhead, AfterSession
  <2>2. Chained(u, a) /\ Chained(Current, a)
    <3>1. Chained(Current, a)
      BY <1>1, <2>1
    <3>2. sinceGap + 1 \in Nat /\ expected \in Nat /\ Chain(log, a, expected)
      BY <3>1 DEF Chained, Current
    <3> QED BY <2>1, <3>1, <3>2 DEF Chained
  <2>3. CASE Become(u)
    BY <1>8, <2>1, <2>3 DEF OnAhead, Become, Contract!contractVars
  <2>4. ASSUME NEW f \in buffer', Become(DeclareGap(u, f.sequence))
        PROVE  Contract!Next
    <3>1. f.sequence \in Nat
      <4>1. f \in Packet
        BY <1>8 DEF OnAhead, IInv, TypeOK
      <4> QED BY <4>1, PacketFields
    <3> HIDE DEF u
    <3>2. Reports(u, DeclareGap(u, f.sequence))
      BY <2>2, <3>1, DeclareGapReports
    <3>3. Reports(Current, DeclareGap(u, f.sequence))
      BY <2>1, <3>2 DEF Reports
    <3> QED BY <1>8, <2>2, <2>4, <3>3, ReportAdvances DEF OnAhead
  <2> QED BY <1>8, <2>3, <2>4 DEF OnAhead
<1> QED BY <1>4, <1>5, <1>6, <1>7, <1>8 DEF OnPacket

LEMMA LoopRefines ==
  ASSUME IInv, Drain \/ StartFlush \/ Flush
  PROVE  [Contract!Next]_(Contract!contractVars)
<1>0. session' = session
  BY DEF Drain, StartFlush, Flush
<1>1. PICK a \in Nat : Chained(Current, a)
  BY DEF IInv
<1>2. Current.expected = expected
  BY DEF Current
<1>3. ASSUME NEW f \in buffer, DrainDeliver(f) PROVE Contract!Next
  <2>1. Data(f) /\ f.sequence <= expected
    BY <1>3 DEF DrainDeliver, IInv, Held
  <2>2. Reports(Current, Deliver(Current, f, Current.expected - f.sequence))
    BY <1>1, <1>2, <2>1, DeliverReports
  <2>3. Become(Deliver(Current, f, Current.expected - f.sequence))
    BY <1>2, <1>3 DEF DrainDeliver
  <2> QED BY <1>0, <1>1, <2>2, <2>3, ReportAdvances
<1>4. ASSUME NEW f \in buffer, Become(DeclareGap(Current, f.sequence))
      PROVE  Contract!Next
  <2>1. f.sequence \in Nat
    BY DEF IInv, Held, Data
  <2>2. Reports(Current, DeclareGap(Current, f.sequence))
    BY <1>1, <2>1, DeclareGapReports
  <2> QED BY <1>0, <1>1, <1>4, <2>2, ReportAdvances
<1>5. CASE Drain
  BY <1>0, <1>3, <1>5 DEF Drain, DrainEmpty, DrainStale, DrainBlocked, Contract!contractVars
<1>6. CASE StartFlush \/ Flush
  BY <1>0, <1>4, <1>6 DEF StartFlush, Flush, Contract!contractVars
<1> QED BY <1>5, <1>6

\* Whatever arrives, the handler sees an ordered feed with declared gaps.
THEOREM SequencerImplementsContract == Spec => ContractSpec
<1>1. Init => Contract!Init
  BY DEF Init, Contract!Init
<1>2. IInv /\ [Next]_vars => [Contract!Next]_(Contract!contractVars)
  <2> SUFFICES ASSUME IInv, [Next]_vars
               PROVE  [Contract!Next]_(Contract!contractVars)
    OBVIOUS
  <2>1. CASE UNCHANGED vars
    BY <2>1 DEF vars, Contract!contractVars
  <2> QED BY <2>1, PacketRefines, LoopRefines DEF Next
<1> QED BY <1>1, <1>2, SequencerInvariant, PTL DEF Spec, ContractSpec, Contract!Spec

-----------------------------------------------------------------------------
(* The link.                                                               *)

-----------------------------------------------------------------------------
(* The invariant.                                                          *)

\* What the sender has sent in its open session lies in front of the packet
\* it is filling, and no two data packets of a session overlap.
Sender ==
  /\ weather \in Weathers
  /\ pubSession \in 1..weather.starts
  /\ sequence \in Nat \ {0} /\ count \in 0..PerPacket /\ count < EndOfSession
  /\ sequence + count <= weather.messages + 1
  /\ \A d \in net :
       /\ d \in Packet /\ d.session \in 1..pubSession
       /\ IsData(d) => d.blocks = d.count
       /\ ~weather.heartbeats => d.count /= 0
       /\ d.session = pubSession => d.sequence <= sequence /\ (IsData(d) => End(d) <= sequence)
  /\ \A d, e \in net :
       e /= d /\ e.session = d.session /\ IsData(d) /\ IsData(e) => End(e) <= d.sequence \/ End(d) <= e.sequence

\* l reports each of the numbers a .. b - 1 once and in order.
Report(l, a, b) ==
  /\ l \in Seq(Call) /\ a \in Nat /\ b \in Nat /\ a <= b
  /\ IF l = << >> THEN a = b ELSE l[1].first = a
  /\ \A i \in 1..Len(l) :
       a <= l[i].first /\ CallEnd(l[i]) <= b /\ (l[i].kind = "msg" => l[i].count = 1)
  /\ \A i, j \in 1..Len(l) : i < j => CallEnd(l[i]) <= l[j].first
  /\ \A n \in a..(b - 1) : \E i \in 1..Len(l) : l[i].first <= n /\ n < CallEnd(l[i])

Start(l, b) == IF l = << >> THEN b ELSE l[1].first

\* The messages in l are among arr, as numbers of session s.
Known(l, s, arr) == \A i \in 1..Len(l) : l[i].kind = "msg" => <<s, l[i].first>> \in arr

\* The numbers of the messages a datagram brings.
Numbered(p) == {<<p.session, n>> : n \in p.sequence..(p.sequence + p.blocks - 1)}

\* What the receiver knows came from the sender: s, e, l, held and arr stand
\* for session, expected, log, buffer and arrived.
Sourced(s, e, l, held, arr) ==
  /\ Report(l, Start(l, e), e)
  /\ Known(l, s, arr)
  /\ \A q \in held : Numbered(q) \subseteq arr
  /\ s = pubSession => \A q \in held : End(q) <= sequence
  /\ ~weather.clipping => /\ \A q \in held : q.blocks = q.count
                          /\ s = pubSession => e <= sequence
  /\ ~weather.clipping /\ ~weather.retransmits => held \subseteq net

Simple == weather.starts = 1 /\ ~weather.clipping /\ ~weather.retransmits

\* What arrived and was not reported waits in the buffer.
Waiting(e, held, arr) ==
  Simple => \A m \in arr : m[2] < e \/ \E q \in held : q.sequence <= m[2] /\ m[2] < End(q)

LInv ==
  /\ session \in {NoSession} \union 1..pubSession
  /\ session = NoSession => arrived = {} /\ log = << >> /\ buffer = {}
  /\ arrived \subseteq (1..pubSession) \X Nat
  /\ Sourced(session, expected, log, buffer, arrived)
  /\ Waiting(expected, buffer, arrived)
  /\ weather.starts = 1 => past = {}
  /\ loop = "closed" => buffer = {}

SLInv == Sender /\ LInv

-----------------------------------------------------------------------------
(* The sender.                                                             *)

LEMMA SenderTypes ==
  ASSUME Sender
  PROVE  /\ weather.starts \in Nat \ {0} /\ weather.messages \in Nat
         /\ pubSession \in Nat /\ pubSession > 0 /\ sequence \in Nat /\ sequence > 0 /\ count \in Nat
         /\ pubSession \in Sessions /\ sequence \in Numbers /\ sequence + count \in Numbers
         /\ EndOfSession \in Nat /\ EndOfSession > 1 /\ PerPacket \in Nat
<1>1. weather \in [heartbeats : BOOLEAN, clipping : BOOLEAN, retransmits : BOOLEAN,
                   starts : Nat \ {0}, messages : Nat]
  BY WeatherAssumption DEF Sender
<1>2. weather.starts \in Nat \ {0} /\ weather.messages \in Nat
  BY <1>1
<1>3. PerPacket \in Nat /\ EndOfSession \in Nat /\ EndOfSession > 1
  BY PerPacketAssumption, EndOfSessionAssumption
<1>4. pubSession \in Nat /\ pubSession > 0 /\ sequence \in Nat /\ sequence > 0 /\ count \in Nat
  BY <1>2, <1>3 DEF Sender
<1>5. 1..weather.starts \subseteq Sessions /\ 1..(weather.messages + 1) \subseteq Numbers
  BY AlphabetAssumption DEF Sender
<1>6. sequence \in 1..(weather.messages + 1) /\ sequence + count \in 1..(weather.messages + 1)
  BY <1>2, <1>4 DEF Sender
<1> QED BY <1>2, <1>3, <1>4, <1>5, <1>6 DEF Sender

LEMMA FlushedPacket ==
  ASSUME Sender, NEW d \in Flushed
  PROVE  /\ d \in Packet /\ d.session = pubSession /\ d.sequence = sequence /\ d.count = count
         /\ d.blocks = count /\ d.count > 0 /\ IsData(d)
<1>1. d = [session |-> pubSession, sequence |-> sequence, count |-> count, blocks |-> count] /\ count /= 0
  BY DEF Flushed, Datagram
<1>2. /\ d.session = pubSession /\ d.sequence = sequence /\ d.count = count /\ d.blocks = count
  BY <1>1
<1>3. count > 0 /\ count \in 1..PerPacket /\ count < EndOfSession
  BY <1>1, SenderTypes DEF Sender
<1>4. count \in Counts
  BY <1>3, AlphabetAssumption
<1>5. count \in UNION {0..c : c \in Counts}
  BY <1>3, <1>4, SenderTypes
<1>6. d \in DataPacket
  BY <1>1, <1>4, <1>5, SenderTypes DEF DataPacket
<1>7. IsData(d)
  BY <1>2, <1>3, SenderTypes DEF IsData
<1>8. count <= count
  BY SenderTypes
<1> QED BY <1>2, <1>3, <1>6, <1>7, <1>8 DEF Packet

LEMMA ControlDatagram ==
  ASSUME Sender, NEW c \in {0, EndOfSession}
  PROVE  LET d == Datagram(sequence + count, c, 0)
         IN  /\ d \in Packet /\ d.session = pubSession /\ d.sequence = sequence + count /\ d.count = c
             /\ ~IsData(d)
<1> DEFINE d == Datagram(sequence + count, c, 0)
<1>1. d = [session |-> pubSession, sequence |-> sequence + count, count |-> c, blocks |-> 0]
  BY DEF Datagram
<1>2. d \in ControlPacket
  BY <1>1, SenderTypes DEF ControlPacket
<1>3. ~IsData(d)
  BY <1>1 DEF IsData
<1> QED BY <1>1, <1>2, <1>3 DEF Packet

\* Closing the open packet, with or without a control packet behind it.
LEMMA Flushing ==
  ASSUME Sender, UNCHANGED <<weather, pubSession>>, sequence' = sequence + count,
         NEW control \in SUBSET {0, EndOfSession}, 0 \in control => weather.heartbeats,
         net' = (net \union Flushed) \union {Datagram(sequence + count, c, 0) : c \in control},
         count' \in 0..PerPacket, count' < EndOfSession,
         sequence' + count' <= weather.messages + 1
  PROVE  Sender'
<1> DEFINE X == {Datagram(sequence + count, c, 0) : c \in control}
<1>1. /\ sequence \in Nat /\ sequence > 0 /\ count \in Nat /\ sequence' \in Nat \ {0} /\ sequence <= sequence'
      /\ pubSession \in 1..pubSession
  BY SenderTypes
<1>2. \A d \in Flushed :
        /\ d \in Packet /\ d.session = pubSession /\ d.sequence = sequence /\ d.count = count
        /\ d.blocks = count /\ d.count > 0 /\ IsData(d)
  BY FlushedPacket
<1>3. \A d \in X :
        /\ d \in Packet /\ d.session = pubSession /\ d.sequence = sequence + count /\ d.count \in control
        /\ ~IsData(d)
  BY ControlDatagram
<1>4. \A d \in net : d.sequence \in Nat /\ (IsData(d) => d.count \in Nat /\ End(d) \in Nat)
  <2> SUFFICES ASSUME NEW d \in net PROVE d.sequence \in Nat /\ (IsData(d) => d.count \in Nat /\ End(d) \in Nat)
    OBVIOUS
  <2>1. d \in Packet
    BY DEF Sender
  <2> QED BY <2>1, PacketFields DEF Data, End
<1> HIDE DEF X
<1>5. ASSUME NEW d \in net'
      PROVE  /\ d \in Packet /\ d.session \in 1..pubSession
             /\ IsData(d) => d.blocks = d.count
             /\ ~weather.heartbeats => d.count /= 0
             /\ d.session = pubSession => d.sequence <= sequence' /\ (IsData(d) => End(d) <= sequence')
  <2>1. CASE d \in net
    <3>1. /\ d \in Packet /\ d.session \in 1..pubSession
          /\ IsData(d) => d.blocks = d.count
          /\ ~weather.heartbeats => d.count /= 0
          /\ d.session = pubSession => d.sequence <= sequence /\ (IsData(d) => End(d) <= sequence)
      BY <2>1 DEF Sender
    <3> QED BY <1>1, <1>4, <2>1, <3>1
  <2>2. CASE d \in Flushed
    <3>1. End(d) = sequence + count
      BY <1>2, <2>2 DEF End
    <3> QED BY <1>1, <1>2, <2>2, <3>1
  <2>3. CASE d \in X
    <3>1. d.count = 0 => weather.heartbeats
      BY <1>3, <2>3
    <3> QED BY <1>1, <1>3, <2>3, <3>1
  <2> QED BY <2>1, <2>2, <2>3 DEF X
<1>6. ASSUME NEW d \in net', NEW e \in net', e /= d, e.session = d.session, IsData(d), IsData(e)
      PROVE  End(e) <= d.sequence \/ End(d) <= e.sequence
  <2>1. d \in net \union Flushed /\ e \in net \union Flushed
    BY <1>3, <1>6 DEF X
  <2>2. \A x, y \in Flushed : x = y
    BY DEF Flushed
  <2>3. \A x \in net : x.session = pubSession /\ IsData(x) => End(x) <= sequence
    BY DEF Sender
  <2>4. CASE d \in net /\ e \in net
    BY <1>6, <2>4 DEF Sender
  <2>5. CASE d \in Flushed /\ e \in net
    BY <1>2, <1>6, <2>3, <2>5
  <2>6. CASE d \in net /\ e \in Flushed
    BY <1>2, <1>6, <2>3, <2>6
  <2> QED BY <1>6, <2>1, <2>2, <2>4, <2>5, <2>6
<1> QED BY <1>1, <1>5, <1>6 DEF Sender, End, IsData

\* The network in a step that sends nothing.
LEMMA NothingSent ==
  ASSUME Sender, UNCHANGED <<weather, net>>, pubSession' \in 1..weather.starts,
         sequence' \in Nat \ {0}, count' \in 0..PerPacket, count' < EndOfSession,
         sequence' + count' <= weather.messages + 1,
         \/ pubSession' = pubSession /\ sequence' = sequence
         \/ pubSession' = pubSession + 1
  PROVE  Sender'
<1>1. pubSession \in Nat /\ \A d \in net : d.session \in 1..pubSession
  BY SenderTypes DEF Sender
<1>2. ASSUME NEW d \in net
      PROVE  /\ d \in Packet /\ d.session \in 1..pubSession'
             /\ IsData(d) => d.blocks = d.count
             /\ ~weather.heartbeats => d.count /= 0
             /\ d.session = pubSession' => d.sequence <= sequence' /\ (IsData(d) => End(d) <= sequence')
  <2>1. /\ d \in Packet /\ d.session \in 1..pubSession
        /\ IsData(d) => d.blocks = d.count
        /\ ~weather.heartbeats => d.count /= 0
        /\ d.session = pubSession => d.sequence <= sequence /\ (IsData(d) => End(d) <= sequence)
    BY DEF Sender
  <2>2. CASE pubSession' = pubSession /\ sequence' = sequence
    BY <2>1, <2>2
  <2>3. CASE pubSession' = pubSession + 1
    <3>1. d.session \in 1..pubSession' /\ d.session /= pubSession'
      BY <1>1, <2>3
    <3> QED BY <2>1, <3>1
  <2> QED BY <2>2, <2>3
<1>3. \A d, e \in net :
        e /= d /\ e.session = d.session /\ IsData(d) /\ IsData(e)
          => End(e) <= d.sequence \/ End(d) <= e.sequence
  BY DEF Sender
<1>4. weather \in Weathers
  BY DEF Sender
<1> QED BY <1>2, <1>3, <1>4 DEF Sender, End, IsData

\* The same without a control packet.
LEMMA FlushingOnly ==
  ASSUME Sender, UNCHANGED <<weather, pubSession>>, sequence' = sequence + count,
         net' = net \union Flushed, count' \in 0..PerPacket, count' < EndOfSession,
         sequence' + count' <= weather.messages + 1
  PROVE  Sender'
<1> DEFINE none == {}
           X(control) == {Datagram(sequence + count, c, 0) : c \in control}
<1>1. none \in SUBSET {0, EndOfSession} /\ ~(0 \in none)
  OBVIOUS
<1>2. X(none) = {}
  OBVIOUS
<1> HIDE DEF none
<1>3. net' = (net \union Flushed) \union {Datagram(sequence + count, c, 0) : c \in none}
  BY <1>2
<1> QED BY <1>1, <1>3, Flushing

LEMMA SenderInit == LinkInit => Sender
<1> SUFFICES ASSUME LinkInit PROVE Sender
  OBVIOUS
<1>1. weather \in Weathers /\ pubSession = 1 /\ sequence = 1 /\ count = 0 /\ net = {}
  BY DEF LinkInit, PubInit
<1>2. weather.starts \in Nat \ {0} /\ weather.messages \in Nat
  <2>1. weather \in [heartbeats : BOOLEAN, clipping : BOOLEAN, retransmits : BOOLEAN,
                     starts : Nat \ {0}, messages : Nat]
    BY <1>1, WeatherAssumption
  <2> QED BY <2>1
<1>3. pubSession \in 1..weather.starts /\ count \in 0..PerPacket /\ count < EndOfSession
      /\ sequence \in Nat \ {0} /\ sequence + count <= weather.messages + 1
  BY <1>1, <1>2, PerPacketAssumption, EndOfSessionAssumption
<1> QED BY <1>1, <1>3 DEF Sender

LEMMA SenderStep == Sender /\ [LinkNext]_linkVars => Sender'
<1> SUFFICES ASSUME Sender, [LinkNext]_linkVars PROVE Sender'
  OBVIOUS
<1>0. /\ weather.starts \in Nat \ {0} /\ weather.messages \in Nat
      /\ pubSession \in Nat /\ pubSession > 0 /\ sequence \in Nat /\ sequence > 0 /\ count \in Nat
      /\ EndOfSession \in Nat /\ EndOfSession > 1 /\ PerPacket \in Nat /\ PerPacket > 0
      /\ count <= PerPacket /\ count < EndOfSession
  BY SenderTypes, PerPacketAssumption DEF Sender
<1>1. CASE UNCHANGED <<pubVars, weather>>
  BY <1>1 DEF pubVars, Sender, End, IsData
<1>2. ASSUME Add, sequence + count <= weather.messages, weather' = weather PROVE Sender'
  <2>1. CASE Full
    <3>1. net' = net \union Flushed /\ sequence' = sequence + count /\ count' = 1 /\ pubSession' = pubSession
      BY <1>2, <2>1 DEF Add
    <3>3. count' \in 0..PerPacket /\ count' < EndOfSession /\ sequence' + count' <= weather.messages + 1
      BY <1>0, <1>2, <3>1
    <3> QED BY <1>2, <3>1, <3>3, FlushingOnly
  <2>2. CASE ~Full
    <3>1. net' = net /\ sequence' = sequence /\ count' = count + 1 /\ pubSession' = pubSession
      BY <1>2, <2>2 DEF Add
    <3>2. count /= PerPacket /\ count /= EndOfSession - 1
      BY <2>2 DEF Full
    <3>3. count' \in 0..PerPacket /\ count' < EndOfSession /\ sequence' + count' <= weather.messages + 1
      BY <1>0, <1>2, <3>1, <3>2
    <3>4. pubSession' \in 1..weather.starts /\ sequence' \in Nat \ {0}
      BY <1>0, <3>1 DEF Sender
    <3> QED BY <1>2, <3>1, <3>3, <3>4, NothingSent
  <2> QED BY <2>1, <2>2
<1>3. ASSUME FlushPacket, weather' = weather PROVE Sender'
  <2>1. net' = net \union Flushed /\ sequence' = sequence + count /\ count' = 0 /\ pubSession' = pubSession
    BY <1>3 DEF FlushPacket
  <2>3. count' \in 0..PerPacket /\ count' < EndOfSession /\ sequence' + count' <= weather.messages + 1
    BY <1>0, <2>1 DEF Sender
  <2> QED BY <1>3, <2>1, <2>3, FlushingOnly
<1>4. ASSUME SendHeartbeat, weather.heartbeats, weather' = weather PROVE Sender'
  <2>1. sequence' = sequence + count /\ count' = 0 /\ pubSession' = pubSession
    BY <1>4 DEF SendHeartbeat
  <2>2. net' = (net \union Flushed) \union {Datagram(sequence + count, c, 0) : c \in {0}}
    BY <1>4 DEF SendHeartbeat
  <2>3. count' \in 0..PerPacket /\ count' < EndOfSession /\ sequence' + count' <= weather.messages + 1
    BY <1>0, <2>1 DEF Sender
  <2> QED BY <1>4, <2>1, <2>2, <2>3, Flushing
<1>5. ASSUME SendEndOfSession, weather' = weather PROVE Sender'
  <2>1. sequence' = sequence + count /\ count' = 0 /\ pubSession' = pubSession
    BY <1>5 DEF SendEndOfSession
  <2>2. net' = (net \union Flushed) \union {Datagram(sequence + count, c, 0) : c \in {EndOfSession}}
    BY <1>5 DEF SendEndOfSession
  <2>3. count' \in 0..PerPacket /\ count' < EndOfSession /\ sequence' + count' <= weather.messages + 1
    BY <1>0, <2>1 DEF Sender
  <2>4. 0 \notin {EndOfSession}
    BY <1>0
  <2> QED BY <1>5, <2>1, <2>2, <2>3, <2>4, Flushing
<1>6. ASSUME Reopen, pubSession < weather.starts, weather' = weather PROVE Sender'
  <2>1. pubSession' = pubSession + 1 /\ sequence' = 1 /\ count' = 0 /\ net' = net
    BY <1>6 DEF Reopen
  <2>2. /\ pubSession' \in 1..weather.starts /\ count' \in 0..PerPacket /\ count' < EndOfSession
        /\ sequence' \in Nat \ {0} /\ sequence' + count' <= weather.messages + 1
    BY <1>0, <1>6, <2>1
  <2> QED BY <1>6, <2>1, <2>2, NothingSent
<1>7. CASE Send
  BY <1>2, <1>3, <1>4, <1>5, <1>6, <1>7 DEF Send
<1>8. [LinkNext]_linkVars => Send \/ UNCHANGED <<pubVars, weather>>
  BY DEF LinkNext, Receive, Work, linkVars
<1> QED BY <1>1, <1>7, <1>8

THEOREM LinkSender == LinkSpec => []Sender
<1> QED BY SenderInit, SenderStep, PTL DEF LinkSpec

\* No packet of the sender reads as another kind of packet.
LEMMA SenderUnambiguous == Sender => Unambiguous
<1> SUFFICES ASSUME Sender, NEW d \in net
             PROVE  /\ d.blocks > 0 => d.count = d.blocks /\ d.count /= EndOfSession
                    /\ d.blocks > 0 /\ d.session = pubSession => d.sequence + d.count <= sequence
                    /\ \A e \in net : (e /= d /\ e.session = d.session /\ d.blocks > 0 /\ e.blocks > 0)
                         => e.sequence + e.count <= d.sequence \/ d.sequence + d.count <= e.sequence
  BY DEF Unambiguous
<1>1. \A e \in net : e.blocks > 0 => IsData(e)
  <2> SUFFICES ASSUME NEW e \in net, e.blocks > 0 PROVE IsData(e)
    OBVIOUS
  <2>1. e \in Packet
    BY DEF Sender
  <2>2. e \notin ControlPacket
    BY DEF ControlPacket
  <2>3. e.count \in Counts /\ e.count > 0
    BY <2>1, <2>2 DEF Packet, DataPacket
  <2> QED BY <2>3, HeaderAssumption DEF IsData
<1>2. d.blocks > 0 => d.count = d.blocks /\ d.count /= EndOfSession
  BY <1>1 DEF Sender, IsData
<1> QED BY <1>1, <1>2 DEF Sender, End

-----------------------------------------------------------------------------
(* What arrives.                                                           *)

\* A datagram of the sender, whole, clipped or sent again.
AsSent(p) ==
  /\ p \in Packet /\ p.session \in 1..pubSession
  /\ p.session = pubSession => p.sequence <= sequence /\ (IsData(p) => End(p) <= sequence)
  /\ ~weather.clipping /\ IsData(p) => p.blocks = p.count
  /\ ~weather.clipping /\ ~weather.retransmits => p \in net

LEMMA SentIsAsSent ==
  ASSUME Sender, NEW d \in Sent
  PROVE  AsSent(d) /\ (IsData(d) => d.blocks = d.count)
<1>1. CASE d \in net
  BY <1>1 DEF Sender, AsSent
<1>2. CASE weather.retransmits /\ d \in Retransmission
  <2>1. /\ d = [session |-> d.session, sequence |-> d.sequence, count |-> d.count, blocks |-> d.blocks]
        /\ d.session = pubSession /\ d.sequence \in 1..sequence /\ d.count \in Counts
        /\ d.blocks = d.count /\ d.sequence + d.count <= sequence
    BY <1>2 DEF Retransmission
  <2>2. d.sequence \in Numbers /\ d.session \in Sessions /\ d.session \in 1..pubSession
    <3>1. 1..(weather.messages + 1) \subseteq Numbers
      BY AlphabetAssumption DEF Sender
    <3>2. sequence <= weather.messages + 1 /\ weather.messages \in Nat /\ sequence \in Nat /\ count \in Nat
      BY SenderTypes DEF Sender
    <3> QED BY <2>1, <3>1, <3>2, SenderTypes
  <2>3. d.count \in Nat
    BY <2>1, HeaderAssumption
  <2>4. d \in Packet
    <3>1. CASE d.count = 0
      <4>1. d \in ControlPacket
        BY <2>1, <2>2, <3>1 DEF ControlPacket
      <4> QED BY <4>1 DEF Packet
    <3>2. CASE d.count > 0
      <4>1. d.blocks \in UNION {0..c : c \in Counts}
        BY <2>1, <2>3
      <4>2. d \in DataPacket
        BY <2>1, <2>2, <4>1 DEF DataPacket
      <4>3. d.blocks <= d.count
        BY <2>1, <2>3
      <4> QED BY <3>2, <4>2, <4>3 DEF Packet
    <3> QED BY <2>3, <3>1, <3>2
  <2>5. d.sequence <= sequence
    BY <2>1, SenderTypes
  <2> QED BY <1>2, <2>1, <2>2, <2>4, <2>5 DEF AsSent, End
<1> QED BY <1>1, <1>2 DEF Sent

LEMMA ArrivingIsAsSent ==
  ASSUME Sender, NEW d \in Sent, NEW p \in Arriving(d)
  PROVE  AsSent(p)
<1>1. AsSent(d) /\ (IsData(d) => d.blocks = d.count)
  BY SentIsAsSent
<1>2. CASE p = d
  BY <1>1, <1>2
<1>3. CASE p /= d
  <2>1. /\ weather.clipping /\ d.blocks > 0
        /\ \E b \in 0..(d.blocks - 1) : p = [d EXCEPT !.blocks = b]
    BY <1>3 DEF Arriving
  <2>2. PICK b \in 0..(d.blocks - 1) : p = [d EXCEPT !.blocks = b]
    BY <2>1
  <2>3. d \in Packet /\ d \notin ControlPacket
    BY <1>1, <2>1 DEF AsSent, ControlPacket
  <2>4. d \in DataPacket /\ d.count > 0 /\ d.blocks <= d.count
    BY <2>3 DEF Packet
  <2>5. d.count \in Counts /\ d.count \in Nat
    BY <2>4, HeaderAssumption DEF DataPacket
  <2>6. d.blocks \in Nat
    <3>1. d.blocks \in UNION {0..c : c \in Counts}
      BY <2>4 DEF DataPacket
    <3> QED BY <3>1, HeaderAssumption
  <2>7. b \in 0..d.count
    BY <2>4, <2>5, <2>6
  <2>8. /\ p = [session |-> d.session, sequence |-> d.sequence, count |-> d.count, blocks |-> b]
        /\ p.session = d.session /\ p.sequence = d.sequence /\ p.count = d.count /\ p.blocks = b
    BY <2>2, <2>4 DEF DataPacket
  <2>9. p \in Packet
    <3>1. b \in UNION {0..c : c \in Counts}
      BY <2>5, <2>7
    <3>2. p \in DataPacket
      BY <2>4, <2>8, <3>1 DEF DataPacket
    <3>3. p.count > 0 /\ p.blocks <= p.count
      BY <2>4, <2>5, <2>7, <2>8
    <3> QED BY <3>2, <3>3 DEF Packet
  <2> QED BY <1>1, <2>1, <2>8, <2>9 DEF AsSent, IsData, End
<1> QED BY <1>2, <1>3

-----------------------------------------------------------------------------
(* The sequencer of the link is a sequencer.                               *)

\* Every step of the link is a step of the sequencer or none of its business.
THEOREM LinkIsSequencer == LinkSpec => Spec
<1>1. LinkInit => Init
  BY DEF LinkInit
<1>2. Sender /\ [LinkNext]_linkVars => [Next]_vars
  <2> SUFFICES ASSUME Sender, [LinkNext]_linkVars PROVE [Next]_vars
    OBVIOUS
  <2>1. CASE Receive
    <3>1. PICK d \in Sent : \E p \in Arriving(d) : OnPacket(p)
      BY <2>1 DEF Receive
    <3>2. PICK p \in Arriving(d) : OnPacket(p)
      BY <3>1
    <3>3. p \in Packet
      BY ArrivingIsAsSent DEF AsSent
    <3> QED BY <3>2, <3>3 DEF Next
  <2>2. CASE Work
    BY <2>2 DEF Work, Next
  <2>3. CASE Send \/ UNCHANGED linkVars
    BY <2>3 DEF Send, linkVars
  <2> QED BY <2>1, <2>2, <2>3 DEF LinkNext
<1> QED BY <1>1, <1>2, LinkSender, PTL DEF LinkSpec, Spec

-----------------------------------------------------------------------------
(* Reports.                                                                *)

LEMMA ReportConcat ==
  ASSUME NEW l, NEW m, NEW a, NEW b, NEW c, Report(l, a, b), Report(m, b, c)
  PROVE  Report(l \o m, a, c)
<1> DEFINE k == l \o m
<1>1. /\ l \in Seq(Call) /\ m \in Seq(Call) /\ k \in Seq(Call)
      /\ Len(l) \in Nat /\ Len(m) \in Nat /\ Len(k) = Len(l) + Len(m)
      /\ \A i \in 1..Len(l) : k[i] = l[i] /\ i \in 1..Len(k)
      /\ \A i \in 1..Len(m) : k[Len(l) + i] = m[i] /\ Len(l) + i \in 1..Len(k)
      /\ a \in Nat /\ b \in Nat /\ c \in Nat /\ a <= b /\ b <= c
  BY ConcatProperties DEF Report
<1>2. \A i \in 1..Len(k) : i \in 1..Len(l) \/ \E j \in 1..Len(m) : i = Len(l) + j
  <2> SUFFICES ASSUME NEW i \in 1..Len(k), i \notin 1..Len(l) PROVE \E j \in 1..Len(m) : i = Len(l) + j
    OBVIOUS
  <2>1. i - Len(l) \in 1..Len(m) /\ i = Len(l) + (i - Len(l))
    BY <1>1
  <2> QED BY <2>1
<1>3. /\ \A i \in 1..Len(l) : l[i].first \in Nat /\ CallEnd(l[i]) \in Nat
      /\ \A i \in 1..Len(m) : m[i].first \in Nat /\ CallEnd(m[i]) \in Nat
  <2>1. \A c1 \in Call : c1.first \in Nat /\ CallEnd(c1) \in Nat
    BY DEF Call, CallEnd
  <2>2. (\A i \in 1..Len(l) : l[i] \in Call) /\ (\A i \in 1..Len(m) : m[i] \in Call)
    BY <1>1
  <2> QED BY <2>1, <2>2
<1> HIDE DEF k
<1>4. IF k = << >> THEN a = c ELSE k[1].first = a
  <2>1. CASE l = << >>
    <3>1. k = m
      BY <1>1, <2>1, ConcatEmptySeq DEF k
    <3> QED BY <2>1, <3>1 DEF Report
  <2>2. CASE l /= << >>
    <3>1. Len(l) > 0
      BY <1>1, <2>2, EmptySeq
    <3>2. 1 \in 1..Len(l) /\ Len(k) > 0
      BY <1>1, <3>1
    <3>3. k /= << >> /\ k[1] = l[1]
      BY <1>1, <3>2, EmptySeq
    <3> QED BY <2>2, <3>3 DEF Report
  <2> QED BY <2>1, <2>2
<1>5. ASSUME NEW i \in 1..Len(k)
      PROVE  a <= k[i].first /\ CallEnd(k[i]) <= c /\ (k[i].kind = "msg" => k[i].count = 1)
  <2>1. CASE i \in 1..Len(l)
    <3>1. a <= l[i].first /\ CallEnd(l[i]) <= b /\ (l[i].kind = "msg" => l[i].count = 1)
      BY <2>1 DEF Report
    <3> QED BY <1>1, <1>3, <2>1, <3>1
  <2>2. CASE \E j \in 1..Len(m) : i = Len(l) + j
    <3>1. PICK j \in 1..Len(m) : i = Len(l) + j
      BY <2>2
    <3>2. b <= m[j].first /\ CallEnd(m[j]) <= c /\ (m[j].kind = "msg" => m[j].count = 1)
      BY DEF Report
    <3> QED BY <1>1, <1>3, <3>1, <3>2
  <2> QED BY <1>2, <2>1, <2>2
<1>6. ASSUME NEW i \in 1..Len(k), NEW j \in 1..Len(k), i < j
      PROVE  CallEnd(k[i]) <= k[j].first
  <2>1. CASE i \in 1..Len(l) /\ j \in 1..Len(l)
    BY <1>1, <1>6, <2>1 DEF Report
  <2>2. CASE i \in 1..Len(l) /\ \E y \in 1..Len(m) : j = Len(l) + y
    <3>1. PICK y \in 1..Len(m) : j = Len(l) + y
      BY <2>2
    <3>2. CallEnd(l[i]) <= b /\ b <= m[y].first
      BY <2>2 DEF Report
    <3>3. k[i] = l[i] /\ k[j] = m[y]
      BY <1>1, <2>2, <3>1
    <3>4. CallEnd(l[i]) \in Nat /\ b \in Nat /\ m[y].first \in Nat
      BY <1>1, <1>3, <2>2
    <3>5. CallEnd(l[i]) <= m[y].first
      BY <3>2, <3>4
    <3> QED BY <3>3, <3>5
  <2>3. CASE \E x \in 1..Len(m) : i = Len(l) + x
    <3>1. PICK x \in 1..Len(m) : i = Len(l) + x
      BY <2>3
    <3>2. j \notin 1..Len(l)
      BY <1>1, <1>6, <3>1
    <3>3. PICK y \in 1..Len(m) : j = Len(l) + y
      BY <1>2, <3>2
    <3>4. x < y
      BY <1>1, <1>6, <3>1, <3>3
    <3>5. CallEnd(m[x]) <= m[y].first
      BY <3>4 DEF Report
    <3> QED BY <1>1, <3>1, <3>3, <3>5
  <2> QED BY <1>2, <2>1, <2>2, <2>3
<1>7. ASSUME NEW n \in a..(c - 1)
      PROVE  \E i \in 1..Len(k) : k[i].first <= n /\ n < CallEnd(k[i])
  <2>1. CASE n < b
    <3>1. n \in a..(b - 1)
      BY <1>1, <2>1
    <3>2. PICK i \in 1..Len(l) : l[i].first <= n /\ n < CallEnd(l[i])
      BY <3>1 DEF Report
    <3> QED BY <1>1, <3>2
  <2>2. CASE ~(n < b)
    <3>1. n \in b..(c - 1)
      BY <1>1, <2>2
    <3>2. PICK i \in 1..Len(m) : m[i].first <= n /\ n < CallEnd(m[i])
      BY <3>1 DEF Report
    <3>3. Len(l) + i \in 1..Len(k) /\ k[Len(l) + i] = m[i]
      BY <1>1
    <3> QED BY <3>2, <3>3
  <2> QED BY <2>1, <2>2
<1>8. a <= c
  BY <1>1
<1> QED BY <1>1, <1>4, <1>5, <1>6, <1>7, <1>8 DEF Report, k

LEMMA NoCallsReport == ASSUME NEW a \in Nat PROVE Report(<< >>, a, a)
<1>1. << >> \in Seq(Call) /\ Len(<< >>) = 0
  BY EmptySeq
<1>2. a..(a - 1) = {} /\ 1..0 = {}
  OBVIOUS
<1> QED BY <1>1, <1>2 DEF Report

LEMMA MessagesReport ==
  ASSUME NEW n \in Nat, NEW got \in Nat
  PROVE  Report([i \in 1..got |-> Msg(n + i - 1)], n, n + got)
<1> DEFINE m == [i \in 1..got |-> Msg(n + i - 1)]
<1>1. /\ m \in Seq(Call) /\ Len(m) = got
      /\ \A i \in 1..got : m[i].kind = "msg" /\ m[i].first = n + i - 1 /\ m[i].count = 1
                           /\ CallEnd(m[i]) = n + i
  <2>1. \A i \in 1..got : Msg(n + i - 1) \in Call
    BY DEF Msg, Call
  <2>2. m \in Seq(Call) /\ Len(m) = got
    BY <2>1
  <2>3. \A i \in 1..got : m[i] = Msg(n + i - 1)
    OBVIOUS
  <2>4. \A i \in 1..got : (n + i - 1) + 1 = n + i
    OBVIOUS
  <2> QED BY <2>2, <2>3, <2>4 DEF Msg, CallEnd
<1> HIDE DEF m
<1>2. IF m = << >> THEN n = n + got ELSE m[1].first = n
  <2>1. CASE got = 0
    <3>1. m = << >>
      BY <1>1, <2>1, EmptySeq
    <3> QED BY <2>1, <3>1
  <2>2. CASE got > 0
    <3>1. m /= << >> /\ 1 \in 1..got /\ n + 1 - 1 = n
      BY <1>1, <2>2, EmptySeq
    <3> QED BY <1>1, <3>1
  <2> QED BY <2>1, <2>2
<1>3. \A i \in 1..got : n <= m[i].first /\ CallEnd(m[i]) <= n + got
  BY <1>1
<1>4. \A i, j \in 1..got : i < j => CallEnd(m[i]) <= m[j].first
  BY <1>1
<1>5. \A x \in n..((n + got) - 1) : \E i \in 1..got : m[i].first <= x /\ x < CallEnd(m[i])
  <2> SUFFICES ASSUME NEW x \in n..((n + got) - 1)
               PROVE  \E i \in 1..got : m[i].first <= x /\ x < CallEnd(m[i])
    OBVIOUS
  <2>1. x - n + 1 \in 1..got /\ n + (x - n + 1) - 1 = x /\ n + (x - n + 1) = x + 1
    OBVIOUS
  <2>2. m[x - n + 1].first = x /\ CallEnd(m[x - n + 1]) = x + 1
    BY <1>1, <2>1
  <2> QED BY <2>1, <2>2
<1>6. n + got \in Nat /\ n <= n + got
  OBVIOUS
<1> QED BY <1>1, <1>2, <1>3, <1>4, <1>5, <1>6 DEF Report, m

LEMMA GapReport ==
  ASSUME NEW n \in Nat, NEW k \in Nat \ {0}
  PROVE  Report(<<Gap(n, k)>>, n, n + k)
<1> DEFINE g == Gap(n, k)
<1>1. g \in Call /\ g.first = n /\ g.kind = "gap" /\ CallEnd(g) = n + k
  BY DEF Gap, Call, CallEnd
<1> HIDE DEF g
<1>2. <<g>> \in Seq(Call) /\ Len(<<g>>) = 1 /\ <<g>>[1] = g /\ <<g>> /= << >>
  BY <1>1
<1>3. \A i \in 1..1 : i = 1
  OBVIOUS
<1>4. n <= n + k /\ n + k \in Nat /\ \A x \in n..((n + k) - 1) : n <= x /\ x < n + k
  OBVIOUS
<1>5. 1 \in 1..Len(<<g>>)
  BY <1>2
<1>6. \A i, j \in 1..Len(<<g>>) : ~(i < j)
  BY <1>2
<1> QED BY <1>1, <1>2, <1>3, <1>4, <1>5, <1>6 DEF Report, g

LEMMA ReportStart ==
  ASSUME NEW l, NEW a, NEW b, Report(l, a, b) PROVE Start(l, b) = a
BY DEF Report, Start

LEMMA KnownConcat ==
  ASSUME NEW l \in Seq(Call), NEW m \in Seq(Call), NEW x, NEW arr, Known(l, x, arr), Known(m, x, arr)
  PROVE  Known(l \o m, x, arr)
<1> SUFFICES ASSUME NEW i \in 1..Len(l \o m), (l \o m)[i].kind = "msg"
             PROVE  <<x, (l \o m)[i].first>> \in arr
  BY DEF Known
<1>1. /\ Len(l) \in Nat /\ Len(m) \in Nat /\ Len(l \o m) = Len(l) + Len(m)
      /\ (l \o m)[i] = IF i <= Len(l) THEN l[i] ELSE m[i - Len(l)]
  BY ConcatProperties
<1>2. CASE i <= Len(l)
  <2>1. i \in 1..Len(l)
    BY <1>1, <1>2
  <2> QED BY <1>1, <1>2, <2>1 DEF Known
<1>3. CASE ~(i <= Len(l))
  <2>1. i - Len(l) \in 1..Len(m)
    BY <1>1, <1>3
  <2> QED BY <1>1, <1>3, <2>1 DEF Known
<1> QED BY <1>2, <1>3

LEMMA GapKnown == ASSUME NEW n, NEW k, NEW x, NEW arr PROVE Known(<<Gap(n, k)>>, x, arr)
BY DEF Known, Gap

LEMMA NoCallsKnown == ASSUME NEW x, NEW arr PROVE Known(<< >>, x, arr)
BY EmptySeq DEF Known

-----------------------------------------------------------------------------
(* declare_gap() and deliver() on what the receiver knows.                 *)

LEMMA SourcedTypes ==
  ASSUME NEW x, NEW e, NEW l, NEW held, NEW arr, Sourced(x, e, l, held, arr)
  PROVE  e \in Nat /\ l \in Seq(Call)
BY DEF Sourced, Report

\* Any report that continues the log leaves where it starts alone.
LEMMA SourcedMore ==
  ASSUME NEW x, NEW e, NEW l, NEW held, NEW arr, Sourced(x, e, l, held, arr),
         NEW m, NEW f, Report(m, e, f), Known(m, x, arr),
         x = pubSession /\ ~weather.clipping => f <= sequence
  PROVE  Sourced(x, f, l \o m, held, arr)
<1>1. Report(l \o m, Start(l, e), f)
  BY ReportConcat DEF Sourced
<1>2. Start(l \o m, f) = Start(l, e)
  BY <1>1, ReportStart
<1>3. Known(l \o m, x, arr)
  BY KnownConcat DEF Sourced, Report
<1> QED BY <1>1, <1>2, <1>3 DEF Sourced

LEMMA SourcedGap ==
  ASSUME Sender, NEW s, NEW x, NEW held, NEW arr, Sourced(x, s.expected, s.log, held, arr),
         NEW upTo \in Nat, x = pubSession /\ ~weather.clipping => upTo <= sequence
  PROVE  /\ Sourced(x, DeclareGap(s, upTo).expected, DeclareGap(s, upTo).log, held, arr)
         /\ DeclareGap(s, upTo).expected >= s.expected
         /\ DeclareGap(s, upTo).expected >= upTo
<1>1. s.expected \in Nat /\ s.log \in Seq(Call)
  BY SourcedTypes
<1>2. CASE upTo <= s.expected
  BY <1>1, <1>2 DEF DeclareGap
<1>3. CASE ~(upTo <= s.expected)
  <2> DEFINE k == upTo - s.expected
             g == Gap(s.expected, k)
  <2>1. k \in Nat \ {0} /\ s.expected + k = upTo
    BY <1>1, <1>3
  <2>2. Report(<<g>>, s.expected, upTo)
    <3>1. Report(<<g>>, s.expected, s.expected + k)
      BY <1>1, <2>1, GapReport
    <3> QED BY <2>1, <3>1
  <2>3. DeclareGap(s, upTo).expected = upTo /\ DeclareGap(s, upTo).log = Append(s.log, g)
    BY <1>3 DEF DeclareGap
  <2>4. Append(s.log, g) = s.log \o <<g>>
    <3>1. g \in Call
      BY <1>1, <2>1 DEF Gap, Call
    <3> QED BY <1>1, <3>1
  <2>5. Known(<<g>>, x, arr)
    BY GapKnown
  <2> HIDE DEF g, k
  <2>6. Sourced(x, upTo, s.log \o <<g>>, held, arr)
    BY <2>2, <2>5, SourcedMore
  <2> QED BY <1>1, <1>3, <2>3, <2>4, <2>6
<1> QED BY <1>2, <1>3

LEMMA SourcedDeliver ==
  ASSUME Sender, NEW s, NEW a, Chained(s, a), NEW p, Data(p),
         p.sequence <= s.expected, End(p) > s.expected,
         NEW held, NEW arr, Sourced(p.session, s.expected, s.log, held, arr),
         Numbered(p) \subseteq arr, p.session = pubSession => End(p) <= sequence,
         ~weather.clipping => p.blocks = p.count
  PROVE  LET t == Deliver(s, p, s.expected - p.sequence)
         IN  /\ Sourced(p.session, t.expected, t.log, held, arr)
             /\ ~weather.clipping => t.expected = End(p)
<1> DEFINE skip == s.expected - p.sequence
           got == Yielded(p, skip)
           missing == Unconsumed(p)
           messages == [i \in 1..got |-> Msg(s.expected + i - 1)]
           lost == IF missing = 0 THEN << >> ELSE <<Gap(s.expected + got, missing)>>
           t == Deliver(s, p, skip)
<1>1. /\ got \in Nat /\ missing \in Nat
      /\ t = [expected |-> s.expected + got + missing, sinceGap |-> s.sinceGap,
              log |-> s.log \o messages \o lost]
  BY DeliverChained
<1>2. /\ s.expected \in Nat /\ p.sequence \in Nat /\ p.count \in Nat /\ p.blocks \in Nat
      /\ skip \in Nat /\ p.sequence + skip = s.expected /\ missing = p.count - p.blocks
      /\ got = IF p.blocks > skip THEN p.blocks - skip ELSE 0
      /\ p.sequence + p.count > s.expected /\ End(p) = p.sequence + p.count
  BY DEF Chained, Data, Yielded, Unconsumed, End
<1>3. t.expected = s.expected + got + missing /\ t.log = (s.log \o messages) \o lost
  <2> HIDE DEF t, messages, lost, got, missing
  <2> QED BY <1>1
<1>4. Report(messages, s.expected, s.expected + got) /\ s.expected + got \in Nat
  <2>1. got \in Nat /\ s.expected \in Nat
    BY <1>1, <1>2
  <2> HIDE DEF got
  <2>2. s.expected + got \in Nat
    BY <2>1
  <2> QED BY <2>1, <2>2, MessagesReport
<1>5. Report(lost, s.expected + got, s.expected + got + missing)
  <2>1. CASE missing = 0
    <3>1. s.expected + got + missing = s.expected + got
      BY <1>4, <2>1
    <3> QED BY <1>4, <2>1, <3>1, NoCallsReport
  <2>2. CASE missing /= 0
    BY <1>1, <1>4, <2>2, GapReport
  <2> QED BY <2>1, <2>2
<1>6. Known(messages, p.session, arr)
  <2> SUFFICES ASSUME NEW i \in 1..Len(messages) PROVE <<p.session, messages[i].first>> \in arr
    BY DEF Known
  <2>1. Len(messages) = got
    BY <1>1, <1>4 DEF Report
  <2>2. messages[i].first = s.expected + i - 1
    BY <2>1 DEF Msg
  <2>3. s.expected + i - 1 \in p.sequence..(p.sequence + p.blocks - 1)
    <3> HIDE DEF got, skip, missing, messages, t
    <3>1. i \in 1..got /\ got \in Nat /\ p.blocks \in Nat /\ skip \in Nat
      BY <1>1, <1>2, <2>1
    <3>2. got = p.blocks - skip
      BY <1>1, <1>2, <3>1
    <3>3. \A y, z, k, n \in Nat : n \in 1..(k - z) => (y + z) + n - 1 \in y..(y + k - 1)
      OBVIOUS
    <3>4. i \in 1..(p.blocks - skip) /\ i \in Nat /\ p.sequence \in Nat
      BY <1>2, <3>1, <3>2
    <3>5. (p.sequence + skip) + i - 1 \in p.sequence..(p.sequence + p.blocks - 1)
      BY <3>1, <3>3, <3>4
    <3>6. p.sequence + skip = s.expected
      BY <1>2
    <3> QED BY <3>5, <3>6
  <2>4. <<p.session, s.expected + i - 1>> \in Numbered(p)
    BY <2>3 DEF Numbered
  <2> QED BY <2>2, <2>4
<1>7. Known(lost, p.session, arr)
  BY GapKnown, NoCallsKnown
<1>8. ~weather.clipping => s.expected + got = End(p) /\ s.expected + got + missing = End(p)
  <2> SUFFICES ASSUME ~weather.clipping
               PROVE  s.expected + got = End(p) /\ s.expected + got + missing = End(p)
    OBVIOUS
  <2> HIDE DEF got, missing, skip, messages, lost, t
  <2>1. p.blocks = p.count
    OBVIOUS
  <2>2. p.blocks > skip /\ got = p.blocks - skip /\ missing = 0
    BY <1>2, <2>1
  <2> QED BY <1>2, <2>1, <2>2
<1> HIDE DEF got, missing, messages, lost, skip, t
<1>9. Sourced(p.session, s.expected + got, s.log \o messages, held, arr)
  BY <1>4, <1>6, <1>8, SourcedMore
<1>10. Sourced(p.session, s.expected + got + missing, (s.log \o messages) \o lost, held, arr)
  BY <1>5, <1>7, <1>8, <1>9, SourcedMore
<1>11. Sourced(p.session, t.expected, t.log, held, arr) /\ (~weather.clipping => t.expected = End(p))
  BY <1>3, <1>8, <1>10
<1> QED BY <1>11 DEF t, skip

-----------------------------------------------------------------------------
(* The invariant holds.                                                    *)

LEMMA LinkInitInv == LinkInit => LInv
<1> SUFFICES ASSUME LinkInit PROVE LInv
  OBVIOUS
<1>1. /\ session = NoSession /\ expected = 0 /\ buffer = {} /\ log = << >> /\ loop = "idle"
      /\ arrived = {} /\ past = {} /\ pubSession = 1 /\ sequence = 1
  BY DEF LinkInit, Init, PubInit
<1>2. Report(<< >>, 0, 0) /\ Start(<< >>, 0) = 0
  BY NoCallsReport DEF Start
<1>3. Known(<< >>, NoSession, {})
  BY NoCallsKnown
<1>4. Sourced(session, expected, log, buffer, arrived)
  BY <1>1, <1>2, <1>3 DEF Sourced
<1>5. Waiting(expected, buffer, arrived)
  BY <1>1 DEF Waiting
<1> QED BY <1>1, <1>4, <1>5 DEF LInv

\* The receiver's part, in a step that leaves the sender alone.
LEMMA ReceiverStep ==
  ASSUME UNCHANGED <<pubVars, weather>>,
         session' \in {NoSession} \union 1..pubSession,
         session' = NoSession => arrived' = {} /\ log' = << >> /\ buffer' = {},
         arrived' \subseteq (1..pubSession) \X Nat,
         Sourced(session', expected', log', buffer', arrived'),
         Waiting(expected', buffer', arrived'),
         weather.starts = 1 => past' = {},
         loop' = "closed" => buffer' = {}
  PROVE  LInv'
<1>1. UNCHANGED <<pubSession, sequence, net, weather>>
  BY DEF pubVars
<1>2. Sourced(session, expected, log, buffer, arrived)'
  BY <1>1 DEF Sourced, Report, Known, Start, Numbered, End, CallEnd
<1>3. Waiting(expected, buffer, arrived)'
  BY <1>1 DEF Waiting, Simple, End
<1> QED BY <1>1, <1>2, <1>3 DEF LInv

\* The sender's part, in a step that leaves the receiver alone.
LEMMA SenderKeeps == ASSUME Sender, Sender', IInv, LInv, Send PROVE LInv'
<1>1. UNCHANGED <<session, expected, buffer, loop, log, arrived, past, weather>>
  BY DEF Send, vars
<1>2. pubSession \in Nat /\ pubSession > 0 /\ sequence \in Nat /\ sequence > 0 /\ count \in Nat
  BY SenderTypes
<1>3. /\ net \subseteq net'
      /\ \/ pubSession' = pubSession /\ sequence <= sequence'
         \/ pubSession' = pubSession + 1
  <2>1. ASSUME Add PROVE net \subseteq net' /\ pubSession' = pubSession /\ sequence <= sequence'
    BY <1>2, <2>1 DEF Add
  <2>2. ASSUME FlushPacket PROVE net \subseteq net' /\ pubSession' = pubSession /\ sequence <= sequence'
    BY <1>2, <2>2 DEF FlushPacket
  <2>3. ASSUME SendHeartbeat PROVE net \subseteq net' /\ pubSession' = pubSession /\ sequence <= sequence'
    BY <1>2, <2>3 DEF SendHeartbeat
  <2>4. ASSUME SendEndOfSession PROVE net \subseteq net' /\ pubSession' = pubSession /\ sequence <= sequence'
    BY <1>2, <2>4 DEF SendEndOfSession
  <2>5. ASSUME Reopen PROVE net \subseteq net' /\ pubSession' = pubSession + 1
    BY <2>5 DEF Reopen
  <2> QED BY <2>1, <2>2, <2>3, <2>4, <2>5 DEF Send
<1>4. session \in {NoSession} \union 1..pubSession
  BY DEF LInv
<1>5. session \in {NoSession} \union 1..pubSession' /\ 1..pubSession \subseteq 1..pubSession'
  BY <1>2, <1>3, <1>4
<1>6. session = pubSession' => pubSession' = pubSession /\ sequence <= sequence'
  <2>1. CASE pubSession' = pubSession + 1
    <3>1. pubSession' \in Sessions
      <4>1. pubSession' \in 1..weather.starts /\ weather \in Weathers
        BY <1>1 DEF Sender
      <4> QED BY <4>1, AlphabetAssumption
    <3>2. session /= pubSession'
      BY <1>2, <1>4, <2>1, <3>1, SessionAssumption
    <3> QED BY <3>2
  <2> QED BY <1>3, <2>1
<1>7. expected \in Nat /\ sequence' \in Nat /\ \A q \in buffer : End(q) \in Nat
  <2>1. expected \in Nat /\ \A q \in buffer : Data(q)
    BY DEF IInv, TypeOK, Held
  <2>2. sequence' \in Nat
    BY DEF Sender
  <2> QED BY <2>1, <2>2 DEF Data, End
<1>8. Sourced(session, expected, log, buffer, arrived)
  BY DEF LInv
<1>9. /\ session = pubSession' => \A q \in buffer : End(q) <= sequence'
      /\ ~weather.clipping /\ session = pubSession' => expected <= sequence'
  BY <1>2, <1>6, <1>7, <1>8 DEF Sourced
<1>10. Sourced(session, expected, log, buffer, arrived)'
  BY <1>1, <1>3, <1>8, <1>9 DEF Sourced, Report, Known, Start, Numbered, End, CallEnd
<1>11. Waiting(expected, buffer, arrived)'
  BY <1>1 DEF LInv, Waiting, Simple, End
<1>12. arrived \subseteq (1..pubSession') \X Nat
  BY <1>5 DEF LInv
<1> QED BY <1>1, <1>5, <1>10, <1>11, <1>12 DEF LInv

\* A loop of the sequencer.
LEMMA WorkKeeps == ASSUME Sender, IInv, LInv, Work PROVE LInv'
<1>1. /\ UNCHANGED <<pubVars, weather>> /\ arrived' = arrived /\ past' = past /\ session' = session
      /\ Drain \/ StartFlush \/ Flush
  BY DEF Work, Drain, StartFlush, Flush
<1>2. /\ session \in {NoSession} \union 1..pubSession
      /\ session = NoSession => arrived = {} /\ log = << >> /\ buffer = {}
      /\ arrived \subseteq (1..pubSession) \X Nat
      /\ Sourced(session, expected, log, buffer, arrived)
      /\ Waiting(expected, buffer, arrived)
      /\ weather.starts = 1 => past = {}
      /\ loop = "closed" => buffer = {}
  BY DEF LInv
<1>3. /\ expected \in Nat
      /\ \A q \in buffer : Data(q) /\ q.session = session /\ q.sequence \in Nat /\ End(q) \in Nat
  BY DEF IInv, TypeOK, Held, Data, End
<1>4. PICK a \in Nat : Chained(Current, a)
  BY DEF IInv
<1>5. Current.expected = expected /\ Current.log = log
  BY DEF Current
<1>6. \A m \in arrived : m[2] \in Nat
  BY <1>2
\* Nothing is reported, and at most a superseded packet is dropped.
<1>7. ASSUME UNCHANGED <<expected, log>>, buffer' \subseteq buffer,
             \A q \in buffer \ buffer' : End(q) <= expected,
             loop' = "closed" => buffer' = {}
      PROVE  LInv'
  <2>1. Sourced(session', expected', log', buffer', arrived')
    BY <1>1, <1>2, <1>7 DEF Sourced
  <2>2. Waiting(expected', buffer', arrived')
    <3> SUFFICES ASSUME Simple, NEW m \in arrived
                 PROVE  m[2] < expected \/ \E q \in buffer' : q.sequence <= m[2] /\ m[2] < End(q)
      BY <1>1, <1>7 DEF Waiting
    <3>1. m[2] < expected \/ \E q \in buffer : q.sequence <= m[2] /\ m[2] < End(q)
      BY <1>2 DEF Waiting
    <3>2. \A q \in buffer \ buffer' : m[2] < End(q) => m[2] < expected
      BY <1>3, <1>6, <1>7
    <3> QED BY <3>1, <3>2
  <2> QED BY <1>1, <1>2, <1>7, <2>1, <2>2, ReceiverStep
\* What is missing in front of a held packet is declared lost.
<1>8. ASSUME NEW f \in buffer, Become(DeclareGap(Current, f.sequence)), buffer' = buffer, loop' /= "closed"
      PROVE  LInv'
  <2> DEFINE t == DeclareGap(Current, f.sequence)
  <2>1. session = pubSession => f.sequence <= sequence
    <3>1. session = pubSession => End(f) <= sequence
      BY <1>2 DEF Sourced
    <3>2. f.sequence <= End(f)
      BY <1>3 DEF Data, End
    <3> QED BY <1>3, <3>1, <3>2, SenderTypes
  <2>2. Sourced(session, t.expected, t.log, buffer, arrived) /\ t.expected >= expected
    <3>1. Sourced(session, Current.expected, Current.log, buffer, arrived)
      BY <1>2, <1>5
    <3> QED BY <1>3, <1>5, <2>1, <3>1, SourcedGap
  <2>3. expected' = t.expected /\ log' = t.log
    BY <1>8 DEF Become
  <2> HIDE DEF t
  <2>4. Waiting(expected', buffer', arrived')
    <3>1. expected' \in Nat
      BY <2>2, <2>3, SourcedTypes
    <3> QED BY <1>1, <1>2, <1>3, <1>6, <1>8, <2>2, <2>3, <3>1 DEF Waiting
  <2>5. session' = NoSession => arrived' = {} /\ log' = << >> /\ buffer' = {}
    BY <1>1, <1>2, <1>8
  <2> QED BY <1>1, <1>2, <1>8, <2>2, <2>3, <2>4, <2>5, ReceiverStep
\* A held packet is handed over.
<1>9. ASSUME NEW f \in buffer, DrainDeliver(f), loop' /= "closed"
      PROVE  LInv'
  <2> DEFINE t == Deliver(Current, f, Current.expected - f.sequence)
  <2>1. /\ f.sequence <= expected /\ End(f) > expected /\ buffer' = buffer \ {f}
        /\ expected' = t.expected /\ log' = t.log /\ f.session = session /\ Data(f)
    BY <1>3, <1>5, <1>9 DEF DrainDeliver, Become
  <2>2. Sourced(session, expected, log, buffer', arrived)
    BY <1>2, <2>1 DEF Sourced
  <2>3. /\ Numbered(f) \subseteq arrived /\ (session = pubSession => End(f) <= sequence)
        /\ ~weather.clipping => f.blocks = f.count
    BY <1>2 DEF Sourced
  <2>4. Sourced(session, t.expected, t.log, buffer', arrived) /\ (~weather.clipping => t.expected = End(f))
    <3>1. Sourced(f.session, Current.expected, Current.log, buffer', arrived)
      BY <1>5, <2>1, <2>2
    <3>2. f.sequence <= Current.expected /\ End(f) > Current.expected
      BY <1>5, <2>1
    <3> QED BY <1>4, <2>1, <2>3, <3>1, <3>2, SourcedDeliver
  <2> HIDE DEF t
  <2>5. Waiting(expected', buffer', arrived')
    <3> SUFFICES ASSUME Simple, NEW m \in arrived
                 PROVE  m[2] < expected' \/ \E q \in buffer' : q.sequence <= m[2] /\ m[2] < End(q)
      BY <1>1 DEF Waiting
    <3>1. m[2] < expected \/ \E q \in buffer : q.sequence <= m[2] /\ m[2] < End(q)
      BY <1>2 DEF Waiting
    <3>2. expected' = End(f)
      BY <2>1, <2>4 DEF Simple
    <3>3. m[2] < expected => m[2] < expected'
      BY <1>3, <1>6, <2>1, <3>2
    <3> QED BY <2>1, <3>1, <3>2, <3>3
  <2>6. session' /= NoSession
    BY <1>1, <1>2
  <2> QED BY <1>1, <1>2, <1>9, <2>1, <2>4, <2>5, <2>6, ReceiverStep
<1>10. CASE Drain
  <2>1. Draining /\ loop \in {"drain", "flush_drain"} /\ AfterDrain \in {"idle", "flush"}
    BY <1>10 DEF Drain, Draining, AfterDrain
  <2>2. ASSUME DrainEmpty PROVE LInv'
    BY <1>7, <2>1, <2>2 DEF DrainEmpty
  <2>3. ASSUME NEW f \in buffer, DrainStale(f) PROVE LInv'
    <3>1. UNCHANGED <<expected, log>> /\ buffer' = buffer \ {f} /\ End(f) <= expected /\ loop' = loop
      BY <2>3 DEF DrainStale
    <3> QED BY <1>7, <2>1, <3>1
  <2>4. ASSUME NEW f \in buffer, DrainBlocked(f) PROVE LInv'
    BY <1>7, <2>1, <2>4 DEF DrainBlocked
  <2>5. ASSUME NEW f \in buffer, DrainDeliver(f) PROVE LInv'
    BY <1>9, <2>1, <2>5 DEF DrainDeliver
  <2> QED BY <1>10, <2>2, <2>3, <2>4, <2>5 DEF Drain
<1>11. CASE StartFlush
  BY <1>7, <1>11 DEF StartFlush
<1>12. CASE Flush
  BY <1>7, <1>8, <1>12 DEF Flush
<1> QED BY <1>1, <1>10, <1>11, <1>12

LEMMA NumberedTypes ==
  ASSUME NEW p, AsSent(p)
  PROVE  /\ p.session \in 1..pubSession /\ p.sequence \in Nat /\ p.blocks \in Nat
         /\ ~IsData(p) => Numbered(p) = {}
         /\ IsData(p) => Data(p) /\ End(p) \in Nat
         /\ Numbered(p) \subseteq (1..pubSession) \X Nat
<1>1. p \in Packet /\ p.session \in 1..pubSession /\ p.sequence \in Nat
  BY PacketFields DEF AsSent
<1>2. CASE IsData(p)
  <2>1. Data(p)
    BY <1>1, <1>2, PacketFields
  <2>2. p.blocks \in Nat /\ End(p) \in Nat
    BY <2>1 DEF Data, End
  <2>3. \A n \in p.sequence..(p.sequence + p.blocks - 1) : n \in Nat
    BY <1>1, <2>2
  <2> QED BY <1>1, <1>2, <2>1, <2>2, <2>3 DEF Numbered
<1>3. CASE ~IsData(p)
  <2>1. p \in ControlPacket
    BY <1>1, <1>3, HeaderAssumption DEF IsData, Packet, DataPacket
  <2>2. p.blocks = 0 /\ p.sequence..(p.sequence + 0 - 1) = {}
    BY <1>1, <2>1 DEF ControlPacket
  <2> QED BY <1>1, <1>3, <2>2 DEF Numbered
<1> QED BY <1>2, <1>3

\* Before the packet itself is looked at: its session, and what was held.
LEMMA SessionSourced ==
  ASSUME Sender, LInv, NEW p, AsSent(p)
  PROVE  /\ Sourced(p.session, AfterSession(p).expected, AfterSession(p).log, HeldAfterSession(p),
                    arrived \union Numbered(p))
         /\ Waiting(AfterSession(p).expected, HeldAfterSession(p), arrived)
         /\ weather.starts = 1 => (IF p.session = session THEN past ELSE past \union Delivered) = {}
         /\ p.session \in 1..pubSession /\ p.session /= NoSession
<1>1. p.session \in 1..pubSession /\ p.sequence \in Nat
  BY NumberedTypes
<1>2. p.session /= NoSession
  <2>1. p.session \in Sessions
    BY PacketFields DEF AsSent
  <2> QED BY <2>1, SessionAssumption
<1>3. CASE p.session = session
  <2>1. AfterSession(p).expected = expected /\ AfterSession(p).log = log /\ HeldAfterSession(p) = buffer
    BY <1>3 DEF AfterSession, HeldAfterSession, Current
  <2>2. Sourced(session, expected, log, buffer, arrived \union Numbered(p))
    BY DEF LInv, Sourced, Known
  <2> QED BY <1>1, <1>2, <1>3, <2>1, <2>2 DEF LInv
<1>4. CASE p.session /= session
  <2>1. /\ AfterSession(p).expected = p.sequence /\ AfterSession(p).log = << >>
        /\ HeldAfterSession(p) = {}
    BY <1>4 DEF AfterSession, HeldAfterSession
  <2>2. Report(<< >>, p.sequence, p.sequence) /\ Start(<< >>, p.sequence) = p.sequence
    BY <1>1, NoCallsReport DEF Start
  <2>3. Sourced(p.session, p.sequence, << >>, {}, arrived \union Numbered(p))
    BY <2>2, NoCallsKnown DEF Sourced, AsSent
  <2>4. weather.starts = 1 => session = NoSession
    <3>1. pubSession \in 1..weather.starts /\ session \in {NoSession} \union 1..pubSession
      BY DEF Sender, LInv
    <3>2. weather.starts = 1 => pubSession = 1
      BY <3>1
    <3> QED BY <1>1, <1>4, <3>1, <3>2
  <2>5. weather.starts = 1 => arrived = {} /\ log = << >> /\ past = {}
    BY <2>4 DEF LInv
  <2>6. log = << >> => Delivered = {}
    BY EmptySeq DEF Delivered
  <2>7. Waiting(p.sequence, {}, arrived)
    BY <2>5 DEF Waiting, Simple
  <2> QED BY <1>1, <1>2, <1>4, <2>1, <2>3, <2>5, <2>6, <2>7
<1> QED BY <1>3, <1>4

\* A packet's own handling, when all it does to the log is s to t.
LEMMA PacketKeeps ==
  ASSUME Sender, IInv, LInv, NEW p, AsSent(p),
         UNCHANGED <<pubVars, weather>>, arrived' = arrived \union Numbered(p),
         past' = IF p.session = session THEN past ELSE past \union Delivered,
         session' = p.session, loop' /= "closed",
         Sourced(p.session, expected', log', buffer', arrived'),
         Waiting(expected', buffer', arrived')
  PROVE  LInv'
<1>1. /\ p.session \in 1..pubSession /\ p.session /= NoSession
      /\ weather.starts = 1 => past' = {}
  BY SessionSourced
<1>2. arrived' \subseteq (1..pubSession) \X Nat
  BY NumberedTypes DEF LInv
<1> QED BY <1>1, <1>2, ReceiverStep

LEMMA EndOfSessionLink ==
  ASSUME Sender, IInv, LInv, NEW p, AsSent(p), OnEndOfSession(p),
         UNCHANGED <<pubVars, weather>>, arrived' = arrived \union Numbered(p),
         past' = IF p.session = session THEN past ELSE past \union Delivered
  PROVE  LInv'
<1>1. /\ session' = p.session /\ loop' = "idle" /\ buffer' = HeldAfterSession(p)
      /\ expected' = AfterSession(p).expected /\ log' = AfterSession(p).log
  BY DEF OnEndOfSession, Become
<1>2. arrived' = arrived
  BY NumberedTypes DEF OnEndOfSession, IsData
<1>3. /\ Sourced(p.session, expected', log', buffer', arrived')
      /\ Waiting(expected', buffer', arrived')
  BY <1>1, <1>2, SessionSourced
<1> QED BY <1>1, <1>3, PacketKeeps

LEMMA HeartbeatLink ==
  ASSUME Sender, IInv, LInv, NEW p, AsSent(p), OnHeartbeat(p),
         UNCHANGED <<pubVars, weather>>, arrived' = arrived \union Numbered(p),
         past' = IF p.session = session THEN past ELSE past \union Delivered
  PROVE  LInv'
<1> DEFINE s == AfterSession(p)
           t == DeclareGap(s, p.sequence)
<1>1. /\ session' = p.session /\ loop' = "idle" /\ buffer' = HeldAfterSession(p)
      /\ expected' = t.expected /\ log' = t.log
  BY DEF OnHeartbeat, Become
<1>2. arrived' = arrived /\ p.sequence \in Nat
  BY NumberedTypes DEF OnHeartbeat, IsData
<1>3. /\ Sourced(p.session, s.expected, s.log, buffer', arrived')
      /\ Waiting(s.expected, buffer', arrived')
  BY <1>1, <1>2, SessionSourced
<1>4. p.session = pubSession => p.sequence <= sequence
  BY DEF AsSent
<1> HIDE DEF s
<1>5. /\ Sourced(p.session, t.expected, t.log, buffer', arrived')
      /\ t.expected >= s.expected
  BY <1>2, <1>3, <1>4, SourcedGap
<1> HIDE DEF t
<1>6. Waiting(expected', buffer', arrived')
  <2>1. t.expected \in Nat /\ s.expected \in Nat
    BY <1>3, <1>5, SourcedTypes
  <2>2. \A m \in arrived' : m[2] \in Nat
    BY <1>2 DEF LInv
  <2> QED BY <1>1, <1>3, <1>5, <2>1, <2>2 DEF Waiting
<1> QED BY <1>1, <1>5, <1>6, PacketKeeps

LEMMA NextLink ==
  ASSUME Sender, IInv, LInv, NEW p, AsSent(p), OnNext(p),
         UNCHANGED <<pubVars, weather>>, arrived' = arrived \union Numbered(p),
         past' = IF p.session = session THEN past ELSE past \union Delivered
  PROVE  LInv'
<1> DEFINE s == AfterSession(p)
           t == Deliver(s, p, s.expected - p.sequence)
<1>1. /\ session' = p.session /\ loop' = "drain" /\ buffer' = HeldAfterSession(p)
      /\ expected' = t.expected /\ log' = t.log
      /\ p.sequence <= s.expected /\ End(p) > s.expected /\ IsData(p)
  BY DEF OnNext, Become
<1>2. Data(p) /\ End(p) \in Nat
  BY <1>1, NumberedTypes
<1>3. /\ Sourced(p.session, s.expected, s.log, buffer', arrived')
      /\ Waiting(s.expected, buffer', arrived)
  BY <1>1, SessionSourced
<1>4. PICK a \in Nat : Chained(s, a)
  <2>1. p \in Packet
    BY DEF AsSent
  <2> QED BY <2>1, AfterSessionChained
<1>5. /\ Numbered(p) \subseteq arrived' /\ (p.session = pubSession => End(p) <= sequence)
      /\ ~weather.clipping => p.blocks = p.count
  BY <1>1 DEF AsSent
<1> HIDE DEF s
<1>6. /\ Sourced(p.session, t.expected, t.log, buffer', arrived')
      /\ ~weather.clipping => t.expected = End(p)
  BY <1>1, <1>2, <1>3, <1>4, <1>5, SourcedDeliver
<1> HIDE DEF t
<1>7. Waiting(expected', buffer', arrived')
  <2> SUFFICES ASSUME Simple, NEW m \in arrived'
               PROVE  m[2] < expected' \/ \E q \in buffer' : q.sequence <= m[2] /\ m[2] < End(q)
    BY DEF Waiting
  <2>1. expected' = End(p) /\ p.blocks = p.count
    BY <1>1, <1>5, <1>6 DEF Simple
  <2>2. s.expected \in Nat
    BY <1>3, SourcedTypes
  <2>3. CASE m \in arrived
    <3>1. m[2] \in Nat
      BY <2>3 DEF LInv
    <3>2. m[2] < s.expected \/ \E q \in buffer' : q.sequence <= m[2] /\ m[2] < End(q)
      BY <1>3, <2>3 DEF Waiting
    <3> QED BY <1>1, <1>2, <2>1, <2>2, <3>1, <3>2
  <2>4. CASE m \in Numbered(p)
    <3>1. PICK n \in p.sequence..(p.sequence + p.blocks - 1) : m = <<p.session, n>>
      BY <2>4 DEF Numbered
    <3>2. n < End(p)
      BY <1>2, <2>1 DEF Data, End
    <3> QED BY <2>1, <3>1, <3>2
  <2> QED BY <2>3, <2>4
<1> QED BY <1>1, <1>6, <1>7, PacketKeeps

LEMMA DuplicateLink ==
  ASSUME Sender, IInv, LInv, NEW p, AsSent(p), OnDuplicate(p),
         UNCHANGED <<pubVars, weather>>, arrived' = arrived \union Numbered(p),
         past' = IF p.session = session THEN past ELSE past \union Delivered
  PROVE  LInv'
<1>1. /\ p.session = session /\ IsData(p) /\ End(p) <= expected /\ loop = "idle"
      /\ UNCHANGED <<session, expected, buffer, loop, log>>
  BY DEF OnDuplicate, vars
<1>2. /\ Sourced(p.session, expected', log', buffer', arrived')
      /\ Waiting(expected, buffer, arrived)
  BY <1>1, SessionSourced DEF AfterSession, HeldAfterSession, Current
<1>3. Data(p) /\ End(p) \in Nat /\ expected \in Nat
  BY <1>1, NumberedTypes DEF IInv, TypeOK
<1>4. Waiting(expected', buffer', arrived')
  <2>1. \A m \in Numbered(p) : m[2] < expected
    <3> SUFFICES ASSUME NEW n \in p.sequence..(p.sequence + p.blocks - 1) PROVE n < expected
      BY DEF Numbered
    <3> QED BY <1>1, <1>3 DEF Data, End
  <2> QED BY <1>1, <1>2, <2>1 DEF Waiting
<1> QED BY <1>1, <1>2, <1>4, PacketKeeps

\* What an early packet adds to the buffer.
LEMMA AheadHeld ==
  ASSUME Sender, IInv, LInv, NEW p, AsSent(p), OnAhead(p), UNCHANGED <<pubVars, weather>>,
         arrived' = arrived \union Numbered(p)
  PROVE  /\ Sourced(session, expected, log, buffer', arrived')
         /\ Waiting(expected, buffer', arrived')
<1>1. /\ p.session = session /\ IsData(p)
      /\ buffer' = IF \E q \in buffer : q.sequence = p.sequence THEN buffer ELSE buffer \union {p}
  BY DEF OnAhead
<1>2. Data(p)
  BY <1>1, NumberedTypes
<1>3. /\ Sourced(session, expected, log, buffer, arrived')
      /\ Waiting(expected, buffer, arrived)
  BY <1>1, SessionSourced DEF AfterSession, HeldAfterSession, Current
<1>4. /\ Numbered(p) \subseteq arrived' /\ (session = pubSession => End(p) <= sequence)
      /\ ~weather.clipping => p.blocks = p.count
      /\ ~weather.clipping /\ ~weather.retransmits => p \in net
  BY <1>1 DEF AsSent
<1>5. Sourced(session, expected, log, buffer', arrived')
  BY <1>1, <1>3, <1>4 DEF Sourced
<1>6. Waiting(expected, buffer', arrived')
  <2> SUFFICES ASSUME Simple, NEW m \in arrived'
               PROVE  m[2] < expected \/ \E q \in buffer' : q.sequence <= m[2] /\ m[2] < End(q)
    BY DEF Waiting
  <2>1. CASE m \in arrived
    BY <1>1, <1>3, <2>1 DEF Waiting
  <2>2. CASE m \in Numbered(p)
    <3>1. PICK n \in p.sequence..(p.sequence + p.blocks - 1) : m = <<p.session, n>>
      BY <2>2 DEF Numbered
    <3>2. p.sequence <= m[2] /\ m[2] < End(p)
      BY <1>2, <3>1 DEF Data, End
    <3>3. p \in buffer'
      <4>1. CASE \E q \in buffer : q.sequence = p.sequence
        <5>1. PICK q \in buffer : q.sequence = p.sequence
          BY <4>1
        <5>2. q \in net /\ p \in net
          BY <1>3, <1>4 DEF Simple, Sourced
        <5>3. Data(q) /\ IsData(q) /\ q.session = session
          <6>1. Data(q) /\ q.session = session
            BY DEF IInv, Held
          <6>2. q.blocks = q.count /\ q.count > 0
            BY <1>3, <6>1 DEF Simple, Sourced, Data
          <6>3. q \in DataPacket
            BY <6>1, <6>2 DEF Data, Packet, ControlPacket
          <6>4. IsData(q)
            BY <6>2, <6>3, HeaderAssumption DEF DataPacket, IsData
          <6> QED BY <6>1, <6>4
        <5>4. ~(End(q) <= p.sequence) /\ ~(End(p) <= q.sequence)
          BY <1>2, <5>1, <5>3 DEF Data, End
        <5>5. q = p
          BY <1>1, <5>2, <5>3, <5>4 DEF Sender
        <5> QED BY <1>1, <5>5
      <4>2. CASE ~\E q \in buffer : q.sequence = p.sequence
        BY <1>1, <4>2
      <4> QED BY <4>1, <4>2
    <3> QED BY <3>2, <3>3
  <2> QED BY <2>1, <2>2
<1> QED BY <1>5, <1>6

LEMMA AheadLink ==
  ASSUME Sender, IInv, IInv', LInv, NEW p, AsSent(p), OnAhead(p),
         UNCHANGED <<pubVars, weather>>, arrived' = arrived \union Numbered(p),
         past' = IF p.session = session THEN past ELSE past \union Delivered
  PROVE  LInv'
<1> DEFINE s == [Current EXCEPT !.sinceGap = @ + 1]
<1>1. /\ p.session = session /\ session' = session /\ loop = "idle" /\ loop' \in {"idle", "drain"}
      /\ \/ \E f \in buffer' : Become(DeclareGap(s, f.sequence))
         \/ Become(s)
  BY DEF OnAhead
<1>2. s.expected = expected /\ s.log = log
  BY DEF Current
<1>3. /\ Sourced(session, expected, log, buffer', arrived')
      /\ Waiting(expected, buffer', arrived')
  BY AheadHeld
<1>4. CASE Become(s)
  BY <1>1, <1>2, <1>3, <1>4, PacketKeeps DEF Become
<1>5. ASSUME NEW f \in buffer', Become(DeclareGap(s, f.sequence)) PROVE LInv'
  <2> DEFINE t == DeclareGap(s, f.sequence)
  <2>1. Data(f)
    BY DEF IInv, Held, Data
  <2>2. session = pubSession => f.sequence <= sequence
    <3>1. session = pubSession => End(f) <= sequence
      BY <1>3 DEF Sourced
    <3>2. f.sequence <= End(f) /\ f.sequence \in Nat /\ End(f) \in Nat
      BY <2>1 DEF Data, End
    <3> QED BY <3>1, <3>2, SenderTypes
  <2> HIDE DEF s
  <2>3. Sourced(session, t.expected, t.log, buffer', arrived') /\ t.expected >= expected
    <3>1. f.sequence \in Nat
      BY <2>1 DEF Data
    <3> QED BY <1>2, <1>3, <2>2, <3>1, SourcedGap
  <2>4. expected' = t.expected /\ log' = t.log
    BY <1>5 DEF Become
  <2> HIDE DEF t
  <2>5. Waiting(expected', buffer', arrived')
    <3>1. expected' \in Nat /\ expected \in Nat
      BY DEF IInv, TypeOK
    <3>2. \A m \in arrived' : m[2] \in Nat
      BY NumberedTypes DEF LInv
    <3> QED BY <1>3, <2>3, <2>4, <3>1, <3>2 DEF Waiting
  <2> QED BY <1>1, <2>3, <2>4, <2>5, PacketKeeps
<1> QED BY <1>1, <1>4, <1>5

LEMMA LinkStepInv ==
  Sender /\ Sender' /\ IInv /\ IInv' /\ LInv /\ [LinkNext]_linkVars => LInv'
<1> SUFFICES ASSUME Sender, Sender', IInv, IInv', LInv, [LinkNext]_linkVars PROVE LInv'
  OBVIOUS
<1>1. CASE UNCHANGED linkVars
  <2>1. UNCHANGED <<pubVars, weather, arrived, past, session, expected, buffer, loop, log>>
    BY <1>1 DEF linkVars, vars
  <2> QED BY <2>1, ReceiverStep DEF LInv
<1>2. CASE Receive
  <2>0. PICK d \in Sent : \E p \in Arriving(d) :
          /\ OnPacket(p)
          /\ arrived' = arrived \union Numbered(p)
          /\ past' = IF p.session = session THEN past ELSE past \union Delivered
          /\ UNCHANGED <<pubVars, weather>>
    BY <1>2 DEF Receive, Numbered
  <2>1. PICK p \in Arriving(d) :
          /\ OnPacket(p)
          /\ arrived' = arrived \union Numbered(p)
          /\ past' = IF p.session = session THEN past ELSE past \union Delivered
          /\ UNCHANGED <<pubVars, weather>>
    BY <2>0
  <2>2. AsSent(p)
    BY ArrivingIsAsSent
  <2> QED BY <2>1, <2>2, EndOfSessionLink, HeartbeatLink, NextLink, DuplicateLink, AheadLink DEF OnPacket
<1> QED BY <1>1, <1>2, SenderKeeps, WorkKeeps DEF LinkNext

THEOREM LinkInvariant == LinkSpec => []LInv
<1>1. LinkSpec => []IInv
  BY LinkIsSequencer, SequencerInvariant
<1> QED BY <1>1, LinkSender, LinkInitInv, LinkStepInv, PTL DEF LinkSpec

-----------------------------------------------------------------------------
(* What it gives.                                                          *)

\* The receiver is never ahead of the sender, leaves nothing behind, and is
\* never sent a packet that reads as another kind, for every weather, mtu,
\* reorder depth and patience (Sequencer::on_packet, Sequencer::flush and
\* Publisher::add).
THEOREM LinkAllAccountedFor == LinkSpec => []AllAccountedFor
<1>1. LInv => NeverAhead
  <2> SUFFICES ASSUME LInv PROVE NeverAhead
    OBVIOUS
  <2>1. session = pubSession /\ ~weather.clipping => expected <= sequence
    BY DEF LInv, Sourced
  <2>2. Delivered \subseteq arrived
    BY DEF LInv, Sourced, Known, Delivered
  <2> QED BY <2>1, <2>2 DEF NeverAhead
<1>2. LInv => Accounted
  <2> SUFFICES ASSUME LInv, loop = "closed", Simple, NEW m \in arrived,
                      m[1] = session, log /= << >>, m[2] >= log[1].first
               PROVE  m \in Delivered \union Lost
    BY DEF Accounted, Simple
  <2>1. m[2] < expected
    BY DEF LInv, Waiting
  <2>2. m[2] \in Nat /\ m = <<session, m[2]>>
    BY DEF LInv
  <2>3. Report(log, log[1].first, expected)
    BY DEF LInv, Sourced, Start
  <2>4. m[2] \in log[1].first..(expected - 1)
    BY <2>1, <2>2, <2>3 DEF Report
  <2>5. PICK i \in 1..Len(log) : log[i].first <= m[2] /\ m[2] < CallEnd(log[i])
    BY <2>3, <2>4 DEF Report
  <2>6. log[i] \in Call
    BY <2>3 DEF Report
  <2>7. CASE log[i].kind = "msg"
    <3>1. log[i].count = 1
      BY <2>3, <2>7 DEF Report
    <3>2. m[2] = log[i].first
      BY <2>2, <2>5, <2>6, <3>1 DEF Call, CallEnd
    <3> QED BY <2>2, <2>7, <3>2 DEF Delivered
  <2>8. CASE log[i].kind = "gap"
    <3>1. m[2] \in log[i].first..(CallEnd(log[i]) - 1)
      BY <2>2, <2>5, <2>6 DEF Call, CallEnd
    <3> QED BY <2>2, <2>8, <3>1 DEF Lost
  <2> QED BY <2>6, <2>7, <2>8 DEF Call
<1> QED BY <1>1, <1>2, SenderUnambiguous, LinkInvariant, LinkSender, PTL DEF AllAccountedFor

\* No message is applied twice, whatever the network repeats (sequencer.hpp:16).
THEOREM LinkAppliedOnce == LinkSpec => []AppliedOnce
<1>1. LInv => AppliedOnce
  <2> SUFFICES ASSUME LInv PROVE AppliedOnce
    OBVIOUS
  <2>1. weather.starts = 1 => Delivered \intersect past = {}
    BY DEF LInv
  <2>2. /\ log \in Seq(Call)
        /\ \A i, j \in 1..Len(log) : i < j => CallEnd(log[i]) <= log[j].first
    BY DEF LInv, Sourced, Report
  <2>3. \A i \in 1..Len(log) : log[i].first \in Nat /\ log[i].first < CallEnd(log[i])
                               /\ CallEnd(log[i]) \in Nat
    <3>1. \A c \in Call : c.first \in Nat /\ c.first < CallEnd(c) /\ CallEnd(c) \in Nat
      BY DEF Call, CallEnd
    <3>2. \A i \in 1..Len(log) : log[i] \in Call
      BY <2>2
    <3> QED BY <3>1, <3>2
  <2>4. \A i, j \in 1..Len(log) : i < j => log[i].first < log[j].first
    BY <2>2, <2>3
  <2>5. \A i, j \in 1..Len(log) : i /= j => log[i].first /= log[j].first
    <3> SUFFICES ASSUME NEW i \in 1..Len(log), NEW j \in 1..Len(log), i /= j
                 PROVE  log[i].first /= log[j].first
      OBVIOUS
    <3>1. i < j \/ j < i
      BY <2>2
    <3>2. log[i].first < log[j].first \/ log[j].first < log[i].first
      BY <2>4, <3>1
    <3> QED BY <2>3, <3>2
  <2> QED BY <2>1, <2>5 DEF AppliedOnce
<1> QED BY <1>1, LinkInvariant, PTL

-----------------------------------------------------------------------------
(* Exact gaps.                                                             *)

\* Calls put behind the log lose only what a gap among them covers.
LEMMA NewlyLost ==
  ASSUME log \in Seq(Call), NEW m \in Seq(Call), log' = log \o m, session' = session,
         NEW x \in Lost' \ Lost
  PROVE  \E j \in 1..Len(m) : /\ m[j].kind = "gap"
                              /\ \E n \in m[j].first..(CallEnd(m[j]) - 1) : x = <<session, n>>
<1>1. PICK i \in 1..Len(log') :
        log'[i].kind = "gap" /\ \E n \in log'[i].first..(CallEnd(log'[i]) - 1) : x = <<session, n>>
  BY DEF Lost, CallEnd
<1>2. /\ Len(log) \in Nat /\ Len(m) \in Nat /\ Len(log') = Len(log) + Len(m)
      /\ log'[i] = IF i <= Len(log) THEN log[i] ELSE m[i - Len(log)]
  BY ConcatProperties
<1>3. ~(i <= Len(log))
  <2> SUFFICES ASSUME i <= Len(log) PROVE FALSE
    OBVIOUS
  <2>1. i \in 1..Len(log) /\ log'[i] = log[i]
    BY <1>2
  <2>2. x \in Lost
    BY <1>1, <2>1 DEF Lost
  <2> QED BY <2>2
<1>4. i - Len(log) \in 1..Len(m) /\ log'[i] = m[i - Len(log)]
  BY <1>2, <1>3
<1> QED BY <1>1, <1>4

LEMMA NothingLost ==
  ASSUME log' = log, session' = session PROVE Lost' = Lost
BY DEF Lost, CallEnd

\* A gap in front of the foremost packet covers nothing that arrived.
LEMMA GapExact ==
  ASSUME LInv, Simple, expected \in Nat, log \in Seq(Call), session' = session,
         NEW s, s.expected = expected, s.log = log,
         NEW f, f.sequence \in Nat, Become(DeclareGap(s, f.sequence)),
         \A q \in buffer : f.sequence <= q.sequence, \A q \in buffer : q.sequence \in Nat
  PROVE  Exactly
<1> SUFFICES ASSUME NEW x \in Lost' \ Lost, x \in arrived PROVE FALSE
  BY DEF Exactly
<1>1. CASE f.sequence <= expected
  <2>1. log' = log
    BY <1>1 DEF Become, DeclareGap
  <2> QED BY <2>1, NothingLost
<1>2. CASE ~(f.sequence <= expected)
  <2> DEFINE g == Gap(expected, f.sequence - expected)
  <2>1. log' = Append(log, g)
    BY <1>2 DEF Become, DeclareGap
  <2>2. g \in Call /\ g.first = expected /\ CallEnd(g) = f.sequence
    BY <1>2 DEF Gap, Call, CallEnd
  <2> HIDE DEF g
  <2>3. <<g>> \in Seq(Call) /\ Len(<<g>>) = 1 /\ <<g>>[1] = g /\ log' = log \o <<g>>
    BY <2>1, <2>2
  <2>4. PICK n \in expected..(f.sequence - 1) : x = <<session, n>>
    <3>1. PICK j \in 1..Len(<<g>>) : \E n \in <<g>>[j].first..(CallEnd(<<g>>[j]) - 1) : x = <<session, n>>
      BY <2>3, NewlyLost
    <3>2. j = 1
      BY <2>3
    <3> QED BY <2>2, <2>3, <3>1, <3>2
  <2>5. n < expected \/ \E q \in buffer : q.sequence <= n /\ n < End(q)
    BY <2>4 DEF LInv, Waiting
  <2>6. ~(n < expected)
    OBVIOUS
  <2>7. PICK q \in buffer : q.sequence <= n
    BY <2>5, <2>6
  <2> QED BY <2>4, <2>7
<1> QED BY <1>1, <1>2

\* A whole packet handed over loses nothing.
LEMMA DeliverExact ==
  ASSUME LInv, session' = session, expected \in Nat, log \in Seq(Call),
         NEW a, Chained(Current, a), NEW p, Data(p), p.sequence <= expected,
         p.blocks = p.count, Become(Deliver(Current, p, expected - p.sequence))
  PROVE  Exactly
<1> DEFINE got == Yielded(p, expected - p.sequence)
           messages == [i \in 1..got |-> Msg(expected + i - 1)]
           lost == IF Unconsumed(p) = 0 THEN << >> ELSE <<Gap(expected + got, Unconsumed(p))>>
           t == Deliver(Current, p, expected - p.sequence)
<1>1. Current.expected = expected /\ Current.log = log
  BY DEF Current
<1>2. got \in Nat /\ t = [expected |-> expected + got + Unconsumed(p), sinceGap |-> Current.sinceGap,
                          log |-> log \o messages \o lost]
  <2>1. p.sequence <= Current.expected
    BY <1>1
  <2> QED BY <1>1, <2>1, DeliverChained
<1>3. lost = << >>
  BY DEF Data, Unconsumed
<1> HIDE DEF got, lost, t
<1>4. messages \in Seq(Call) /\ \A i \in 1..Len(messages) : messages[i].kind = "msg"
  <2>1. messages \in Seq(Call)
    BY <1>2, MessagesChain DEF Chain
  <2>2. Len(messages) = got
    BY <1>2, <2>1
  <2>3. \A i \in 1..got : messages[i].kind = "msg"
    BY DEF Msg
  <2> QED BY <2>1, <2>2, <2>3
<1> HIDE DEF messages
<1>5. log' = log \o messages
  <2>1. t.log = log \o messages \o lost
    BY <1>2
  <2>2. log \o messages \in Seq(Call)
    BY <1>4, ConcatProperties
  <2>3. t.log = log \o messages
    BY <1>3, <2>1, <2>2, ConcatEmptySeq
  <2> QED BY <2>3 DEF Become, t
<1>6. Lost' \ Lost = {}
  <2> SUFFICES ASSUME NEW x \in Lost' \ Lost PROVE FALSE
    OBVIOUS
  <2>1. PICK j \in 1..Len(messages) : messages[j].kind = "gap"
    BY <1>4, <1>5, NewlyLost
  <2> QED BY <1>4, <2>1
<1> QED BY <1>6 DEF Exactly

LEMMA PacketExact ==
  ASSUME Sender, IInv, IInv', LInv, IsPlain, NEW p, AsSent(p), OnPacket(p)
  PROVE  Exactly
<1> SUFFICES ASSUME session' = session PROVE Exactly
  BY DEF Exactly
<1>0. /\ Simple /\ ~weather.heartbeats /\ expected \in Nat /\ log \in Seq(Call) /\ p \in net
      /\ \A q \in buffer : Data(q) /\ q.sequence \in Nat
  BY DEF IsPlain, Simple, IInv, TypeOK, Held, Data, AsSent
<1>1. PICK a \in Nat : Chained(Current, a)
  BY DEF IInv
<1>2. CASE UNCHANGED log
  BY <1>2, NothingLost DEF Exactly
<1>3. CASE OnEndOfSession(p)
  <2>1. log' = log
    BY <1>3 DEF OnEndOfSession, Become, AfterSession, Current
  <2> QED BY <1>2, <2>1
<1>4. CASE OnHeartbeat(p)
  BY <1>0, <1>4 DEF OnHeartbeat, Sender
<1>5. CASE OnNext(p)
  <2>1. p.session = session /\ IsData(p) /\ AfterSession(p) = Current /\ Current.expected = expected
    BY <1>5 DEF OnNext, AfterSession, Current
  <2>2. Become(Deliver(Current, p, expected - p.sequence)) /\ p.sequence <= expected
    BY <1>5, <2>1 DEF OnNext
  <2>3. Data(p) /\ p.blocks = p.count
    BY <1>0, <2>1, NumberedTypes DEF AsSent, IsPlain
  <2> QED BY <1>0, <1>1, <2>2, <2>3, DeliverExact
<1>6. CASE OnDuplicate(p)
  BY <1>2, <1>6 DEF OnDuplicate, vars
<1>7. CASE OnAhead(p)
  <2> DEFINE s == [Current EXCEPT !.sinceGap = @ + 1]
  <2>1. s.expected = expected /\ s.log = log
    BY DEF Current
  <2>2. \/ \E f \in buffer' : Foremost(buffer', f) /\ Become(DeclareGap(s, f.sequence))
        \/ Become(s)
    BY <1>7 DEF OnAhead
  <2>3. buffer \subseteq buffer'
    BY <1>7 DEF OnAhead
  <2> HIDE DEF s
  <2>4. ASSUME NEW f \in buffer', Foremost(buffer', f), Become(DeclareGap(s, f.sequence)) PROVE Exactly
    <3>1. f.sequence \in Nat
      BY DEF IInv, Held, Data
    <3>2. \A q \in buffer : f.sequence <= q.sequence
      BY <2>3, <2>4 DEF Foremost
    <3> QED BY <1>0, <2>1, <2>4, <3>1, <3>2, GapExact
  <2>5. CASE Become(s)
    BY <1>2, <2>1, <2>5 DEF Become
  <2> QED BY <2>2, <2>4, <2>5
<1> QED BY <1>3, <1>4, <1>5, <1>6, <1>7 DEF OnPacket

LEMMA WorkExact ==
  ASSUME Sender, IInv, LInv, IsPlain, Work
  PROVE  Exactly
<1>0. /\ Simple /\ expected \in Nat /\ log \in Seq(Call) /\ session' = session
      /\ \A q \in buffer : Data(q) /\ q.sequence \in Nat /\ q.blocks = q.count
  BY DEF IsPlain, Simple, IInv, TypeOK, Held, Data, LInv, Sourced, Work, Drain, StartFlush, Flush
<1>1. PICK a \in Nat : Chained(Current, a)
  BY DEF IInv
<1>2. CASE UNCHANGED log
  BY <1>0, <1>2, NothingLost DEF Exactly
<1>3. CASE Drain
  <2>1. ASSUME NEW f \in buffer, DrainDeliver(f) PROVE Exactly
    <3>1. f.sequence <= expected /\ Become(Deliver(Current, f, expected - f.sequence))
      BY <2>1 DEF DrainDeliver
    <3> QED BY <1>0, <1>1, <3>1, DeliverExact
  <2> QED BY <1>2, <1>3, <2>1 DEF Drain, DrainEmpty, DrainStale, DrainBlocked
<1>4. CASE Flush
  <2>1. ASSUME NEW f \in buffer, Foremost(buffer, f), Become(DeclareGap(Current, f.sequence)) PROVE Exactly
    <3>1. Current.expected = expected /\ Current.log = log /\ \A q \in buffer : f.sequence <= q.sequence
      BY <2>1 DEF Current, Foremost
    <3> QED BY <1>0, <2>1, <3>1, GapExact
  <2> QED BY <1>2, <1>4, <2>1 DEF Flush
<1> QED BY <1>2, <1>3, <1>4 DEF Work, StartFlush

\* On a plain feed a number declared lost has not arrived: what is reported is
\* the exact range of what is missing (Sequencer::declare_gap).
THEOREM LinkPlainExactGaps == LinkSpec => PlainExactGaps
<1>1. Sender /\ IInv /\ IInv' /\ LInv /\ [LinkNext]_linkVars => [IsPlain => Exactly]_linkVars
  <2> SUFFICES ASSUME Sender, IInv, IInv', LInv, LinkNext, IsPlain PROVE Exactly
    OBVIOUS
  <2>1. CASE Send
    <3>1. log' = log /\ session' = session
      BY <2>1 DEF Send, vars
    <3> QED BY <3>1, NothingLost DEF Exactly
  <2>2. CASE Receive
    <3>1. PICK d \in Sent : \E p \in Arriving(d) : OnPacket(p)
      BY <2>2 DEF Receive
    <3>2. PICK p \in Arriving(d) : OnPacket(p)
      BY <3>1
    <3> QED BY <3>2, ArrivingIsAsSent, PacketExact
  <2>3. CASE Work
    BY <2>3, WorkExact
  <2> QED BY <2>1, <2>2, <2>3 DEF LinkNext
<1>2. LinkSpec => []IInv
  BY LinkIsSequencer, SequencerInvariant
<1> QED BY <1>1, <1>2, LinkSender, LinkInvariant, PTL DEF LinkSpec, PlainExactGaps
=============================================================================
