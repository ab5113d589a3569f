--------------------------- MODULE StrategyProofs ---------------------------
(***************************************************************************)
(* Proofs about the strategy process, for every tape, every number and     *)
(* size of orders, every delay of the acknowledgements and every           *)
(* interleaving of the two streams.                                        *)
(***************************************************************************)
EXTENDS StrategyProcess, SequenceTheorems, FiniteFacts, TLAPS

-----------------------------------------------------------------------------
(* What there is.  own are the references the exchange may give us.        *)

OwnMessages(own) ==
  [type : {"A"}, ref : own, locate : {OurLocate}, side : {"buy"}, price : Int, shares : Nat]
    \cup [type : {"E"}, ref : own, shares : Nat \ {0}]
Stream(own) == HistoricalMessages \cup OwnMessages(own) \cup [type : {"lost"}]

Execs == [shares : Nat, found : BOOLEAN, side : {"buy", "sell", "none"}]
Parks == [sawAdd : BOOLEAN, execs : Seq(Execs)]
Entries == [locate : Nat, side : {"buy", "sell"}, price : Int, shares : Nat]
IsBook(own, book) == DOMAIN book \subseteq Historical \cup own /\ book \in [DOMAIN book -> Entries]

Shaped(b) ==
  b = [refs |-> b.refs, parked |-> b.parked, book |-> b.book, applied |-> b.applied,
       locate |-> b.locate, ownAdds |-> b.ownAdds, fills |-> b.fills, inBook |-> b.inBook,
       position |-> b.position, seen |-> b.seen]
Belief(own, b) ==
  /\ Shaped(b)
  /\ b.refs \subseteq own /\ b.parked \in [own -> Parks] /\ IsBook(own, b.book)
  /\ b.applied \in Nat /\ b.locate \in {0, OurLocate} /\ b.ownAdds \in Nat
  /\ b.fills \in Nat /\ b.inBook \in Nat /\ b.position \in Int /\ b.seen \in Seq(Stream(own))

-----------------------------------------------------------------------------
(* The invariant.  b is what the process believes after the first k of the *)
(* messages q, mk what is left of its orders at the exchange.              *)

IsAdd(msg, r) == msg.type = "A" /\ msg.ref = r
IsExec(msg, r) == msg.type = "E" /\ msg.ref = r

Told(seen, r) == \E i \in DOMAIN seen : IsAdd(seen[i], r)
Left(b, r) == IF r \in DOMAIN b.book THEN b.book[r].shares ELSE 0
Resting(mk, r) == IF r \in DOMAIN mk THEN mk[r] ELSE 0
Rest(q, k) == (k + 1)..Len(q)
ToCome(q, k, r) ==
  SumFunctionOnSet([i \in DOMAIN q |-> IF IsExec(q[i], r) THEN q[i].shares ELSE 0], Rest(q, k))

\* Every share is accounted for.
Counted(b) ==
  /\ b.fills + ParkedShares(b) = SharesSeen(b.seen)
  /\ \A r \in b.refs : b.parked[r] = NotParked
Placed(b) == b.position + ParkedInBook(b) = InBookSeen(b.seen)

\* An order of ours is in the book under our locate, and only once told of.
Booked(own, b) ==
  \A r \in own \cap DOMAIN b.book :
    /\ Told(b.seen, r) /\ b.locate = OurLocate
    /\ b.book[r].locate = OurLocate /\ b.book[r].side = "buy"

\* What is still to come of an order's executions fits into it.
Covered(own, mk, b, q, k) ==
  \A r \in own :
    /\ Told(b.seen, r) => Left(b, r) >= ToCome(q, k, r) + Resting(mk, r)
    /\ \A i \in Rest(q, k) : IsAdd(q[i], r) =>
         /\ \A j \in (k + 1)..(i - 1) : ~IsExec(q[j], r)
         /\ q[i].shares >= ToCome(q, k, r) + Resting(mk, r)

\* An order is added once.
AddedOnce(b, q, k) ==
  /\ \A i, j \in DOMAIN b.seen : b.seen[i].type = "A" /\ IsAdd(b.seen[j], b.seen[i].ref) => i = j
  /\ \A i, j \in Rest(q, k) : q[i].type = "A" /\ IsAdd(q[j], q[i].ref) => i = j
  /\ \A i \in Rest(q, k) : q[i].type = "A" => ~Told(b.seen, q[i].ref)

\* Nothing is said of an order the exchange has not accepted.
Unknown(own, mk, b, q, k) ==
  \A r \in own \ DOMAIN mk :
    /\ r \notin b.refs /\ b.parked[r] = NotParked /\ ~Told(b.seen, r)
    /\ \A i \in Rest(q, k) : ~IsAdd(q[i], r) /\ ~IsExec(q[i], r)

\* While nothing is lost, an execution comes after the add.
InOrder(own, mk, b, q, k) ==
  /\ \A i \in OwnExecs(b.seen) : Added(b.seen, i)
  /\ \A r \in own :
       /\ \A i \in Rest(q, k) : IsExec(q[i], r) =>
            Told(b.seen, r) \/ \E j \in (k + 1)..(i - 1) : IsAdd(q[j], r)
       /\ Resting(mk, r) > 0 => Told(b.seen, r) \/ \E i \in Rest(q, k) : IsAdd(q[i], r)

\* The book is what has been seen of it.
Shown(b, msg, left) ==
  /\ msg.locate = OurLocate => b.locate = OurLocate
  /\ left > 0 => /\ msg.ref \in DOMAIN b.book /\ b.book[msg.ref].shares = left
                 /\ b.book[msg.ref].locate = msg.locate /\ b.book[msg.ref].side = msg.side
                 /\ b.book[msg.ref].price = msg.price
Mirrored(b) ==
  \A i \in DOMAIN b.seen : b.seen[i].type = "A" => Shown(b, b.seen[i], LeftOf(b.seen, i))

Sound(own, mk, clean, b, q, k) ==
  /\ Belief(own, b) /\ Counted(b) /\ Placed(b) /\ Booked(own, b) /\ Covered(own, mk, b, q, k)
  /\ AddedOnce(b, q, k) /\ Unknown(own, mk, b, q, k) /\ (clean => InOrder(own, mk, b, q, k))
  /\ Mirrored(b)

Frames(own) ==
  [type : {"A"}] \cup [type : {"S"}, ouch : {"accepted", "executed"}, ref : own]
    \cup [type : {"S"}, ouch : {"rejected"}, ref : {0}]
Requests == [type : {"L", "O"}] \cup [type : {"U"}, price : Int]
Acks(own) == [due : Nat, ref : own]

IsSession(s) == DOMAIN s = {"state", "sent", "heard", "seq"}

Types ==
  /\ scenario \in Scenarios /\ IsSession(client)
  /\ late \in Seq(Acks(OwnRefs)) /\ now \in Nat
  /\ orders \in Seq(Requests) /\ replies \in Seq(Frames(OwnRefs))
  /\ held \in Seq(Stream(OwnRefs)) /\ feed \in Seq(Stream(OwnRefs)) /\ tape \in Seq(HistoricalMessages)
  /\ faults \in Nat /\ ordersSent \in 0..scenario.maxOrders

QuoteTerms(queue) == [i \in DOMAIN queue |-> IF queue[i].type = "U" THEN 1 ELSE 0]
Quotes(queue) == SumFunctionOnSet(QuoteTerms(queue), DOMAIN queue)

\* References are given out one after the other to orders that were sent.
GivenOut ==
  \E n \in 0..scenario.maxOrders :
    /\ makers \in [(HistoricalRefs + 1)..(HistoricalRefs + n) -> Nat]
    /\ n + Quotes(orders) <= ordersSent

\* An order of the tape is added once, and only what is published was added.
TapeNew ==
  /\ \A i, j \in DOMAIN tape : tape[i].type = "A" /\ IsAdd(tape[j], tape[i].ref) => i = j
  /\ \A i \in DOMAIN tape : tape[i].type = "A" =>
       /\ ~Told(belief.seen, tape[i].ref)
       /\ \A j \in DOMAIN (held \o feed) : ~IsAdd((held \o feed)[j], tape[i].ref)

IsAccept(frame, r) == frame.type = "S" /\ frame.ouch = "accepted" /\ frame.ref = r
Awaited(queue, r) == \E i \in DOMAIN queue : queue[i].ref = r

\* Every order of ours is known to us, or its acknowledgement is coming.
Answers ==
  /\ \A i \in DOMAIN late : late[i].ref \in DOMAIN makers
  /\ \A i \in DOMAIN replies : replies[i].type = "S" /\ replies[i].ouch = "accepted" => replies[i].ref \in DOMAIN makers
  /\ client.state = "AwaitingLogin" => ordersSent = 0
  /\ client.state = "LoggedIn" => \A r \in DOMAIN makers :
       r \in belief.refs \/ Awaited(late, r) \/ \E i \in DOMAIN replies : IsAccept(replies[i], r)
  /\ phase = "reported" => \A i \in DOMAIN late : late[i].ref \in belief.refs

IInv ==
  /\ Types /\ GivenOut /\ TapeNew /\ Answers
  /\ Sound(OwnRefs, makers, faults = 0, belief, held \o feed, 0)

-----------------------------------------------------------------------------
(* The loops of the process are folds: over parked executions, over held   *)
(* acknowledgements, over replies and over messages.  Each is a run of     *)
(* steps.  kind says which loop it is.                                     *)

Step(kind, a, e) ==
  CASE kind = "fill" -> FillCounted(a, e)
    [] kind = "ack" -> AckBound(a, e)
    [] kind = "heed" -> Heed(a, e)
    [] kind = "reply" -> Replied(a, e)

\* g is the function such a fold is computed by.
Runs(kind, s, q, g, D) ==
  g = [u \in SUBSET D |-> IF u = {} THEN s ELSE Step(kind, g[u \ {Max(u)}], q[Max(u)])]

\* It is determined on every set it is computed for, ...
LEMMA RunsSame ==
  ASSUME NEW kind, NEW s, NEW q, NEW D, NEW E, Numbers(D), NEW g, NEW h,
         Runs(kind, s, q, g, D), Runs(kind, s, q, h, E),
         NEW V, V \subseteq D, V \subseteq E
  PROVE  g[V] = h[V]
<1> DEFINE B == {U \in SUBSET D : U \subseteq E /\ g[U] /= h[U]}
<1>1. SUFFICES ASSUME B /= {} PROVE FALSE
  OBVIOUS
<1>2. PICK U \in B : \A W \in B : W \subseteq U => W = U
  <2>1. B \subseteq SUBSET D
    OBVIOUS
  <2> HIDE DEF B
  <2> QED BY <1>1, <2>1, SmallestPart
<1>3. CASE U = {}
  BY <1>2, <1>3 DEF Runs
<1>4. CASE U /= {}
  <2>1. Max(U) \in U
    BY <1>2, <1>4, PartFacts
  <2> DEFINE W == U \ {Max(U)}
  <2>2. W \subseteq U /\ W /= U
    BY <2>1
  <2>3. g[W] = h[W]
    BY <1>2, <2>2
  <2>4. g[U] = Step(kind, g[W], q[Max(U)]) /\ h[U] = Step(kind, h[W], q[Max(U)])
    BY <1>2, <1>4 DEF Runs
  <2> QED BY <1>2, <2>3, <2>4
<1> QED BY <1>3, <1>4

\* ... and there is one for every finite set of positions.
LEMMA RunsExists ==
  ASSUME NEW kind, NEW s, NEW q, NEW D, Numbers(D)
  PROVE  \E g : Runs(kind, s, q, g, D)
<1> DEFINE B == {U \in SUBSET D : ~\E g : Runs(kind, s, q, g, U)}
<1>1. SUFFICES ASSUME B /= {} PROVE FALSE
  OBVIOUS
<1>2. PICK T \in B : \A W \in B : W \subseteq T => W = T
  <2>1. B \subseteq SUBSET D
    OBVIOUS
  <2> HIDE DEF B
  <2> QED BY <1>1, <2>1, SmallestPart
<1> DEFINE h(u) == CHOOSE g : Runs(kind, s, q, g, u)
           val(u) == h(u)[u]
           less(u) == u \ {Max(u)}
           g == [u \in SUBSET T |-> IF u = {} THEN s ELSE Step(kind, val(less(u)), q[Max(u)])]
<1>3. ASSUME NEW u \in SUBSET T, u /= T PROVE Runs(kind, s, q, h(u), u) /\ Numbers(u)
  <2>1. u \in SUBSET D /\ u \notin B
    BY <1>2, <1>3
  <2> QED BY <2>1, PartFacts
<1>4. ASSUME NEW u \in SUBSET T, u /= {} PROVE less(u) \in SUBSET T /\ less(u) /= T /\ less(u) \subseteq u
  <2>1. Max(u) \in u
    BY <1>2, <1>4, PartFacts
  <2> QED BY <2>1
<1>5. ASSUME NEW u \in SUBSET T, u /= T PROVE g[u] = val(u)
  <2>1. Runs(kind, s, q, h(u), u) /\ Numbers(u)
    BY <1>3, <1>5
  <2>2. CASE u = {}
    <3>1. val(u) = s
      <4> HIDE DEF h
      <4> QED BY <2>1, <2>2 DEF Runs
    <3> QED BY <2>2, <3>1
  <2>3. CASE u /= {}
    <3> DEFINE r == less(u)
    <3>1. r \in SUBSET T /\ r /= T /\ r \subseteq u
      BY <1>4, <2>3
    <3>2. val(u) = Step(kind, h(u)[r], q[Max(u)])
      <4> HIDE DEF h
      <4> QED BY <2>1, <2>3 DEF Runs
    <3>3. h(u)[r] = h(r)[r]
      <4>1. Runs(kind, s, q, h(r), r)
        BY <1>3, <3>1
      <4> DEFINE a == h(u)
                 b == h(r)
      <4>2. r \subseteq r /\ r \subseteq u /\ Runs(kind, s, q, a, u) /\ Runs(kind, s, q, b, r)
        BY <2>1, <3>1, <4>1
      <4> HIDE DEF a, b, h, r
      <4>3. a[r] = b[r]
        BY <2>1, <4>2, RunsSame
      <4> QED BY <4>3 DEF a, b
    <3> QED BY <2>3, <3>2, <3>3
  <2> QED BY <2>2, <2>3
<1>6. \A u \in SUBSET T : u /= {} => g[less(u)] = val(less(u))
  <2> HIDE DEF g, val, h, less
  <2> QED BY <1>4, <1>5
<1>7. Runs(kind, s, q, g, T)
  <2> HIDE DEF val, h
  <2> QED BY <1>6 DEF Runs
<1> QED BY <1>2, <1>7

\* What a fold of n steps goes through.
Folded(kind, s, q, v) == \E g : Runs(kind, s, q, g, DOMAIN q) /\ v = g[DOMAIN q]
Spans(q, n) == DOMAIN q = 1..n
IsRun(kind, run, s, q, n) ==
  /\ run[0] = s
  /\ \A k \in 1..n : run[k] = Step(kind, run[k - 1], q[k])

LEMMA FoldIsRun ==
  ASSUME NEW kind, NEW s, NEW q, NEW n \in Nat, Spans(q, n), NEW v, Folded(kind, s, q, v)
  PROVE  \E run : IsRun(kind, run, s, q, n) /\ run[n] = v
<1> DEFINE D == 1..n
<1>1. PICK g : Runs(kind, s, q, g, D) /\ v = g[D]
  BY DEF Folded, Spans
<1> DEFINE run == [k \in 0..n |-> g[1..k]]
<1>3. run[n] = v
  BY <1>1
<1>4. run[0] = s
  <2>1. 1..0 = {} /\ {} \in SUBSET D
    OBVIOUS
  <2> QED BY <1>1, <2>1 DEF Runs
<1>5. ASSUME NEW k \in 1..n PROVE run[k] = Step(kind, run[k - 1], q[k])
  <2> DEFINE T == 1..k
  <2>1. T \in SUBSET D /\ k \in T /\ \A y \in T : k >= y
    OBVIOUS
  <2>2. Max(T) = k
    <3>1. IsFiniteSet(T) /\ T \in SUBSET Nat /\ T /= {}
      <4>1. IsFiniteSet(T)
        BY FS_Interval
      <4>2. T \subseteq Nat
        OBVIOUS
      <4>3. T /= {}
        BY <2>1
      <4> QED BY <4>1, <4>2, <4>3
    <3> HIDE DEF T
    <3>2. Max(T) \in T /\ \A y \in T : Max(T) >= y
      BY <3>1, MaxIn
    <3>3. Max(T) >= k /\ k >= Max(T) /\ Max(T) \in Nat
      BY <2>1, <3>1, <3>2
    <3> QED BY <3>3
  <2>3. T \ {k} = 1..(k - 1)
    OBVIOUS
  <2>4. g[T] = Step(kind, g[T \ {k}], q[k])
    <3> HIDE DEF T, D
    <3> QED BY <1>1, <2>1, <2>2 DEF Runs
  <2>5. run[k] = g[T] /\ run[k - 1] = g[1..(k - 1)]
    OBVIOUS
  <2>6. g[T \ {k}] = g[1..(k - 1)]
    BY <2>3
  <2> HIDE DEF run, T
  <2> QED BY <2>4, <2>5, <2>6
<1>6. IsRun(kind, run, s, q, n)
  <2> HIDE DEF run
  <2> QED BY <1>4, <1>5 DEF IsRun
<1> HIDE DEF run
<1> QED BY <1>3, <1>6

\* Each of the four folds is one.
FillRuns(s, q, g, D) ==
  g = [u \in SUBSET D |-> IF u = {} THEN s ELSE FillCounted(g[u \ {Max(u)}], q[Max(u)])]

LEMMA FillUnfolded ==
  ASSUME NEW s, NEW q
  PROVE  FoldLeft(FillCounted, s, q) = (CHOOSE g : FillRuns(s, q, g, DOMAIN q))[DOMAIN q]
BY DEF FoldLeft, MapThenFoldSet, FillRuns

LEMMA FillFolded ==
  ASSUME NEW s, NEW q, NEW n \in Nat, Spans(q, n)
  PROVE  Folded("fill", s, q, FoldLeft(FillCounted, s, q))
<1> DEFINE D == DOMAIN q
           h == CHOOSE g : FillRuns(s, q, g, D)
<1>1. Numbers(D)
  BY FS_Interval DEF Numbers, Spans
<1>2. \A a, e : Step("fill", a, e) = FillCounted(a, e)
  BY DEF Step
<1>3. \A g : FillRuns(s, q, g, D) <=> Runs("fill", s, q, g, D)
  BY <1>2 DEF FillRuns, Runs
<1>4. \E g : FillRuns(s, q, g, D)
  <2> HIDE DEF D
  <2> QED BY <1>1, <1>3, RunsExists
<1>5. FillRuns(s, q, h, D)
  BY <1>4
<1>6. FoldLeft(FillCounted, s, q) = h[D]
  BY FillUnfolded
<1> HIDE DEF h
<1> QED BY <1>3, <1>5, <1>6 DEF Folded

\* Held acknowledgements.
AckRuns(s, q, g, D) ==
  g = [u \in SUBSET D |-> IF u = {} THEN s ELSE AckBound(g[u \ {Max(u)}], q[Max(u)])]

LEMMA AckUnfolded ==
  ASSUME NEW s, NEW q
  PROVE  FoldLeft(AckBound, s, q) = (CHOOSE g : AckRuns(s, q, g, DOMAIN q))[DOMAIN q]
BY DEF FoldLeft, MapThenFoldSet, AckRuns

LEMMA AckFolded ==
  ASSUME NEW s, NEW q, NEW n \in Nat, Spans(q, n)
  PROVE  Folded("ack", s, q, FoldLeft(AckBound, s, q))
<1> DEFINE D == DOMAIN q
           h == CHOOSE g : AckRuns(s, q, g, D)
<1>1. Numbers(D)
  BY FS_Interval DEF Numbers, Spans
<1>2. \A a, e : Step("ack", a, e) = AckBound(a, e)
  BY DEF Step
<1>3. \A g : AckRuns(s, q, g, D) <=> Runs("ack", s, q, g, D)
  BY <1>2 DEF AckRuns, Runs
<1>4. \E g : AckRuns(s, q, g, D)
  <2> HIDE DEF D
  <2> QED BY <1>1, <1>3, RunsExists
<1>5. AckRuns(s, q, h, D)
  BY <1>4
<1>6. FoldLeft(AckBound, s, q) = h[D]
  BY AckUnfolded
<1> HIDE DEF h
<1> QED BY <1>3, <1>5, <1>6 DEF Folded

\* Messages.
HeedRuns(s, q, g, D) ==
  g = [u \in SUBSET D |-> IF u = {} THEN s ELSE Heed(g[u \ {Max(u)}], q[Max(u)])]

LEMMA HeedUnfolded ==
  ASSUME NEW s, NEW q
  PROVE  FoldLeft(Heed, s, q) = (CHOOSE g : HeedRuns(s, q, g, DOMAIN q))[DOMAIN q]
BY DEF FoldLeft, MapThenFoldSet, HeedRuns

LEMMA HeedFolded ==
  ASSUME NEW s, NEW q, NEW n \in Nat, Spans(q, n)
  PROVE  Folded("heed", s, q, FoldLeft(Heed, s, q))
<1> DEFINE D == DOMAIN q
           h == CHOOSE g : HeedRuns(s, q, g, D)
<1>1. Numbers(D)
  BY FS_Interval DEF Numbers, Spans
<1>2. \A a, e : Step("heed", a, e) = Heed(a, e)
  BY DEF Step
<1>3. \A g : HeedRuns(s, q, g, D) <=> Runs("heed", s, q, g, D)
  BY <1>2 DEF HeedRuns, Runs
<1>4. \E g : HeedRuns(s, q, g, D)
  <2> HIDE DEF D
  <2> QED BY <1>1, <1>3, RunsExists
<1>5. HeedRuns(s, q, h, D)
  BY <1>4
<1>6. FoldLeft(Heed, s, q) = h[D]
  BY HeedUnfolded
<1> HIDE DEF h
<1> QED BY <1>3, <1>5, <1>6 DEF Folded

\* Replies.
ReplyRuns(s, q, g, D) ==
  g = [u \in SUBSET D |-> IF u = {} THEN s ELSE Replied(g[u \ {Max(u)}], q[Max(u)])]

LEMMA ReplyUnfolded ==
  ASSUME NEW s, NEW q
  PROVE  FoldLeft(Replied, s, q) = (CHOOSE g : ReplyRuns(s, q, g, DOMAIN q))[DOMAIN q]
BY DEF FoldLeft, MapThenFoldSet, ReplyRuns

LEMMA ReplyFolded ==
  ASSUME NEW s, NEW q, NEW n \in Nat, Spans(q, n)
  PROVE  Folded("reply", s, q, FoldLeft(Replied, s, q))
<1> DEFINE D == DOMAIN q
           h == CHOOSE g : ReplyRuns(s, q, g, D)
<1>1. Numbers(D)
  BY FS_Interval DEF Numbers, Spans
<1>2. \A a, e : Step("reply", a, e) = Replied(a, e)
  BY DEF Step
<1>3. \A g : ReplyRuns(s, q, g, D) <=> Runs("reply", s, q, g, D)
  BY <1>2 DEF ReplyRuns, Runs
<1>4. \E g : ReplyRuns(s, q, g, D)
  <2> HIDE DEF D
  <2> QED BY <1>1, <1>3, RunsExists
<1>5. ReplyRuns(s, q, h, D)
  BY <1>4
<1>6. FoldLeft(Replied, s, q) = h[D]
  BY ReplyUnfolded
<1> HIDE DEF h
<1> QED BY <1>3, <1>5, <1>6 DEF Folded

-----------------------------------------------------------------------------
(* What is learnt of an order.                                             *)

InBook(e) == IF e.found THEN Signed(e.side, e.shares) ELSE 0

SameBook(b, c) ==
  c.refs = b.refs /\ c.parked = b.parked /\ c.book = b.book /\ c.locate = b.locate
    /\ c.seen = b.seen /\ c.applied = b.applied

FilledBy(own, b, c, shares, inBook) ==
  /\ Belief(own, c) /\ SameBook(b, c)
  /\ c.fills = b.fills + shares /\ c.position = b.position + inBook

Fields == {"refs", "parked", "book", "applied", "locate", "ownAdds", "fills", "inBook", "position", "seen"}

LEMMA InBookType == \A e \in Execs : InBook(e) \in Int /\ e.shares \in Nat
BY DEF Execs, InBook, Signed

LEMMA FillCountedIs ==
  ASSUME NEW own, NEW b, Belief(own, b), NEW e \in Execs
  PROVE  FilledBy(own, b, FillCounted(b, e), e.shares, InBook(e))
<1>1. /\ e.shares \in Nat /\ e.found \in BOOLEAN /\ InBook(e) \in Int
  BY InBookType DEF Execs
<1> DEFINE c == FillCounted(b, e)
<1>2. DOMAIN b = Fields
  BY DEF Belief, Shaped, Fields
<1>3. SameBook(b, c) /\ c.fills = b.fills + e.shares /\ c.position = b.position + InBook(e)
  <2>1. SameBook(b, c) /\ c.fills = b.fills + e.shares
    BY <1>2 DEF FillCounted, SameBook, Fields
  <2>2. CASE e.found
    BY <1>2, <2>1, <2>2 DEF FillCounted, InBook, Fields
  <2>3. CASE ~e.found
    BY <1>2, <2>1, <2>3 DEF FillCounted, InBook, Belief, Fields
  <2> QED BY <2>2, <2>3
<1>4. Shaped(c)
  <2>1. c = [f \in Fields |-> c[f]]
    BY <1>2 DEF FillCounted
  <2> QED BY <2>1 DEF Shaped, Fields
<1>5. c.inBook \in Nat /\ c.ownAdds = b.ownAdds
  BY <1>2 DEF FillCounted, Belief, Fields
<1>6. Belief(own, c)
  BY <1>1, <1>3, <1>4, <1>5 DEF Belief, SameBook
<1>7. FilledBy(own, b, c, e.shares, InBook(e))
  BY <1>3, <1>6 DEF FilledBy
<1> QED BY <1>7 DEF c

\* The terms of what is parked for an order.
Terms(execs) == [i \in DOMAIN execs |-> execs[i].shares]
BookTerms(execs) == [i \in DOMAIN execs |-> InBook(execs[i])]

LEMMA TermsSum ==
  \A execs : /\ SharesIn(execs) = SumFunctionOnSet(Terms(execs), DOMAIN execs)
             /\ InBookIn(execs) = SumFunctionOnSet(BookTerms(execs), DOMAIN execs)
BY DEF SharesIn, InBookIn, Terms, BookTerms, InBook, SumFunction

LEMMA TermsType ==
  ASSUME NEW execs \in Seq(Execs)
  PROVE  /\ \A i \in DOMAIN execs : Terms(execs)[i] \in Nat /\ BookTerms(execs)[i] \in Int
         /\ DOMAIN execs = 1..Len(execs) /\ Len(execs) \in Nat /\ IsFiniteSet(DOMAIN execs)
         /\ SharesIn(execs) \in Nat /\ InBookIn(execs) \in Int
<1>1. DOMAIN execs = 1..Len(execs) /\ Len(execs) \in Nat
  BY LenProperties
<1>2. \A i \in DOMAIN execs : execs[i] \in Execs
  BY <1>1, ElementOfSeq
<1>3. \A i \in DOMAIN execs : Terms(execs)[i] \in Nat /\ BookTerms(execs)[i] \in Int
  BY <1>2, InBookType DEF Terms, BookTerms
<1>4. IsFiniteSet(DOMAIN execs)
  BY <1>1, FS_Interval
<1>5. SumFunctionOnSet(Terms(execs), DOMAIN execs) \in Nat
  BY <1>3, <1>4, SumType
<1>6. SumFunctionOnSet(BookTerms(execs), DOMAIN execs) \in Int
  BY <1>3, <1>4, SumType
<1> QED BY <1>1, <1>3, <1>4, <1>5, <1>6, TermsSum

\* The fills of a parked order, all together.
LEMMA FillsCounted ==
  ASSUME NEW own, NEW b, Belief(own, b), NEW execs \in Seq(Execs)
  PROVE  FilledBy(own, b, FoldLeft(FillCounted, b, execs), SharesIn(execs), InBookIn(execs))
<1> DEFINE n == Len(execs)
           v == FoldLeft(FillCounted, b, execs)
           f == Terms(execs)
           g == BookTerms(execs)
<1>1. n \in Nat /\ Spans(execs, n) /\ DOMAIN execs = 1..n
  BY LenProperties DEF Spans
<1>2. Folded("fill", b, execs, v)
  BY <1>1, FillFolded
<1>3. PICK run : IsRun("fill", run, b, execs, n) /\ run[n] = v
  <2> HIDE DEF n, v
  <2> QED BY <1>1, <1>2, FoldIsRun
<1>4. \A i \in 1..n : f[i] \in Nat /\ g[i] \in Int /\ execs[i] \in Execs
  BY <1>1, TermsType, ElementOfSeq
<1> DEFINE F(k) == SumFunctionOnSet(f, 1..k)
           G(k) == SumFunctionOnSet(g, 1..k)
           B == {k \in 0..n : FilledBy(own, b, run[k], F(k), G(k))}
<1>5. 0 \in B
  <2>1. 1..0 = {}
    OBVIOUS
  <2>2. F(0) = 0 /\ G(0) = 0
    BY <2>1, SumEmpty
  <2>3. run[0] = b
    BY <1>3 DEF IsRun
  <2>4. b.fills + 0 = b.fills /\ b.position + 0 = b.position
    BY DEF Belief
  <2>5. FilledBy(own, b, b, 0, 0)
    BY <2>4 DEF FilledBy, SameBook
  <2> HIDE DEF F, G
  <2> QED BY <1>1, <2>2, <2>3, <2>5
<1>6. ASSUME NEW k \in 0..(n - 1), k \in B PROVE k + 1 \in B
  <2> DEFINE V == 1..k
             e == execs[k + 1]
             a == run[k]
  <2>1. IsFiniteSet(V) /\ V \union {k + 1} = 1..(k + 1) /\ k + 1 \notin V
    <3>1. IsFiniteSet(V)
      BY FS_Interval
    <3> QED BY <1>1, <3>1
  <2>2. \A y \in V \union {k + 1} : f[y] \in Int /\ g[y] \in Int
    BY <1>1, <1>4
  <2>3. \A y \in V : f[y] \in Int /\ g[y] \in Int
    BY <2>2
  <2>4. F(k + 1) = f[k + 1] + F(k) /\ G(k + 1) = g[k + 1] + G(k)
    <3> HIDE DEF V, f, g
    <3>1. SumFunctionOnSet(f, V \union {k + 1}) = f[k + 1] + SumFunctionOnSet(f, V)
      BY <2>1, <2>2, SumAdd
    <3>2. SumFunctionOnSet(g, V \union {k + 1}) = g[k + 1] + SumFunctionOnSet(g, V)
      BY <2>1, <2>2, SumAdd
    <3> QED BY <2>1, <3>1, <3>2 DEF V
  <2>5. F(k) \in Int /\ G(k) \in Int
    <3> HIDE DEF V, f, g
    <3> QED BY <2>1, <2>3, SumType DEF V
  <2>6. e \in Execs /\ f[k + 1] = e.shares /\ g[k + 1] = InBook(e) /\ f[k + 1] \in Nat /\ g[k + 1] \in Int
    BY <1>1, <1>4 DEF Terms, BookTerms
  <2>7. FilledBy(own, b, a, F(k), G(k))
    BY <1>6
  <2>8. run[k + 1] = FillCounted(a, e)
    <3>1. k + 1 \in 1..n /\ (k + 1) - 1 = k
      BY <1>1
    <3>2. run[k + 1] = Step("fill", run[(k + 1) - 1], execs[k + 1])
      BY <1>3, <3>1 DEF IsRun
    <3> QED BY <3>1, <3>2 DEF Step
  <2> HIDE DEF a, e, F, G, f, g
  <2>9. FilledBy(own, a, FillCounted(a, e), e.shares, InBook(e))
    BY <2>6, <2>7, FillCountedIs DEF FilledBy
  <2>10. b.fills \in Int /\ b.position \in Int
    BY DEF Belief
  <2>11. FilledBy(own, b, FillCounted(a, e), F(k + 1), G(k + 1))
    <3> DEFINE c == FillCounted(a, e)
               F1 == F(k + 1)
               G1 == G(k + 1)
               F0 == F(k)
               G0 == G(k)
    <3>1. /\ F1 = e.shares + F0 /\ G1 = InBook(e) + G0
          /\ F0 \in Int /\ G0 \in Int /\ e.shares \in Int /\ InBook(e) \in Int
      BY <2>4, <2>5, <2>6
    <3>2. /\ a.fills = b.fills + F0 /\ a.position = b.position + G0 /\ SameBook(b, a)
      BY <2>7 DEF FilledBy
    <3>3. /\ c.fills = a.fills + e.shares /\ c.position = a.position + InBook(e)
          /\ SameBook(a, c) /\ Belief(own, c)
      BY <2>9 DEF FilledBy
    <3> HIDE DEF c, F1, G1, F0, G0
    <3>4. c.fills = b.fills + F1 /\ c.position = b.position + G1
      <4>1. c.fills = (b.fills + F0) + e.shares /\ c.position = (b.position + G0) + InBook(e)
        BY <3>2, <3>3, Zenon
      <4>2. (b.fills + F0) + e.shares = b.fills + F1
        BY <2>10, <3>1
      <4>3. (b.position + G0) + InBook(e) = b.position + G1
        BY <2>10, <3>1
      <4> QED BY <4>1, <4>2, <4>3, Zenon
    <3>5. SameBook(b, c)
      BY <3>2, <3>3 DEF SameBook
    <3>6. FilledBy(own, b, c, F1, G1)
      BY <3>3, <3>4, <3>5 DEF FilledBy
    <3> QED BY <3>6 DEF c, F1, G1
  <2>12. k + 1 \in 0..n
    BY <1>1
  <2> QED BY <2>8, <2>11, <2>12
<1>7. B = 0..n
  <2>1. B \in SUBSET (0..n)
    OBVIOUS
  <2> HIDE DEF B, n
  <2> QED BY <1>1, <1>5, <1>6, <2>1, Climb
<1>8. FilledBy(own, b, run[n], F(n), G(n))
  <2> HIDE DEF F, G, n
  <2>1. n \in B
    BY <1>1, <1>7
  <2> QED BY <2>1
<1> HIDE DEF f, g
<1>9. F(n) = SharesIn(execs) /\ G(n) = InBookIn(execs)
  BY <1>1, TermsSum DEF f, g
<1> HIDE DEF F, G, n
<1> QED BY <1>3, <1>8, <1>9

\* What is parked changes with one order.
LEMMA NothingParked == NotParked \in Parks /\ SharesIn(NotParked.execs) = 0 /\ InBookIn(NotParked.execs) = 0
<1> DEFINE e == << >>
<1>1. NotParked.execs = e /\ DOMAIN e = {} /\ e \in Seq(Execs) /\ NotParked.sawAdd = FALSE
  BY DEF NotParked
<1>2. SharesIn(e) = 0 /\ InBookIn(e) = 0
  <2>1. SumFunctionOnSet(Terms(e), {}) = 0 /\ SumFunctionOnSet(BookTerms(e), {}) = 0
    BY SumEmpty
  <2> QED BY <1>1, <2>1, TermsSum
<1>3. NotParked \in Parks
  BY <1>1 DEF Parks, NotParked
<1> QED BY <1>1, <1>2, <1>3

LEMMA ParkTermsType ==
  ASSUME NEW p \in Parks
  PROVE  p.execs \in Seq(Execs) /\ SharesIn(p.execs) \in Nat /\ InBookIn(p.execs) \in Int
<1>1. p.execs \in Seq(Execs)
  BY DEF Parks
<1> QED BY <1>1, TermsType

Reparks(b, c, r, p) == c.parked = [b.parked EXCEPT ![r] = p]
ParksFor(own, b) == b.parked \in [own -> Parks]
IsPark(p) == p \in Parks

LEMMA Reparked ==
  ASSUME NEW own, IsFiniteSet(own), NEW b, NEW c, ParksFor(own, b), NEW r \in own,
         NEW p, IsPark(p), Reparks(b, c, r, p)
  PROVE  /\ ParkedShares(c) = ParkedShares(b) + SharesIn(p.execs) - SharesIn(b.parked[r].execs)
         /\ ParkedInBook(c) = ParkedInBook(b) + InBookIn(p.execs) - InBookIn(b.parked[r].execs)
         /\ ParkedShares(b) \in Nat /\ ParkedInBook(b) \in Int
<1> DEFINE f == [x \in own |-> SharesIn(b.parked[x].execs)]
           g == [x \in own |-> SharesIn(c.parked[x].execs)]
           h == [x \in own |-> InBookIn(b.parked[x].execs)]
           k == [x \in own |-> InBookIn(c.parked[x].execs)]
<1>1. /\ c.parked \in [own -> Parks] /\ c.parked[r] = p
      /\ \A x \in own \ {r} : c.parked[x] = b.parked[x]
      /\ b.parked \in [own -> Parks]
  BY DEF Reparks, ParksFor, IsPark
<1>2. /\ ParkedShares(b) = SumFunctionOnSet(f, own) /\ ParkedShares(c) = SumFunctionOnSet(g, own)
      /\ ParkedInBook(b) = SumFunctionOnSet(h, own) /\ ParkedInBook(c) = SumFunctionOnSet(k, own)
  <2>1. DOMAIN b.parked = own /\ DOMAIN c.parked = own
    BY <1>1
  <2> QED BY <2>1 DEF ParkedShares, ParkedInBook, SumFunction
<1>3. \A x \in own : f[x] \in Nat /\ g[x] \in Nat /\ h[x] \in Int /\ k[x] \in Int
  <2>1. \A x \in own : b.parked[x] \in Parks /\ c.parked[x] \in Parks
    BY <1>1
  <2> QED BY <2>1, ParkTermsType
<1>4. \A x \in own \ {r} : f[x] = g[x] /\ h[x] = k[x]
  BY <1>1
<1>5. /\ f[r] = SharesIn(b.parked[r].execs) /\ g[r] = SharesIn(p.execs)
      /\ h[r] = InBookIn(b.parked[r].execs) /\ k[r] = InBookIn(p.execs)
  BY <1>1
<1> HIDE DEF f, g, h, k
<1>6. SumFunctionOnSet(f, own) \in Nat /\ SumFunctionOnSet(h, own) \in Int
  BY <1>3, SumType
<1>8. SumFunctionOnSet(g, own) = SumFunctionOnSet(f, own) + g[r] - f[r]
  <2>1. (\A x \in own : f[x] \in Int /\ g[x] \in Int) /\ \A x \in own \ {r} : f[x] = g[x]
    BY <1>3, <1>4
  <2> QED BY <2>1, SumChange
<1>9. SumFunctionOnSet(k, own) = SumFunctionOnSet(h, own) + k[r] - h[r]
  <2>1. (\A x \in own : h[x] \in Int /\ k[x] \in Int) /\ \A x \in own \ {r} : h[x] = k[x]
    BY <1>3, <1>4
  <2> QED BY <2>1, SumChange
<1> QED BY <1>2, <1>5, <1>6, <1>8, <1>9

\* Binding a reference counts what was parked for it.
BoundTo(own, b, c, r) ==
  /\ Belief(own, c) /\ c.refs = b.refs \cup {r} /\ Reparks(b, c, r, NotParked)
  /\ c.book = b.book /\ c.locate = b.locate /\ c.seen = b.seen /\ c.applied = b.applied
  /\ c.fills = b.fills + SharesIn(b.parked[r].execs)
  /\ c.position = b.position + InBookIn(b.parked[r].execs)

LEMMA BoundIs ==
  ASSUME NEW own, NEW b, Belief(own, b), NEW r \in own
  PROVE  BoundTo(own, b, Bound(b, r), r)
<1> DEFINE a == [b EXCEPT !.refs = @ \cup {r}]
           p == a.parked[r]
           v == FoldLeft(FillCounted, a, p.execs)
           c == Bound(b, r)
<1>1. DOMAIN b = Fields
  BY DEF Belief, Shaped, Fields
<1>2. /\ a.refs = b.refs \cup {r} /\ a.parked = b.parked /\ a.book = b.book /\ a.locate = b.locate
      /\ a.seen = b.seen /\ a.applied = b.applied /\ a.fills = b.fills /\ a.position = b.position
      /\ a.ownAdds = b.ownAdds /\ a.inBook = b.inBook
  BY <1>1 DEF Fields
<1>3. Shaped(a)
  <2>1. a = [f \in Fields |-> a[f]]
    BY <1>1
  <2> QED BY <2>1 DEF Shaped, Fields
<1>4. Belief(own, a)
  <2>1. b.refs \cup {r} \subseteq own
    BY DEF Belief
  <2> HIDE DEF a
  <2> QED BY <1>2, <1>3, <2>1 DEF Belief
<1>5. p \in Parks /\ p = b.parked[r]
  <2>1. b.parked \in [own -> Parks]
    BY DEF Belief
  <2> QED BY <1>2, <2>1
<1>6. p.execs \in Seq(Execs)
  BY <1>5, ParkTermsType
<1>7. c = [v EXCEPT !.ownAdds = IF p.sawAdd THEN @ + 1 ELSE @, !.parked[r] = NotParked]
  BY DEF Bound, Retired
<1> HIDE DEF a, p
<1>8. FilledBy(own, a, v, SharesIn(p.execs), InBookIn(p.execs))
  BY <1>4, <1>6, FillsCounted
<1> HIDE DEF v, c
<1>9. DOMAIN v = Fields /\ v.ownAdds \in Nat /\ Belief(own, v)
  BY <1>8 DEF FilledBy, Belief, Shaped, Fields
<1>10. /\ c.refs = v.refs /\ c.parked = [v.parked EXCEPT ![r] = NotParked] /\ c.book = v.book /\ c.locate = v.locate
       /\ c.seen = v.seen /\ c.applied = v.applied /\ c.fills = v.fills /\ c.position = v.position
       /\ c.inBook = v.inBook /\ c.ownAdds = IF p.sawAdd THEN v.ownAdds + 1 ELSE v.ownAdds
  BY <1>7, <1>9 DEF Fields
<1>11. Shaped(c)
  <2>1. c = [f \in Fields |-> c[f]]
    BY <1>7, <1>9
  <2> QED BY <2>1 DEF Shaped, Fields
<1>12. Belief(own, c)
  <2>1. c.parked \in [own -> Parks]
    BY <1>9, <1>10, NothingParked DEF Belief
  <2>2. c.ownAdds \in Nat
    BY <1>9, <1>10
  <2> QED BY <1>9, <1>10, <1>11, <2>1, <2>2 DEF Belief
<1>13. /\ c.refs = b.refs \cup {r} /\ Reparks(b, c, r, NotParked)
       /\ c.book = b.book /\ c.locate = b.locate /\ c.seen = b.seen /\ c.applied = b.applied
  BY <1>2, <1>8, <1>10 DEF FilledBy, SameBook, Reparks
<1>14. c.fills = b.fills + SharesIn(b.parked[r].execs) /\ c.position = b.position + InBookIn(b.parked[r].execs)
  BY <1>2, <1>5, <1>8, <1>10 DEF FilledBy
<1> QED BY <1>12, <1>13, <1>14 DEF BoundTo, c

\* It leaves the belief sound.
LEMMA BoundSound ==
  ASSUME NEW own, IsFiniteSet(own), NEW mk, NEW clean, NEW b, NEW q, NEW k,
         Sound(own, mk, clean, b, q, k), NEW r \in own, r \in DOMAIN mk
  PROVE  Sound(own, mk, clean, Bound(b, r), q, k)
<1> DEFINE c == Bound(b, r)
<1>1. Belief(own, b) /\ BoundTo(own, b, c, r)
  BY BoundIs DEF Sound
<1> HIDE DEF c
<1>2. b.parked \in [own -> Parks] /\ b.parked[r] \in Parks /\ b.fills \in Nat /\ b.position \in Int
  BY <1>1 DEF Belief
<1>3. /\ ParkedShares(c) = ParkedShares(b) - SharesIn(b.parked[r].execs)
      /\ ParkedInBook(c) = ParkedInBook(b) - InBookIn(b.parked[r].execs)
      /\ ParkedShares(b) \in Nat /\ ParkedInBook(b) \in Int
      /\ SharesIn(b.parked[r].execs) \in Nat /\ InBookIn(b.parked[r].execs) \in Int
  <2>1. /\ ParkedShares(c) = ParkedShares(b) + SharesIn(NotParked.execs) - SharesIn(b.parked[r].execs)
        /\ ParkedInBook(c) = ParkedInBook(b) + InBookIn(NotParked.execs) - InBookIn(b.parked[r].execs)
        /\ ParkedShares(b) \in Nat /\ ParkedInBook(b) \in Int
    <3>1. Reparks(b, c, r, NotParked)
      BY <1>1 DEF BoundTo
    <3> QED BY <1>2, <3>1, NothingParked, Reparked DEF ParksFor, IsPark
  <2>2. SharesIn(b.parked[r].execs) \in Nat /\ InBookIn(b.parked[r].execs) \in Int
    BY <1>2, ParkTermsType
  <2> QED BY <2>1, <2>2, NothingParked
<1>4. Counted(c)
  <2>1. c.fills + ParkedShares(c) = SharesSeen(c.seen)
    <3>1. b.fills + ParkedShares(b) = SharesSeen(b.seen)
      BY DEF Sound, Counted
    <3>2. c.fills = b.fills + SharesIn(b.parked[r].execs) /\ c.seen = b.seen
      BY <1>1 DEF BoundTo
    <3> QED BY <1>2, <1>3, <3>1, <3>2
  <2>2. \A x \in c.refs : c.parked[x] = NotParked
    <3>1. \A x \in b.refs : b.parked[x] = NotParked /\ x \in own
      BY <1>1 DEF Sound, Counted, Belief
    <3>2. c.refs = b.refs \cup {r} /\ c.parked = [b.parked EXCEPT ![r] = NotParked]
      BY <1>1 DEF BoundTo, Reparks
    <3> QED BY <1>2, <3>1, <3>2
  <2> QED BY <2>1, <2>2 DEF Counted
<1>5. Placed(c)
  <2>1. b.position + ParkedInBook(b) = InBookSeen(b.seen)
    BY DEF Sound, Placed
  <2>2. c.position = b.position + InBookIn(b.parked[r].execs) /\ c.seen = b.seen
    BY <1>1 DEF BoundTo
  <2> QED BY <1>2, <1>3, <2>1, <2>2 DEF Placed
<1>6. c.seen = b.seen /\ c.book = b.book /\ c.locate = b.locate
  BY <1>1 DEF BoundTo
<1>7. Booked(own, c)
  BY <1>6 DEF Sound, Booked
<1>8. Covered(own, mk, c, q, k)
  BY <1>6 DEF Sound, Covered, Left
<1>9. AddedOnce(c, q, k) /\ Mirrored(c)
  BY <1>6 DEF Sound, AddedOnce, Mirrored, Shown
<1>10. Unknown(own, mk, c, q, k)
  <2>1. c.refs = b.refs \cup {r} /\ c.parked = [b.parked EXCEPT ![r] = NotParked]
    BY <1>1 DEF BoundTo, Reparks
  <2>2. Unknown(own, mk, b, q, k)
    BY DEF Sound
  <2> QED BY <1>2, <1>6, <2>1, <2>2 DEF Unknown
<1>11. clean => InOrder(own, mk, c, q, k)
  BY <1>6 DEF Sound, InOrder
<1> QED BY <1>1, <1>4, <1>5, <1>7, <1>8, <1>9, <1>10, <1>11 DEF Sound, BoundTo, c

-----------------------------------------------------------------------------
(* One message.                                                            *)

OwnOnes(own) == own \subseteq Nat /\ IsFiniteSet(own) /\ \A r \in own : IsStrategyRef(r)
IsText(own, msg) == msg \in Stream(own)
Kinds == {"R", "A", "E", "D", "end", "lost"}

\* What the fields of a message can be.
MessageOf(own, msg) ==
  /\ msg.type \in Kinds
  /\ msg.type = "A" =>
       /\ msg.locate \in Nat /\ msg.side \in {"buy", "sell"} /\ msg.price \in Int /\ msg.shares \in Nat
       /\ \/ msg.ref \in Historical /\ msg.ref \notin own /\ ~IsStrategyRef(msg.ref)
          \/ msg.ref \in own /\ IsStrategyRef(msg.ref) /\ msg.locate = OurLocate /\ msg.side = "buy"
  /\ msg.type \in {"E", "D"} =>
       /\ msg.shares \in Nat
       /\ \/ msg.ref \in Historical /\ msg.ref \notin own /\ ~IsStrategyRef(msg.ref)
          \/ msg.ref \in own /\ IsStrategyRef(msg.ref) /\ msg.type = "E" /\ msg.shares >= 1

LEMMA MessageFacts ==
  ASSUME NEW own, OwnOnes(own), NEW msg, IsText(own, msg)
  PROVE  MessageOf(own, msg)
<1>1. HistoricalRefs \in Nat /\ OurLocate \in Nat
  BY StrategyAssumption
<1>2. \A r \in Historical : r \notin own /\ ~IsStrategyRef(r)
  BY <1>1 DEF Historical, OwnOnes, IsStrategyRef
<1>3. CASE msg \in HistoricalMessages
  BY <1>2, <1>3 DEF HistoricalMessages, MessageOf, Kinds
<1>4. CASE msg \in OwnMessages(own)
  <2>1. \A r \in own : IsStrategyRef(r)
    BY DEF OwnOnes
  <2> QED BY <1>1, <1>4, <2>1 DEF OwnMessages, MessageOf, Kinds
<1>5. CASE msg \in [type : {"lost"}]
  BY <1>5 DEF MessageOf, Kinds
<1> QED BY <1>3, <1>4, <1>5 DEF IsText, Stream

OwnExec(msg) == msg.type = "E" /\ IsStrategyRef(msg.ref)
ExecOf(b, msg) ==
  [shares |-> msg.shares, found |-> Holds(b, msg.ref),
   side |-> IF Holds(b, msg.ref) THEN b.book[msg.ref].side ELSE "none"]

SharesOwn(msg) == IF OwnExec(msg) THEN msg.shares ELSE 0
BookOwn(b, msg) == IF OwnExec(msg) THEN InBook(ExecOf(b, msg)) ELSE 0

\* What the fill detector leaves of the belief.
Noted(own, b, d, msg) ==
  /\ Belief(own, d)
  /\ d.refs = b.refs /\ d.book = b.book /\ d.locate = b.locate /\ d.seen = b.seen /\ d.applied = b.applied
  /\ d.fills + ParkedShares(d) = b.fills + ParkedShares(b) + SharesOwn(msg)
  /\ d.position + ParkedInBook(d) = b.position + ParkedInBook(b) + BookOwn(b, msg)
  /\ \A r \in own : r \in b.refs \/ (~IsAdd(msg, r) /\ ~IsExec(msg, r)) => d.parked[r] = b.parked[r]

LEMMA ExecOfType ==
  ASSUME NEW own, OwnOnes(own), NEW b, Belief(own, b), NEW msg, IsText(own, msg), msg.type = "E"
  PROVE  ExecOf(b, msg) \in Execs
<1>1. msg.shares \in Nat
  BY MessageFacts DEF MessageOf
<1>2. Holds(b, msg.ref) \in BOOLEAN
  BY DEF Holds
<1>3. Holds(b, msg.ref) => b.book[msg.ref].side \in {"buy", "sell"}
  <2>1. b.book \in [DOMAIN b.book -> Entries]
    BY DEF Belief, IsBook
  <2> QED BY <2>1 DEF Holds, Entries
<1> QED BY <1>1, <1>2, <1>3 DEF ExecOf, Execs

\* A parked execution adds its terms.
LEMMA TermsAppend ==
  ASSUME NEW execs \in Seq(Execs), NEW e \in Execs
  PROVE  /\ SharesIn(Append(execs, e)) = SharesIn(execs) + e.shares
         /\ InBookIn(Append(execs, e)) = InBookIn(execs) + InBook(e)
         /\ Append(execs, e) \in Seq(Execs)
<1> DEFINE more == Append(execs, e)
           n == Len(execs)
           V == DOMAIN execs
           f == Terms(more)
           g == BookTerms(more)
           x == n + 1
<1>1. /\ more \in Seq(Execs) /\ n \in Nat /\ DOMAIN execs = 1..n /\ DOMAIN more = 1..x
      /\ more[x] = e /\ \A i \in 1..n : more[i] = execs[i]
  BY AppendProperties, LenProperties
<1>2. /\ V \union {x} = DOMAIN more /\ x \notin V /\ IsFiniteSet(V)
  BY <1>1, TermsType
<1>3. \A i \in V \union {x} : f[i] \in Int /\ g[i] \in Int
  <2> HIDE DEF more
  <2>1. \A i \in DOMAIN more : Terms(more)[i] \in Nat /\ BookTerms(more)[i] \in Int
    BY <1>1, TermsType
  <2> QED BY <1>2, <2>1
<1>4. /\ f[x] = e.shares /\ g[x] = InBook(e)
      /\ \A i \in V : f[i] = Terms(execs)[i] /\ g[i] = BookTerms(execs)[i]
  BY <1>1 DEF Terms, BookTerms
<1>5. /\ SharesIn(more) = SumFunctionOnSet(f, V \union {x})
      /\ InBookIn(more) = SumFunctionOnSet(g, V \union {x})
  BY <1>2, TermsSum
<1> HIDE DEF f, g, V, x, more
<1>6. /\ SumFunctionOnSet(f, V \union {x}) = f[x] + SumFunctionOnSet(f, V)
      /\ SumFunctionOnSet(g, V \union {x}) = g[x] + SumFunctionOnSet(g, V)
  BY <1>2, <1>3, SumAdd
<1>7. /\ SumFunctionOnSet(f, V) = SumFunctionOnSet(Terms(execs), V)
      /\ SumFunctionOnSet(g, V) = SumFunctionOnSet(BookTerms(execs), V)
  BY <1>2, <1>4, SumSame
<1>8. /\ SharesIn(execs) = SumFunctionOnSet(Terms(execs), V)
      /\ InBookIn(execs) = SumFunctionOnSet(BookTerms(execs), V)
  BY TermsSum DEF V
<1>9. SharesIn(execs) \in Int /\ InBookIn(execs) \in Int /\ e.shares \in Int /\ InBook(e) \in Int
  BY TermsType, InBookType
<1>10. SharesIn(more) = SharesIn(execs) + e.shares /\ InBookIn(more) = InBookIn(execs) + InBook(e)
  BY <1>4, <1>5, <1>6, <1>7, <1>8, <1>9
<1>11. more \in Seq(Execs)
  BY <1>1 DEF more
<1> QED BY <1>10, <1>11 DEF more

\* The detector counts an execution, or parks it, or notes an add.
LEMMA DetectedIs ==
  ASSUME NEW own, OwnOnes(own), NEW b, Belief(own, b), NEW msg, IsText(own, msg),
         \A r \in b.refs : b.parked[r] = NotParked
  PROVE  Noted(own, b, Detected(b, msg), msg)
<1> DEFINE d == Detected(b, msg)
           exec == ExecOf(b, msg)
           p == b.parked[msg.ref]
           r == msg.ref
<1>1. DOMAIN b = Fields /\ ParksFor(own, b) /\ b.fills \in Nat /\ b.position \in Int /\ IsFiniteSet(own)
  BY DEF Belief, Shaped, Fields, ParksFor, OwnOnes
<1>2. MessageOf(own, msg)
  BY MessageFacts
<1>3. /\ ParkedShares(b) \in Nat /\ ParkedInBook(b) \in Int
  <2>1. CASE own = {}
    <3>1. b.parked \in [own -> Parks] /\ DOMAIN b.parked = {}
      BY <1>1, <2>1 DEF ParksFor
    <3>2. ParkedShares(b) = 0 /\ ParkedInBook(b) = 0
      BY <3>1, SumEmpty DEF ParkedShares, ParkedInBook, SumFunction
    <3> QED BY <3>2
  <2>2. CASE own /= {}
    <3>1. PICK x \in own : TRUE
      BY <2>2
    <3>2. IsPark(b.parked[x]) /\ Reparks(b, b, x, b.parked[x])
      BY <1>1, <3>1 DEF ParksFor, IsPark, Reparks
    <3> QED BY <1>1, <3>2, Reparked
  <2> QED BY <2>1, <2>2
<1>4. CASE msg.type = "E" /\ r \in b.refs
  <2>1. r \in own /\ IsStrategyRef(r)
    BY <1>4 DEF Belief, OwnOnes
  <2>2. exec \in Execs /\ exec.shares = msg.shares
    <3>1. exec \in Execs
      BY <1>4, ExecOfType
    <3> QED BY <3>1 DEF ExecOf
  <2>3. d = FillCounted(b, exec)
    BY <1>4 DEF Detected, ExecOf
  <2> HIDE DEF exec, d
  <2>4. FilledBy(own, b, d, exec.shares, InBook(exec))
    BY <2>2, <2>3, FillCountedIs
  <2>5. ParkedShares(d) = ParkedShares(b) /\ ParkedInBook(d) = ParkedInBook(b)
    BY <2>4 DEF FilledBy, SameBook, ParkedShares, ParkedInBook
  <2>6. SharesOwn(msg) = exec.shares /\ BookOwn(b, msg) = InBook(exec)
    BY <1>4, <2>1, <2>2 DEF SharesOwn, BookOwn, OwnExec, exec
  <2>7. exec.shares \in Nat /\ InBook(exec) \in Int
    BY <2>2, InBookType
  <2>8. /\ d.fills + ParkedShares(d) = b.fills + ParkedShares(b) + SharesOwn(msg)
        /\ d.position + ParkedInBook(d) = b.position + ParkedInBook(b) + BookOwn(b, msg)
    BY <1>1, <1>3, <2>4, <2>5, <2>6, <2>7 DEF FilledBy
  <2> QED BY <2>4, <2>8 DEF Noted, FilledBy, SameBook, d
<1>5. CASE msg.type = "E" /\ r \notin b.refs /\ IsStrategyRef(r)
  <2>1. r \in own
    BY <1>2, <1>5 DEF MessageOf
  <2>2. exec \in Execs /\ exec.shares = msg.shares
    <3>1. exec \in Execs
      BY <1>5, ExecOfType
    <3> QED BY <3>1 DEF ExecOf
  <2> DEFINE more == [p EXCEPT !.execs = Append(@, exec)]
  <2>3. d = [b EXCEPT !.parked[r].execs = Append(@, exec)]
    BY <1>5 DEF Detected, ExecOf
  <2>4. p \in Parks /\ p.execs \in Seq(Execs) /\ b.parked \in [own -> Parks]
    BY <1>1, <2>1, ParkTermsType DEF ParksFor
  <2> HIDE DEF exec
  <2>5. Append(p.execs, exec) \in Seq(Execs)
    BY <2>2, <2>4, TermsAppend
  <2>6. more \in Parks /\ more.execs = Append(p.execs, exec)
    BY <2>4, <2>5 DEF Parks
  <2>7. d.parked = [b.parked EXCEPT ![r] = more]
    BY <1>1, <2>1, <2>3, <2>4 DEF Fields
  <2>8. /\ d.refs = b.refs /\ d.book = b.book /\ d.applied = b.applied /\ d.locate = b.locate /\ d.ownAdds = b.ownAdds
        /\ d.fills = b.fills /\ d.inBook = b.inBook /\ d.position = b.position /\ d.seen = b.seen
    BY <1>1, <2>3 DEF Fields
  <2>9. Shaped(d)
    <3>1. d = [f \in Fields |-> d[f]]
      BY <1>1, <2>3
    <3> QED BY <3>1 DEF Shaped, Fields
  <2> HIDE DEF d, more
  <2>10. Belief(own, d)
    <3>1. d.parked \in [own -> Parks]
      BY <2>1, <2>4, <2>6, <2>7
    <3> QED BY <2>8, <2>9, <3>1 DEF Belief
  <2>11. /\ ParkedShares(d) = ParkedShares(b) + SharesIn(more.execs) - SharesIn(p.execs)
         /\ ParkedInBook(d) = ParkedInBook(b) + InBookIn(more.execs) - InBookIn(p.execs)
    <3>1. IsPark(more) /\ Reparks(b, d, r, more)
      BY <2>6, <2>7 DEF IsPark, Reparks
    <3> HIDE DEF p, r
    <3>2. /\ ParkedShares(d) = ParkedShares(b) + SharesIn(more.execs) - SharesIn(b.parked[r].execs)
          /\ ParkedInBook(d) = ParkedInBook(b) + InBookIn(more.execs) - InBookIn(b.parked[r].execs)
      BY <1>1, <2>1, <3>1, Reparked
    <3> QED BY <3>2 DEF p, r
  <2>12. /\ SharesIn(more.execs) = SharesIn(p.execs) + exec.shares
         /\ InBookIn(more.execs) = InBookIn(p.execs) + InBook(exec)
    BY <2>2, <2>4, <2>6, TermsAppend
  <2>13. /\ SharesIn(p.execs) \in Int /\ InBookIn(p.execs) \in Int
         /\ exec.shares \in Nat /\ InBook(exec) \in Int
    BY <2>2, <2>4, TermsType, InBookType
  <2>14. SharesOwn(msg) = exec.shares /\ BookOwn(b, msg) = InBook(exec)
    BY <1>5, <2>2 DEF SharesOwn, BookOwn, OwnExec, exec
  <2>15. /\ d.fills + ParkedShares(d) = b.fills + ParkedShares(b) + SharesOwn(msg)
         /\ d.position + ParkedInBook(d) = b.position + ParkedInBook(b) + BookOwn(b, msg)
    <3> HIDE DEF p
    <3>1. ParkedShares(d) = ParkedShares(b) + exec.shares /\ ParkedInBook(d) = ParkedInBook(b) + InBook(exec)
      BY <1>3, <2>11, <2>12, <2>13
    <3> QED BY <1>1, <1>3, <2>8, <2>13, <2>14, <3>1
  <2>16. \A x \in own : x \in b.refs \/ (~IsAdd(msg, x) /\ ~IsExec(msg, x)) => d.parked[x] = b.parked[x]
    BY <1>5, <2>4, <2>7 DEF IsExec
  <2> QED BY <2>8, <2>10, <2>15, <2>16 DEF Noted, d
<1>6. CASE msg.type = "A" /\ r \in b.refs
  <2>1. d = [b EXCEPT !.ownAdds = @ + 1]
    BY <1>6 DEF Detected
  <2>2. Shaped(d)
    <3>1. d = [f \in Fields |-> d[f]]
      BY <1>1, <2>1
    <3> QED BY <3>1 DEF Shaped, Fields
  <2>3. /\ d.refs = b.refs /\ d.book = b.book /\ d.applied = b.applied /\ d.locate = b.locate /\ d.ownAdds = b.ownAdds + 1
        /\ d.fills = b.fills /\ d.inBook = b.inBook /\ d.position = b.position /\ d.seen = b.seen /\ d.parked = b.parked
    BY <1>1, <2>1 DEF Fields
  <2> HIDE DEF d
  <2>4. Belief(own, d)
    BY <2>2, <2>3 DEF Belief
  <2>5. ParkedShares(d) = ParkedShares(b) /\ ParkedInBook(d) = ParkedInBook(b)
    BY <2>3 DEF ParkedShares, ParkedInBook
  <2>6. SharesOwn(msg) = 0 /\ BookOwn(b, msg) = 0
    BY <1>6 DEF SharesOwn, BookOwn, OwnExec
  <2> QED BY <1>1, <1>3, <2>3, <2>4, <2>5, <2>6 DEF Noted, d
<1>7. CASE msg.type = "A" /\ r \notin b.refs /\ IsStrategyRef(r)
  <2>1. r \in own
    BY <1>2, <1>7 DEF MessageOf
  <2> DEFINE more == [p EXCEPT !.sawAdd = TRUE]
  <2>3. d = [b EXCEPT !.parked[r].sawAdd = TRUE]
    BY <1>7 DEF Detected
  <2>4. p \in Parks /\ p.execs \in Seq(Execs) /\ b.parked \in [own -> Parks]
    BY <1>1, <2>1, ParkTermsType DEF ParksFor
  <2>6. more \in Parks /\ more.execs = p.execs
    BY <2>4 DEF Parks
  <2>7. d.parked = [b.parked EXCEPT ![r] = more]
    BY <1>1, <2>1, <2>3, <2>4 DEF Fields
  <2>8. /\ d.refs = b.refs /\ d.book = b.book /\ d.applied = b.applied /\ d.locate = b.locate /\ d.ownAdds = b.ownAdds
        /\ d.fills = b.fills /\ d.inBook = b.inBook /\ d.position = b.position /\ d.seen = b.seen
    BY <1>1, <2>3 DEF Fields
  <2>9. Shaped(d)
    <3>1. d = [f \in Fields |-> d[f]]
      BY <1>1, <2>3
    <3> QED BY <3>1 DEF Shaped, Fields
  <2> HIDE DEF d, more
  <2>10. Belief(own, d)
    <3>1. d.parked \in [own -> Parks]
      BY <2>1, <2>4, <2>6, <2>7
    <3> QED BY <2>8, <2>9, <3>1 DEF Belief
  <2>11. /\ ParkedShares(d) = ParkedShares(b) + SharesIn(more.execs) - SharesIn(p.execs)
         /\ ParkedInBook(d) = ParkedInBook(b) + InBookIn(more.execs) - InBookIn(p.execs)
    <3>1. IsPark(more) /\ Reparks(b, d, r, more)
      BY <2>6, <2>7 DEF IsPark, Reparks
    <3> HIDE DEF p, r
    <3>2. /\ ParkedShares(d) = ParkedShares(b) + SharesIn(more.execs) - SharesIn(b.parked[r].execs)
          /\ ParkedInBook(d) = ParkedInBook(b) + InBookIn(more.execs) - InBookIn(b.parked[r].execs)
      BY <1>1, <2>1, <3>1, Reparked
    <3> QED BY <3>2 DEF p, r
  <2>13. /\ SharesIn(p.execs) \in Int /\ InBookIn(p.execs) \in Int
    BY <2>4, TermsType
  <2>14. SharesOwn(msg) = 0 /\ BookOwn(b, msg) = 0
    BY <1>7 DEF SharesOwn, BookOwn, OwnExec
  <2>15. /\ d.fills + ParkedShares(d) = b.fills + ParkedShares(b) + SharesOwn(msg)
         /\ d.position + ParkedInBook(d) = b.position + ParkedInBook(b) + BookOwn(b, msg)
    <3> HIDE DEF p
    <3>1. ParkedShares(d) = ParkedShares(b) /\ ParkedInBook(d) = ParkedInBook(b)
      BY <1>3, <2>6, <2>11, <2>13
    <3> QED BY <1>1, <1>3, <2>8, <2>14, <3>1
  <2>16. \A x \in own : x \in b.refs \/ (~IsAdd(msg, x) /\ ~IsExec(msg, x)) => d.parked[x] = b.parked[x]
    BY <1>7, <2>4, <2>7 DEF IsAdd
  <2> QED BY <2>8, <2>10, <2>15, <2>16 DEF Noted, d
<1>8. CASE ~(msg.type \in {"E", "A"} /\ (r \in b.refs \/ IsStrategyRef(r)))
  <2>1. d = b
    BY <1>8 DEF Detected
  <2>2. SharesOwn(msg) = 0 /\ BookOwn(b, msg) = 0
    BY <1>8 DEF SharesOwn, BookOwn, OwnExec
  <2> HIDE DEF d
  <2> QED BY <1>1, <1>3, <2>1, <2>2 DEF Noted, d
<1> QED BY <1>4, <1>5, <1>6, <1>7, <1>8

LocateAfter(b, msg) ==
  IF b.locate = 0 /\ msg.type \in {"R", "A"} /\ msg.locate = OurLocate THEN OurLocate ELSE b.locate

\* What apply() makes of the book.
BookAdded(book, msg, after) ==
  /\ DOMAIN after = DOMAIN book \cup {msg.ref} /\ after[msg.ref] = EntryOf(msg)
  /\ \A r \in DOMAIN book \ {msg.ref} : after[r] = book[r]
BookCut(book, msg, after) ==
  /\ DOMAIN after = DOMAIN book
  /\ \A r \in DOMAIN book \ {msg.ref} : after[r] = book[r]
  /\ after[msg.ref].shares = book[msg.ref].shares - msg.shares
  /\ after[msg.ref].locate = book[msg.ref].locate /\ after[msg.ref].side = book[msg.ref].side
  /\ after[msg.ref].price = book[msg.ref].price
BookWithout(book, msg, after) ==
  /\ DOMAIN after = DOMAIN book \ {msg.ref} /\ \A r \in DOMAIN after : after[r] = book[r]

Rebooked(book, msg, after) ==
  /\ msg.type = "A" => BookAdded(book, msg, after)
  /\ Cuts(book, msg) => BookCut(book, msg, after)
  /\ msg.type \in {"E", "D"} /\ msg.ref \in DOMAIN book /\ ~Cuts(book, msg) => BookWithout(book, msg, after)
  /\ msg.type = "R" \/ (msg.type \in {"E", "D"} /\ msg.ref \notin DOMAIN book) => after = book

AppliedTo(own, d, c, msg) ==
  /\ Belief(own, c)
  /\ c.refs = d.refs /\ c.parked = d.parked /\ c.locate = d.locate /\ c.seen = d.seen
  /\ c.fills = d.fills /\ c.position = d.position /\ Rebooked(d.book, msg, c.book)

LEMMA AppliedIs ==
  ASSUME NEW own, OwnOnes(own), NEW d, Belief(own, d), NEW msg, IsText(own, msg), IsMessage(msg)
  PROVE  AppliedTo(own, d, Applied(d, msg), msg)
<1> DEFINE c == Applied(d, msg)
           book == d.book
           r == msg.ref
           after == c.book
<1>1. DOMAIN d = Fields /\ IsBook(own, book) /\ MessageOf(own, msg)
  BY MessageFacts DEF Belief, Shaped, Fields
<1>2. CASE msg.type = "R"
  <2>1. c = d
    BY <1>2 DEF Applied
  <2>2. Rebooked(book, msg, book)
    BY <1>2 DEF Rebooked, Cuts
  <2> HIDE DEF c
  <2> QED BY <2>1, <2>2 DEF AppliedTo, c
<1>3. CASE msg.type /= "R"
  <2> DEFINE new == BookApplied(book, msg)
  <2>1. msg.type \in {"A", "E", "D"}
    BY <1>1, <1>3 DEF MessageOf, Kinds, IsMessage
  <2>2. c = [d EXCEPT !.applied = @ + 1, !.book = new]
    BY <1>3 DEF Applied
  <2>3. book \in [DOMAIN book -> Entries] /\ DOMAIN book \subseteq Historical \cup own
    BY <1>1 DEF IsBook
  <2>4. Rebooked(book, msg, new) /\ IsBook(own, new)
    <3> HIDE DEF book, r
    <3>1. CASE msg.type = "A"
      <4>1. new = [x \in DOMAIN book \cup {r} |-> IF x = r THEN EntryOf(msg) ELSE book[x]]
        BY <3>1 DEF BookApplied, With, Cuts, r
      <4>2. EntryOf(msg) \in Entries /\ r \in Historical \cup own
        BY <1>1, <3>1 DEF MessageOf, Entries, EntryOf, r
      <4> HIDE DEF new
      <4>3. BookAdded(book, msg, new)
        BY <4>1 DEF BookAdded, r
      <4>4. new \in [DOMAIN new -> Entries] /\ DOMAIN new \subseteq Historical \cup own
        BY <2>3, <4>1, <4>2
      <4> QED BY <3>1, <4>3, <4>4 DEF Rebooked, Cuts, IsBook
    <3>2. CASE msg.type \in {"E", "D"} /\ r \notin DOMAIN book
      <4>1. new = [x \in DOMAIN book \ {r} |-> book[x]]
        BY <3>2 DEF BookApplied, Cuts, r
      <4>2. new = book
        BY <2>3, <3>2, <4>1
      <4> HIDE DEF new
      <4> QED BY <1>1, <2>1, <3>2, <4>2 DEF Rebooked, Cuts, IsBook, r
    <3>3. CASE Cuts(book, msg)
      <4>1. new = [book EXCEPT ![r].shares = @ - msg.shares]
        BY <3>3 DEF BookApplied, Cuts, r
      <4>2. book[r] \in Entries /\ msg.shares \in Nat /\ r \in DOMAIN book /\ book[r].shares > msg.shares
        BY <1>1, <2>3, <3>3 DEF MessageOf, Cuts, r
      <4> HIDE DEF new
      <4>3. /\ DOMAIN new = DOMAIN book /\ \A x \in DOMAIN book \ {r} : new[x] = book[x]
            /\ new[r] = [book[r] EXCEPT !.shares = @ - msg.shares]
        BY <2>3, <4>2, <4>1
      <4>4. /\ new[r] \in Entries /\ new[r].shares = book[r].shares - msg.shares /\ new[r].locate = book[r].locate
            /\ new[r].side = book[r].side /\ new[r].price = book[r].price
        BY <4>2, <4>3 DEF Entries
      <4>5. new \in [DOMAIN new -> Entries]
        <5>1. \A x \in DOMAIN book : new[x] \in Entries
          BY <2>3, <4>3, <4>4
        <5>2. new = [x \in DOMAIN book |-> new[x]]
          BY <2>3, <4>1
        <5> QED BY <4>3, <5>1, <5>2
      <4>6. BookCut(book, msg, new)
        BY <4>3, <4>4 DEF BookCut, r
      <4> QED BY <2>3, <3>3, <4>3, <4>5, <4>6 DEF Rebooked, Cuts, IsBook, r
    <3>4. CASE msg.type \in {"E", "D"} /\ r \in DOMAIN book /\ ~Cuts(book, msg)
      <4>1. new = [x \in DOMAIN book \ {r} |-> book[x]]
        BY <3>4 DEF BookApplied, r
      <4> HIDE DEF new
      <4>2. BookWithout(book, msg, new)
        BY <4>1 DEF BookWithout, r
      <4>3. new \in [DOMAIN new -> Entries] /\ DOMAIN new \subseteq Historical \cup own
        BY <2>3, <4>1
      <4> QED BY <2>1, <3>4, <4>2, <4>3 DEF Rebooked, IsBook, r
    <3> QED BY <2>1, <3>1, <3>2, <3>3, <3>4
  <2> HIDE DEF new
  <2>5. /\ c.refs = d.refs /\ c.parked = d.parked /\ c.book = new /\ c.applied = d.applied + 1 /\ c.locate = d.locate
        /\ c.ownAdds = d.ownAdds /\ c.fills = d.fills /\ c.inBook = d.inBook /\ c.position = d.position /\ c.seen = d.seen
    BY <1>1, <2>2 DEF Fields
  <2>6. Shaped(c)
    <3>1. c = [f \in Fields |-> c[f]]
      BY <1>1, <2>2
    <3> QED BY <3>1 DEF Shaped, Fields
  <2> HIDE DEF c, after
  <2>7. Belief(own, c)
    BY <2>4, <2>5, <2>6 DEF Belief
  <2> QED BY <2>4, <2>5, <2>7 DEF AppliedTo, c
<1> QED BY <1>2, <1>3

\* The whole of on_message().
HeardAs(own, b, c, msg) ==
  /\ Belief(own, c) /\ c.seen = Append(b.seen, msg) /\ c.refs = b.refs
  /\ c.locate = LocateAfter(b, msg) /\ Rebooked(b.book, msg, c.book)
  /\ c.fills + ParkedShares(c) = b.fills + ParkedShares(b) + SharesOwn(msg)
  /\ c.position + ParkedInBook(c) = b.position + ParkedInBook(b) + BookOwn(b, msg)
  /\ \A r \in own : r \in b.refs \/ (~IsAdd(msg, r) /\ ~IsExec(msg, r)) => c.parked[r] = b.parked[r]

LEMMA OnMessageIs ==
  ASSUME NEW own, OwnOnes(own), NEW b, Belief(own, b), NEW msg, IsText(own, msg), IsMessage(msg),
         \A r \in b.refs : b.parked[r] = NotParked
  PROVE  HeardAs(own, b, OnMessage(b, msg), msg)
<1> DEFINE told == [b EXCEPT !.seen = Append(@, msg)]
           a == Located(told, msg)
           d == Detected(a, msg)
           c == Applied(d, msg)
<1>1. DOMAIN b = Fields /\ OnMessage(b, msg) = c
  BY DEF Belief, Shaped, Fields, OnMessage
<1>2. /\ a.refs = b.refs /\ a.parked = b.parked /\ a.book = b.book /\ a.applied = b.applied
      /\ a.ownAdds = b.ownAdds /\ a.fills = b.fills /\ a.inBook = b.inBook /\ a.position = b.position
      /\ a.seen = Append(b.seen, msg) /\ a.locate = LocateAfter(b, msg)
  <2>1. /\ told.refs = b.refs /\ told.parked = b.parked /\ told.book = b.book /\ told.applied = b.applied
        /\ told.ownAdds = b.ownAdds /\ told.fills = b.fills /\ told.inBook = b.inBook
        /\ told.position = b.position /\ told.seen = Append(b.seen, msg) /\ told.locate = b.locate
        /\ DOMAIN told = Fields
    BY <1>1 DEF Fields
  <2> HIDE DEF told
  <2> QED BY <2>1 DEF Located, LocateAfter, Fields
<1>3. Shaped(a)
  <2>1. a = [f \in Fields |-> a[f]]
    BY <1>1 DEF Located
  <2> QED BY <2>1 DEF Shaped, Fields
<1> HIDE DEF a
<1>4. Belief(own, a)
  <2>1. Append(b.seen, msg) \in Seq(Stream(own))
    <3>1. b.seen \in Seq(Stream(own)) /\ msg \in Stream(own)
      BY DEF Belief, IsText
    <3> QED BY <3>1, AppendProperties
  <2>2. LocateAfter(b, msg) \in {0, OurLocate}
    BY DEF LocateAfter, Belief
  <2> QED BY <1>2, <1>3, <2>1, <2>2 DEF Belief
<1>5. Noted(own, a, d, msg)
  BY <1>2, <1>4, DetectedIs
<1> HIDE DEF d
<1>6. AppliedTo(own, d, c, msg)
  BY <1>5, AppliedIs DEF Noted
<1> HIDE DEF c
<1>7. /\ ParkedShares(a) = ParkedShares(b) /\ ParkedInBook(a) = ParkedInBook(b)
      /\ ParkedShares(c) = ParkedShares(d) /\ ParkedInBook(c) = ParkedInBook(d)
  BY <1>2, <1>6 DEF ParkedShares, ParkedInBook, AppliedTo
<1>8. BookOwn(a, msg) = BookOwn(b, msg)
  <2>1. CASE OwnExec(msg)
    <3>1. LocateAfter(b, msg) = b.locate
      BY <2>1 DEF OwnExec, LocateAfter
    <3>2. ExecOf(a, msg) = ExecOf(b, msg)
      BY <1>2, <3>1 DEF ExecOf, Holds
    <3> QED BY <3>2 DEF BookOwn
  <2>2. CASE ~OwnExec(msg)
    BY <2>2 DEF BookOwn
  <2> QED BY <2>1, <2>2
<1>9. HeardAs(own, b, c, msg)
  <2>1. Belief(own, c) /\ c.seen = Append(b.seen, msg) /\ c.refs = b.refs
    BY <1>2, <1>5, <1>6 DEF Noted, AppliedTo
  <2>2. c.locate = LocateAfter(b, msg) /\ Rebooked(b.book, msg, c.book)
    BY <1>2, <1>5, <1>6 DEF Noted, AppliedTo
  <2>3. c.fills + ParkedShares(c) = b.fills + ParkedShares(b) + SharesOwn(msg)
    BY <1>2, <1>5, <1>6, <1>7 DEF Noted, AppliedTo
  <2>4. c.position + ParkedInBook(c) = b.position + ParkedInBook(b) + BookOwn(b, msg)
    BY <1>2, <1>5, <1>6, <1>7, <1>8 DEF Noted, AppliedTo
  <2>5. \A r \in own : r \in b.refs \/ (~IsAdd(msg, r) /\ ~IsExec(msg, r)) => c.parked[r] = b.parked[r]
    BY <1>2, <1>5, <1>6 DEF Noted, AppliedTo
  <2> QED BY <2>1, <2>2, <2>3, <2>4, <2>5 DEF HeardAs
<1> QED BY <1>1, <1>9

-----------------------------------------------------------------------------
(* What one message more changes of what has been seen and is to come.     *)

IsSeen(own, seen) == seen \in Seq(Stream(own))
Grows(seen, more, msg, n) ==
  /\ n \in Nat /\ DOMAIN seen = 1..n /\ DOMAIN more = 1..(n + 1) /\ more[n + 1] = msg
  /\ Len(seen) = n /\ Len(more) = n + 1
  /\ \A i \in 1..n : more[i] = seen[i]

LEMMA SeenGrows ==
  ASSUME NEW own, NEW seen, IsSeen(own, seen), NEW msg, IsText(own, msg)
  PROVE  IsSeen(own, Append(seen, msg)) /\ Grows(seen, Append(seen, msg), msg, Len(seen))
<1>1. seen \in Seq(Stream(own)) /\ msg \in Stream(own)
  BY DEF IsSeen, IsText
<1> QED BY <1>1, AppendProperties, LenProperties DEF IsSeen, Grows

LEMMA SeenText ==
  ASSUME NEW own, OwnOnes(own), NEW seen, IsSeen(own, seen), NEW i \in DOMAIN seen
  PROVE  IsText(own, seen[i]) /\ MessageOf(own, seen[i])
<1>1. seen[i] \in Stream(own)
  BY ElementOfSeq, LenProperties DEF IsSeen
<1> QED BY <1>1, MessageFacts DEF IsText

LEMMA ToldGrows ==
  ASSUME NEW seen, NEW more, NEW msg, NEW n, Grows(seen, more, msg, n), NEW r
  PROVE  Told(more, r) <=> Told(seen, r) \/ IsAdd(msg, r)
<1>1. ASSUME Told(more, r) PROVE Told(seen, r) \/ IsAdd(msg, r)
  BY <1>1 DEF Told, Grows
<1>2. ASSUME Told(seen, r) PROVE Told(more, r)
  <2>1. PICK i \in DOMAIN seen : IsAdd(seen[i], r)
    BY <1>2 DEF Told
  <2>2. i \in DOMAIN more /\ more[i] = seen[i]
    BY <2>1 DEF Grows
  <2> QED BY <2>1, <2>2 DEF Told
<1>3. ASSUME IsAdd(msg, r) PROVE Told(more, r)
  <2>1. n + 1 \in DOMAIN more /\ more[n + 1] = msg
    BY DEF Grows
  <2> QED BY <1>3, <2>1 DEF Told
<1> QED BY <1>1, <1>2, <1>3

\* Whether an add was seen before is a matter of what was seen before.
LEMMA AddedIsTold ==
  ASSUME NEW seen, NEW more, NEW msg, NEW n, Grows(seen, more, msg, n)
  PROVE  /\ \A i \in 1..n : Added(more, i) <=> Added(seen, i)
         /\ Added(more, n + 1) <=> Told(seen, msg.ref)
<1>1. ASSUME NEW i \in 1..n PROVE Added(more, i) <=> Added(seen, i)
  <2>1. \A j \in 1..(i - 1) : j \in 1..n
    BY DEF Grows
  <2>2. /\ \A j \in 1..(i - 1) : more[j] = seen[j]
        /\ more[i] = seen[i]
    BY <2>1 DEF Grows
  <2> QED BY <2>2 DEF Added
<1>2. Added(more, n + 1) <=> Told(seen, msg.ref)
  <2>1. (n + 1) - 1 = n
    BY DEF Grows
  <2> QED BY <2>1 DEF Added, Told, Grows, IsAdd
<1> QED BY <1>1, <1>2

SeenTerms(seen) == [i \in OwnExecs(seen) |-> seen[i].shares]
InBookTerms(seen) == [i \in OwnExecs(seen) |-> IF Added(seen, i) THEN seen[i].shares ELSE 0]

LEMMA SeenSums ==
  \A seen : /\ SharesSeen(seen) = SumFunctionOnSet(SeenTerms(seen), OwnExecs(seen))
            /\ InBookSeen(seen) = SumFunctionOnSet(InBookTerms(seen), OwnExecs(seen))
BY DEF SharesSeen, InBookSeen, SeenTerms, InBookTerms, SumFunction

LEMMA SeenTermsType ==
  ASSUME NEW own, OwnOnes(own), NEW seen, IsSeen(own, seen)
  PROVE  /\ IsFiniteSet(OwnExecs(seen))
         /\ \A i \in OwnExecs(seen) : SeenTerms(seen)[i] \in Int /\ InBookTerms(seen)[i] \in Int
         /\ SharesSeen(seen) \in Int /\ InBookSeen(seen) \in Int
<1> DEFINE W == OwnExecs(seen)
           f == SeenTerms(seen)
           g == InBookTerms(seen)
<1>1. IsFiniteSet(W)
  <2>1. W \subseteq DOMAIN seen /\ DOMAIN seen = 1..Len(seen) /\ Len(seen) \in Nat
    BY LenProperties DEF OwnExecs, IsSeen
  <2>2. IsFiniteSet(1..Len(seen))
    BY <2>1, FS_Interval
  <2> QED BY <2>1, <2>2, FS_Subset
<1>2. \A i \in W : seen[i].shares \in Nat
  BY SeenText DEF OwnExecs, MessageOf
<1>3. \A i \in W : f[i] \in Int /\ g[i] \in Int
  BY <1>2 DEF SeenTerms, InBookTerms
<1> HIDE DEF W, f, g
<1>4. SumFunctionOnSet(f, W) \in Int /\ SumFunctionOnSet(g, W) \in Int
  BY <1>1, <1>3, SumType
<1> QED BY <1>1, <1>3, <1>4, SeenSums DEF W, f, g

InBookOwn(seen, msg) == IF OwnExec(msg) /\ Told(seen, msg.ref) THEN msg.shares ELSE 0

LEMMA SeenSumsGrow ==
  ASSUME NEW own, OwnOnes(own), NEW seen, IsSeen(own, seen), NEW msg, IsText(own, msg),
         NEW more, more = Append(seen, msg)
  PROVE  /\ SharesSeen(more) = SharesSeen(seen) + SharesOwn(msg)
         /\ InBookSeen(more) = InBookSeen(seen) + InBookOwn(seen, msg)
<1> DEFINE n == Len(seen)
           W == OwnExecs(seen)
           f == SeenTerms(more)
           g == InBookTerms(more)
           x == n + 1
<1>1. Grows(seen, more, msg, n) /\ IsSeen(own, more)
  BY SeenGrows
<1> HIDE DEF n
<1>2. x \notin W /\ \A i \in W : i \in 1..n
  BY <1>1 DEF Grows, OwnExecs
<1>3. OwnExecs(more) = IF OwnExec(msg) THEN W \union {x} ELSE W
  <2>1. \A i \in 1..n : i \in OwnExecs(more) <=> i \in W
    BY <1>1 DEF Grows, OwnExecs
  <2>2. x \in OwnExecs(more) <=> OwnExec(msg)
    BY <1>1 DEF Grows, OwnExecs, OwnExec
  <2>3. \A i \in OwnExecs(more) : i \in 1..n \/ i = x
    BY <1>1 DEF Grows, OwnExecs
  <2> DEFINE M == OwnExecs(more)
  <2> HIDE DEF W, x, M
  <2>4. \A i : i \in M => i \in W \/ (i = x /\ OwnExec(msg))
    BY <2>1, <2>2, <2>3 DEF M
  <2>5. \A i : i \in W => i \in M
    BY <1>2, <2>1 DEF M
  <2>6. CASE OwnExec(msg)
    <3>1. x \in M
      BY <2>2, <2>6 DEF M
    <3>2. M = W \union {x}
      BY <2>4, <2>5, <3>1
    <3> QED BY <2>6, <3>2 DEF M
  <2>7. CASE ~OwnExec(msg)
    <3>1. M = W
      BY <2>4, <2>5, <2>7
    <3> QED BY <2>7, <3>1 DEF M
  <2> QED BY <2>6, <2>7
<1>4. /\ IsFiniteSet(W) /\ SharesSeen(seen) \in Int /\ InBookSeen(seen) \in Int
      /\ \A i \in OwnExecs(more) : f[i] \in Int /\ g[i] \in Int
  <2> HIDE DEF W, f, g
  <2> QED BY <1>1, SeenTermsType DEF W, f, g
<1>5. \A i \in W : i \in OwnExecs(more)
  BY <1>3
<1>6. \A i \in W : f[i] = SeenTerms(seen)[i] /\ g[i] = InBookTerms(seen)[i]
  <2>1. \A i \in W : more[i] = seen[i] /\ (Added(more, i) <=> Added(seen, i))
    BY <1>1, <1>2, AddedIsTold DEF Grows
  <2> QED BY <1>5, <2>1 DEF SeenTerms, InBookTerms
<1>7. OwnExec(msg) => f[x] = msg.shares /\ g[x] = InBookOwn(seen, msg)
  <2>1. more[x] = msg /\ (Added(more, x) <=> Told(seen, msg.ref))
    BY <1>1, AddedIsTold DEF Grows
  <2>2. OwnExec(msg) => x \in OwnExecs(more)
    BY <1>3
  <2> QED BY <2>1, <2>2 DEF SeenTerms, InBookTerms, InBookOwn
<1>8. /\ SharesSeen(more) = SumFunctionOnSet(f, OwnExecs(more))
      /\ InBookSeen(more) = SumFunctionOnSet(g, OwnExecs(more))
      /\ SharesSeen(seen) = SumFunctionOnSet(SeenTerms(seen), W)
      /\ InBookSeen(seen) = SumFunctionOnSet(InBookTerms(seen), W)
  BY SeenSums
<1> HIDE DEF W, f, g, x
<1>9. /\ SumFunctionOnSet(f, W) = SharesSeen(seen)
      /\ SumFunctionOnSet(g, W) = InBookSeen(seen)
  BY <1>4, <1>6, <1>8, SumSame
<1>10. CASE OwnExec(msg)
  <2>1. \A i \in W \union {x} : f[i] \in Int /\ g[i] \in Int
    BY <1>3, <1>4, <1>10
  <2>2. /\ SumFunctionOnSet(f, W \union {x}) = f[x] + SumFunctionOnSet(f, W)
        /\ SumFunctionOnSet(g, W \union {x}) = g[x] + SumFunctionOnSet(g, W)
    BY <1>2, <1>4, <2>1, SumAdd
  <2>3. f[x] \in Int /\ g[x] \in Int
    BY <2>1
  <2>4. OwnExecs(more) = W \union {x} /\ f[x] = SharesOwn(msg) /\ g[x] = InBookOwn(seen, msg)
    BY <1>3, <1>7, <1>10 DEF SharesOwn
  <2> QED BY <1>4, <1>8, <1>9, <2>2, <2>3, <2>4
<1>11. CASE ~OwnExec(msg)
  <2>1. OwnExecs(more) = W /\ SharesOwn(msg) = 0 /\ InBookOwn(seen, msg) = 0
    BY <1>3, <1>11 DEF SharesOwn, InBookOwn
  <2> QED BY <1>4, <1>8, <1>9, <2>1
<1> QED BY <1>10, <1>11

\* What is to come of an order becomes less by what comes.
ExecShares(msg, r) == IF IsExec(msg, r) THEN msg.shares ELSE 0
ComingTerms(q, r) == [i \in DOMAIN q |-> ExecShares(q[i], r)]

LEMMA ToComeIs ==
  \A q, k, r : ToCome(q, k, r) = SumFunctionOnSet(ComingTerms(q, r), Rest(q, k))
BY DEF ToCome, ComingTerms, ExecShares

LEMMA ComingType ==
  ASSUME NEW own, OwnOnes(own), NEW q, IsSeen(own, q), NEW k \in Nat, NEW r
  PROVE  /\ IsFiniteSet(Rest(q, k)) /\ Rest(q, k) \subseteq DOMAIN q
         /\ \A i \in DOMAIN q : ComingTerms(q, r)[i] \in Nat
         /\ ToCome(q, k, r) \in Nat
<1> DEFINE f == ComingTerms(q, r)
           U == Rest(q, k)
<1>1. Len(q) \in Nat /\ DOMAIN q = 1..Len(q)
  BY LenProperties DEF IsSeen
<1>2. IsFiniteSet(U) /\ U \subseteq DOMAIN q
  <2>1. IsFiniteSet(DOMAIN q)
    BY <1>1, FS_Interval
  <2>2. U \subseteq DOMAIN q
    BY <1>1 DEF Rest
  <2> QED BY <2>1, <2>2, FS_Subset
<1>3. ASSUME NEW i \in DOMAIN q PROVE f[i] \in Nat
  <2>1. MessageOf(own, q[i])
    BY SeenText
  <2> QED BY <2>1 DEF ComingTerms, ExecShares, IsExec, MessageOf
<1> HIDE DEF f, U
<1>4. SumFunctionOnSet(f, U) \in Nat
  BY <1>2, <1>3, SumType
<1> QED BY <1>2, <1>3, <1>4, ToComeIs DEF f, U

LEMMA ToComeStep ==
  ASSUME NEW own, OwnOnes(own), NEW q, IsSeen(own, q), NEW k \in 0..(Len(q) - 1), NEW r
  PROVE  /\ ToCome(q, k, r) = ToCome(q, k + 1, r) + ExecShares(q[k + 1], r)
         /\ ToCome(q, k, r) \in Nat /\ ToCome(q, k + 1, r) \in Nat /\ ExecShares(q[k + 1], r) \in Nat
<1> DEFINE f == ComingTerms(q, r)
           U == Rest(q, k)
           V == Rest(q, k + 1)
           x == k + 1
<1>1. Len(q) \in Nat /\ DOMAIN q = 1..Len(q)
  BY LenProperties DEF IsSeen
<1>2. k \in Nat /\ k + 1 \in Nat /\ x \in DOMAIN q
  BY <1>1
<1>3. U = V \union {x} /\ x \notin V
  BY <1>1 DEF Rest
<1>4. /\ IsFiniteSet(V) /\ \A i \in DOMAIN q : f[i] \in Nat
      /\ U \subseteq DOMAIN q /\ ToCome(q, k, r) \in Nat /\ ToCome(q, k + 1, r) \in Nat
  BY <1>2, ComingType
<1>5. f[x] = ExecShares(q[k + 1], r)
  BY <1>2 DEF ComingTerms
<1> HIDE DEF f, U, V, x
<1>6. \A i \in V \union {x} : f[i] \in Int
  BY <1>3, <1>4
<1>7. SumFunctionOnSet(f, V \union {x}) = f[x] + SumFunctionOnSet(f, V)
  BY <1>3, <1>4, <1>6, SumAdd
<1>8. ToCome(q, k, r) = SumFunctionOnSet(f, U) /\ ToCome(q, k + 1, r) = SumFunctionOnSet(f, V)
  BY ToComeIs DEF f, U, V
<1>9. f[x] \in Nat
  BY <1>2, <1>4
<1> QED BY <1>3, <1>4, <1>5, <1>7, <1>8, <1>9

-----------------------------------------------------------------------------
(* What is left of an order by a reading of the feed.                      *)

Behind(seen, i) == (i + 1)..Len(seen)
IsDelete(msg, r) == msg.type = "D" /\ msg.ref = r
Deleted(seen, i) == \E k \in Behind(seen, i) : IsDelete(seen[k], seen[i].ref)
ExecTerms(seen, i) == [k \in Behind(seen, i) |-> ExecShares(seen[k], seen[i].ref)]
Taken(seen, i) == SumFunctionOnSet(ExecTerms(seen, i), Behind(seen, i))

LEMMA LeftIs ==
  \A seen, i : LeftOf(seen, i) = IF Deleted(seen, i) THEN 0 ELSE seen[i].shares - Taken(seen, i)
BY DEF LeftOf, Deleted, IsDelete, Taken, ExecTerms, Behind, ExecShares, IsExec, SumFunction

LEMMA TakenType ==
  ASSUME NEW own, OwnOnes(own), NEW seen, IsSeen(own, seen), NEW i \in DOMAIN seen
  PROVE  /\ IsFiniteSet(Behind(seen, i)) /\ Taken(seen, i) \in Nat
         /\ \A k \in Behind(seen, i) : ExecTerms(seen, i)[k] \in Nat
<1> DEFINE f == ExecTerms(seen, i)
           U == Behind(seen, i)
<1>1. Len(seen) \in Nat /\ DOMAIN seen = 1..Len(seen)
  BY LenProperties DEF IsSeen
<1>2. IsFiniteSet(U) /\ U \subseteq DOMAIN seen
  <2>1. IsFiniteSet(DOMAIN seen)
    BY <1>1, FS_Interval
  <2>2. U \subseteq DOMAIN seen
    BY <1>1 DEF Behind
  <2> QED BY <2>1, <2>2, FS_Subset
<1>3. ASSUME NEW k \in U PROVE f[k] \in Nat
  <2>1. MessageOf(own, seen[k])
    BY <1>2, SeenText
  <2> QED BY <2>1 DEF ExecTerms, ExecShares, IsExec, MessageOf
<1> HIDE DEF f, U
<1>4. SumFunctionOnSet(f, U) \in Nat
  BY <1>2, <1>3, SumType
<1> QED BY <1>2, <1>3, <1>4 DEF f, U, Taken

LEMMA LeftGrows ==
  ASSUME NEW own, OwnOnes(own), NEW seen, IsSeen(own, seen), NEW more, IsSeen(own, more),
         NEW msg, NEW n, Grows(seen, more, msg, n), NEW i \in 1..n, seen[i].type = "A"
  PROVE  /\ LeftOf(more, i) \in Int /\ LeftOf(seen, i) \in Int
         /\ LeftOf(more, i) > 0 =>
              ~IsDelete(msg, seen[i].ref) /\ LeftOf(seen, i) = LeftOf(more, i) + ExecShares(msg, seen[i].ref)
<1> DEFINE r == seen[i].ref
           U == Behind(seen, i)
           V == Behind(more, i)
           f == ExecTerms(seen, i)
           g == ExecTerms(more, i)
           x == n + 1
<1>1. /\ i \in DOMAIN seen /\ i \in DOMAIN more /\ more[i] = seen[i] /\ more[x] = msg
      /\ V = U \union {x} /\ x \notin U /\ U \subseteq 1..n /\ n \in Nat
      /\ \A k \in 1..n : more[k] = seen[k]
  BY DEF Grows, Behind
<1>2. /\ IsFiniteSet(U) /\ Taken(seen, i) \in Nat /\ Taken(more, i) \in Nat
      /\ (\A k \in U : f[k] \in Nat) /\ \A k \in V : g[k] \in Nat
  BY <1>1, TakenType
<1>3. g[x] = ExecShares(msg, r) /\ \A k \in U : f[k] = g[k]
  BY <1>1 DEF ExecTerms
<1>4. Deleted(more, i) <=> Deleted(seen, i) \/ IsDelete(msg, r)
  <2> HIDE DEF r, x
  <2>1. \A k \in U : IsDelete(more[k], r) <=> IsDelete(seen[k], r)
    BY <1>1
  <2>2. IsDelete(more[x], r) <=> IsDelete(msg, r)
    BY <1>1
  <2> HIDE DEF U, V
  <2>3. Deleted(seen, i) <=> \E k \in U : IsDelete(seen[k], r)
    BY DEF Deleted, U, r
  <2>4. Deleted(more, i) <=> \E k \in V : IsDelete(more[k], r)
    BY <1>1 DEF Deleted, V, r
  <2> QED BY <1>1, <2>1, <2>2, <2>3, <2>4
<1>5. seen[i].shares \in Nat
  <2>1. MessageOf(own, seen[i])
    BY <1>1, SeenText
  <2> QED BY <2>1 DEF MessageOf
<1>6. Taken(seen, i) = SumFunctionOnSet(f, U) /\ Taken(more, i) = SumFunctionOnSet(g, V)
  BY DEF Taken
<1> HIDE DEF U, V, f, g, x
<1>7. Taken(more, i) = g[x] + Taken(seen, i)
  <2>1. \A k \in U \union {x} : g[k] \in Int
    BY <1>1, <1>2
  <2>2. SumFunctionOnSet(g, U \union {x}) = g[x] + SumFunctionOnSet(g, U)
    BY <1>1, <1>2, <2>1, SumAdd
  <2>3. SumFunctionOnSet(g, U) = SumFunctionOnSet(f, U)
    BY <1>2, <1>3, SumSame
  <2> QED BY <1>1, <1>6, <2>2, <2>3
<1>8. g[x] \in Nat
  BY <1>1, <1>2
<1> HIDE DEF r
<1>9. /\ LeftOf(more, i) = IF Deleted(more, i) THEN 0 ELSE seen[i].shares - Taken(more, i)
      /\ LeftOf(seen, i) = IF Deleted(seen, i) THEN 0 ELSE seen[i].shares - Taken(seen, i)
  BY <1>1, LeftIs
<1>10. CASE Deleted(more, i)
  <2>1. LeftOf(more, i) = 0 /\ LeftOf(seen, i) \in Int
    BY <1>2, <1>5, <1>9, <1>10
  <2> QED BY <2>1
<1>11. CASE ~Deleted(more, i)
  <2>1. ~Deleted(seen, i) /\ ~IsDelete(msg, r)
    BY <1>4, <1>11
  <2>2. LeftOf(more, i) = seen[i].shares - Taken(more, i) /\ LeftOf(seen, i) = seen[i].shares - Taken(seen, i)
    BY <1>9, <1>11, <2>1
  <2>3. LeftOf(seen, i) = LeftOf(more, i) + ExecShares(msg, r) /\ LeftOf(more, i) \in Int /\ LeftOf(seen, i) \in Int
    BY <1>2, <1>3, <1>5, <1>7, <1>8, <2>2
  <2> QED BY <2>1, <2>3 DEF r
<1> QED BY <1>10, <1>11

LEMMA LeftAtFirst ==
  ASSUME NEW seen, NEW more, NEW msg, NEW n, Grows(seen, more, msg, n), msg.shares \in Nat
  PROVE  LeftOf(more, n + 1) = msg.shares
<1> DEFINE x == n + 1
<1>1. Behind(more, x) = {} /\ more[x] = msg
  BY DEF Grows, Behind
<1> HIDE DEF x
<1>2. ~Deleted(more, x) /\ Taken(more, x) = 0
  BY <1>1, SumEmpty DEF Deleted, Taken
<1>3. LeftOf(more, x) = msg.shares
  BY <1>1, <1>2, LeftIs
<1> QED BY <1>3 DEF x

-----------------------------------------------------------------------------
(* One message more, and the belief stays sound.                           *)

IsMakers(mk) == \A r \in DOMAIN mk : mk[r] \in Nat
Turned(own, mk, b, c, msg, q, k) ==
  /\ OwnOnes(own) /\ IsMakers(mk) /\ Belief(own, b) /\ HeardAs(own, b, c, msg)
  /\ IsSeen(own, q) /\ k \in 0..(Len(q) - 1) /\ q[k + 1] = msg
  /\ IsText(own, msg) /\ IsMessage(msg) /\ MessageOf(own, msg)
  /\ Grows(b.seen, c.seen, msg, Len(b.seen)) /\ IsSeen(own, b.seen) /\ IsSeen(own, c.seen)

LEMMA RestingType == ASSUME NEW mk, IsMakers(mk), NEW r PROVE Resting(mk, r) \in Nat
BY DEF IsMakers, Resting

LEMMA LeftType == ASSUME NEW own, NEW b, Belief(own, b), NEW r PROVE Left(b, r) \in Nat
<1>1. b.book \in [DOMAIN b.book -> Entries]
  BY DEF Belief, IsBook
<1> QED BY <1>1 DEF Left, Entries

\* What the book has of one order after a message.
AfterAt(book, msg, after, r) ==
  /\ r \in DOMAIN after => \/ IsAdd(msg, r) /\ after[r] = EntryOf(msg)
                           \/ /\ r \in DOMAIN book /\ after[r].locate = book[r].locate
                              /\ after[r].side = book[r].side /\ after[r].price = book[r].price
  /\ msg.type = "R" \/ msg.ref /= r =>
       (r \in DOMAIN after <=> r \in DOMAIN book) /\ (r \in DOMAIN book => after[r] = book[r])
  /\ IsExec(msg, r) /\ r \in DOMAIN book /\ book[r].shares > msg.shares =>
       r \in DOMAIN after /\ after[r].shares = book[r].shares - msg.shares
  /\ IsAdd(msg, r) => r \in DOMAIN after /\ after[r] = EntryOf(msg)

LEMMA RebookedAt ==
  ASSUME NEW book, NEW msg, NEW after, Rebooked(book, msg, after), NEW r,
         msg.type \in {"R", "A", "E", "D"}
  PROVE  AfterAt(book, msg, after, r)
<1>1. CASE msg.type = "A"
  BY <1>1 DEF Rebooked, BookAdded, AfterAt, IsAdd, IsExec
<1>2. CASE Cuts(book, msg)
  BY <1>2 DEF Rebooked, BookCut, AfterAt, IsAdd, IsExec, Cuts
<1>3. CASE msg.type \in {"E", "D"} /\ msg.ref \in DOMAIN book /\ ~Cuts(book, msg)
  BY <1>3 DEF Rebooked, BookWithout, AfterAt, IsAdd, IsExec, Cuts
<1>4. CASE msg.type = "R" \/ (msg.type \in {"E", "D"} /\ msg.ref \notin DOMAIN book)
  BY <1>4 DEF Rebooked, AfterAt, IsAdd, IsExec
<1> QED BY <1>1, <1>2, <1>3, <1>4

LEMMA TurnedAt ==
  ASSUME NEW own, NEW mk, NEW b, NEW c, NEW msg, NEW q, NEW k, Turned(own, mk, b, c, msg, q, k), NEW r
  PROVE  /\ AfterAt(b.book, msg, c.book, r) /\ (Told(c.seen, r) <=> Told(b.seen, r) \/ IsAdd(msg, r))
         /\ ToCome(q, k, r) = ToCome(q, k + 1, r) + ExecShares(msg, r)
         /\ ToCome(q, k, r) \in Nat /\ ToCome(q, k + 1, r) \in Nat /\ ExecShares(msg, r) \in Nat
         /\ Resting(mk, r) \in Nat /\ Left(b, r) \in Nat /\ Left(c, r) \in Nat
<1>1. msg.type \in {"R", "A", "E", "D"}
  BY DEF Turned, MessageOf, IsMessage, Kinds
<1>2. AfterAt(b.book, msg, c.book, r)
  <2>1. Rebooked(b.book, msg, c.book)
    BY DEF Turned, HeardAs
  <2> QED BY <1>1, <2>1, RebookedAt
<1>3. Told(c.seen, r) <=> Told(b.seen, r) \/ IsAdd(msg, r)
  <2>1. Grows(b.seen, c.seen, msg, Len(b.seen))
    BY DEF Turned
  <2> QED BY <2>1, ToldGrows
<1>4. /\ ToCome(q, k, r) = ToCome(q, k + 1, r) + ExecShares(msg, r)
      /\ ToCome(q, k, r) \in Nat /\ ToCome(q, k + 1, r) \in Nat /\ ExecShares(msg, r) \in Nat
  <2>1. OwnOnes(own) /\ IsSeen(own, q) /\ k \in 0..(Len(q) - 1) /\ q[k + 1] = msg
    BY DEF Turned
  <2> QED BY <2>1, ToComeStep
<1>5. Resting(mk, r) \in Nat /\ Left(b, r) \in Nat /\ Left(c, r) \in Nat
  <2>1. IsMakers(mk) /\ Belief(own, b) /\ Belief(own, c)
    BY DEF Turned, HeardAs
  <2> QED BY <2>1, RestingType, LeftType
<1> QED BY <1>2, <1>3, <1>4, <1>5

LEMMA SumsTurned ==
  ASSUME NEW own, NEW mk, NEW b, NEW c, NEW msg, NEW q, NEW k, Turned(own, mk, b, c, msg, q, k)
  PROVE  /\ SharesSeen(c.seen) = SharesSeen(b.seen) + SharesOwn(msg)
         /\ InBookSeen(c.seen) = InBookSeen(b.seen) + InBookOwn(b.seen, msg)
<1> DEFINE seen == b.seen
           more == c.seen
<1>1. OwnOnes(own) /\ IsSeen(own, seen) /\ IsText(own, msg) /\ more = Append(seen, msg)
  BY DEF Turned, HeardAs
<1> HIDE DEF seen, more
<1>2. /\ SharesSeen(more) = SharesSeen(seen) + SharesOwn(msg)
      /\ InBookSeen(more) = InBookSeen(seen) + InBookOwn(seen, msg)
  BY <1>1, SeenSumsGrow, ZenonT(60)
<1> QED BY <1>2 DEF seen, more

LEMMA CountedKept ==
  ASSUME NEW own, NEW mk, NEW b, NEW c, NEW msg, NEW q, NEW k, Turned(own, mk, b, c, msg, q, k), Counted(b)
  PROVE  Counted(c)
<1>1. SharesSeen(c.seen) = SharesSeen(b.seen) + SharesOwn(msg)
  BY SumsTurned
<1>2. c.fills + ParkedShares(c) = b.fills + ParkedShares(b) + SharesOwn(msg)
  BY DEF Turned, HeardAs
<1>3. \A r \in c.refs : c.parked[r] = NotParked
  <2>1. b.refs \subseteq own /\ c.refs = b.refs /\ \A r \in own : r \in b.refs => c.parked[r] = b.parked[r]
    BY DEF Turned, HeardAs, Belief
  <2> QED BY <2>1 DEF Counted
<1> QED BY <1>1, <1>2, <1>3 DEF Counted

\* An execution of an order the feed has shown finds it in the book, one of
\* an order it has not shown does not.
LEMMA ExecFits ==
  ASSUME NEW own, NEW mk, NEW b, NEW c, NEW msg, NEW q, NEW k, Turned(own, mk, b, c, msg, q, k),
         Booked(own, b), Covered(own, mk, b, q, k), OwnExec(msg)
  PROVE  /\ msg.ref \in own /\ msg.shares \in Nat /\ IsExec(msg, msg.ref)
         /\ Told(b.seen, msg.ref) => Holds(b, msg.ref) /\ b.book[msg.ref].side = "buy"
         /\ ~Told(b.seen, msg.ref) => ~Holds(b, msg.ref)
<1> DEFINE r == msg.ref
<1>1. r \in own /\ msg.shares \in Nat /\ msg.shares >= 1 /\ IsExec(msg, r)
  BY DEF Turned, MessageOf, OwnExec, IsExec
<1>2. ASSUME Told(b.seen, r) PROVE Holds(b, r) /\ b.book[r].side = "buy"
  <2>1. Left(b, r) >= ToCome(q, k, r) + Resting(mk, r)
    BY <1>1, <1>2 DEF Covered
  <2>2. /\ ToCome(q, k, r) = ToCome(q, k + 1, r) + ExecShares(msg, r)
        /\ ToCome(q, k + 1, r) \in Nat /\ Resting(mk, r) \in Nat /\ Left(b, r) \in Nat
    BY TurnedAt
  <2>3. ExecShares(msg, r) = msg.shares
    BY <1>1 DEF ExecShares
  <2> HIDE DEF r
  <2>4. Left(b, r) >= 1
    BY <1>1, <2>1, <2>2, <2>3
  <2>5. r \in DOMAIN b.book
    BY <2>4 DEF Left
  <2> QED BY <1>1, <2>5 DEF Booked, Holds
<1>3. ASSUME ~Told(b.seen, r) PROVE ~Holds(b, r)
  BY <1>1, <1>3 DEF Booked, Holds
<1> QED BY <1>1, <1>2, <1>3

LEMMA PlacedKept ==
  ASSUME NEW own, NEW mk, NEW b, NEW c, NEW msg, NEW q, NEW k, Turned(own, mk, b, c, msg, q, k),
         Booked(own, b), Covered(own, mk, b, q, k), Placed(b)
  PROVE  Placed(c)
<1>1. InBookSeen(c.seen) = InBookSeen(b.seen) + InBookOwn(b.seen, msg)
  BY SumsTurned
<1>2. c.position + ParkedInBook(c) = b.position + ParkedInBook(b) + BookOwn(b, msg)
  BY DEF Turned, HeardAs
<1>3. BookOwn(b, msg) = InBookOwn(b.seen, msg)
  <2>1. CASE OwnExec(msg) /\ Told(b.seen, msg.ref)
    <3>1. Holds(b, msg.ref) /\ b.book[msg.ref].side = "buy"
      BY <2>1, ExecFits
    <3> QED BY <2>1, <3>1 DEF BookOwn, InBookOwn, InBook, ExecOf, Signed
  <2>2. CASE OwnExec(msg) /\ ~Told(b.seen, msg.ref)
    <3>1. ~Holds(b, msg.ref)
      BY <2>2, ExecFits
    <3> QED BY <2>2, <3>1 DEF BookOwn, InBookOwn, InBook, ExecOf
  <2>3. CASE ~OwnExec(msg)
    BY <2>3 DEF BookOwn, InBookOwn
  <2> QED BY <2>1, <2>2, <2>3
<1> QED BY <1>1, <1>2, <1>3 DEF Placed

LEMMA LocateKept ==
  ASSUME NEW own, NEW mk, NEW b, NEW c, NEW msg, NEW q, NEW k, Turned(own, mk, b, c, msg, q, k)
  PROVE  /\ b.locate = OurLocate => c.locate = OurLocate
         /\ msg.type = "A" /\ msg.locate = OurLocate => c.locate = OurLocate
<1>1. c.locate = LocateAfter(b, msg) /\ b.locate \in {0, OurLocate}
  BY DEF Turned, HeardAs, Belief
<1> QED BY <1>1 DEF LocateAfter

LEMMA BookedKept ==
  ASSUME NEW own, NEW mk, NEW b, NEW c, NEW msg, NEW q, NEW k, Turned(own, mk, b, c, msg, q, k), Booked(own, b)
  PROVE  Booked(own, c)
<1> SUFFICES ASSUME NEW r \in own, r \in DOMAIN c.book
             PROVE  /\ Told(c.seen, r) /\ c.locate = OurLocate
                    /\ c.book[r].locate = OurLocate /\ c.book[r].side = "buy"
  BY DEF Booked
<1>1. AfterAt(b.book, msg, c.book, r) /\ (Told(c.seen, r) <=> Told(b.seen, r) \/ IsAdd(msg, r))
  BY TurnedAt
<1>2. CASE IsAdd(msg, r) /\ c.book[r] = EntryOf(msg)
  <2>1. msg.locate = OurLocate /\ msg.side = "buy" /\ msg.type = "A"
    BY <1>2 DEF Turned, MessageOf, IsAdd, OwnOnes
  <2>2. c.locate = OurLocate
    BY <2>1, LocateKept
  <2> QED BY <1>1, <1>2, <2>1, <2>2 DEF EntryOf
<1>3. CASE r \in DOMAIN b.book /\ c.book[r].locate = b.book[r].locate /\ c.book[r].side = b.book[r].side
  <2>1. Told(b.seen, r) /\ b.locate = OurLocate /\ b.book[r].locate = OurLocate /\ b.book[r].side = "buy"
    BY <1>3 DEF Booked
  <2>2. c.locate = OurLocate
    BY <2>1, LocateKept
  <2> QED BY <1>1, <1>3, <2>1, <2>2
<1> QED BY <1>1, <1>2, <1>3 DEF AfterAt

LEMMA CoveredKept ==
  ASSUME NEW own, NEW mk, NEW b, NEW c, NEW msg, NEW q, NEW k, Turned(own, mk, b, c, msg, q, k),
         Covered(own, mk, b, q, k)
  PROVE  Covered(own, mk, c, q, k + 1)
<1>1. Len(q) \in Nat /\ k \in 0..(Len(q) - 1) /\ q[k + 1] = msg
  BY LenProperties DEF Turned, IsSeen
<1> SUFFICES ASSUME NEW r \in own
             PROVE  /\ Told(c.seen, r) => Left(c, r) >= ToCome(q, k + 1, r) + Resting(mk, r)
                    /\ \A i \in Rest(q, k + 1) : IsAdd(q[i], r) =>
                         /\ \A j \in (k + 1 + 1)..(i - 1) : ~IsExec(q[j], r)
                         /\ q[i].shares >= ToCome(q, k + 1, r) + Resting(mk, r)
  BY DEF Covered
<1> DEFINE now0 == ToCome(q, k, r)
           now1 == ToCome(q, k + 1, r)
           mkr == Resting(mk, r)
           lb == Left(b, r)
           lc == Left(c, r)
           e == ExecShares(msg, r)
<1>2. /\ AfterAt(b.book, msg, c.book, r) /\ (Told(c.seen, r) <=> Told(b.seen, r) \/ IsAdd(msg, r))
      /\ now0 = now1 + e /\ now0 \in Nat /\ now1 \in Nat /\ e \in Nat /\ mkr \in Nat /\ lb \in Nat /\ lc \in Nat
  BY TurnedAt
<1>3. (Told(b.seen, r) => lb >= now0 + mkr)
  BY DEF Covered
<1>4. \A i \in Rest(q, k) : IsAdd(q[i], r) =>
         (\A j \in (k + 1)..(i - 1) : ~IsExec(q[j], r)) /\ q[i].shares >= now0 + mkr
  BY DEF Covered
<1>5. \A i \in Rest(q, k) : IsAdd(q[i], r) => q[i].shares \in Nat
  <2> SUFFICES ASSUME NEW i \in Rest(q, k), IsAdd(q[i], r) PROVE q[i].shares \in Nat
    OBVIOUS
  <2>1. i \in DOMAIN q
    BY <1>1, LenProperties DEF Rest, Turned, IsSeen
  <2>2. MessageOf(own, q[i])
    BY <2>1, SeenText DEF Turned
  <2> QED BY <2>2 DEF MessageOf, IsAdd
<1> HIDE DEF now0, now1, mkr, lb, lc, e
<1>6. ASSUME Told(c.seen, r) PROVE lc >= now1 + mkr
  <2>1. CASE IsAdd(msg, r)
    <3>1. k + 1 \in Rest(q, k)
      BY <1>1 DEF Rest
    <3>2. msg.shares >= now0 + mkr /\ msg.shares \in Nat
      BY <1>1, <1>4, <1>5, <2>1, <3>1
    <3>3. lc = msg.shares
      BY <1>2, <2>1 DEF AfterAt, lc, Left, EntryOf
    <3> QED BY <1>2, <3>2, <3>3
  <2>2. CASE IsExec(msg, r)
    <3>1. lb >= now0 + mkr
      BY <1>2, <1>3, <1>6, <2>2 DEF IsAdd, IsExec
    <3>2. e = msg.shares
      BY <2>2 DEF e, ExecShares
    <3>3. lb > e => lc = lb - e
      BY <1>2, <2>2, <3>2 DEF AfterAt, lb, lc, Left
    <3>4. CASE lb > e
      BY <1>2, <3>1, <3>3, <3>4
    <3>5. CASE ~(lb > e)
      BY <1>2, <3>1, <3>5
    <3> QED BY <3>4, <3>5
  <2>3. CASE ~IsAdd(msg, r) /\ ~IsExec(msg, r)
    <3>1. lb >= now0 + mkr
      BY <1>2, <1>3, <1>6, <2>3
    <3>2. e = 0
      BY <2>3 DEF e, ExecShares
    <3>3. msg.type = "R" \/ msg.ref /= r
      BY <2>3 DEF Turned, MessageOf, IsMessage, Kinds, IsAdd, IsExec
    <3>4. lc = lb
      BY <1>2, <3>3 DEF AfterAt, lb, lc, Left
    <3> QED BY <1>2, <3>1, <3>2, <3>4
  <2> QED BY <2>1, <2>2, <2>3
<1>7. ASSUME NEW i \in Rest(q, k + 1), IsAdd(q[i], r)
      PROVE  (\A j \in (k + 1 + 1)..(i - 1) : ~IsExec(q[j], r)) /\ q[i].shares >= now1 + mkr
  <2>1. i \in Rest(q, k) /\ i \in Nat
    BY <1>1 DEF Rest
  <2>2. (\A j \in (k + 1)..(i - 1) : ~IsExec(q[j], r)) /\ q[i].shares >= now0 + mkr /\ q[i].shares \in Nat
    BY <1>4, <1>5, <1>7, <2>1
  <2>3. \A j \in (k + 1 + 1)..(i - 1) : j \in (k + 1)..(i - 1)
    BY <1>1, <2>1
  <2>4. q[i].shares >= now1 + mkr
    BY <1>2, <2>2
  <2> QED BY <2>2, <2>3, <2>4
<1> QED BY <1>6, <1>7 DEF lc, now1, mkr

LEMMA AddedOnceKept ==
  ASSUME NEW own, NEW mk, NEW b, NEW c, NEW msg, NEW q, NEW k, Turned(own, mk, b, c, msg, q, k),
         AddedOnce(b, q, k)
  PROVE  AddedOnce(c, q, k + 1)
<1> DEFINE n == Len(b.seen)
<1>1. /\ Len(q) \in Nat /\ k \in 0..(Len(q) - 1) /\ q[k + 1] = msg /\ Grows(b.seen, c.seen, msg, n)
  BY LenProperties DEF Turned, IsSeen
<1>2. k + 1 \in Rest(q, k) /\ \A i \in Rest(q, k + 1) : i \in Rest(q, k) /\ i /= k + 1
  BY <1>1 DEF Rest
<1>3. ASSUME NEW i \in DOMAIN c.seen, NEW j \in DOMAIN c.seen,
             c.seen[i].type = "A", IsAdd(c.seen[j], c.seen[i].ref)
      PROVE  i = j
  <2>1. msg.type = "A" => ~Told(b.seen, msg.ref)
    BY <1>1, <1>2 DEF AddedOnce
  <2> HIDE DEF n
  <2>2. \A x \in DOMAIN c.seen :
          (x \in DOMAIN b.seen /\ c.seen[x] = b.seen[x]) \/ (x = n + 1 /\ c.seen[x] = msg)
    <3>1. n \in Nat /\ DOMAIN c.seen = 1..(n + 1) /\ \A x \in 1..(n + 1) : x \in 1..n \/ x = n + 1
      BY <1>1 DEF Grows
    <3> QED BY <1>1, <3>1 DEF Grows
  <2>3. CASE i \in DOMAIN b.seen /\ j \in DOMAIN b.seen /\ c.seen[i] = b.seen[i] /\ c.seen[j] = b.seen[j]
    BY <1>3, <2>3 DEF AddedOnce
  <2>4. CASE i \in DOMAIN b.seen /\ c.seen[i] = b.seen[i] /\ c.seen[j] = msg
    BY <1>3, <2>1, <2>4 DEF Told, IsAdd
  <2>5. CASE j \in DOMAIN b.seen /\ c.seen[j] = b.seen[j] /\ c.seen[i] = msg
    BY <1>3, <2>1, <2>5 DEF Told, IsAdd
  <2> QED BY <2>2, <2>3, <2>4, <2>5
<1>4. \A i, j \in Rest(q, k + 1) : q[i].type = "A" /\ IsAdd(q[j], q[i].ref) => i = j
  BY <1>2 DEF AddedOnce
<1>5. ASSUME NEW i \in Rest(q, k + 1), q[i].type = "A" PROVE ~Told(c.seen, q[i].ref)
  <2>1. ~Told(b.seen, q[i].ref)
    BY <1>2, <1>5 DEF AddedOnce
  <2>2. ~IsAdd(q[k + 1], q[i].ref)
    BY <1>2, <1>5 DEF AddedOnce
  <2> QED BY <1>1, <2>1, <2>2, TurnedAt
<1> QED BY <1>3, <1>4, <1>5 DEF AddedOnce

LEMMA UnknownKept ==
  ASSUME NEW own, NEW mk, NEW b, NEW c, NEW msg, NEW q, NEW k, Turned(own, mk, b, c, msg, q, k),
         Unknown(own, mk, b, q, k)
  PROVE  Unknown(own, mk, c, q, k + 1)
<1>1. /\ Len(q) \in Nat /\ k \in 0..(Len(q) - 1) /\ q[k + 1] = msg
  BY LenProperties DEF Turned, IsSeen
<1>2. k + 1 \in Rest(q, k) /\ \A i \in Rest(q, k + 1) : i \in Rest(q, k)
  BY <1>1 DEF Rest
<1>3. ASSUME NEW r \in own \ DOMAIN mk
      PROVE  /\ r \notin c.refs /\ c.parked[r] = NotParked /\ ~Told(c.seen, r)
             /\ \A i \in Rest(q, k + 1) : ~IsAdd(q[i], r) /\ ~IsExec(q[i], r)
  <2>1. /\ r \notin b.refs /\ b.parked[r] = NotParked /\ ~Told(b.seen, r)
        /\ \A i \in Rest(q, k) : ~IsAdd(q[i], r) /\ ~IsExec(q[i], r)
    BY DEF Unknown
  <2>2. ~IsAdd(msg, r) /\ ~IsExec(msg, r)
    BY <1>1, <1>2, <2>1
  <2>3. c.refs = b.refs /\ c.parked[r] = b.parked[r]
    BY <2>2 DEF Turned, HeardAs
  <2>4. ~Told(c.seen, r)
    BY <2>1, <2>2, TurnedAt
  <2> QED BY <1>2, <2>1, <2>3, <2>4
<1> QED BY <1>3 DEF Unknown

LEMMA InOrderKept ==
  ASSUME NEW own, NEW mk, NEW b, NEW c, NEW msg, NEW q, NEW k, Turned(own, mk, b, c, msg, q, k),
         InOrder(own, mk, b, q, k)
  PROVE  InOrder(own, mk, c, q, k + 1)
<1> DEFINE n == Len(b.seen)
<1>1. /\ Len(q) \in Nat /\ k \in 0..(Len(q) - 1) /\ q[k + 1] = msg /\ Grows(b.seen, c.seen, msg, n)
  BY LenProperties DEF Turned, IsSeen
<1>2. k + 1 \in Rest(q, k) /\ \A i \in Rest(q, k + 1) : i \in Rest(q, k) /\ i \in Nat
  BY <1>1 DEF Rest
<1>3. ASSUME NEW i \in OwnExecs(c.seen) PROVE Added(c.seen, i)
  <2>1. /\ \A x \in 1..n : Added(c.seen, x) <=> Added(b.seen, x)
        /\ Added(c.seen, n + 1) <=> Told(b.seen, msg.ref)
    BY <1>1, AddedIsTold
  <2> HIDE DEF n
  <2>2. CASE i \in 1..n
    <3>1. i \in OwnExecs(b.seen)
      BY <1>1, <1>3, <2>2 DEF OwnExecs, Grows
    <3> QED BY <2>1, <2>2, <3>1 DEF InOrder
  <2>3. CASE i = n + 1
    <3>1. OwnExec(msg)
      BY <1>1, <1>3, <2>3 DEF OwnExecs, OwnExec, Grows
    <3>2. msg.ref \in own /\ IsExec(msg, msg.ref)
      BY <3>1 DEF Turned, MessageOf, OwnExec, IsExec
    <3>3. Told(b.seen, msg.ref) \/ \E j \in (k + 1)..((k + 1) - 1) : IsAdd(q[j], msg.ref)
      BY <1>1, <1>2, <3>2 DEF InOrder
    <3>4. ~\E j \in (k + 1)..((k + 1) - 1) : TRUE
      BY <1>1
    <3> QED BY <2>1, <2>3, <3>3, <3>4
  <2>4. i \in 1..n \/ i = n + 1
    BY <1>1, <1>3 DEF OwnExecs, Grows
  <2> QED BY <2>2, <2>3, <2>4
<1>4. ASSUME NEW r \in own
      PROVE  /\ \A i \in Rest(q, k + 1) : IsExec(q[i], r) =>
                  Told(c.seen, r) \/ \E j \in (k + 1 + 1)..(i - 1) : IsAdd(q[j], r)
             /\ Resting(mk, r) > 0 => Told(c.seen, r) \/ \E i \in Rest(q, k + 1) : IsAdd(q[i], r)
  <2>1. Told(c.seen, r) <=> Told(b.seen, r) \/ IsAdd(q[k + 1], r)
    BY <1>1, TurnedAt
  <2>2. ASSUME NEW i \in Rest(q, k + 1), IsExec(q[i], r), ~Told(c.seen, r)
        PROVE  \E j \in (k + 1 + 1)..(i - 1) : IsAdd(q[j], r)
    <3>1. PICK j \in (k + 1)..(i - 1) : IsAdd(q[j], r)
      BY <1>2, <2>1, <2>2 DEF InOrder
    <3>2. j /= k + 1
      BY <2>1, <2>2, <3>1
    <3>3. j \in (k + 1 + 1)..(i - 1)
      BY <1>1, <1>2, <3>1, <3>2
    <3> QED BY <3>1, <3>3
  <2>3. ASSUME Resting(mk, r) > 0, ~Told(c.seen, r) PROVE \E i \in Rest(q, k + 1) : IsAdd(q[i], r)
    <3>1. PICK i \in Rest(q, k) : IsAdd(q[i], r)
      BY <2>1, <2>3 DEF InOrder
    <3>2. i /= k + 1
      BY <2>1, <2>3, <3>1
    <3>3. i \in Rest(q, k + 1)
      BY <1>1, <3>1, <3>2 DEF Rest
    <3> QED BY <3>1, <3>3
  <2> QED BY <2>2, <2>3
<1> QED BY <1>3, <1>4 DEF InOrder

LEMMA MirroredKept ==
  ASSUME NEW own, NEW mk, NEW b, NEW c, NEW msg, NEW q, NEW k, Turned(own, mk, b, c, msg, q, k),
         AddedOnce(b, q, k), Mirrored(b)
  PROVE  Mirrored(c)
<1> DEFINE n == Len(b.seen)
<1>1. /\ Grows(b.seen, c.seen, msg, n) /\ OwnOnes(own) /\ IsSeen(own, b.seen) /\ IsSeen(own, c.seen)
  BY DEF Turned
<1>2. AddedOnce(c, q, k + 1)
  BY AddedOnceKept
<1> HIDE DEF n
<1>3. ASSUME NEW i \in 1..n, b.seen[i].type = "A"
      PROVE  Shown(c, b.seen[i], LeftOf(c.seen, i))
  <2> DEFINE m == b.seen[i]
             r == m.ref
             left == LeftOf(b.seen, i)
             after == LeftOf(c.seen, i)
  <2>1. i \in DOMAIN b.seen /\ i \in DOMAIN c.seen /\ c.seen[i] = m /\ c.seen[n + 1] = msg
        /\ n + 1 \in DOMAIN c.seen /\ i /= n + 1
    BY <1>1 DEF Grows
  <2>2. m.locate = OurLocate => c.locate = OurLocate
    <3>1. m.locate = OurLocate => b.locate = OurLocate
      BY <1>3, <2>1 DEF Mirrored, Shown
    <3> QED BY <3>1, LocateKept
  <2>3. after \in Int /\ left \in Int /\ (after > 0 => ~IsDelete(msg, r) /\ left = after + ExecShares(msg, r))
    BY <1>1, <1>3, LeftGrows
  <2>4. AfterAt(b.book, msg, c.book, r) /\ ExecShares(msg, r) \in Nat
    BY TurnedAt
  <2>5. ~IsAdd(msg, r)
    BY <1>2, <1>3, <2>1 DEF AddedOnce, IsAdd
  <2>6. left > 0 => /\ r \in DOMAIN b.book /\ b.book[r].shares = left /\ b.book[r].locate = m.locate
                    /\ b.book[r].side = m.side /\ b.book[r].price = m.price
    BY <1>3, <2>1 DEF Mirrored, Shown
  <2> HIDE DEF left, after, r
  <2>7. ASSUME after > 0
        PROVE  /\ r \in DOMAIN c.book /\ c.book[r].shares = after /\ c.book[r].locate = m.locate
               /\ c.book[r].side = m.side /\ c.book[r].price = m.price
    <3>1. left > 0 /\ left = after + ExecShares(msg, r) /\ ~IsDelete(msg, r)
      BY <2>3, <2>4, <2>7
    <3>2. /\ r \in DOMAIN b.book /\ b.book[r].shares = left /\ b.book[r].locate = m.locate
          /\ b.book[r].side = m.side /\ b.book[r].price = m.price
      BY <2>6, <3>1
    <3>3. CASE IsExec(msg, r)
      <4>1. ExecShares(msg, r) = msg.shares
        BY <3>3 DEF ExecShares
      <4>2. b.book[r].shares > msg.shares /\ b.book[r].shares - msg.shares = after
        BY <2>3, <2>4, <2>7, <3>1, <3>2, <4>1
      <4> QED BY <2>4, <2>5, <3>2, <3>3, <4>2 DEF AfterAt
    <3>4. CASE ~IsExec(msg, r)
      <4>1. ExecShares(msg, r) = 0
        BY <3>4 DEF ExecShares
      <4>2. msg.type = "R" \/ msg.ref /= r
        BY <2>5, <3>1, <3>4 DEF Turned, MessageOf, IsMessage, Kinds, IsAdd, IsExec, IsDelete
      <4>3. r \in DOMAIN c.book /\ c.book[r] = b.book[r]
        BY <2>4, <3>2, <4>2 DEF AfterAt
      <4> QED BY <2>3, <3>1, <3>2, <4>1, <4>3
    <3> QED BY <3>3, <3>4
  <2> QED BY <2>2, <2>7 DEF after, r, Shown
<1>4. ASSUME msg.type = "A"
      PROVE  Shown(c, msg, LeftOf(c.seen, n + 1))
  <2>1. msg.shares \in Nat
    BY <1>4 DEF Turned, MessageOf
  <2>2. LeftOf(c.seen, n + 1) = msg.shares
    BY <1>1, <2>1, LeftAtFirst
  <2>3. msg.ref \in DOMAIN c.book /\ c.book[msg.ref] = EntryOf(msg)
    <3>1. AfterAt(b.book, msg, c.book, msg.ref) /\ IsAdd(msg, msg.ref)
      BY <1>4, TurnedAt DEF IsAdd
    <3> QED BY <3>1 DEF AfterAt
  <2>4. msg.locate = OurLocate => c.locate = OurLocate
    BY <1>4, LocateKept
  <2> QED BY <2>2, <2>3, <2>4 DEF EntryOf, Shown
<1>5. \A i \in DOMAIN c.seen :
         (i \in 1..n /\ c.seen[i] = b.seen[i]) \/ (i = n + 1 /\ c.seen[i] = msg)
  BY <1>1 DEF Grows
<1> SUFFICES ASSUME NEW i \in DOMAIN c.seen, c.seen[i].type = "A"
             PROVE  Shown(c, c.seen[i], LeftOf(c.seen, i))
  BY DEF Mirrored
<1>6. CASE i \in 1..n /\ c.seen[i] = b.seen[i]
  BY <1>3, <1>6
<1>7. CASE i = n + 1 /\ c.seen[i] = msg
  BY <1>4, <1>7
<1> QED BY <1>5, <1>6, <1>7

\* What was lost, and the end, are passed over.
LEMMA PassedOver ==
  ASSUME NEW own, OwnOnes(own), NEW mk, NEW clean, NEW b, NEW q, IsSeen(own, q), NEW k \in 0..(Len(q) - 1),
         ~IsMessage(q[k + 1]), Sound(own, mk, clean, b, q, k)
  PROVE  Sound(own, mk, clean, b, q, k + 1)
<1>1. Len(q) \in Nat
  BY LenProperties DEF IsSeen
<1>2. \A i \in Rest(q, k + 1) : i \in Rest(q, k) /\ i \in Nat
  BY <1>1 DEF Rest
<1>3. \A r : ~IsAdd(q[k + 1], r) /\ ~IsExec(q[k + 1], r)
  BY DEF IsAdd, IsExec, IsMessage
<1>4. Covered(own, mk, b, q, k + 1)
  <2> SUFFICES ASSUME NEW r \in own
               PROVE  /\ Told(b.seen, r) => Left(b, r) >= ToCome(q, k + 1, r) + Resting(mk, r)
                      /\ \A i \in Rest(q, k + 1) : IsAdd(q[i], r) =>
                           /\ \A j \in (k + 1 + 1)..(i - 1) : ~IsExec(q[j], r)
                           /\ q[i].shares >= ToCome(q, k + 1, r) + Resting(mk, r)
    BY DEF Covered
  <2>1. ToCome(q, k, r) = ToCome(q, k + 1, r) + ExecShares(q[k + 1], r) /\ ToCome(q, k + 1, r) \in Nat
    BY ToComeStep
  <2>2. ToCome(q, k + 1, r) = ToCome(q, k, r)
    BY <1>3, <2>1 DEF ExecShares
  <2>3. /\ Told(b.seen, r) => Left(b, r) >= ToCome(q, k, r) + Resting(mk, r)
        /\ \A i \in Rest(q, k) : IsAdd(q[i], r) =>
             /\ \A j \in (k + 1)..(i - 1) : ~IsExec(q[j], r)
             /\ q[i].shares >= ToCome(q, k, r) + Resting(mk, r)
    BY DEF Sound, Covered
  <2>4. \A i \in Rest(q, k + 1) : \A j \in (k + 1 + 1)..(i - 1) : j \in (k + 1)..(i - 1)
    BY <1>1, <1>2
  <2> QED BY <1>2, <2>2, <2>3, <2>4
<1>5. AddedOnce(b, q, k + 1)
  BY <1>2 DEF Sound, AddedOnce
<1>6. Unknown(own, mk, b, q, k + 1)
  BY <1>2 DEF Sound, Unknown
<1>7. clean => InOrder(own, mk, b, q, k + 1)
  <2> SUFFICES ASSUME InOrder(own, mk, b, q, k) PROVE InOrder(own, mk, b, q, k + 1)
    BY DEF Sound
  <2>1. ASSUME NEW r \in own, NEW i \in Rest(q, k + 1), IsExec(q[i], r), ~Told(b.seen, r)
        PROVE  \E j \in (k + 1 + 1)..(i - 1) : IsAdd(q[j], r)
    <3>1. PICK j \in (k + 1)..(i - 1) : IsAdd(q[j], r)
      BY <1>2, <2>1 DEF InOrder
    <3>2. j /= k + 1
      BY <1>3, <3>1
    <3>3. j \in (k + 1 + 1)..(i - 1)
      BY <1>1, <1>2, <3>1, <3>2
    <3> QED BY <3>1, <3>3
  <2>2. ASSUME NEW r \in own, Resting(mk, r) > 0, ~Told(b.seen, r)
        PROVE  \E i \in Rest(q, k + 1) : IsAdd(q[i], r)
    <3>1. PICK i \in Rest(q, k) : IsAdd(q[i], r)
      BY <2>2 DEF InOrder
    <3>2. i /= k + 1
      BY <1>3, <3>1
    <3>3. i \in Rest(q, k + 1)
      BY <1>1, <3>1, <3>2 DEF Rest
    <3> QED BY <3>1, <3>3
  <2> QED BY <2>1, <2>2 DEF InOrder
<1> QED BY <1>4, <1>5, <1>6, <1>7 DEF Sound

LEMMA HeedSound ==
  ASSUME NEW own, OwnOnes(own), NEW mk, IsMakers(mk), NEW clean, NEW b, NEW q, IsSeen(own, q),
         NEW k \in 0..(Len(q) - 1), Sound(own, mk, clean, b, q, k)
  PROVE  Sound(own, mk, clean, Heed(b, q[k + 1]), q, k + 1)
<1> DEFINE msg == q[k + 1]
<1>1. IsText(own, msg) /\ MessageOf(own, msg)
  <2>1. k + 1 \in DOMAIN q
    BY LenProperties DEF IsSeen
  <2> QED BY <2>1, SeenText
<1>2. CASE ~IsMessage(msg)
  <2>1. Heed(b, msg) = b
    BY <1>2 DEF Heed
  <2> QED BY <1>2, <2>1, PassedOver
<1>3. CASE IsMessage(msg)
  <2> DEFINE c == OnMessage(b, msg)
             seen == b.seen
  <2>1. Heed(b, msg) = c
    BY <1>3 DEF Heed
  <2>2. Belief(own, b) /\ \A r \in b.refs : b.parked[r] = NotParked
    BY DEF Sound, Counted
  <2> HIDE DEF c, msg
  <2>3. HeardAs(own, b, c, msg)
    BY <1>1, <1>3, <2>2, OnMessageIs DEF c
  <2>4. IsSeen(own, seen) /\ c.seen = Append(seen, msg)
    BY <2>2, <2>3 DEF Belief, HeardAs, IsSeen
  <2> HIDE DEF seen
  <2>5. IsSeen(own, Append(seen, msg)) /\ Grows(seen, Append(seen, msg), msg, Len(seen))
    BY <1>1, <2>4, SeenGrows
  <2>6. Turned(own, mk, b, c, msg, q, k)
    BY <1>1, <1>3, <2>2, <2>3, <2>4, <2>5 DEF Turned, seen, msg
  <2>7. /\ Counted(b) /\ Placed(b) /\ Booked(own, b) /\ Covered(own, mk, b, q, k) /\ AddedOnce(b, q, k)
        /\ Unknown(own, mk, b, q, k) /\ (clean => InOrder(own, mk, b, q, k)) /\ Mirrored(b)
    BY DEF Sound
  <2>8. Counted(c) /\ Placed(c) /\ Booked(own, c) /\ Covered(own, mk, c, q, k + 1)
    BY <2>6, <2>7, CountedKept, PlacedKept, BookedKept, CoveredKept
  <2>9. /\ AddedOnce(c, q, k + 1) /\ Unknown(own, mk, c, q, k + 1)
        /\ (clean => InOrder(own, mk, c, q, k + 1)) /\ Mirrored(c)
    BY <2>6, <2>7, AddedOnceKept, UnknownKept, InOrderKept, MirroredKept
  <2>10. Belief(own, c)
    BY <2>3 DEF HeardAs
  <2>11. Sound(own, mk, clean, c, q, k + 1)
    BY <2>8, <2>9, <2>10 DEF Sound
  <2> QED BY <2>1, <2>11 DEF msg
<1> QED BY <1>2, <1>3

-----------------------------------------------------------------------------
(* All that is handed on, and all that is acknowledged.                    *)

\* q is handed, and then rest.
Continues(q, handed, from) ==
  /\ from \in Nat /\ from + Len(handed) <= Len(q)
  /\ \A i \in 1..Len(handed) : handed[i] = q[from + i]

LEMMA HeedTold ==
  ASSUME NEW own, NEW b, Belief(own, b), NEW msg, IsText(own, msg)
  PROVE  /\ Heed(b, msg).refs = b.refs
         /\ \A r : Told(Heed(b, msg).seen, r) => Told(b.seen, r) \/ IsAdd(msg, r)
<1>1. CASE ~IsMessage(msg)
  BY <1>1 DEF Heed
<1>2. CASE IsMessage(msg)
  <2> DEFINE told == [b EXCEPT !.seen = Append(@, msg)]
             a == Located(told, msg)
             d == Detected(a, msg)
  <2>1. "seen" \in DOMAIN b /\ Heed(b, msg) = Applied(d, msg)
    BY <1>2 DEF Heed, OnMessage, Belief, Shaped
  <2>2. told.seen = Append(b.seen, msg) /\ told.refs = b.refs
    BY <2>1
  <2>3. a.seen = told.seen /\ a.refs = told.refs
    <3> HIDE DEF told
    <3> QED BY DEF Located
  <2>4. d.seen = a.seen /\ d.refs = a.refs
    <3> HIDE DEF a
    <3> QED BY DEF Detected, FillCounted
  <2>5. Applied(d, msg).seen = d.seen /\ Applied(d, msg).refs = d.refs
    <3> HIDE DEF d
    <3> QED BY DEF Applied
  <2> HIDE DEF told, a, d
  <2>6. Heed(b, msg).seen = Append(b.seen, msg) /\ Heed(b, msg).refs = b.refs
    BY <2>1, <2>2, <2>3, <2>4, <2>5
  <2> DEFINE seen == b.seen
             more == Append(seen, msg)
  <2>7. IsSeen(own, seen)
    BY DEF Belief, IsSeen
  <2> HIDE DEF seen
  <2>8. Grows(seen, more, msg, Len(seen))
    BY <2>7, SeenGrows
  <2> HIDE DEF more
  <2>9. \A r : Told(more, r) => Told(seen, r) \/ IsAdd(msg, r)
    BY <2>8, ToldGrows
  <2> QED BY <2>6, <2>9 DEF seen, more
<1> QED BY <1>1, <1>2

\* Only what was handed on is told by it, and no reference is bound.
ToldOf(b, c, msgs, n) ==
  /\ c.refs = b.refs
  /\ \A r : Told(c.seen, r) => Told(b.seen, r) \/ \E i \in 1..n : IsAdd(msgs[i], r)

LEMMA HeededSound ==
  ASSUME NEW own, OwnOnes(own), NEW mk, IsMakers(mk), NEW clean, NEW b, NEW q, IsSeen(own, q),
         NEW handed, IsSeen(own, handed), NEW from, Continues(q, handed, from),
         Sound(own, mk, clean, b, q, from)
  PROVE  /\ Sound(own, mk, clean, Heeded(b, handed), q, from + Len(handed))
         /\ ToldOf(b, Heeded(b, handed), handed, Len(handed))
<1> DEFINE n == Len(handed)
           v == Heeded(b, handed)
<1>1. n \in Nat /\ Spans(handed, n) /\ Len(q) \in Nat
  BY LenProperties DEF Spans, IsSeen
<1>2. Folded("heed", b, handed, v)
  <2>1. v = FoldLeft(Heed, b, handed)
    BY DEF Heeded
  <2> HIDE DEF v, n
  <2> QED BY <1>1, <2>1, HeedFolded
<1>3. PICK run : IsRun("heed", run, b, handed, n) /\ run[n] = v
  <2> HIDE DEF n, v
  <2> QED BY <1>1, <1>2, FoldIsRun
<1>4. from \in Nat /\ from + n <= Len(q) /\ \A i \in 1..n : handed[i] = q[from + i]
  BY DEF Continues
<1> DEFINE B == {k \in 0..n : Sound(own, mk, clean, run[k], q, from + k) /\ ToldOf(b, run[k], handed, k)}
<1> HIDE DEF n, v
<1>5. 0 \in B
  <2>1. run[0] = b /\ from + 0 = from
    BY <1>3, <1>4 DEF IsRun
  <2> QED BY <1>1, <2>1 DEF ToldOf
<1>6. ASSUME NEW k \in 0..(n - 1), k \in B PROVE k + 1 \in B
  <2>1. k + 1 \in 1..n /\ (k + 1) - 1 = k /\ k + 1 \in 0..n
    BY <1>1
  <2>2. run[k + 1] = Heed(run[k], handed[k + 1])
    <3>1. run[k + 1] = Step("heed", run[(k + 1) - 1], handed[k + 1])
      BY <1>3, <2>1 DEF IsRun
    <3> QED BY <2>1, <3>1 DEF Step
  <2> DEFINE a == run[k]
             j == from + k
  <2>3. Sound(own, mk, clean, a, q, j) /\ ToldOf(b, a, handed, k)
    BY <1>6
  <2>4. j \in 0..(Len(q) - 1) /\ handed[k + 1] = q[j + 1] /\ j + 1 = from + (k + 1)
    BY <1>1, <1>4, <2>1
  <2> HIDE DEF a, j
  <2>5. Sound(own, mk, clean, Heed(a, q[j + 1]), q, j + 1)
    BY <2>3, <2>4, HeedSound
  <2>6. Sound(own, mk, clean, run[k + 1], q, from + (k + 1))
    BY <2>2, <2>4, <2>5 DEF a
  <2>7. ToldOf(b, run[k + 1], handed, k + 1)
    <3> DEFINE msg == handed[k + 1]
    <3>1. Belief(own, a) /\ IsText(own, msg)
      <4>1. k + 1 \in DOMAIN handed
        BY <1>1, <2>1 DEF Spans
      <4> QED BY <2>3, <4>1, SeenText DEF Sound
    <3>2. run[k + 1] = Heed(a, msg)
      BY <2>2 DEF a
    <3> HIDE DEF msg
    <3>3. /\ run[k + 1].refs = a.refs
          /\ \A r : Told(run[k + 1].seen, r) => Told(a.seen, r) \/ IsAdd(msg, r)
      BY <3>1, <3>2, HeedTold
    <3>4. \A i \in 1..k : i \in 1..(k + 1)
      OBVIOUS
    <3> QED BY <2>1, <2>3, <3>3, <3>4 DEF ToldOf, msg
  <2> QED BY <2>1, <2>6, <2>7
<1>7. B = 0..n
  <2>1. B \in SUBSET (0..n)
    OBVIOUS
  <2> HIDE DEF B
  <2> QED BY <1>1, <1>5, <1>6, <2>1, Climb
<1>8. Sound(own, mk, clean, run[n], q, from + n) /\ ToldOf(b, run[n], handed, n)
  <2>1. n \in B
    BY <1>1, <1>7
  <2> QED BY <2>1
<1> QED BY <1>3, <1>8 DEF n, v

\* Acknowledgements of orders the exchange has accepted.
Accepted(own, mk, acks) == \A i \in DOMAIN acks : acks[i].ref \in own /\ acks[i].ref \in DOMAIN mk

LEMMA BoundAllSound ==
  ASSUME NEW own, IsFiniteSet(own), NEW mk, NEW clean, NEW b, NEW q, NEW j, Sound(own, mk, clean, b, q, j),
         NEW acks, NEW n \in Nat, Spans(acks, n), Accepted(own, mk, acks)
  PROVE  /\ Sound(own, mk, clean, BoundAll(b, acks), q, j)
         /\ BoundAll(b, acks).refs = b.refs \cup {acks[i].ref : i \in 1..n}
         /\ BoundAll(b, acks).seen = b.seen /\ BoundAll(b, acks).book = b.book
<1> DEFINE v == BoundAll(b, acks)
<1>2. Folded("ack", b, acks, v)
  <2>1. v = FoldLeft(AckBound, b, acks)
    BY DEF BoundAll
  <2> HIDE DEF v
  <2> QED BY <2>1, AckFolded
<1>3. PICK run : IsRun("ack", run, b, acks, n) /\ run[n] = v
  <2> HIDE DEF v
  <2> QED BY <1>2, FoldIsRun
<1> DEFINE Good(a, k) == /\ Sound(own, mk, clean, a, q, j) /\ a.refs = b.refs \cup {acks[i].ref : i \in 1..k}
                         /\ a.seen = b.seen /\ a.book = b.book
           B == {k \in 0..n : Good(run[k], k)}
<1> HIDE DEF v
<1>5. 0 \in B
  <2>1. run[0] = b /\ 1..0 = {}
    BY <1>3 DEF IsRun
  <2>2. {acks[i].ref : i \in 1..0} = {}
    BY <2>1
  <2> QED BY <2>1, <2>2
<1>6. ASSUME NEW k \in 0..(n - 1), k \in B PROVE k + 1 \in B
  <2>1. k + 1 \in 1..n /\ (k + 1) - 1 = k /\ k + 1 \in 0..n
    OBVIOUS
  <2> DEFINE a == run[k]
             r == acks[k + 1].ref
  <2>2. run[k + 1] = Bound(a, r)
    <3>1. run[k + 1] = Step("ack", run[(k + 1) - 1], acks[k + 1])
      BY <1>3, <2>1 DEF IsRun
    <3> QED BY <2>1, <3>1 DEF Step, AckBound
  <2>3. r \in own /\ r \in DOMAIN mk
    BY <2>1 DEF Accepted, Spans
  <2>4. Good(a, k)
    BY <1>6
  <2>5. Sound(own, mk, clean, a, q, j) /\ Belief(own, a)
    BY <2>4 DEF Sound
  <2> HIDE DEF a, r
  <2>6. Sound(own, mk, clean, Bound(a, r), q, j)
    BY <2>3, <2>5, BoundSound
  <2>7. Bound(a, r).refs = a.refs \cup {r} /\ Bound(a, r).seen = a.seen /\ Bound(a, r).book = a.book
    BY <2>3, <2>5, BoundIs DEF BoundTo
  <2>8. {acks[i].ref : i \in 1..(k + 1)} = {acks[i].ref : i \in 1..k} \cup {r}
    <3>1. 1..(k + 1) = (1..k) \cup {k + 1}
      OBVIOUS
    <3> QED BY <3>1 DEF r
  <2>9. Good(run[k + 1], k + 1)
    BY <2>2, <2>4, <2>6, <2>7, <2>8
  <2> QED BY <2>1, <2>9
<1>7. B = 0..n
  <2>1. B \in SUBSET (0..n)
    OBVIOUS
  <2> HIDE DEF B
  <2> QED BY <1>5, <1>6, <2>1, Climb
<1>8. Good(run[n], n)
  <2>1. n \in B
    BY <1>7
  <2> QED BY <2>1
<1> QED BY <1>3, <1>8 DEF v

-----------------------------------------------------------------------------
(* What the exchange says next.                                            *)

LEMMA ToComeGrows ==
  ASSUME NEW own, OwnOnes(own), NEW q, IsSeen(own, q), NEW p, IsSeen(own, p), NEW msg, NEW n,
         Grows(q, p, msg, n), NEW r
  PROVE  /\ ToCome(p, 0, r) = ToCome(q, 0, r) + ExecShares(msg, r)
         /\ ToCome(q, 0, r) \in Nat /\ ExecShares(msg, r) \in Nat
<1> DEFINE f == ComingTerms(q, r)
           g == ComingTerms(p, r)
           U == Rest(q, 0)
           V == Rest(p, 0)
           x == n + 1
<1>1. /\ n \in Nat /\ U = 1..n /\ V = U \union {x} /\ x \notin U /\ DOMAIN p = V /\ DOMAIN q = U
      /\ p[x] = msg /\ \A i \in U : p[i] = q[i]
  BY DEF Grows, Rest
<1>2. /\ IsFiniteSet(U) /\ ToCome(q, 0, r) \in Nat
      /\ (\A i \in DOMAIN q : f[i] \in Nat) /\ \A i \in DOMAIN p : g[i] \in Nat
  BY ComingType
<1>3. g[x] = ExecShares(msg, r) /\ \A i \in U : f[i] = g[i]
  BY <1>1 DEF ComingTerms
<1>4. ToCome(q, 0, r) = SumFunctionOnSet(f, U) /\ ToCome(p, 0, r) = SumFunctionOnSet(g, V)
  BY ToComeIs
<1> HIDE DEF f, g, U, V, x
<1>5. SumFunctionOnSet(g, U \union {x}) = g[x] + SumFunctionOnSet(g, U)
  <2>1. \A i \in U \union {x} : g[i] \in Int
    BY <1>1, <1>2
  <2> QED BY <1>1, <1>2, <2>1, SumAdd
<1>6. SumFunctionOnSet(g, U) = SumFunctionOnSet(f, U)
  BY <1>2, <1>3, SumSame
<1>7. g[x] \in Nat
  BY <1>1, <1>2
<1> QED BY <1>1, <1>2, <1>3, <1>4, <1>5, <1>6, <1>7

LEMMA NothingToCome ==
  ASSUME NEW own, OwnOnes(own), NEW q, IsSeen(own, q), NEW r, \A i \in Rest(q, 0) : ~IsExec(q[i], r)
  PROVE  ToCome(q, 0, r) = 0
<1> DEFINE f == ComingTerms(q, r)
           U == Rest(q, 0)
<1>1. IsFiniteSet(U) /\ U \subseteq DOMAIN q
  BY ComingType
<1>2. \A i \in U : f[i] = 0
  BY <1>1 DEF ComingTerms, ExecShares
<1>3. ToCome(q, 0, r) = SumFunctionOnSet(f, U)
  BY ToComeIs
<1> HIDE DEF f, U
<1> QED BY <1>1, <1>2, <1>3, SumZeros

\* An execution takes of what rests, an add is of a new order and brings what
\* rests of it, and nothing is added twice.
SaidNext(own, mk, mk2, b, q, msg) ==
  /\ DOMAIN mk \subseteq DOMAIN mk2
  /\ \A r \in own :
       /\ IsExec(msg, r) => r \in DOMAIN mk /\ Resting(mk2, r) + msg.shares = Resting(mk, r)
       /\ IsAdd(msg, r) => r \notin DOMAIN mk /\ r \in DOMAIN mk2 /\ msg.shares = Resting(mk2, r)
       /\ ~IsExec(msg, r) /\ ~IsAdd(msg, r) => Resting(mk2, r) = Resting(mk, r)
  /\ msg.type = "A" => ~Told(b.seen, msg.ref) /\ \A i \in DOMAIN q : ~IsAdd(q[i], msg.ref)

LEMMA SaidSound ==
  ASSUME NEW own, OwnOnes(own), NEW mk, IsMakers(mk), NEW mk2, IsMakers(mk2), NEW clean, NEW b,
         NEW q, IsSeen(own, q), NEW p, IsSeen(own, p), NEW msg, MessageOf(own, msg),
         NEW n, Grows(q, p, msg, n), Sound(own, mk, clean, b, q, 0), SaidNext(own, mk, mk2, b, q, msg)
  PROVE  Sound(own, mk2, clean, b, p, 0)
<1>1. /\ n \in Nat /\ Rest(q, 0) = 1..n /\ Rest(p, 0) = 1..(n + 1) /\ DOMAIN q = 1..n /\ p[n + 1] = msg
      /\ (\A i \in 1..(n + 1) : i \in 1..n \/ i = n + 1) /\ \A i \in 1..n : p[i] = q[i] /\ i \in 1..(n + 1)
  BY DEF Grows, Rest
<1>2. ASSUME NEW r \in own
      PROVE  /\ ToCome(p, 0, r) = ToCome(q, 0, r) + ExecShares(msg, r) /\ ToCome(q, 0, r) \in Nat
             /\ ExecShares(msg, r) \in Nat /\ Resting(mk, r) \in Nat /\ Resting(mk2, r) \in Nat
             /\ ~IsAdd(msg, r) => ToCome(p, 0, r) + Resting(mk2, r) = ToCome(q, 0, r) + Resting(mk, r)
  <2>1. /\ ToCome(p, 0, r) = ToCome(q, 0, r) + ExecShares(msg, r) /\ ToCome(q, 0, r) \in Nat
        /\ ExecShares(msg, r) \in Nat
    BY ToComeGrows
  <2>2. Resting(mk, r) \in Nat /\ Resting(mk2, r) \in Nat
    BY RestingType
  <2>3. CASE IsExec(msg, r)
    <3>1. ExecShares(msg, r) = msg.shares /\ Resting(mk2, r) + msg.shares = Resting(mk, r)
      BY <2>3 DEF ExecShares, SaidNext
    <3> QED BY <2>1, <2>2, <3>1
  <2>4. CASE ~IsExec(msg, r) /\ ~IsAdd(msg, r)
    <3>1. ExecShares(msg, r) = 0 /\ Resting(mk2, r) = Resting(mk, r)
      BY <2>4 DEF ExecShares, SaidNext
    <3> QED BY <2>1, <2>2, <3>1
  <2>5. CASE IsAdd(msg, r)
    BY <2>1, <2>2, <2>5
  <2> QED BY <2>3, <2>4, <2>5
<1>3. ASSUME NEW r \in own, IsAdd(msg, r)
      PROVE  /\ ~Told(b.seen, r) /\ (\A i \in 1..n : ~IsAdd(q[i], r) /\ ~IsExec(q[i], r))
             /\ ToCome(p, 0, r) = 0 /\ msg.shares = Resting(mk2, r)
  <2>1. r \in own \ DOMAIN mk /\ msg.shares = Resting(mk2, r)
    BY <1>3 DEF SaidNext
  <2>2. ~Told(b.seen, r) /\ \A i \in Rest(q, 0) : ~IsAdd(q[i], r) /\ ~IsExec(q[i], r)
    BY <2>1 DEF Sound, Unknown
  <2>3. ToCome(q, 0, r) = 0
    BY <2>2, NothingToCome
  <2>4. ExecShares(msg, r) = 0
    BY <1>3 DEF ExecShares, IsAdd, IsExec
  <2>5. ToCome(p, 0, r) = 0
    BY <1>2, <2>3, <2>4
  <2> QED BY <1>1, <2>1, <2>2, <2>5
<1>4. Covered(own, mk2, b, p, 0)
  <2> SUFFICES ASSUME NEW r \in own
               PROVE  /\ Told(b.seen, r) => Left(b, r) >= ToCome(p, 0, r) + Resting(mk2, r)
                      /\ \A i \in Rest(p, 0) : IsAdd(p[i], r) =>
                           /\ \A j \in (0 + 1)..(i - 1) : ~IsExec(p[j], r)
                           /\ p[i].shares >= ToCome(p, 0, r) + Resting(mk2, r)
    BY DEF Covered
  <2>1. CASE IsAdd(msg, r)
    <3>1. ~Told(b.seen, r)
      BY <1>3, <2>1
    <3>2. ASSUME NEW i \in Rest(p, 0), IsAdd(p[i], r)
          PROVE  /\ \A j \in (0 + 1)..(i - 1) : ~IsExec(p[j], r)
                 /\ p[i].shares >= ToCome(p, 0, r) + Resting(mk2, r)
      <4>1. i = n + 1 /\ p[i] = msg
        BY <1>1, <1>3, <2>1, <3>2
      <4>2. \A j \in (0 + 1)..(i - 1) : j \in 1..n
        BY <1>1, <4>1
      <4>3. Resting(mk2, r) \in Nat /\ ToCome(p, 0, r) = 0 /\ msg.shares = Resting(mk2, r)
        BY <1>2, <1>3, <2>1
      <4>4. p[i].shares >= ToCome(p, 0, r) + Resting(mk2, r)
        BY <4>1, <4>3
      <4> QED BY <1>1, <1>3, <2>1, <4>2, <4>4
    <3> QED BY <3>1, <3>2
  <2>2. CASE ~IsAdd(msg, r)
    <3>1. /\ Told(b.seen, r) => Left(b, r) >= ToCome(q, 0, r) + Resting(mk, r)
          /\ \A i \in Rest(q, 0) : IsAdd(q[i], r) =>
               /\ \A j \in (0 + 1)..(i - 1) : ~IsExec(q[j], r)
               /\ q[i].shares >= ToCome(q, 0, r) + Resting(mk, r)
      BY DEF Sound, Covered
    <3>2. ToCome(p, 0, r) + Resting(mk2, r) = ToCome(q, 0, r) + Resting(mk, r)
      BY <1>2, <2>2
    <3>3. ASSUME NEW i \in Rest(p, 0), IsAdd(p[i], r)
          PROVE  /\ \A j \in (0 + 1)..(i - 1) : ~IsExec(p[j], r)
                 /\ p[i].shares >= ToCome(p, 0, r) + Resting(mk2, r)
      <4>1. i \in 1..n /\ p[i] = q[i]
        BY <1>1, <2>2, <3>3
      <4>2. \A j \in (0 + 1)..(i - 1) : j \in 1..n
        BY <1>1, <4>1
      <4> QED BY <1>1, <3>1, <3>2, <3>3, <4>1, <4>2
    <3> QED BY <3>1, <3>2, <3>3
  <2> QED BY <2>1, <2>2
<1>5. AddedOnce(b, p, 0)
  <2>1. AddedOnce(b, q, 0)
    BY DEF Sound
  <2>2. msg.type = "A" => ~Told(b.seen, msg.ref) /\ \A i \in 1..n : ~IsAdd(q[i], msg.ref)
    BY <1>1 DEF SaidNext
  <2>3. ASSUME NEW i \in Rest(p, 0), NEW j \in Rest(p, 0), p[i].type = "A", IsAdd(p[j], p[i].ref)
        PROVE  i = j
    <3>1. CASE i \in 1..n /\ j \in 1..n
      BY <1>1, <2>1, <2>3, <3>1 DEF AddedOnce
    <3>2. CASE i \in 1..n /\ j = n + 1
      BY <1>1, <2>2, <2>3, <3>2 DEF IsAdd
    <3>3. CASE i = n + 1 /\ j \in 1..n
      BY <1>1, <2>2, <2>3, <3>3 DEF IsAdd
    <3> QED BY <1>1, <3>1, <3>2, <3>3
  <2>4. \A i \in Rest(p, 0) : p[i].type = "A" => ~Told(b.seen, p[i].ref)
    BY <1>1, <2>1, <2>2 DEF AddedOnce
  <2> QED BY <2>1, <2>3, <2>4 DEF AddedOnce
<1>6. Unknown(own, mk2, b, p, 0)
  <2>1. ASSUME NEW r \in own \ DOMAIN mk2 PROVE ~IsAdd(msg, r) /\ ~IsExec(msg, r) /\ r \in own \ DOMAIN mk
    BY DEF SaidNext
  <2> QED BY <1>1, <2>1 DEF Sound, Unknown
<1>7. clean => InOrder(own, mk2, b, p, 0)
  <2> SUFFICES ASSUME InOrder(own, mk, b, q, 0) PROVE InOrder(own, mk2, b, p, 0)
    BY DEF Sound
  <2>1. ASSUME NEW r \in own, Resting(mk, r) > 0, ~Told(b.seen, r)
        PROVE  \E i \in 1..n : IsAdd(p[i], r)
    BY <1>1, <2>1 DEF InOrder
  <2>2. ASSUME NEW r \in own, NEW i \in Rest(p, 0), IsExec(p[i], r), ~Told(b.seen, r)
        PROVE  \E j \in (0 + 1)..(i - 1) : IsAdd(p[j], r)
    <3>1. CASE i \in 1..n
      <4>1. PICK j \in (0 + 1)..(i - 1) : IsAdd(q[j], r)
        BY <1>1, <2>2, <3>1 DEF InOrder
      <4>2. j \in 1..n
        BY <1>1, <3>1, <4>1
      <4> QED BY <1>1, <4>1, <4>2
    <3>2. CASE i = n + 1
      <4>1. IsExec(msg, r) /\ msg.shares >= 1 /\ msg.shares \in Nat
        BY <1>1, <2>2, <3>2 DEF MessageOf, IsExec
      <4>2. Resting(mk2, r) + msg.shares = Resting(mk, r)
        BY <4>1 DEF SaidNext
      <4>3. Resting(mk, r) > 0
        BY <1>2, <4>1, <4>2
      <4>4. PICK j \in 1..n : IsAdd(p[j], r)
        BY <2>1, <2>2, <4>3
      <4>5. j \in (0 + 1)..(i - 1)
        BY <1>1, <3>2
      <4> QED BY <4>4, <4>5
    <3> QED BY <1>1, <3>1, <3>2
  <2>3. ASSUME NEW r \in own, Resting(mk2, r) > 0, ~Told(b.seen, r)
        PROVE  \E i \in Rest(p, 0) : IsAdd(p[i], r)
    <3>1. CASE IsAdd(msg, r)
      <4>1. n + 1 \in Rest(p, 0)
        BY <1>1
      <4> QED BY <1>1, <3>1, <4>1
    <3>2. CASE ~IsAdd(msg, r)
      <4>1. Resting(mk, r) > 0
        <5>1. CASE IsExec(msg, r)
          <6>1. msg.shares \in Nat /\ Resting(mk2, r) + msg.shares = Resting(mk, r)
            BY <5>1 DEF SaidNext, MessageOf, IsExec
          <6> QED BY <1>2, <2>3, <6>1
        <5>2. CASE ~IsExec(msg, r)
          BY <2>3, <3>2, <5>2 DEF SaidNext
        <5> QED BY <5>1, <5>2
      <4> QED BY <1>1, <2>1, <2>3, <4>1
    <3> QED BY <3>1, <3>2
  <2>4. \A i \in OwnExecs(b.seen) : Added(b.seen, i)
    BY DEF InOrder
  <2> QED BY <2>2, <2>3, <2>4 DEF InOrder
<1> QED BY <1>4, <1>5, <1>6, <1>7 DEF Sound

\* A message is lost.
Dims(q, p, x) ==
  /\ DOMAIN p = DOMAIN q /\ x \in DOMAIN q /\ p[x].type = "lost"
  /\ Len(p) = Len(q) /\ \A i \in DOMAIN q \ {x} : p[i] = q[i]

LEMMA DimmedToCome ==
  ASSUME NEW own, OwnOnes(own), NEW q, IsSeen(own, q), NEW p, IsSeen(own, p), NEW x, Dims(q, p, x), NEW r
  PROVE  ToCome(p, 0, r) <= ToCome(q, 0, r) /\ ToCome(p, 0, r) \in Nat /\ ToCome(q, 0, r) \in Nat
<1> DEFINE f == ComingTerms(q, r)
           g == ComingTerms(p, r)
           U == Rest(q, 0)
<1>1. U = DOMAIN q /\ U = DOMAIN p /\ Rest(p, 0) = U
  BY LenProperties DEF Rest, IsSeen, Dims
<1>2. /\ IsFiniteSet(U) /\ ToCome(q, 0, r) \in Nat /\ ToCome(p, 0, r) \in Nat
      /\ (\A i \in DOMAIN q : f[i] \in Nat) /\ \A i \in DOMAIN p : g[i] \in Nat
  BY ComingType
<1>3. x \in U /\ g[x] = 0 /\ \A i \in U \ {x} : f[i] = g[i]
  BY <1>1 DEF ComingTerms, ExecShares, IsExec, Dims
<1>4. ToCome(q, 0, r) = SumFunctionOnSet(f, U) /\ ToCome(p, 0, r) = SumFunctionOnSet(g, U)
  BY <1>1, ToComeIs
<1> HIDE DEF f, g, U
<1>5. \A i \in U : f[i] \in Int /\ g[i] \in Int
  BY <1>1, <1>2
<1>6. SumFunctionOnSet(g, U) = SumFunctionOnSet(f, U) + g[x] - f[x]
  BY <1>2, <1>3, <1>5, SumChange
<1>7. f[x] \in Nat
  BY <1>1, <1>2, <1>3
<1> QED BY <1>2, <1>3, <1>4, <1>6, <1>7

LEMMA DimmedSound ==
  ASSUME NEW own, OwnOnes(own), NEW mk, IsMakers(mk), NEW clean, NEW b, NEW q, IsSeen(own, q),
         NEW p, IsSeen(own, p), NEW x, Dims(q, p, x), Sound(own, mk, clean, b, q, 0)
  PROVE  Sound(own, mk, FALSE, b, p, 0)
<1>1. Rest(p, 0) = Rest(q, 0) /\ Rest(q, 0) = DOMAIN q /\ Len(q) \in Nat /\ Rest(q, 0) = 1..Len(q)
  BY LenProperties DEF Rest, IsSeen, Dims
<1>2. \A i \in Rest(q, 0) : p[i] = q[i] \/ p[i].type = "lost"
  BY <1>1 DEF Dims
<1>3. \A i \in Rest(q, 0) :
        /\ p[i].type = "A" => p[i] = q[i]
        /\ \A r : (IsAdd(p[i], r) => p[i] = q[i]) /\ (IsExec(p[i], r) => p[i] = q[i])
  BY <1>2 DEF IsAdd, IsExec
<1>4. Covered(own, mk, b, p, 0)
  <2> SUFFICES ASSUME NEW r \in own
               PROVE  /\ Told(b.seen, r) => Left(b, r) >= ToCome(p, 0, r) + Resting(mk, r)
                      /\ \A i \in Rest(p, 0) : IsAdd(p[i], r) =>
                           /\ \A j \in (0 + 1)..(i - 1) : ~IsExec(p[j], r)
                           /\ p[i].shares >= ToCome(p, 0, r) + Resting(mk, r)
    BY DEF Covered
  <2>1. /\ Told(b.seen, r) => Left(b, r) >= ToCome(q, 0, r) + Resting(mk, r)
        /\ \A i \in Rest(q, 0) : IsAdd(q[i], r) =>
             /\ \A j \in (0 + 1)..(i - 1) : ~IsExec(q[j], r)
             /\ q[i].shares >= ToCome(q, 0, r) + Resting(mk, r)
    BY DEF Sound, Covered
  <2>2. /\ ToCome(p, 0, r) <= ToCome(q, 0, r) /\ ToCome(p, 0, r) \in Nat /\ ToCome(q, 0, r) \in Nat
        /\ Resting(mk, r) \in Nat
    BY DimmedToCome, RestingType
  <2>3. Left(b, r) \in Nat
    BY LeftType DEF Sound
  <2>4. ASSUME NEW i \in Rest(p, 0), IsAdd(p[i], r)
        PROVE  /\ \A j \in (0 + 1)..(i - 1) : ~IsExec(p[j], r)
               /\ p[i].shares >= ToCome(p, 0, r) + Resting(mk, r)
    <3>1. p[i] = q[i] /\ i \in Rest(q, 0) /\ i \in DOMAIN q
      BY <1>1, <1>3, <2>4
    <3>2. \A j \in (0 + 1)..(i - 1) : j \in Rest(q, 0)
      BY <1>1, <3>1
    <3>3. q[i].shares \in Nat
      <4>1. MessageOf(own, q[i])
        BY <3>1, SeenText
      <4> QED BY <2>4, <3>1, <4>1 DEF MessageOf, IsAdd
    <3>4. p[i].shares >= ToCome(p, 0, r) + Resting(mk, r)
      BY <2>1, <2>2, <2>4, <3>1, <3>3
    <3> QED BY <1>3, <2>1, <2>4, <3>1, <3>2, <3>4
  <2>5. Told(b.seen, r) => Left(b, r) >= ToCome(p, 0, r) + Resting(mk, r)
    BY <2>1, <2>2, <2>3
  <2> QED BY <2>4, <2>5
<1>5. AddedOnce(b, p, 0)
  <2>1. AddedOnce(b, q, 0)
    BY DEF Sound
  <2>2. \A i, j \in Rest(q, 0) : p[i].type = "A" /\ IsAdd(p[j], p[i].ref) => i = j
    <3> SUFFICES ASSUME NEW i \in Rest(q, 0), NEW j \in Rest(q, 0), p[i].type = "A", IsAdd(p[j], p[i].ref)
                 PROVE  i = j
      OBVIOUS
    <3>1. p[i] = q[i] /\ p[j] = q[j]
      BY <1>3
    <3> QED BY <2>1, <3>1 DEF AddedOnce
  <2> QED BY <1>1, <1>3, <2>1, <2>2 DEF AddedOnce
<1>6. Unknown(own, mk, b, p, 0)
  <2>1. Unknown(own, mk, b, q, 0)
    BY DEF Sound
  <2> QED BY <1>1, <1>3, <2>1 DEF Unknown
<1> QED BY <1>4, <1>5, <1>6 DEF Sound

\* An order that trades on arrival never rests.
LEMMA MakersSound ==
  ASSUME NEW own, NEW mk, NEW mk2, NEW clean, NEW b, NEW q, NEW k, Sound(own, mk, clean, b, q, k),
         DOMAIN mk \subseteq DOMAIN mk2, \A r \in own : Resting(mk2, r) = Resting(mk, r)
  PROVE  Sound(own, mk2, clean, b, q, k)
<1>1. Covered(own, mk2, b, q, k)
  BY DEF Sound, Covered
<1>2. Unknown(own, mk2, b, q, k)
  <2>1. Unknown(own, mk, b, q, k)
    BY DEF Sound
  <2>2. \A r \in own \ DOMAIN mk2 : r \in own \ DOMAIN mk
    OBVIOUS
  <2> QED BY <2>1, <2>2 DEF Unknown
<1>3. clean => InOrder(own, mk2, b, q, k)
  BY DEF Sound, InOrder
<1> QED BY <1>1, <1>2, <1>3 DEF Sound

\* p is what is behind the first m messages of q.
Remains(q, p, m) ==
  m \in 0..Len(q) /\ Len(p) = Len(q) - m /\ \A i \in 1..Len(p) : p[i] = q[m + i]

LEMMA RemainsToCome ==
  ASSUME NEW own, OwnOnes(own), NEW q, IsSeen(own, q), NEW p, IsSeen(own, p), NEW m, Remains(q, p, m), NEW r
  PROVE  ToCome(p, 0, r) = ToCome(q, m, r)
<1> DEFINE f == ComingTerms(q, r)
           g == ComingTerms(p, r)
           n == Len(p)
<1>1. /\ Len(q) \in Nat /\ n \in Nat /\ DOMAIN q = 1..Len(q) /\ DOMAIN p = 1..n /\ m \in Nat
      /\ n = Len(q) - m
  BY LenProperties DEF IsSeen, Remains
<1>2. \A i \in 1..n : i + m \in DOMAIN q /\ p[i] = q[i + m]
  <2>1. \A i \in 1..n : i + m \in DOMAIN q /\ i + m = m + i
    BY <1>1
  <2> QED BY <2>1 DEF Remains
<1>3. \A i \in DOMAIN q : f[i] \in Nat
  BY <1>1, ComingType
<1>4. \A i \in 1..n : g[i] = f[i + m]
  BY <1>1, <1>2 DEF ComingTerms
<1>5. Rest(p, 0) = 1..n /\ Rest(q, m) = (m + 1)..(m + n)
  BY <1>1 DEF Rest
<1>6. ToCome(q, m, r) = SumFunctionOnSet(f, Rest(q, m)) /\ ToCome(p, 0, r) = SumFunctionOnSet(g, Rest(p, 0))
  BY ToComeIs
<1> HIDE DEF f, g, n
<1>7. \A i \in 1..n : f[i + m] \in Int /\ g[i] = f[i + m]
  BY <1>2, <1>3, <1>4
<1>8. SumFunctionOnSet(f, (m + 1)..(m + n)) = SumFunctionOnSet(g, 1..n)
  <2>1. n \in Nat /\ m \in Nat
    BY <1>1
  <2> QED BY <1>7, <2>1, SumShift, ZenonT(30)
<1> QED BY <1>5, <1>6, <1>8

LEMMA RemainsSound ==
  ASSUME NEW own, OwnOnes(own), NEW mk, NEW clean, NEW b, NEW q, IsSeen(own, q),
         NEW p, IsSeen(own, p), NEW m, Remains(q, p, m), Sound(own, mk, clean, b, q, m)
  PROVE  Sound(own, mk, clean, b, p, 0)
<1> DEFINE n == Len(p)
<1>1. /\ Len(q) \in Nat /\ n \in Nat /\ m \in Nat /\ n = Len(q) - m
  BY LenProperties DEF IsSeen, Remains
<1>2. /\ Rest(p, 0) = 1..n /\ \A i \in 1..n : m + i \in Rest(q, m) /\ p[i] = q[m + i]
  <2>1. Rest(p, 0) = 1..n /\ \A i \in 1..n : m + i \in Rest(q, m)
    BY <1>1 DEF Rest
  <2> QED BY <2>1 DEF Remains
<1>3. \A i \in Rest(q, m) : i - m \in 1..n /\ m + (i - m) = i
  BY <1>1 DEF Rest
<1>4. \A r : ToCome(p, 0, r) = ToCome(q, m, r)
  BY RemainsToCome
<1> HIDE DEF n
<1>5. \A i \in 1..n : i \in Nat /\ m + i \in Nat
  BY <1>1
<1>6. Covered(own, mk, b, p, 0)
  <2> SUFFICES ASSUME NEW r \in own, NEW i \in 1..n, IsAdd(p[i], r)
               PROVE  /\ \A j \in (0 + 1)..(i - 1) : ~IsExec(p[j], r)
                      /\ p[i].shares >= ToCome(q, m, r) + Resting(mk, r)
    BY <1>2, <1>4 DEF Sound, Covered
  <2>1. m + i \in Rest(q, m) /\ IsAdd(q[m + i], r) /\ p[i] = q[m + i]
    BY <1>2
  <2>2. /\ \A j \in (m + 1)..((m + i) - 1) : ~IsExec(q[j], r)
        /\ p[i].shares >= ToCome(q, m, r) + Resting(mk, r)
    BY <2>1 DEF Sound, Covered
  <2>3. \A j \in (0 + 1)..(i - 1) : j \in 1..n /\ m + j \in (m + 1)..((m + i) - 1)
    BY <1>1, <1>5
  <2> QED BY <1>2, <2>2, <2>3
<1>7. AddedOnce(b, p, 0)
  <2>1. AddedOnce(b, q, m)
    BY DEF Sound
  <2>2. ASSUME NEW i \in 1..n, NEW j \in 1..n, p[i].type = "A", IsAdd(p[j], p[i].ref) PROVE i = j
    <3>1. m + i = m + j
      BY <1>2, <2>1, <2>2 DEF AddedOnce
    <3> QED BY <1>1, <1>5, <3>1
  <2> QED BY <1>2, <2>1, <2>2 DEF AddedOnce
<1>8. Unknown(own, mk, b, p, 0)
  <2>1. Unknown(own, mk, b, q, m)
    BY DEF Sound
  <2> QED BY <1>2, <2>1 DEF Unknown
<1>9. clean => InOrder(own, mk, b, p, 0)
  <2> SUFFICES ASSUME InOrder(own, mk, b, q, m) PROVE InOrder(own, mk, b, p, 0)
    BY DEF Sound
  <2>1. ASSUME NEW r \in own, NEW i \in 1..n, IsExec(p[i], r), ~Told(b.seen, r)
        PROVE  \E j \in (0 + 1)..(i - 1) : IsAdd(p[j], r)
    <3>1. PICK j \in (m + 1)..((m + i) - 1) : IsAdd(q[j], r)
      BY <1>2, <2>1 DEF InOrder
    <3>2. j - m \in (0 + 1)..(i - 1) /\ j - m \in 1..n /\ m + (j - m) = j
      BY <1>1, <1>5, <3>1
    <3>3. p[j - m] = q[j]
      BY <1>2, <3>2
    <3> QED BY <3>1, <3>2, <3>3
  <2>2. ASSUME NEW r \in own, Resting(mk, r) > 0, ~Told(b.seen, r)
        PROVE  \E i \in 1..n : IsAdd(p[i], r)
    <3>1. PICK j \in Rest(q, m) : IsAdd(q[j], r)
      BY <2>2 DEF InOrder
    <3>2. j - m \in 1..n /\ p[j - m] = q[j]
      BY <1>2, <1>3, <3>1
    <3> QED BY <3>1, <3>2
  <2>3. \A i \in OwnExecs(b.seen) : Added(b.seen, i)
    BY DEF InOrder
  <2> QED BY <1>2, <2>1, <2>2, <2>3 DEF InOrder
<1> QED BY <1>6, <1>7, <1>8, <1>9 DEF Sound

-----------------------------------------------------------------------------
(* The replies.                                                            *)

FrameOf(own, frame) ==
  /\ frame.type \in {"A", "S"}
  /\ frame.type = "S" /\ frame.ouch = "accepted" => frame.ref \in own

LEMMA FrameFacts == ASSUME NEW own, NEW frame \in Frames(own) PROVE FrameOf(own, frame)
BY DEF Frames, FrameOf

LEMMA DispatchIs ==
  ASSUME NEW s, IsSession(s), NEW type \in {"A", "S"}
  PROVE  LET t == ClientDispatch(s, type) IN
         /\ IsSession(t) /\ t.state /= "AwaitingLogin"
         /\ t.state = "LoggedIn" => s.state = "AwaitingLogin" \/ (s.state = "LoggedIn" /\ type = "S")
<1> DEFINE t == ClientDispatch(s, type)
<1>1. CASE s.state = "ProtocolViolation"
  <2>1. t = s
    BY <1>1 DEF ClientDispatch
  <2> QED BY <1>1, <2>1
<1>2. CASE s.state = "AwaitingLogin" /\ type = "A"
  <2>1. t = [s EXCEPT !.state = "LoggedIn"]
    BY <1>2 DEF ClientDispatch
  <2> QED BY <1>2, <2>1 DEF IsSession
<1>3. CASE s.state = "LoggedIn" /\ type = "S"
  <2>1. t = [s EXCEPT !.seq = @ + 1]
    BY <1>3 DEF ClientDispatch
  <2> QED BY <1>3, <2>1 DEF IsSession
<1>4. CASE /\ s.state /= "ProtocolViolation" /\ ~(s.state = "AwaitingLogin" /\ type = "A")
           /\ ~(s.state = "LoggedIn" /\ type = "S")
  <2>1. t = [s EXCEPT !.state = "ProtocolViolation"]
    BY <1>4 DEF ClientDispatch
  <2> QED BY <2>1 DEF IsSession
<1> QED BY <1>1, <1>2, <1>3, <1>4

LEMMA TimedOutIs ==
  ASSUME NEW s, IsSession(s)
  PROVE  LET t == ClientTimedOut(s) IN
         IsSession(t) /\ t.state \in {s.state, "LoginTimedOut", "Dead"}
<1>1. ASSUME NEW limit, NEW state
      PROVE  LET t == Expired(s, limit, state) IN IsSession(t) /\ t.state \in {s.state, state}
  BY DEF Expired, IsSession
<1> QED BY <1>1 DEF ClientTimedOut

\* What one reply after the other keeps: every accepted order is known, or
\* its acknowledgement is held, or it is still to come.
Known(mk, refs, acks, frames, j) ==
  \A r \in DOMAIN mk :
    r \in refs \/ Awaited(acks, r) \/ \E i \in (j + 1)..Len(frames) : IsAccept(frames[i], r)

Carried(own, mk, clean, q, seen, fresh, c, frames, j) ==
  /\ DOMAIN c = {"session", "belief", "late"} /\ IsSession(c.session)
  /\ Sound(own, mk, clean, c.belief, q, 0) /\ c.belief.seen = seen
  /\ c.late \in Seq(Acks(own)) /\ Accepted(own, mk, c.late)
  /\ c.session.state = "AwaitingLogin" => fresh
  /\ c.session.state = "LoggedIn" => Known(mk, c.belief.refs, c.late, frames, j)

ReplyFacts(own, mk, fresh, frames) ==
  /\ IsFiniteSet(own) /\ now \in Nat /\ scenario.ackDelay \in Nat
  /\ fresh => DOMAIN mk = {}
  /\ frames \in Seq(Frames(own))
  /\ \A i \in DOMAIN frames : frames[i].type = "S" /\ frames[i].ouch = "accepted" => frames[i].ref \in DOMAIN mk

LEMMA RepliedKeeps ==
  ASSUME NEW own, NEW mk, NEW clean, NEW q, NEW seen, NEW fresh, NEW c, NEW frames,
         NEW j \in 0..(Len(frames) - 1), ReplyFacts(own, mk, fresh, frames),
         Carried(own, mk, clean, q, seen, fresh, c, frames, j)
  PROVE  Carried(own, mk, clean, q, seen, fresh, Replied(c, frames[j + 1]), frames, j + 1)
<1> DEFINE frame == frames[j + 1]
           d == Replied(c, frame)
           s == ClientDispatch(c.session, frame.type)
           accepted == frame.type = "S" /\ s.state = "LoggedIn" /\ frame.ouch = "accepted"
           r == frame.ref
<1>1. frames \in Seq(Frames(own)) /\ Len(frames) \in Nat /\ DOMAIN frames = 1..Len(frames)
  BY LenProperties DEF ReplyFacts
<1>2. FrameOf(own, frame) /\ j + 1 \in DOMAIN frames
  <2>1. j + 1 \in DOMAIN frames
    BY <1>1
  <2>2. frame \in Frames(own)
    BY <1>1, <2>1, ElementOfSeq
  <2> QED BY <2>1, <2>2, FrameFacts
<1>3. /\ IsSession(s) /\ s.state /= "AwaitingLogin"
      /\ s.state = "LoggedIn" => c.session.state = "AwaitingLogin" \/ (c.session.state = "LoggedIn" /\ frame.type = "S")
  <2>1. frame.type \in {"A", "S"} /\ IsSession(c.session)
    BY <1>2 DEF FrameOf, Carried
  <2> QED BY <2>1, DispatchIs
<1>4. DOMAIN c = {"session", "belief", "late"}
  BY DEF Carried
<1>5. accepted => r \in own /\ r \in DOMAIN mk
  BY <1>2 DEF FrameOf, ReplyFacts
<1>6. ASSUME s.state = "LoggedIn", NEW x \in DOMAIN mk
      PROVE  \/ x \in c.belief.refs \/ Awaited(c.late, x) \/ IsAccept(frame, x)
             \/ \E i \in (j + 1 + 1)..Len(frames) : IsAccept(frames[i], x)
  <2>1. c.session.state = "LoggedIn"
    BY <1>3, <1>6 DEF Carried, ReplyFacts
  <2>2. Known(mk, c.belief.refs, c.late, frames, j)
    BY <2>1 DEF Carried
  <2>3. \A i \in (j + 1)..Len(frames) : i = j + 1 \/ i \in (j + 1 + 1)..Len(frames)
    BY <1>1
  <2> QED BY <2>2, <2>3 DEF Known
<1>7. \A x : IsAccept(frame, x) /\ s.state = "LoggedIn" => accepted /\ x = r
  BY DEF IsAccept
<1>11. ASSUME NEW e, DOMAIN e = {"session", "belief", "late"}, e.session = s,
              Sound(own, mk, clean, e.belief, q, 0), e.belief.seen = seen,
              e.late \in Seq(Acks(own)), Accepted(own, mk, e.late),
              s.state = "LoggedIn" => Known(mk, e.belief.refs, e.late, frames, j + 1)
       PROVE  Carried(own, mk, clean, q, seen, fresh, e, frames, j + 1)
  <2> HIDE DEF s
  <2> QED BY <1>3, <1>11 DEF Carried
<1> HIDE DEF frame, s
<1>8. CASE accepted /\ scenario.ackDelay /= 0
  <2> DEFINE ack == [due |-> now + scenario.ackDelay, ref |-> r]
             acks == c.late
             more == Append(acks, ack)
  <2>1. /\ d.session = s /\ d.belief = c.belief /\ d.late = more
        /\ DOMAIN d = {"session", "belief", "late"}
    BY <1>4, <1>8 DEF Replied, s
  <2>2. ack \in Acks(own) /\ ack.ref = r
    <3>1. now + scenario.ackDelay \in Nat
      BY DEF ReplyFacts
    <3> QED BY <1>5, <1>8, <3>1 DEF Acks
  <2>3. acks \in Seq(Acks(own)) /\ Accepted(own, mk, acks)
    BY DEF Carried
  <2> HIDE DEF ack, acks, r
  <2>4. /\ more \in Seq(Acks(own)) /\ Len(more) = Len(acks) + 1 /\ DOMAIN acks = 1..Len(acks) /\ Len(acks) \in Nat
        /\ DOMAIN more = 1..(Len(acks) + 1) /\ more[Len(acks) + 1] = ack
        /\ \A i \in 1..Len(acks) : more[i] = acks[i]
    BY <2>2, <2>3, AppendProperties, LenProperties
  <2> HIDE DEF more
  <2>5. Accepted(own, mk, more)
    BY <1>5, <1>8, <2>2, <2>3, <2>4 DEF Accepted
  <2>6. \A x : Awaited(acks, x) \/ x = r => Awaited(more, x)
    BY <2>2, <2>4 DEF Awaited
  <2>7. Known(mk, d.belief.refs, d.late, frames, j + 1)
    BY <1>6, <1>7, <1>8, <2>1, <2>6 DEF Known, acks
  <2> HIDE DEF d
  <2>8. Sound(own, mk, clean, d.belief, q, 0) /\ d.belief.seen = seen
    BY <2>1 DEF Carried
  <2>9. Carried(own, mk, clean, q, seen, fresh, d, frames, j + 1)
    BY <1>11, <1>3, <2>1, <2>4, <2>5, <2>7, <2>8
  <2> QED BY <2>9 DEF d, frame
<1>9. CASE accepted /\ scenario.ackDelay = 0
  <2> DEFINE b == c.belief
  <2>1. /\ d.session = s /\ d.belief = Bound(b, r) /\ d.late = c.late
        /\ DOMAIN d = {"session", "belief", "late"}
    BY <1>4, <1>9 DEF Replied, s
  <2>2. Sound(own, mk, clean, b, q, 0) /\ b.seen = seen /\ IsFiniteSet(own) /\ Belief(own, b)
    BY DEF Carried, ReplyFacts, Sound
  <2>3. r \in own /\ r \in DOMAIN mk
    BY <1>5, <1>9
  <2> HIDE DEF b, r
  <2>4. Sound(own, mk, clean, Bound(b, r), q, 0)
    BY <2>2, <2>3, BoundSound
  <2>5. Bound(b, r).refs = b.refs \cup {r} /\ Bound(b, r).seen = b.seen
    BY <2>2, <2>3, BoundIs DEF BoundTo
  <2>6. Known(mk, d.belief.refs, d.late, frames, j + 1)
    BY <1>6, <1>7, <1>9, <2>1, <2>5 DEF Known, b
  <2> HIDE DEF d
  <2>7. Sound(own, mk, clean, d.belief, q, 0) /\ d.belief.seen = seen
    BY <2>1, <2>2, <2>4, <2>5
  <2>8. d.late \in Seq(Acks(own)) /\ Accepted(own, mk, d.late)
    BY <2>1 DEF Carried
  <2>9. Carried(own, mk, clean, q, seen, fresh, d, frames, j + 1)
    BY <1>11, <1>3, <2>1, <2>6, <2>7, <2>8
  <2> QED BY <2>9 DEF d, frame
<1>10. CASE ~accepted
  <2>1. /\ d.session = s /\ d.belief = c.belief /\ d.late = c.late
        /\ DOMAIN d = {"session", "belief", "late"}
    BY <1>4, <1>10 DEF Replied, s
  <2>2. s.state = "LoggedIn" => Known(mk, d.belief.refs, d.late, frames, j + 1)
    BY <1>6, <1>7, <1>10, <2>1 DEF Known
  <2> HIDE DEF d
  <2>3. Sound(own, mk, clean, d.belief, q, 0) /\ d.belief.seen = seen
    BY <2>1 DEF Carried
  <2>4. d.late \in Seq(Acks(own)) /\ Accepted(own, mk, d.late)
    BY <2>1 DEF Carried
  <2>9. Carried(own, mk, clean, q, seen, fresh, d, frames, j + 1)
    BY <1>11, <1>3, <2>1, <2>2, <2>3, <2>4
  <2> QED BY <2>9 DEF d, frame
<1> QED BY <1>8, <1>9, <1>10 DEF frame

LEMMA RepliesKeep ==
  ASSUME NEW own, NEW mk, NEW clean, NEW q, NEW seen, NEW fresh, NEW c, NEW frames,
         ReplyFacts(own, mk, fresh, frames), Carried(own, mk, clean, q, seen, fresh, c, frames, 0),
         NEW n \in 0..Len(frames), NEW read, Spans(read, n), \A i \in 1..n : read[i] = frames[i]
  PROVE  Carried(own, mk, clean, q, seen, fresh, FoldLeft(Replied, c, read), frames, n)
<1> DEFINE v == FoldLeft(Replied, c, read)
<1>1. n \in Nat /\ Len(frames) \in Nat
  BY LenProperties DEF ReplyFacts
<1>2. Folded("reply", c, read, v)
  BY <1>1, ReplyFolded
<1>3. PICK run : IsRun("reply", run, c, read, n) /\ run[n] = v
  <2> HIDE DEF v
  <2> QED BY <1>1, <1>2, FoldIsRun
<1> DEFINE B == {k \in 0..n : Carried(own, mk, clean, q, seen, fresh, run[k], frames, k)}
<1> HIDE DEF v
<1>5. 0 \in B
  <2>1. run[0] = c
    BY <1>3 DEF IsRun
  <2> QED BY <1>1, <2>1
<1>6. ASSUME NEW k \in 0..(n - 1), k \in B PROVE k + 1 \in B
  <2>1. k + 1 \in 1..n /\ (k + 1) - 1 = k /\ k + 1 \in 0..n /\ k \in 0..(Len(frames) - 1)
    BY <1>1
  <2>2. run[k + 1] = Replied(run[k], frames[k + 1])
    <3>1. run[k + 1] = Step("reply", run[(k + 1) - 1], read[k + 1])
      BY <1>3, <2>1 DEF IsRun
    <3> QED BY <2>1, <3>1 DEF Step
  <2> DEFINE a == run[k]
  <2>3. Carried(own, mk, clean, q, seen, fresh, a, frames, k)
    BY <1>6
  <2> HIDE DEF a
  <2>4. Carried(own, mk, clean, q, seen, fresh, Replied(a, frames[k + 1]), frames, k + 1)
    BY <2>1, <2>3, RepliedKeeps
  <2> QED BY <2>1, <2>2, <2>4 DEF a
<1>7. B = 0..n
  <2>1. B \in SUBSET (0..n)
    OBVIOUS
  <2> HIDE DEF B
  <2> QED BY <1>1, <1>5, <1>6, <2>1, Climb
<1>8. Carried(own, mk, clean, q, seen, fresh, run[n], frames, n)
  <2>1. n \in B
    BY <1>1, <1>7
  <2> QED BY <2>1
<1> QED BY <1>3, <1>8 DEF v

-----------------------------------------------------------------------------
(* One turn of the loop: what it reads of the feed.                        *)

Joins(s, t, q) ==
  /\ Len(q) = Len(s) + Len(t) /\ DOMAIN q = 1..(Len(s) + Len(t)) /\ Len(s) \in Nat /\ Len(t) \in Nat
  /\ DOMAIN s = 1..Len(s) /\ DOMAIN t = 1..Len(t)
  /\ \A i \in 1..Len(s) : q[i] = s[i]
  /\ \A i \in 1..Len(t) : q[Len(s) + i] = t[i]

LEMMA Joined ==
  ASSUME NEW own, NEW s, IsSeen(own, s), NEW t, IsSeen(own, t)
  PROVE  IsSeen(own, s \o t) /\ Joins(s, t, s \o t)
<1> DEFINE q == s \o t
           S == Stream(own)
<1>1. s \in Seq(S) /\ t \in Seq(S)
  BY DEF IsSeen
<1> HIDE DEF S
<1>2. /\ q \in Seq(S) /\ Len(q) = Len(s) + Len(t)
      /\ \A i \in 1..(Len(s) + Len(t)) : q[i] = IF i <= Len(s) THEN s[i] ELSE t[i - Len(s)]
  BY <1>1, ConcatProperties
<1>3. /\ Len(s) \in Nat /\ Len(t) \in Nat /\ DOMAIN s = 1..Len(s) /\ DOMAIN t = 1..Len(t)
      /\ DOMAIN q = 1..Len(q)
  BY <1>1, <1>2, LenProperties
<1> HIDE DEF q
<1>4. \A i \in 1..Len(s) : q[i] = s[i]
  BY <1>2, <1>3
<1>5. ASSUME NEW i \in 1..Len(t) PROVE q[Len(s) + i] = t[i]
  <2>1. /\ Len(s) + i \in 1..(Len(s) + Len(t)) /\ ~(Len(s) + i <= Len(s)) /\ (Len(s) + i) - Len(s) = i
    BY <1>3
  <2> QED BY <1>2, <2>1
<1>6. IsSeen(own, q)
  BY <1>2 DEF IsSeen, S
<1> QED BY <1>2, <1>3, <1>4, <1>5, <1>6 DEF Joins, q

\* The first n of s, and the others.
Cuts2(s, t, u, n) ==
  /\ n \in 0..Len(s) /\ Len(s) \in Nat /\ DOMAIN s = 1..Len(s)
  /\ Len(t) = n /\ DOMAIN t = 1..n /\ \A i \in 1..n : t[i] = s[i]
  /\ Len(u) = Len(s) - n /\ DOMAIN u = 1..(Len(s) - n) /\ \A i \in 1..(Len(s) - n) : u[i] = s[n + i]

LEMMA CutAt ==
  ASSUME NEW S, NEW s \in Seq(S), NEW n \in 0..Len(s)
  PROVE  /\ SubSeq(s, 1, n) \in Seq(S) /\ SubSeq(s, n + 1, Len(s)) \in Seq(S)
         /\ Cuts2(s, SubSeq(s, 1, n), SubSeq(s, n + 1, Len(s)), n)
<1> DEFINE t == SubSeq(s, 1, n)
           u == SubSeq(s, n + 1, Len(s))
           l == Len(s)
<1>1. l \in Nat /\ DOMAIN s = 1..l /\ \A i \in 1..l : s[i] \in S
  BY LenProperties, ElementOfSeq
<1>2. /\ t \in Seq(S) /\ Len(t) = (IF 1 <= n THEN n - 1 + 1 ELSE 0)
      /\ \A i \in 1..(n - 1 + 1) : t[i] = s[1 + i - 1]
  <2>1. \A i \in 1..n : s[i] \in S
    BY <1>1
  <2> QED BY <2>1, SubSeqProperties
<1>3. /\ u \in Seq(S) /\ Len(u) = (IF n + 1 <= l THEN l - (n + 1) + 1 ELSE 0)
      /\ \A i \in 1..(l - (n + 1) + 1) : u[i] = s[(n + 1) + i - 1]
  <2>1. (\A i \in (n + 1)..l : s[i] \in S) /\ n + 1 \in Int /\ l \in Int
    BY <1>1
  <2> QED BY <2>1, SubSeqProperties
<1>4. Len(t) = n /\ DOMAIN t = 1..n
  BY <1>2, LenProperties
<1>5. Len(u) = l - n /\ DOMAIN u = 1..(l - n)
  <2>1. CASE n + 1 <= l
    BY <1>1, <1>3, <2>1, LenProperties
  <2>2. CASE ~(n + 1 <= l)
    <3>1. l \in Nat /\ n \in 0..l
      BY <1>1
    <3> HIDE DEF l
    <3>2. n = l
      BY <2>2, <3>1
    <3> QED BY <1>1, <1>3, <2>2, <3>2, LenProperties
  <2> QED BY <2>1, <2>2
<1> HIDE DEF t, u, l
<1>6. \A i \in 1..n : t[i] = s[i]
  <2> SUFFICES ASSUME NEW i \in 1..n PROVE t[i] = s[i]
    OBVIOUS
  <2>1. i \in 1..(n - 1 + 1) /\ 1 + i - 1 = i
    BY <1>1
  <2> QED BY <1>2, <2>1
<1>7. \A i \in 1..(l - n) : u[i] = s[n + i]
  <2> SUFFICES ASSUME NEW i \in 1..(l - n) PROVE u[i] = s[n + i]
    OBVIOUS
  <2>1. i \in 1..(l - (n + 1) + 1) /\ (n + 1) + i - 1 = n + i
    BY <1>1
  <2> QED BY <1>3, <2>1
<1>8. Cuts2(s, t, u, n)
  BY <1>1, <1>4, <1>5, <1>6, <1>7 DEF Cuts2, l
<1> QED BY <1>2, <1>3, <1>8 DEF t, u, l

LEMMA SeenCut ==
  ASSUME NEW own, NEW s, IsSeen(own, s), NEW n \in 0..Len(s)
  PROVE  /\ IsSeen(own, SubSeq(s, 1, n)) /\ IsSeen(own, SubSeq(s, n + 1, Len(s)))
         /\ Cuts2(s, SubSeq(s, 1, n), SubSeq(s, n + 1, Len(s)), n)
BY CutAt DEF IsSeen

\* The sequencer hands on a part from the front.
LEMMA HandedFirst ==
  ASSUME NEW own, NEW arrived, IsSeen(own, arrived), NEW handed \in {BeforeHole(arrived), arrived}
  PROVE  \E m \in 0..Len(arrived) : handed = SubSeq(arrived, 1, m)
<1> DEFINE l == Len(arrived)
           holes == {i \in DOMAIN arrived : arrived[i].type = "lost"}
<1>1. l \in Nat /\ DOMAIN arrived = 1..l /\ SubSeq(arrived, 1, l) = arrived
  BY LenProperties, SubSeqFull DEF IsSeen
<1>2. CASE handed = arrived
  <2>1. l \in 0..l
    BY <1>1
  <2> QED BY <1>1, <1>2, <2>1
<1>3. CASE handed = BeforeHole(arrived) /\ holes /= {}
  <2>1. handed = SubSeq(arrived, 1, Min(holes) - 1)
    BY <1>3 DEF BeforeHole
  <2>2. holes \subseteq 1..l
    BY <1>1
  <2> HIDE DEF holes
  <2>3. IsFiniteSet(1..l)
    BY <1>1, FS_Interval
  <2>4. IsFiniteSet(holes)
    BY <2>2, <2>3, FS_Subset
  <2>5. Min(holes) \in holes
    <3>1. holes \in SUBSET Int
      BY <1>1, <2>2
    <3> QED BY <1>3, <2>4, <3>1, MinMaxIn
  <2>6. Min(holes) - 1 \in 0..l
    <3>1. \A x \in 1..l : x - 1 \in 0..l
      BY <1>1
    <3> QED BY <2>2, <2>5, <3>1
  <2> QED BY <2>1, <2>6
<1>4. CASE handed = BeforeHole(arrived) /\ holes = {}
  <2>1. handed = arrived
    BY <1>4 DEF BeforeHole
  <2> QED BY <1>2, <2>1
<1> QED BY <1>2, <1>3, <1>4

\* What was to come is told, or is still to come, in the order it was in.
Among(b, q, c, p) ==
  /\ \A r : Told(c.seen, r) => Told(b.seen, r) \/ \E i \in DOMAIN q : IsAdd(q[i], r)
  /\ \A i \in DOMAIN p : \E j \in DOMAIN q : p[i] = q[j]

HasArrived(arrived, box, wire, nf) == arrived = box \o SubSeq(wire, 1, nf)

\* What reading does: handed goes on to the belief, and what is behind it
\* too, after the acknowledgements that are still held, when the loop is left.
Reads(own, mk, clean, b0, q, handed, rest, more) ==
  LET b == Heeded(b0, handed)
  IN  /\ IsSeen(own, rest) /\ IsSeen(own, more)
      /\ Sound(own, mk, clean, b, rest \o more, 0) /\ b.refs = b0.refs
      /\ Among(b0, q, b, rest \o more)
      /\ \A acks : \A n \in Nat : Spans(acks, n) /\ Accepted(own, mk, acks) =>
           LET c == Heeded(BoundAll(b, acks), rest) IN
           /\ Sound(own, mk, clean, c, << >> \o more, 0)
           /\ c.refs = b0.refs \cup {acks[i].ref : i \in 1..n}
           /\ Among(b0, q, c, << >> \o more)

LEMMA ReadingSound ==
  ASSUME NEW own, OwnOnes(own), NEW mk, IsMakers(mk), NEW clean, NEW b0, NEW box, IsSeen(own, box),
         NEW wire, IsSeen(own, wire), NEW nf \in 0..Len(wire),
         Sound(own, mk, clean, b0, box \o wire, 0),
         NEW arrived, HasArrived(arrived, box, wire, nf),
         NEW handed \in {BeforeHole(arrived), arrived}
  PROVE  Reads(own, mk, clean, b0, box \o wire, handed,
               SubSeq(arrived, Len(handed) + 1, Len(arrived)), SubSeq(wire, nf + 1, Len(wire)))
<1> DEFINE q == box \o wire
           read == SubSeq(wire, 1, nf)
           more == SubSeq(wire, nf + 1, Len(wire))
           rest == SubSeq(arrived, Len(handed) + 1, Len(arrived))
           b == Heeded(b0, handed)
           p == rest \o more
           bare == << >> \o more
<1>1. IsSeen(own, q) /\ Joins(box, wire, q)
  BY Joined
<1>2. IsSeen(own, read) /\ IsSeen(own, more) /\ Cuts2(wire, read, more, nf)
  BY SeenCut
<1>3. IsSeen(own, arrived) /\ Joins(box, read, arrived)
  <2>1. arrived = box \o read
    BY DEF HasArrived
  <2> HIDE DEF read
  <2> QED BY <1>2, <2>1, Joined
<1>4. PICK m \in 0..Len(arrived) : handed = SubSeq(arrived, 1, m)
  BY <1>3, HandedFirst
<1>5. IsSeen(own, handed) /\ IsSeen(own, rest) /\ Cuts2(arrived, handed, rest, m) /\ Len(handed) = m
  <2>1. /\ IsSeen(own, SubSeq(arrived, 1, m)) /\ IsSeen(own, SubSeq(arrived, m + 1, Len(arrived)))
        /\ Cuts2(arrived, SubSeq(arrived, 1, m), SubSeq(arrived, m + 1, Len(arrived)), m)
    BY <1>3, SeenCut
  <2>2. Len(handed) = m
    BY <1>4, <2>1 DEF Cuts2
  <2> QED BY <1>4, <2>1, <2>2
<1>6. IsSeen(own, p) /\ Joins(rest, more, p)
  <2> HIDE DEF rest, more
  <2> QED BY <1>2, <1>5, Joined
<1>7. bare = more
  BY <1>2, ConcatEmptySeq DEF IsSeen
<1> HIDE DEF q, read, more, rest, p, bare
<1> DEFINE a == Len(arrived)
<1>8. /\ a \in Nat /\ m \in Nat /\ m <= a /\ Len(box) \in Nat /\ nf \in Nat /\ a = Len(box) + nf
      /\ Len(q) = Len(box) + Len(wire) /\ Len(wire) \in Nat /\ nf <= Len(wire)
  BY <1>1, <1>2, <1>3 DEF Joins, Cuts2
<1>9. \A i \in 1..a : arrived[i] = q[i]
  <2> SUFFICES ASSUME NEW i \in 1..a PROVE arrived[i] = q[i]
    OBVIOUS
  <2>1. CASE i \in 1..Len(box)
    BY <1>1, <1>3, <2>1 DEF Joins
  <2>2. CASE i \notin 1..Len(box)
    <3>1. i - Len(box) \in 1..nf /\ Len(box) + (i - Len(box)) = i /\ i - Len(box) \in 1..Len(wire)
      BY <1>8, <2>2
    <3>2. arrived[i] = read[i - Len(box)]
      BY <1>2, <1>3, <3>1 DEF Joins, Cuts2
    <3>3. q[i] = wire[i - Len(box)]
      BY <1>1, <3>1 DEF Joins
    <3> QED BY <1>2, <3>1, <3>2, <3>3 DEF Cuts2
  <2> QED BY <2>1, <2>2
<1>10. \A i \in 1..Len(more) : more[i] = q[a + i]
  <2> SUFFICES ASSUME NEW i \in 1..Len(more) PROVE more[i] = q[a + i]
    OBVIOUS
  <2>1. Len(more) = Len(wire) - nf /\ more[i] = wire[nf + i]
    BY <1>2 DEF Cuts2
  <2>2. nf + i \in 1..Len(wire) /\ Len(box) + (nf + i) = a + i
    BY <1>8, <2>1
  <2> QED BY <1>1, <2>1, <2>2 DEF Joins
<1> HIDE DEF a
<1>11. Continues(q, handed, 0)
  <2>1. \A i \in 1..m : i \in 1..a /\ 0 + i = i
    BY <1>8
  <2> QED BY <1>5, <1>8, <1>9, <2>1 DEF Continues, Cuts2
<1>12. Continues(q, rest, m)
  <2>1. Len(rest) = a - m /\ \A i \in 1..(a - m) : rest[i] = arrived[m + i]
    BY <1>5 DEF Cuts2, a
  <2>2. (\A i \in 1..(a - m) : m + i \in 1..a) /\ m + (a - m) = a
    BY <1>8
  <2> QED BY <1>8, <1>9, <2>1, <2>2 DEF Continues
<1>13. Remains(q, p, m)
  <2>1. Len(rest) = a - m /\ Len(more) = Len(wire) - nf /\ Len(p) = Len(rest) + Len(more)
    BY <1>2, <1>5, <1>6 DEF Cuts2, Joins, a
  <2>2. Len(p) = Len(q) - m /\ m \in 0..Len(q)
    BY <1>8, <2>1
  <2>3. ASSUME NEW i \in 1..Len(p) PROVE p[i] = q[m + i]
    <3>1. CASE i \in 1..Len(rest)
      BY <1>6, <1>12, <3>1 DEF Joins, Continues
    <3>2. CASE i \notin 1..Len(rest)
      <4>1. i - Len(rest) \in 1..Len(more) /\ Len(rest) + (i - Len(rest)) = i /\ a + (i - Len(rest)) = m + i
        BY <1>8, <2>1, <3>2
      <4>2. p[i] = more[i - Len(rest)]
        BY <1>6, <4>1 DEF Joins
      <4> QED BY <1>10, <4>1, <4>2
    <3> QED BY <3>1, <3>2
  <2> QED BY <2>2, <2>3 DEF Remains
<1>14. Remains(q, more, m + Len(rest))
  <2>1. Len(rest) = a - m /\ Len(more) = Len(wire) - nf
    BY <1>2, <1>5 DEF Cuts2, a
  <2>2. m + Len(rest) = a /\ Len(more) = Len(q) - a /\ a \in 0..Len(q)
    BY <1>8, <2>1
  <2> QED BY <1>10, <2>2 DEF Remains
<1>15. Sound(own, mk, clean, b, q, m) /\ ToldOf(b0, b, handed, m)
  <2>1. Sound(own, mk, clean, b0, q, 0)
    BY DEF q
  <2>2. Sound(own, mk, clean, Heeded(b0, handed), q, 0 + Len(handed)) /\ ToldOf(b0, Heeded(b0, handed), handed, Len(handed))
    BY <1>1, <1>5, <1>11, <2>1, HeededSound
  <2>3. 0 + Len(handed) = m
    BY <1>5, <1>8
  <2> QED BY <1>5, <2>2, <2>3
<1> HIDE DEF b
<1>16. Sound(own, mk, clean, b, p, 0) /\ b.refs = b0.refs
  BY <1>1, <1>6, <1>13, <1>15, RemainsSound DEF ToldOf
<1>17. \A i \in 1..m : \E j \in DOMAIN q : handed[i] = q[j]
  <2>1. \A i \in 1..m : i \in DOMAIN q /\ 0 + i = i
    BY <1>1, <1>8 DEF Joins
  <2> QED BY <1>5, <1>11, <2>1 DEF Continues
<1>18. \A i \in DOMAIN p : \E j \in DOMAIN q : p[i] = q[j]
  <2>1. DOMAIN q = 1..Len(q) /\ DOMAIN p = 1..Len(p) /\ Len(p) = Len(q) - m
    BY <1>1, <1>6, <1>13 DEF Joins, Remains
  <2>2. \A i \in DOMAIN p : m + i \in DOMAIN q
    BY <1>8, <2>1
  <2> QED BY <1>13, <2>1, <2>2 DEF Remains
<1>19. Among(b0, q, b, p)
  BY <1>15, <1>17, <1>18 DEF Among, ToldOf
<1>20. ASSUME NEW acks, NEW n \in Nat, Spans(acks, n), Accepted(own, mk, acks)
       PROVE  LET c == Heeded(BoundAll(b, acks), rest) IN
              /\ Sound(own, mk, clean, c, bare, 0)
              /\ c.refs = b0.refs \cup {acks[i].ref : i \in 1..n}
              /\ Among(b0, q, c, bare)
  <2> DEFINE d == BoundAll(b, acks)
             c == Heeded(d, rest)
  <2>1. IsFiniteSet(own)
    BY DEF OwnOnes
  <2>2. /\ Sound(own, mk, clean, d, q, m) /\ d.refs = b.refs \cup {acks[i].ref : i \in 1..n}
        /\ d.seen = b.seen
    BY <1>15, <1>20, <2>1, BoundAllSound
  <2> HIDE DEF d
  <2>3. Sound(own, mk, clean, c, q, m + Len(rest)) /\ ToldOf(d, c, rest, Len(rest))
    BY <1>1, <1>5, <1>12, <2>2, HeededSound
  <2> HIDE DEF c
  <2>4. Sound(own, mk, clean, c, more, 0)
    BY <1>1, <1>2, <1>14, <2>3, RemainsSound
  <2>5. c.refs = b0.refs \cup {acks[i].ref : i \in 1..n}
    BY <1>16, <2>2, <2>3 DEF ToldOf
  <2>6. \A i \in 1..Len(rest) : \E j \in DOMAIN q : rest[i] = q[j]
    <3>1. DOMAIN q = 1..Len(q) /\ DOMAIN rest = 1..Len(rest) /\ Len(rest) = a - m
      BY <1>1, <1>5 DEF Joins, Cuts2, a
    <3>2. \A i \in 1..Len(rest) : m + i \in DOMAIN q
      BY <1>8, <3>1
    <3> QED BY <1>12, <3>2 DEF Continues
  <2>7. \A i \in DOMAIN more : \E j \in DOMAIN q : more[i] = q[j]
    <3>1. /\ DOMAIN q = 1..Len(q) /\ DOMAIN more = 1..Len(more) /\ Len(more) = Len(wire) - nf
      BY <1>1, <1>2 DEF Joins, Cuts2
    <3>2. \A i \in DOMAIN more : a + i \in DOMAIN q
      BY <1>8, <3>1
    <3> QED BY <1>10, <3>1, <3>2
  <2>8. \A r : Told(c.seen, r) => Told(b0.seen, r) \/ \E i \in DOMAIN q : IsAdd(q[i], r)
    BY <1>19, <2>2, <2>3, <2>6 DEF ToldOf, Among
  <2>9. Among(b0, q, c, bare)
    BY <1>7, <2>7, <2>8 DEF Among
  <2> QED BY <1>7, <2>4, <2>5, <2>9 DEF c, d
<1> QED BY <1>2, <1>5, <1>16, <1>19, <1>20 DEF Reads, q, read, more, rest, p, bare, b

-----------------------------------------------------------------------------
(* The quote.                                                              *)

LEMMA PricesFinite ==
  ASSUME NEW own, IsFiniteSet(own), NEW b, Belief(own, b), NEW side
  PROVE  IsFiniteSet(Prices(b, side)) /\ Prices(b, side) \in SUBSET Int
<1> DEFINE S == {r \in DOMAIN b.book : b.book[r].locate = b.locate /\ b.book[r].side = side}
           f == [r \in S |-> b.book[r].price]
<1>1. b.book \in [DOMAIN b.book -> Entries] /\ DOMAIN b.book \subseteq Historical \cup own
  BY DEF Belief, IsBook
<1>2. IsFiniteSet(S)
  <2>1. HistoricalRefs \in Int /\ IsFiniteSet(Historical)
    BY StrategyAssumption, FS_Interval DEF Historical
  <2>2. IsFiniteSet(Historical \cup own)
    BY <2>1, FS_Union
  <2>3. S \subseteq Historical \cup own
    BY <1>1
  <2> QED BY <2>2, <2>3, FS_Subset
<1>3. Prices(b, side) = {f[r] : r \in S}
  BY DEF Prices
<1>4. \A r \in S : f[r] \in Int
  BY <1>1 DEF Entries
<1> HIDE DEF S, f
<1>5. IsFiniteSet({f[r] : r \in S})
  BY <1>2, ImageFinite
<1> QED BY <1>3, <1>4, <1>5

\* A price is under every offer of the book it was taken from.
LEMMA PriceFacts ==
  ASSUME NEW own, IsFiniteSet(own), NEW b, Belief(own, b)
  PROVE  /\ QuotePrice(b) \in Int
         /\ QuotePrice(b) > 0 => \A p \in Prices(b, "sell") : QuotePrice(b) < p
<1> DEFINE bids == Prices(b, "buy")
           asks == Prices(b, "sell")
           low == Min(asks) - TickSize
           base == CASE bids = {} -> 0
                     [] bids /= {} /\ asks /= {} /\ low < Max(bids) -> low
                     [] OTHER -> Max(bids)
           back == OffsetTicks * TickSize
<1>1. TickSize \in Nat /\ TickSize >= 1 /\ back \in Nat
  <2>1. OffsetTicks \in Nat /\ TickSize \in Nat /\ TickSize >= 1
    BY StrategyAssumption
  <2>2. \A x, y \in Nat : x * y \in Nat
    OBVIOUS
  <2> QED BY <2>1, <2>2
<1>2. /\ IsFiniteSet(bids) /\ bids \in SUBSET Int /\ IsFiniteSet(asks) /\ asks \in SUBSET Int
  BY PricesFinite
<1>3. QuotePrice(b) = IF base > 0 THEN base - back ELSE 0
  BY DEF QuotePrice
<1> HIDE DEF bids, asks, back, low
<1>4. bids /= {} => Max(bids) \in Int
  BY <1>2, MinMaxIn
<1>5. asks /= {} => low \in Int /\ \A p \in asks : p \in Int /\ low < p
  <2> SUFFICES ASSUME asks /= {} PROVE low \in Int /\ \A p \in asks : p \in Int /\ low < p
    OBVIOUS
  <2>1. Min(asks) \in asks /\ \A p \in asks : Min(asks) <= p
    BY <1>2, MinMaxIn
  <2>2. Min(asks) \in Int /\ \A p \in asks : p \in Int
    BY <1>2, <2>1
  <2>3. low = Min(asks) - TickSize
    BY DEF low
  <2> QED BY <1>1, <2>1, <2>2, <2>3
<1>6. base \in Int /\ (base > 0 => \A p \in asks : base < p)
  <2>1. CASE bids = {}
    <3>1. base = 0
      BY <2>1
    <3> QED BY <3>1
  <2>2. CASE bids /= {} /\ asks /= {} /\ low < Max(bids)
    <3>1. base = low
      BY <2>2
    <3> HIDE DEF base
    <3> QED BY <1>5, <2>2, <3>1
  <2>3. CASE bids /= {} /\ ~(asks /= {} /\ low < Max(bids))
    <3>1. base = Max(bids)
      BY <2>3
    <3> HIDE DEF base
    <3>2. CASE asks = {}
      BY <1>4, <2>3, <3>1, <3>2
    <3>3. CASE asks /= {}
      BY <1>4, <1>5, <2>3, <3>1, <3>3
    <3> QED BY <3>2, <3>3
  <2> QED BY <2>1, <2>2, <2>3
<1> HIDE DEF base
<1>7. CASE base > 0
  <2>1. QuotePrice(b) = base - back
    BY <1>3, <1>7
  <2>2. \A p \in asks : p \in Int
    BY <1>2
  <2> QED BY <1>1, <1>6, <1>7, <2>1, <2>2 DEF asks
<1>8. CASE ~(base > 0)
  <2>1. QuotePrice(b) = 0
    BY <1>3, <1>8
  <2> QED BY <2>1
<1> QED BY <1>7, <1>8

LEMMA OfferIsPrice ==
  ASSUME NEW b, Mirrored(b), NEW p \in Offers(b.seen)
  PROVE  p \in Prices(b, "sell")
<1>1. PICK i \in DOMAIN b.seen : /\ b.seen[i].type = "A" /\ b.seen[i].side = "sell" /\ b.seen[i].locate = OurLocate
                                 /\ LeftOf(b.seen, i) > 0 /\ p = b.seen[i].price
  BY DEF Offers
<1>2. Shown(b, b.seen[i], LeftOf(b.seen, i))
  BY <1>1 DEF Mirrored
<1> DEFINE r == b.seen[i].ref
<1>3. r \in DOMAIN b.book /\ b.book[r].locate = b.locate /\ b.book[r].side = "sell" /\ b.book[r].price = p
  BY <1>1, <1>2 DEF Shown
<1> QED BY <1>3 DEF Prices

\* How many quotes are on their way.
QuoteOf(request) == IF request.type = "U" THEN 1 ELSE 0

LEMMA QuotesType ==
  ASSUME NEW queue \in Seq(Requests)
  PROVE  /\ Quotes(queue) \in Nat /\ IsFiniteSet(DOMAIN queue) /\ DOMAIN queue = 1..Len(queue) /\ Len(queue) \in Nat
         /\ \A i \in DOMAIN queue : QuoteTerms(queue)[i] \in Nat
<1>1. DOMAIN queue = 1..Len(queue) /\ Len(queue) \in Nat /\ IsFiniteSet(DOMAIN queue)
  BY LenProperties, FS_Interval
<1>2. \A i \in DOMAIN queue : QuoteTerms(queue)[i] \in Nat
  BY DEF QuoteTerms
<1>3. SumFunctionOnSet(QuoteTerms(queue), DOMAIN queue) \in Nat
  BY <1>1, <1>2, SumType
<1> QED BY <1>1, <1>2, <1>3 DEF Quotes

LEMMA QuotesAppend ==
  ASSUME NEW queue \in Seq(Requests), NEW request \in Requests
  PROVE  /\ Append(queue, request) \in Seq(Requests)
         /\ Quotes(Append(queue, request)) = Quotes(queue) + QuoteOf(request)
<1> DEFINE more == Append(queue, request)
           U == DOMAIN queue
           x == Len(queue) + 1
           f == QuoteTerms(queue)
           g == QuoteTerms(more)
<1>1. /\ more \in Seq(Requests) /\ Len(more) = x /\ more[x] = request
      /\ \A i \in 1..Len(queue) : more[i] = queue[i]
  BY AppendProperties
<1>2. /\ IsFiniteSet(U) /\ U = 1..Len(queue) /\ Len(queue) \in Nat /\ Quotes(queue) \in Nat
      /\ \A i \in U : f[i] \in Nat
  BY QuotesType
<1>3. DOMAIN more = U \union {x} /\ x \notin U /\ \A i \in DOMAIN more : g[i] \in Nat
  <2> HIDE DEF more
  <2>1. DOMAIN more = 1..Len(more) /\ \A i \in DOMAIN more : g[i] \in Nat
    BY <1>1, QuotesType
  <2>2. 1..x = (1..Len(queue)) \union {x} /\ x \notin 1..Len(queue)
    BY <1>2
  <2> QED BY <1>1, <1>2, <2>1, <2>2
<1>4. g[x] = QuoteOf(request) /\ \A i \in U : g[i] = f[i]
  BY <1>1, <1>2, <1>3 DEF QuoteTerms, QuoteOf
<1>5. Quotes(more) = SumFunctionOnSet(g, U \union {x}) /\ Quotes(queue) = SumFunctionOnSet(f, U)
  BY <1>3 DEF Quotes
<1> HIDE DEF f, g, U, x, more
<1>6. SumFunctionOnSet(g, U \union {x}) = g[x] + SumFunctionOnSet(g, U)
  <2>1. \A i \in U \union {x} : g[i] \in Int
    BY <1>3
  <2> QED BY <1>2, <1>3, <2>1, SumAdd
<1>7. SumFunctionOnSet(g, U) = SumFunctionOnSet(f, U)
  BY <1>2, <1>4, SumSame
<1>8. QuoteOf(request) \in Nat
  BY DEF QuoteOf
<1>9. Quotes(more) = Quotes(queue) + QuoteOf(request)
  BY <1>2, <1>4, <1>5, <1>6, <1>7, <1>8
<1> QED BY <1>1, <1>9 DEF more

LEMMA QuotesTail ==
  ASSUME NEW queue \in Seq(Requests), queue /= << >>
  PROVE  /\ Head(queue) \in Requests /\ Tail(queue) \in Seq(Requests)
         /\ Quotes(queue) = Quotes(Tail(queue)) + QuoteOf(Head(queue))
<1> DEFINE less == Tail(queue)
           n == Len(less)
           f == QuoteTerms(queue)
           g == QuoteTerms(less)
           V == 2..(n + 1)
<1>1. /\ Head(queue) \in Requests /\ less \in Seq(Requests) /\ n = Len(queue) - 1 /\ Head(queue) = queue[1]
      /\ \A i \in 1..n : less[i] = queue[i + 1]
  BY HeadTailProperties
<1>2. /\ DOMAIN queue = 1..Len(queue) /\ Len(queue) \in Nat /\ IsFiniteSet(DOMAIN queue)
      /\ \A i \in DOMAIN queue : f[i] \in Nat
  BY QuotesType
<1> HIDE DEF less
<1>3. Quotes(less) \in Nat /\ DOMAIN less = 1..n /\ n \in Nat /\ \A i \in DOMAIN less : g[i] \in Nat
  BY <1>1, QuotesType
<1>4. DOMAIN queue = V \union {1} /\ 1 \notin V
  BY <1>1, <1>2, <1>3
<1>5. IsFiniteSet(V)
  BY <1>3, FS_Interval
<1>6. \A i \in 1..n : i + 1 \in DOMAIN queue /\ g[i] = f[i + 1]
  BY <1>1, <1>2, <1>3 DEF QuoteTerms
<1>7. f[1] = QuoteOf(Head(queue))
  BY <1>1, <1>4 DEF QuoteTerms, QuoteOf
<1>8. Quotes(queue) = SumFunctionOnSet(f, V \union {1}) /\ Quotes(less) = SumFunctionOnSet(g, 1..n)
  BY <1>3, <1>4 DEF Quotes
<1> HIDE DEF f, g, n
<1>9. SumFunctionOnSet(f, V \union {1}) = f[1] + SumFunctionOnSet(f, V)
  <2>0. \A i \in DOMAIN queue : f[i] \in Int
    BY <1>2
  <2> HIDE DEF V
  <2>1. \A i \in V \union {1} : f[i] \in Int
    BY <2>0, <1>4
  <2> QED BY <1>4, <1>5, <2>1, SumAdd
<1>10. SumFunctionOnSet(f, V) = SumFunctionOnSet(g, 1..n)
  <2>1. \A i \in 1..n : f[i + 1] \in Int /\ g[i] = f[i + 1]
    BY <1>2, <1>6
  <2>2. PICK k \in Nat : k = 1
    OBVIOUS
  <2>3. \A i \in 1..n : f[i + k] \in Int /\ g[i] = f[i + k]
    BY <2>1, <2>2
  <2>4. SumFunctionOnSet(f, (k + 1)..(k + n)) = SumFunctionOnSet(g, 1..n)
    <3>1. n \in Nat /\ k \in Nat
      BY <1>3
    <3> HIDE DEF V
    <3> QED BY <2>3, <3>1, SumShift
  <2>5. (k + 1)..(k + n) = V
    BY <1>3, <2>2
  <2> QED BY <2>4, <2>5
<1>11. QuoteOf(Head(queue)) \in Nat
  BY DEF QuoteOf
<1> QED BY <1>1, <1>3, <1>7, <1>8, <1>9, <1>10, <1>11 DEF less

\* What a turn adds to the orders on their way.
Sending(quotes, bye, price) ==
  (IF quotes THEN <<[type |-> "U", price |-> price]>> ELSE << >>)
    \o (IF bye THEN <<[type |-> "O"]>> ELSE << >>)

OnlyQuote(n, sent, quotes, price) ==
  \A i \in (n + 1)..Len(sent) : sent[i].type = "U" => quotes /\ sent[i].price = price

LEMMA SendingIs ==
  ASSUME NEW queue \in Seq(Requests), NEW price \in Int, NEW quotes \in BOOLEAN, NEW bye \in BOOLEAN
  PROVE  LET sent == queue \o Sending(quotes, bye, price) IN
         /\ sent \in Seq(Requests)
         /\ Quotes(sent) = Quotes(queue) + (IF quotes THEN 1 ELSE 0)
         /\ OnlyQuote(Len(queue), sent, quotes, price)
<1> DEFINE u == [type |-> "U", price |-> price]
           o == [type |-> "O"]
<1>1. u \in Requests /\ o \in Requests /\ u.type = "U" /\ u.price = price /\ o.type = "O"
  BY DEF Requests
<1> HIDE DEF u, o
<1>2. <<u>> \in Seq(Requests) /\ <<o>> \in Seq(Requests) /\ << >> \in Seq(Requests)
  BY <1>1
<1>3. Len(queue) \in Nat /\ Quotes(queue) \in Nat
  BY QuotesType, LenProperties
<1>4. ASSUME NEW s \in Seq(Requests), NEW r \in Requests
      PROVE  /\ s \o <<r>> \in Seq(Requests) /\ Quotes(s \o <<r>>) = Quotes(s) + QuoteOf(r)
             /\ Len(s \o <<r>>) = Len(s) + 1 /\ (s \o <<r>>)[Len(s) + 1] = r
             /\ \A i \in 1..Len(s) : (s \o <<r>>)[i] = s[i]
  <2>1. s \o <<r>> = Append(s, r)
    BY AppendIsConcat
  <2>2. /\ Append(s, r) \in Seq(Requests) /\ Quotes(Append(s, r)) = Quotes(s) + QuoteOf(r)
    BY QuotesAppend
  <2>3. /\ Len(Append(s, r)) = Len(s) + 1 /\ Append(s, r)[Len(s) + 1] = r
        /\ \A i \in 1..Len(s) : Append(s, r)[i] = s[i]
    BY AppendProperties
  <2> QED BY <2>1, <2>2, <2>3
<1>5. QuoteOf(u) = 1 /\ QuoteOf(o) = 0
  BY <1>1 DEF QuoteOf
<1> DEFINE a == queue \o <<u>>
           b == queue \o <<o>>
           c == a \o <<o>>
<1>6. /\ a \in Seq(Requests) /\ Quotes(a) = Quotes(queue) + 1 /\ Len(a) = Len(queue) + 1
      /\ a[Len(queue) + 1] = u
  BY <1>1, <1>4, <1>5
<1>7. /\ b \in Seq(Requests) /\ Quotes(b) = Quotes(queue) /\ Len(b) = Len(queue) + 1 /\ b[Len(queue) + 1] = o
  <2>1. /\ b \in Seq(Requests) /\ Quotes(b) = Quotes(queue) + QuoteOf(o) /\ Len(b) = Len(queue) + 1
        /\ b[Len(queue) + 1] = o
    BY <1>1, <1>4
  <2> HIDE DEF b
  <2> QED BY <1>3, <1>5, <2>1
<1>8. c = queue \o (<<u>> \o <<o>>)
  BY <1>2, ConcatAssociative
<1> HIDE DEF a
<1>9. /\ c \in Seq(Requests) /\ Quotes(c) = Quotes(queue) + 1 /\ Len(c) = Len(queue) + 2
      /\ c[Len(queue) + 1] = u /\ c[Len(queue) + 2] = o
  <2>1. /\ c \in Seq(Requests) /\ Quotes(c) = Quotes(a) + QuoteOf(o) /\ Len(c) = Len(a) + 1
        /\ c[Len(a) + 1] = o /\ \A i \in 1..Len(a) : c[i] = a[i]
    BY <1>1, <1>4, <1>6
  <2> HIDE DEF c
  <2>2. Len(queue) + 1 \in 1..Len(a) /\ Len(a) + 1 = Len(queue) + 2
    BY <1>3, <1>6
  <2> QED BY <1>3, <1>5, <1>6, <2>1, <2>2
<1> HIDE DEF b, c
<1>10. CASE quotes /\ bye
  <2>1. Sending(quotes, bye, price) = <<u>> \o <<o>>
    BY <1>10 DEF Sending, u, o
  <2>2. queue \o Sending(quotes, bye, price) = c
    BY <1>8, <2>1
  <2>3. \A i \in (Len(queue) + 1)..Len(c) : i = Len(queue) + 1 \/ i = Len(queue) + 2
    BY <1>3, <1>9
  <2> QED BY <1>1, <1>9, <1>10, <2>2, <2>3 DEF OnlyQuote
<1>11. CASE quotes /\ ~bye
  <2>1. Sending(quotes, bye, price) = <<u>> \o << >>
    BY <1>11 DEF Sending, u
  <2>2. Sending(quotes, bye, price) = <<u>>
    BY <1>2, <2>1, ConcatEmptySeq
  <2>3. queue \o Sending(quotes, bye, price) = a
    BY <2>2 DEF a
  <2>4. \A i \in (Len(queue) + 1)..Len(a) : i = Len(queue) + 1
    BY <1>3, <1>6
  <2> QED BY <1>1, <1>6, <1>11, <2>3, <2>4 DEF OnlyQuote
<1>12. CASE ~quotes /\ bye
  <2>1. Sending(quotes, bye, price) = << >> \o <<o>>
    BY <1>12 DEF Sending, o
  <2>2. Sending(quotes, bye, price) = <<o>>
    BY <1>2, <2>1, ConcatEmptySeq
  <2>3. queue \o Sending(quotes, bye, price) = b
    BY <2>2 DEF b
  <2>4. \A i \in (Len(queue) + 1)..Len(b) : i = Len(queue) + 1
    BY <1>3, <1>7
  <2>5. \A i \in (Len(queue) + 1)..Len(b) : b[i].type = "O"
    BY <1>1, <1>7, <2>4
  <2>6. Quotes(b) = Quotes(queue) + 0
    BY <1>3, <1>7
  <2> QED BY <1>7, <1>12, <2>3, <2>5, <2>6 DEF OnlyQuote
<1>13. CASE ~quotes /\ ~bye
  <2>1. Sending(quotes, bye, price) = << >> \o << >>
    BY <1>13 DEF Sending
  <2>2. Sending(quotes, bye, price) = << >>
    BY <1>2, <2>1, ConcatEmptySeq
  <2>3. queue \o Sending(quotes, bye, price) = queue
    BY <2>2, ConcatEmptySeq
  <2>4. \A i \in (Len(queue) + 1)..Len(queue) : FALSE
    BY <1>3
  <2> QED BY <1>3, <1>13, <2>3, <2>4 DEF OnlyQuote
<1> QED BY <1>10, <1>11, <1>12, <1>13

-----------------------------------------------------------------------------
(* The invariant is kept.                                                  *)

LEMMA OwnFacts ==
  ASSUME scenario \in Scenarios
  PROVE  /\ OwnOnes(OwnRefs) /\ IsFiniteSet(OwnRefs) /\ HistoricalRefs \in Nat
         /\ scenario.maxOrders \in Nat /\ scenario.ackDelay \in Nat /\ scenario.quoteShares \in Nat
         /\ scenario.tape \in Seq(HistoricalMessages)
         /\ \A i, j \in DOMAIN scenario.tape :
              scenario.tape[i].type = "A" /\ scenario.tape[j].type = "A"
                /\ scenario.tape[i].ref = scenario.tape[j].ref => i = j
<1>1. /\ HistoricalRefs \in Nat /\ scenario.maxOrders \in Nat /\ scenario.ackDelay \in Nat /\ scenario.quoteShares \in Nat
      /\ scenario.tape \in Seq(HistoricalMessages)
  BY StrategyAssumption
<1>2. IsFiniteSet(OwnRefs)
  <2>1. HistoricalRefs + 1 \in Int /\ HistoricalRefs + scenario.maxOrders \in Int
    BY <1>1
  <2> QED BY <2>1, FS_Interval DEF OwnRefs
<1>3. OwnOnes(OwnRefs)
  BY <1>1, <1>2 DEF OwnOnes, OwnRefs, IsStrategyRef
<1>4. \A s \in Scenarios : \A i, j \in DOMAIN s.tape :
        s.tape[i].type = "A" /\ s.tape[j].type = "A" /\ s.tape[i].ref = s.tape[j].ref => i = j
  BY StrategyAssumption
<1> QED BY <1>1, <1>2, <1>3, <1>4

LEMMA Weaker ==
  ASSUME NEW own, NEW mk, NEW clean, NEW less, less => clean, NEW b, NEW q, NEW k, Sound(own, mk, clean, b, q, k)
  PROVE  Sound(own, mk, less, b, q, k)
BY DEF Sound

\* What the invariant says of the exchange's side and of the streams.
LEMMA InvFacts ==
  ASSUME IInv
  PROVE  /\ OwnOnes(OwnRefs) /\ IsFiniteSet(OwnRefs) /\ IsMakers(makers)
         /\ IsSeen(OwnRefs, held) /\ IsSeen(OwnRefs, feed)
         /\ IsSeen(OwnRefs, held \o feed) /\ Joins(held, feed, held \o feed)
         /\ Sound(OwnRefs, makers, faults = 0, belief, held \o feed, 0)
         /\ ordersSent = 0 => DOMAIN makers = {}
<1>1. scenario \in Scenarios /\ IsSeen(OwnRefs, held) /\ IsSeen(OwnRefs, feed)
  BY DEF IInv, Types, IsSeen
<1>2. OwnOnes(OwnRefs) /\ IsFiniteSet(OwnRefs) /\ HistoricalRefs \in Nat /\ scenario.maxOrders \in Nat
  BY <1>1, OwnFacts
<1>3. PICK n \in 0..scenario.maxOrders :
        /\ makers \in [(HistoricalRefs + 1)..(HistoricalRefs + n) -> Nat] /\ n + Quotes(orders) <= ordersSent
  BY DEF IInv, GivenOut
<1>4. IsMakers(makers)
  BY <1>3 DEF IsMakers
<1>5. ordersSent = 0 => DOMAIN makers = {}
  <2> SUFFICES ASSUME ordersSent = 0 PROVE DOMAIN makers = {}
    OBVIOUS
  <2>1. Quotes(orders) \in Nat
    BY QuotesType DEF IInv, Types
  <2>2. n = 0
    BY <1>2, <1>3, <2>1
  <2> QED BY <1>2, <1>3, <2>2
<1>6. IsSeen(OwnRefs, held \o feed) /\ Joins(held, feed, held \o feed)
  BY <1>1, Joined
<1> QED BY <1>1, <1>2, <1>4, <1>5, <1>6 DEF IInv

\* The Accepteds that are due are a part from the front.
LEMMA DueIs ==
  ASSUME NEW own, late \in Seq(Acks(own))
  PROVE  \E d \in 0..Len(late) :
           /\ Due(late) \in Seq(Acks(own)) /\ SubSeq(late, Len(Due(late)) + 1, Len(late)) \in Seq(Acks(own))
           /\ Cuts2(late, Due(late), SubSeq(late, Len(Due(late)) + 1, Len(late)), d)
<1> DEFINE ready == {i \in DOMAIN late : \A j \in 1..i : late[j].due <= now}
           d == Cardinality(ready)
<1>1. Len(late) \in Nat /\ DOMAIN late = 1..Len(late)
  BY LenProperties
<1>2. Due(late) = SubSeq(late, 1, d)
  BY DEF Due
<1>3. d \in 0..Len(late)
  <2>1. IsFiniteSet(1..Len(late)) /\ Cardinality(1..Len(late)) = Len(late)
    BY <1>1, FS_Interval
  <2>2. ready \in SUBSET (1..Len(late))
    BY <1>1
  <2> HIDE DEF ready
  <2>3. IsFiniteSet(ready) /\ Cardinality(ready) <= Len(late)
    BY <2>1, <2>2, FS_Subset
  <2>4. Cardinality(ready) \in Nat
    BY <2>3, FS_CardinalityType
  <2> QED BY <1>1, <2>3, <2>4
<1> HIDE DEF d, ready
<1>4. /\ SubSeq(late, 1, d) \in Seq(Acks(own)) /\ SubSeq(late, d + 1, Len(late)) \in Seq(Acks(own))
      /\ Cuts2(late, SubSeq(late, 1, d), SubSeq(late, d + 1, Len(late)), d)
  <2> DEFINE S == Acks(own)
  <2>1. late \in Seq(S)
    OBVIOUS
  <2> HIDE DEF S
  <2>2. /\ SubSeq(late, 1, d) \in Seq(S) /\ SubSeq(late, d + 1, Len(late)) \in Seq(S)
        /\ Cuts2(late, SubSeq(late, 1, d), SubSeq(late, d + 1, Len(late)), d)
    BY <1>3, <2>1, CutAt
  <2> QED BY <2>2 DEF S
<1>5. Len(Due(late)) = d
  BY <1>2, <1>4 DEF Cuts2
<1> QED BY <1>2, <1>3, <1>4, <1>5

\* The turn up to its replies.
Ticked(silent) == ClientTimedOut(IF silent THEN [client EXCEPT !.heard = Oldest] ELSE client)
Started(silent) ==
  [session |-> [Ticked(silent) EXCEPT !.heard = 0], belief |-> BoundAll(belief, Due(late)),
   late |-> SubSeq(late, Len(Due(late)) + 1, Len(late))]
ToldBy(nReplies, silent) == FoldLeft(Replied, Started(silent), SubSeq(replies, 1, nReplies))

LEMMA SessionStarted ==
  ASSUME IsSession(client), NEW silent
  PROVE  LET s == [Ticked(silent) EXCEPT !.heard = 0] IN
         IsSession(s) /\ s.state \in {client.state, "LoginTimedOut", "Dead"}
<1> DEFINE s0 == IF silent THEN [client EXCEPT !.heard = Oldest] ELSE client
           s1 == Ticked(silent)
<1>1. IsSession(s0) /\ s0.state = client.state
  <2>1. CASE silent
    <3>1. s0 = [client EXCEPT !.heard = Oldest]
      BY <2>1
    <3> QED BY <3>1 DEF IsSession
  <2>2. CASE ~silent
    BY <2>2
  <2> QED BY <2>1, <2>2
<1>2. s1 = ClientTimedOut(s0)
  BY DEF Ticked
<1> HIDE DEF s0, s1
<1>3. IsSession(s1) /\ s1.state \in {client.state, "LoginTimedOut", "Dead"}
  BY <1>1, <1>2, TimedOutIs
<1>4. IsSession([s1 EXCEPT !.heard = 0]) /\ [s1 EXCEPT !.heard = 0].state = s1.state
  BY <1>3 DEF IsSession
<1> QED BY <1>3, <1>4 DEF s1

LEMMA TurnStarted ==
  ASSUME IInv, NEW silent
  PROVE  Carried(OwnRefs, makers, faults = 0, held \o feed, belief.seen, ordersSent = 0,
                 Started(silent), replies, 0)
<1> DEFINE own == OwnRefs
           clean == (faults = 0)
           q == held \o feed
           due == Due(late)
           keep == SubSeq(late, Len(due) + 1, Len(late))
           s == [Ticked(silent) EXCEPT !.heard = 0]
           b == BoundAll(belief, due)
           c == Started(silent)
<1>1. IsFiniteSet(own) /\ Sound(own, makers, clean, belief, q, 0)
  BY InvFacts
<1>2. late \in Seq(Acks(own)) /\ replies \in Seq(Frames(own)) /\ IsSession(client)
  BY DEF IInv, Types
<1>3. IsSession(s) /\ s.state \in {client.state, "LoginTimedOut", "Dead"}
  BY <1>2, SessionStarted
<1>4. PICK d \in 0..Len(late) : due \in Seq(Acks(own)) /\ keep \in Seq(Acks(own)) /\ Cuts2(late, due, keep, d)
  BY <1>2, DueIs
<1>5. /\ DOMAIN c = {"session", "belief", "late"} /\ c.session = s /\ c.belief = b /\ c.late = keep
  BY DEF Started
<1>6. /\ \A i \in DOMAIN late : late[i].ref \in DOMAIN makers
      /\ client.state = "AwaitingLogin" => ordersSent = 0
      /\ client.state = "LoggedIn" => \A r \in DOMAIN makers :
           r \in belief.refs \/ Awaited(late, r) \/ \E i \in DOMAIN replies : IsAccept(replies[i], r)
  BY DEF IInv, Answers
<1> HIDE DEF own, clean, q, due, keep, s, b, c
<1>7. /\ d \in Nat /\ Len(late) \in Nat /\ DOMAIN late = 1..Len(late)
      /\ Len(due) = d /\ DOMAIN due = 1..d /\ \A i \in 1..d : due[i] = late[i] /\ i \in DOMAIN late
      /\ DOMAIN keep = 1..(Len(late) - d) /\ \A i \in 1..(Len(late) - d) : keep[i] = late[d + i] /\ d + i \in DOMAIN late
  BY <1>4 DEF Cuts2
<1>8. Accepted(own, makers, due) /\ Accepted(own, makers, keep)
  <2>1. \A i \in DOMAIN late : late[i] \in Acks(own)
    BY <1>2, ElementOfSeq
  <2>2. \A i \in DOMAIN late : late[i].ref \in own
    BY <2>1 DEF Acks
  <2> QED BY <1>6, <1>7, <2>2 DEF Accepted
<1>9. /\ Sound(own, makers, clean, b, q, 0) /\ b.refs = belief.refs \cup {due[i].ref : i \in 1..d}
      /\ b.seen = belief.seen
  <2>1. Spans(due, d)
    BY <1>7 DEF Spans
  <2> QED BY <1>1, <1>7, <1>8, <2>1, BoundAllSound DEF b
<1>10. ASSUME s.state = "LoggedIn" PROVE Known(makers, b.refs, keep, replies, 0)
  <2>1. client.state = "LoggedIn"
    BY <1>3, <1>10
  <2> SUFFICES ASSUME NEW r \in DOMAIN makers
               PROVE  r \in b.refs \/ Awaited(keep, r) \/ \E i \in (0 + 1)..Len(replies) : IsAccept(replies[i], r)
    BY DEF Known
  <2>2. r \in belief.refs \/ Awaited(late, r) \/ \E i \in DOMAIN replies : IsAccept(replies[i], r)
    BY <1>6, <2>1
  <2>3. CASE Awaited(late, r)
    <3>1. PICK i \in DOMAIN late : late[i].ref = r
      BY <2>3 DEF Awaited
    <3>2. CASE i <= d
      <4>1. i \in 1..d
        BY <1>7, <3>2
      <4> QED BY <1>7, <1>9, <3>1, <4>1
    <3>3. CASE ~(i <= d)
      <4>1. i - d \in 1..(Len(late) - d) /\ d + (i - d) = i
        BY <1>7, <3>3
      <4>2. i - d \in DOMAIN keep /\ keep[i - d].ref = r
        BY <1>7, <3>1, <4>1
      <4> QED BY <4>2 DEF Awaited
    <3> QED BY <3>2, <3>3
  <2>4. DOMAIN replies = (0 + 1)..Len(replies)
    BY <1>2, LenProperties
  <2> QED BY <1>9, <2>2, <2>3, <2>4
<1>11. s.state = "AwaitingLogin" => ordersSent = 0
  BY <1>3, <1>6
<1>12. Carried(own, makers, clean, q, belief.seen, ordersSent = 0, c, replies, 0)
  BY <1>3, <1>4, <1>5, <1>8, <1>9, <1>10, <1>11 DEF Carried
<1> QED BY <1>12 DEF own, clean, q, c

LEMMA TurnTold ==
  ASSUME IInv, NEW silent, NEW nReplies \in 0..Len(replies)
  PROVE  Carried(OwnRefs, makers, faults = 0, held \o feed, belief.seen, ordersSent = 0,
                 ToldBy(nReplies, silent), replies, nReplies)
<1> DEFINE own == OwnRefs
           clean == (faults = 0)
           q == held \o feed
           seen == belief.seen
           fresh == (ordersSent = 0)
           c == Started(silent)
           read == SubSeq(replies, 1, nReplies)
           n == nReplies
<1>1. Carried(own, makers, clean, q, seen, fresh, c, replies, 0)
  BY TurnStarted
<1>2. replies \in Seq(Frames(own)) /\ now \in Nat
  BY DEF IInv, Types
<1>3. ReplyFacts(own, makers, fresh, replies)
  <2>1. IsFiniteSet(own) /\ scenario.ackDelay \in Nat /\ (fresh => DOMAIN makers = {})
    BY InvFacts, OwnFacts DEF IInv, Types
  <2>2. \A i \in DOMAIN replies : replies[i].type = "S" /\ replies[i].ouch = "accepted" => replies[i].ref \in DOMAIN makers
    BY DEF IInv, Answers
  <2> HIDE DEF own, fresh
  <2> QED BY <1>2, <2>1, <2>2 DEF ReplyFacts
<1>4. Spans(read, n) /\ \A i \in 1..n : read[i] = replies[i]
  <2> DEFINE S == Frames(own)
  <2>1. replies \in Seq(S)
    BY <1>2
  <2> HIDE DEF S
  <2>2. Cuts2(replies, SubSeq(replies, 1, nReplies), SubSeq(replies, nReplies + 1, Len(replies)), nReplies)
    BY <2>1, CutAt
  <2> QED BY <2>2 DEF Cuts2, Spans
<1> HIDE DEF own, clean, q, seen, fresh, c, read
<1>5. Carried(own, makers, clean, q, seen, fresh, FoldLeft(Replied, c, read), replies, n)
  BY <1>1, <1>3, <1>4, RepliesKeep
<1> QED BY <1>5 DEF own, clean, q, seen, fresh, c, read, ToldBy

\* What a turn does, by what it decides.
Arrived(nFeed) == held \o SubSeq(feed, 1, nFeed)
Behind2(arrived, handed) == SubSeq(arrived, Len(handed) + 1, Len(arrived))
TurnDone(nReplies, nFeed, silent, handed, quotes, bye, leaves) ==
  LET told == ToldBy(nReplies, silent)
      b    == Heeded(told.belief, handed)
      rest == Behind2(Arrived(nFeed), handed)
  IN  /\ quotes => WantsToQuote(b, told.session)
      /\ client' = told.session /\ late' = told.late
      /\ orders' \in {orders, orders \o Sending(quotes, bye, QuotePrice(b))}
      /\ ordersSent' = IF quotes THEN ordersSent + 1 ELSE ordersSent
      /\ phase' = IF leaves THEN "reported" ELSE "running"
      /\ belief' = IF leaves THEN Heeded(BoundAll(b, told.late), rest) ELSE b
      /\ held' = IF leaves THEN << >> ELSE rest
TurnFrame(nReplies, nFeed) ==
  /\ faults' \in {faults, faults + 1, faults + 1 + 1, faults + 0 + 1, faults + 1 + 0, faults + 0 + 0}
  /\ replies' = SubSeq(replies, nReplies + 1, Len(replies))
  /\ feed' = SubSeq(feed, nFeed + 1, Len(feed))
  /\ scenario' = scenario /\ now' = now /\ tape' = tape /\ makers' = makers

LEMMA TurnIs ==
  ASSUME NEW nReplies, NEW nFeed, NEW silent, NEW gone, Turn(nReplies, nFeed, silent, gone)
  PROVE  /\ phase = "running" /\ TurnFrame(nReplies, nFeed)
         /\ \E handed \in {BeforeHole(Arrived(nFeed)), Arrived(nFeed)} : \E quotes, bye, leaves \in BOOLEAN :
              TurnDone(nReplies, nFeed, silent, handed, quotes, bye, leaves)
<1>1. phase = "running" /\ TurnFrame(nReplies, nFeed)
  BY DEF Turn, TurnFrame, exchangeVars
<1> DEFINE told == ToldBy(nReplies, silent)
           arrived == Arrived(nFeed)
           B(handed) == Heeded(told.belief, handed)
           quotes(handed) == WantsToQuote(B(handed), told.session)
           over == ended \/ \E i \in DOMAIN arrived : arrived[i].type = "end"
           bye == over /\ endedAt = NotYet
           wrote(handed) == Sending(quotes(handed), bye, QuotePrice(B(handed)))
           broken == exchangeGone \/ gone
           leaves == \/ over /\ (broken \/ (~bye /\ now - endedAt > Grace))
                     \/ now >= LifeTime
           rest(handed) == Behind2(arrived, handed)
<1>2. PICK handed \in {BeforeHole(arrived), arrived} :
        /\ client' = told.session /\ late' = told.late
        /\ orders' = IF broken THEN orders ELSE orders \o wrote(handed)
        /\ ordersSent' = IF quotes(handed) THEN ordersSent + 1 ELSE ordersSent
        /\ phase' = IF leaves THEN "reported" ELSE "running"
        /\ belief' = IF leaves THEN Heeded(BoundAll(B(handed), late'), rest(handed)) ELSE B(handed)
        /\ held' = IF leaves THEN << >> ELSE rest(handed)
  BY DEF Turn, ToldBy, Started, Ticked, Arrived, Behind2, Sending, HeldDrained
<1> DEFINE wants == quotes(handed)
<1>3. wants \in BOOLEAN /\ bye \in BOOLEAN /\ leaves \in BOOLEAN /\ (wants => WantsToQuote(B(handed), told.session))
  BY DEF WantsToQuote
<1>4. orders' \in {orders, orders \o Sending(wants, bye, QuotePrice(B(handed)))}
  BY <1>2
<1>5. TurnDone(nReplies, nFeed, silent, handed, wants, bye, leaves)
  <2> HIDE DEF bye, leaves, wants
  <2>1. quotes(handed) = wants
    BY DEF wants
  <2> QED BY <1>2, <1>3, <1>4, <2>1 DEF TurnDone
<1> HIDE DEF wants, bye, leaves
<1> QED BY <1>1, <1>2, <1>3, <1>5

LEMMA TurnSound ==
  ASSUME IInv, NEW nReplies \in 0..Len(replies), NEW nFeed \in 0..Len(feed), NEW silent,
         NEW handed \in {BeforeHole(Arrived(nFeed)), Arrived(nFeed)}, NEW quotes \in BOOLEAN, NEW bye \in BOOLEAN,
         NEW leaves \in BOOLEAN, TurnDone(nReplies, nFeed, silent, handed, quotes, bye, leaves),
         TurnFrame(nReplies, nFeed)
  PROVE  /\ Sound(OwnRefs, makers, faults = 0, belief', held' \o feed', 0)
         /\ IsSeen(OwnRefs, held') /\ IsSeen(OwnRefs, feed') /\ Among(belief, held \o feed, belief', held' \o feed')
         /\ ToldBy(nReplies, silent).belief.refs \subseteq belief'.refs
         /\ leaves => \A i \in DOMAIN late' : late'[i].ref \in belief'.refs
<1> DEFINE own == OwnRefs
           clean == (faults = 0)
           q == held \o feed
           told == ToldBy(nReplies, silent)
           b0 == told.belief
           arrived == Arrived(nFeed)
           b == Heeded(b0, handed)
           rest == SubSeq(arrived, Len(handed) + 1, Len(arrived))
           more == SubSeq(feed, nFeed + 1, Len(feed))
           c == Heeded(BoundAll(b, told.late), rest)
<1>1. /\ OwnOnes(own) /\ IsMakers(makers) /\ IsSeen(own, held) /\ IsSeen(own, feed)
  BY InvFacts
<1>2. Carried(own, makers, clean, q, belief.seen, ordersSent = 0, told, replies, nReplies)
  BY TurnTold
<1>3. /\ late' = told.late /\ belief' = (IF leaves THEN c ELSE b) /\ held' = (IF leaves THEN << >> ELSE rest)
      /\ feed' = more
  BY DEF TurnDone, TurnFrame, Behind2
<1>4. HasArrived(arrived, held, feed, nFeed)
  BY DEF HasArrived, Arrived
<1> HIDE DEF own, clean, told, arrived
<1>5. /\ Sound(own, makers, clean, b0, held \o feed, 0) /\ b0.seen = belief.seen
      /\ told.late \in Seq(Acks(own)) /\ Accepted(own, makers, told.late)
  BY <1>2 DEF Carried
<1> DEFINE n == Len(told.late)
<1>6. n \in Nat /\ Spans(told.late, n) /\ DOMAIN told.late = 1..n
  BY <1>5, LenProperties DEF Spans
<1> HIDE DEF b0, q
<1>7. Reads(own, makers, clean, b0, held \o feed, handed, rest, more)
  <2>1. handed \in {BeforeHole(arrived), arrived}
    BY DEF arrived
  <2>2. Sound(own, makers, clean, b0, held \o feed, 0)
    BY <1>5
  <2> QED BY <1>1, <1>4, <2>1, <2>2, ReadingSound
<1>8. /\ Sound(own, makers, clean, c, << >> \o more, 0)
      /\ c.refs = b0.refs \cup {told.late[i].ref : i \in 1..n} /\ Among(b0, held \o feed, c, << >> \o more)
  BY <1>5, <1>6, <1>7 DEF Reads
<1>13. /\ IsSeen(own, rest) /\ IsSeen(own, more) /\ Sound(own, makers, clean, b, rest \o more, 0)
       /\ b.refs = b0.refs /\ Among(b0, held \o feed, b, rest \o more)
  BY <1>7 DEF Reads
<1> HIDE DEF b, rest, more, c
<1>9. \A e, p : Among(b0, held \o feed, e, p) => Among(belief, held \o feed, e, p)
  BY <1>5 DEF Among
<1>10. IsSeen(own, << >>)
  BY EmptySeq DEF IsSeen
<1>11. CASE leaves
  <2>1. late' = told.late /\ belief' = c /\ held' = << >> /\ feed' = more
    BY <1>3, <1>11
  <2>2. \A i \in DOMAIN late' : late'[i].ref \in belief'.refs
    BY <1>6, <1>8, <2>1
  <2> HIDE DEF n
  <2>3. b0.refs \subseteq belief'.refs
    BY <1>8, <2>1
  <2> QED BY <1>8, <1>9, <1>10, <1>11, <1>13, <2>1, <2>2, <2>3 DEF own, clean, told, b0
<1>12. CASE ~leaves
  <2>1. belief' = b /\ held' = rest /\ feed' = more
    BY <1>3, <1>12
  <2>2. b0.refs \subseteq belief'.refs
    BY <1>13, <2>1
  <2> QED BY <1>9, <1>12, <1>13, <2>1, <2>2 DEF own, clean, told, b0
<1> QED BY <1>11, <1>12

\* Orders on their way grow no faster than orders sent.
LEMMA Outstanding ==
  \A n, was, is, sent, next \in Int : is - next <= was - sent /\ n + was <= sent => n + is <= next
OBVIOUS

LEMMA TurnKeeps ==
  ASSUME IInv, NEW nReplies \in 0..Len(replies), NEW nFeed \in 0..Len(feed), NEW silent, NEW gone,
         Turn(nReplies, nFeed, silent, gone)
  PROVE  IInv'
<1> DEFINE own == OwnRefs
           told == ToldBy(nReplies, silent)
<1>1. TurnFrame(nReplies, nFeed)
  BY TurnIs
<1>2. PICK handed \in {BeforeHole(Arrived(nFeed)), Arrived(nFeed)}, quotes \in BOOLEAN, bye \in BOOLEAN, leaves \in BOOLEAN :
        TurnDone(nReplies, nFeed, silent, handed, quotes, bye, leaves)
  BY TurnIs
<1> DEFINE b == Heeded(told.belief, handed)
<1>3. /\ Sound(own, makers, faults = 0, belief', held' \o feed', 0)
      /\ IsSeen(own, held') /\ IsSeen(own, feed') /\ Among(belief, held \o feed, belief', held' \o feed')
      /\ told.belief.refs \subseteq belief'.refs
      /\ leaves => \A i \in DOMAIN late' : late'[i].ref \in belief'.refs
  BY <1>1, <1>2, TurnSound
<1>4. /\ quotes => told.session.state = "LoggedIn" /\ ordersSent < scenario.maxOrders
      /\ client' = told.session /\ late' = told.late
      /\ orders' \in {orders, orders \o Sending(quotes, bye, QuotePrice(b))}
      /\ ordersSent' = (IF quotes THEN ordersSent + 1 ELSE ordersSent)
      /\ phase' = (IF leaves THEN "reported" ELSE "running")
  BY <1>2 DEF TurnDone, WantsToQuote
<1>5. Carried(own, makers, faults = 0, held \o feed, belief.seen, ordersSent = 0, told, replies, nReplies)
  BY TurnTold
<1>6. OwnRefs' = own /\ scenario' = scenario /\ makers' = makers /\ now' = now /\ tape' = tape
  BY <1>1 DEF TurnFrame, OwnRefs
<1>7. /\ scenario \in Scenarios /\ orders \in Seq(Requests) /\ replies \in Seq(Frames(own)) /\ now \in Nat
      /\ tape \in Seq(HistoricalMessages) /\ faults \in Nat /\ ordersSent \in 0..scenario.maxOrders
  BY DEF IInv, Types
<1>8. QuotePrice(b) \in Int
  <2>1. IsFiniteSet(own) /\ OwnOnes(own)
    BY InvFacts
  <2>2. Belief(own, b)
    <3>1. Sound(own, makers, faults = 0, told.belief, held \o feed, 0)
      BY <1>5 DEF Carried
    <3> DEFINE rest == SubSeq(Arrived(nFeed), Len(handed) + 1, Len(Arrived(nFeed)))
               more == SubSeq(feed, nFeed + 1, Len(feed))
               clean == faults = 0
    <3>2. Reads(own, makers, clean, told.belief, held \o feed, handed, rest, more)
      <4>1. /\ OwnOnes(own) /\ IsMakers(makers) /\ IsSeen(own, held) /\ IsSeen(own, feed)
        BY InvFacts
      <4>2. HasArrived(Arrived(nFeed), held, feed, nFeed)
        BY DEF HasArrived, Arrived
      <4>3. Sound(own, makers, clean, told.belief, held \o feed, 0)
        BY <3>1
      <4> HIDE DEF own, told, clean
      <4> QED BY <4>1, <4>2, <4>3, ReadingSound
    <3> QED BY <3>2 DEF Reads, Sound
  <2> QED BY <2>1, <2>2, PriceFacts
<1> HIDE DEF own, told, b
<1>9. /\ orders' \in Seq(Requests) /\ ordersSent' \in 0..scenario.maxOrders
      /\ Quotes(orders') - ordersSent' <= Quotes(orders) - ordersSent /\ Quotes(orders') \in Nat /\ Quotes(orders) \in Nat
  <2> DEFINE sent == orders \o Sending(quotes, bye, QuotePrice(b))
  <2>1. /\ sent \in Seq(Requests) /\ Quotes(sent) = Quotes(orders) + (IF quotes THEN 1 ELSE 0)
    BY <1>7, <1>8, SendingIs
  <2>2. Quotes(orders) \in Nat /\ Quotes(sent) \in Nat
    BY <1>7, <2>1, QuotesType
  <2> HIDE DEF sent
  <2>3. scenario.maxOrders \in Nat
    BY <1>7, OwnFacts
  <2>4. orders' = orders \/ orders' = sent
    BY <1>4 DEF sent
  <2>5. orders' \in Seq(Requests) /\ Quotes(orders') \in Nat
    BY <1>7, <2>1, <2>2, <2>4
  <2>6. ordersSent \in Int /\ ordersSent' \in 0..scenario.maxOrders
    BY <1>4, <1>7, <2>3
  <2>7. CASE quotes
    <3>1. ordersSent' = ordersSent + 1 /\ Quotes(sent) = Quotes(orders) + 1
      BY <1>4, <2>1, <2>7
    <3>2. Quotes(orders') = Quotes(orders) \/ Quotes(orders') = Quotes(orders) + 1
      BY <2>4, <3>1
    <3>3. Quotes(orders') - ordersSent' <= Quotes(orders) - ordersSent
      BY <2>2, <2>5, <2>6, <3>1, <3>2
    <3> QED BY <2>2, <2>5, <2>6, <3>3
  <2>8. CASE ~quotes
    <3>1. ordersSent' = ordersSent /\ Quotes(orders') = Quotes(orders)
      BY <1>4, <2>1, <2>2, <2>4, <2>8
    <3> QED BY <2>2, <2>5, <2>6, <3>1
  <2> QED BY <2>7, <2>8
<1>10. replies' \in Seq(Frames(own)) /\ Cuts2(replies, SubSeq(replies, 1, nReplies), replies', nReplies)
  <2> DEFINE S == Frames(own)
  <2>1. replies \in Seq(S)
    BY <1>7
  <2> HIDE DEF S
  <2>2. /\ SubSeq(replies, nReplies + 1, Len(replies)) \in Seq(S)
        /\ Cuts2(replies, SubSeq(replies, 1, nReplies), SubSeq(replies, nReplies + 1, Len(replies)), nReplies)
    BY <2>1, CutAt
  <2> QED BY <1>1, <2>2 DEF TurnFrame, S
<1>11. faults' \in Nat /\ (faults' = 0 => faults = 0)
  BY <1>1, <1>7 DEF TurnFrame
<1>12. Types'
  <2>1. IsSession(client') /\ late' \in Seq(Acks(own))
    BY <1>4, <1>5 DEF Carried
  <2>2. held' \in Seq(Stream(own)) /\ feed' \in Seq(Stream(own))
    BY <1>3 DEF IsSeen
  <2> QED BY <1>6, <1>7, <1>9, <1>10, <1>11, <2>1, <2>2 DEF Types, own
<1>13. GivenOut'
  <2>1. PICK n \in 0..scenario.maxOrders :
          /\ makers \in [(HistoricalRefs + 1)..(HistoricalRefs + n) -> Nat] /\ n + Quotes(orders) <= ordersSent
    BY DEF IInv, GivenOut
  <2>2. scenario.maxOrders \in Nat
    BY <1>7, OwnFacts
  <2>3. n + Quotes(orders') <= ordersSent'
    <3>1. n \in Int /\ ordersSent \in Int /\ ordersSent' \in Int
      BY <1>7, <1>9, <2>1, <2>2
    <3>2. n + Quotes(orders) <= ordersSent
      BY <2>1
    <3>3. /\ Quotes(orders') - ordersSent' <= Quotes(orders) - ordersSent
          /\ Quotes(orders') \in Int /\ Quotes(orders) \in Int
      BY <1>9
    <3> QED BY <3>1, <3>2, <3>3, Outstanding, Zenon
  <2> QED BY <1>6, <2>1, <2>3 DEF GivenOut
<1>14. TapeNew'
  <2>1. TapeNew
    BY DEF IInv
  <2>2. \A i \in DOMAIN tape : tape[i].type = "A" => ~Told(belief'.seen, tape[i].ref)
    BY <1>3, <2>1 DEF Among, TapeNew
  <2>3. \A i \in DOMAIN tape : tape[i].type = "A" =>
          \A j \in DOMAIN (held' \o feed') : ~IsAdd((held' \o feed')[j], tape[i].ref)
    BY <1>3, <2>1 DEF Among, TapeNew
  <2>4. \A i, j \in DOMAIN tape : tape[i].type = "A" /\ IsAdd(tape[j], tape[i].ref) => i = j
    BY <2>1 DEF TapeNew
  <2> QED BY <1>6, <2>2, <2>3, <2>4 DEF TapeNew
<1>15. Answers'
  <2>1. \A i \in DOMAIN late' : late'[i].ref \in DOMAIN makers
    BY <1>4, <1>5 DEF Carried, Accepted
  <2>2. /\ nReplies \in Nat /\ Len(replies) \in Nat /\ DOMAIN replies' = 1..(Len(replies) - nReplies)
        /\ DOMAIN replies = 1..Len(replies)
        /\ \A i \in 1..(Len(replies) - nReplies) : replies'[i] = replies[nReplies + i]
    BY <1>10 DEF Cuts2
  <2>3. \A i \in DOMAIN replies' :
          replies'[i].type = "S" /\ replies'[i].ouch = "accepted" => replies'[i].ref \in DOMAIN makers
    <3>1. \A i \in DOMAIN replies : replies[i].type = "S" /\ replies[i].ouch = "accepted" => replies[i].ref \in DOMAIN makers
      BY DEF IInv, Answers
    <3>2. \A i \in DOMAIN replies' : nReplies + i \in DOMAIN replies
      BY <2>2
    <3> QED BY <2>2, <3>1, <3>2
  <2>4. client'.state = "AwaitingLogin" => ordersSent' = 0
    BY <1>4, <1>5 DEF Carried
  <2>5. client'.state = "LoggedIn" => \A r \in DOMAIN makers :
          r \in belief'.refs \/ Awaited(late', r) \/ \E i \in DOMAIN replies' : IsAccept(replies'[i], r)
    <3> SUFFICES ASSUME client'.state = "LoggedIn", NEW r \in DOMAIN makers
                 PROVE  r \in belief'.refs \/ Awaited(late', r) \/ \E i \in DOMAIN replies' : IsAccept(replies'[i], r)
      OBVIOUS
    <3>1. r \in told.belief.refs \/ Awaited(told.late, r) \/ \E i \in (nReplies + 1)..Len(replies) : IsAccept(replies[i], r)
      BY <1>4, <1>5 DEF Carried, Known
    <3>2. \A i \in (nReplies + 1)..Len(replies) : i - nReplies \in DOMAIN replies' /\ nReplies + (i - nReplies) = i
      BY <2>2
    <3>3. \A i \in (nReplies + 1)..Len(replies) : replies'[i - nReplies] = replies[i]
      BY <2>2, <3>2
    <3> QED BY <1>3, <1>4, <3>1, <3>2, <3>3
  <2>6. phase' = "reported" => \A i \in DOMAIN late' : late'[i].ref \in belief'.refs
    BY <1>3, <1>4
  <2> QED BY <1>6, <2>1, <2>3, <2>4, <2>5, <2>6 DEF Answers
<1>16. Sound(own, makers, faults' = 0, belief', held' \o feed', 0)
  BY <1>3, <1>11, Weaker
<1> QED BY <1>6, <1>12, <1>13, <1>14, <1>15, <1>16 DEF IInv

\* What is said is appended to the feed.
LEMMA FeedSaid ==
  ASSUME NEW own, NEW box, IsSeen(own, box), NEW wire, IsSeen(own, wire), NEW msg, IsText(own, msg)
  PROVE  /\ Append(wire, msg) = wire \o <<msg>> /\ IsSeen(own, wire \o <<msg>>)
         /\ IsSeen(own, box \o wire) /\ IsSeen(own, box \o (wire \o <<msg>>))
         /\ Grows(box \o wire, box \o (wire \o <<msg>>), msg, Len(box \o wire))
<1> DEFINE S == Stream(own)
           q == box \o wire
           one == <<msg>>
<1>1. box \in Seq(S) /\ wire \in Seq(S) /\ msg \in S
  BY DEF IsSeen, IsText
<1>2. one \in Seq(S)
  BY <1>1
<1>3. IsSeen(own, q)
  BY Joined
<1>4. q \in Seq(S)
  BY <1>3 DEF IsSeen
<1> HIDE DEF S, q
<1>5. Append(wire, msg) = wire \o one /\ Append(q, msg) = q \o one
  BY <1>1, <1>4, AppendIsConcat
<1>6. q \o one = box \o (wire \o one)
  <2>1. (box \o wire) \o one = box \o (wire \o one)
    <3> HIDE DEF one
    <3> QED BY <1>1, <1>2, ConcatAssociative
  <2> QED BY <2>1 DEF q
<1>7. IsSeen(own, wire \o one) /\ IsSeen(own, q \o one)
  <2>1. Append(wire, msg) \in Seq(S) /\ Append(q, msg) \in Seq(S)
    BY <1>1, <1>4, AppendProperties
  <2> QED BY <1>5, <2>1 DEF IsSeen, S
<1>8. Grows(q, Append(q, msg), msg, Len(q))
  BY <1>3, SeenGrows
<1> QED BY <1>3, <1>5, <1>6, <1>7, <1>8 DEF q

LEMMA SaidKeeps ==
  ASSUME IInv, NEW msg, IsText(OwnRefs, msg), IsMakers(makers'),
         SaidNext(OwnRefs, makers, makers', belief, held \o feed, msg),
         feed' = feed \o <<msg>>, belief' = belief, held' = held, faults' = faults, scenario' = scenario
  PROVE  /\ OwnRefs' = OwnRefs /\ feed' \in Seq(Stream(OwnRefs))
         /\ Sound(OwnRefs, makers', faults' = 0, belief', held' \o feed', 0)
         /\ Grows(held \o feed, held' \o feed', msg, Len(held \o feed))
<1> DEFINE own == OwnRefs
           q == held \o feed
           p == held \o (feed \o <<msg>>)
           n == Len(q)
           clean == faults = 0
<1>1. /\ OwnOnes(own) /\ IsMakers(makers) /\ IsSeen(own, held) /\ IsSeen(own, feed)
      /\ Sound(own, makers, clean, belief, q, 0)
  BY InvFacts
<1>2. /\ IsSeen(own, q) /\ IsSeen(own, p) /\ IsSeen(own, feed \o <<msg>>) /\ Grows(q, p, msg, n)
  BY <1>1, FeedSaid
<1>3. MessageOf(own, msg) /\ SaidNext(own, makers, makers', belief, q, msg)
  BY <1>1, MessageFacts
<1> HIDE DEF own, q, p, n, clean
<1>4. Sound(own, makers', clean, belief, p, 0)
  BY <1>1, <1>2, <1>3, SaidSound
<1>5. OwnRefs' = OwnRefs
  BY DEF OwnRefs
<1>6. feed' \in Seq(Stream(own)) /\ held' \o feed' = p /\ (faults' = 0) = clean
  BY <1>2 DEF IsSeen, p, clean
<1> QED BY <1>2, <1>4, <1>5, <1>6 DEF own, q, n

LEMMA TapeKept ==
  ASSUME IInv, NEW msg, Grows(held \o feed, held' \o feed', msg, Len(held \o feed)), belief' = belief, tape' = tape,
         \A i \in DOMAIN tape : tape[i].type = "A" => ~IsAdd(msg, tape[i].ref)
  PROVE  TapeNew'
<1> DEFINE q == held \o feed
           p == held' \o feed'
<1>1. TapeNew
  BY DEF IInv
<1>2. \A j \in DOMAIN p : p[j] = msg \/ (j \in DOMAIN q /\ p[j] = q[j])
  <2> DEFINE n == Len(q)
  <2>1. Grows(q, p, msg, n)
    OBVIOUS
  <2> HIDE DEF p, q, n
  <2>2. \A j \in 1..(n + 1) : j \in 1..n \/ j = n + 1
    BY <2>1 DEF Grows
  <2> QED BY <2>1, <2>2 DEF Grows
<1>3. ASSUME NEW i \in DOMAIN tape, tape[i].type = "A", NEW j \in DOMAIN p
      PROVE  ~IsAdd(p[j], tape[i].ref)
  <2> HIDE DEF p
  <2> QED BY <1>1, <1>2, <1>3 DEF TapeNew
<1>4. \A i, j \in DOMAIN tape : tape[i].type = "A" /\ IsAdd(tape[j], tape[i].ref) => i = j
  BY <1>1 DEF TapeNew
<1>5. \A i \in DOMAIN tape : tape[i].type = "A" => ~Told(belief.seen, tape[i].ref)
  BY <1>1 DEF TapeNew
<1> QED BY <1>3, <1>4, <1>5 DEF TapeNew

\* What the replies gain.
LEMMA FramesJoin ==
  ASSUME NEW own, NEW queue \in Seq(Frames(own)), NEW frames \in Seq(Frames(own))
  PROVE  LET all == queue \o frames IN
         /\ all \in Seq(Frames(own))
         /\ \A i \in DOMAIN queue : i \in DOMAIN all /\ all[i] = queue[i]
         /\ \A i \in DOMAIN frames : Len(queue) + i \in DOMAIN all /\ all[Len(queue) + i] = frames[i]
         /\ \A i \in DOMAIN all : (i \in DOMAIN queue /\ all[i] = queue[i]) \/ \E j \in DOMAIN frames : all[i] = frames[j]
<1> DEFINE S == Frames(own)
           all == queue \o frames
           m == Len(queue)
           n == Len(frames)
<1>1. queue \in Seq(S) /\ frames \in Seq(S)
  OBVIOUS
<1> HIDE DEF S
<1>2. /\ all \in Seq(S) /\ Len(all) = m + n
      /\ \A i \in 1..(m + n) : all[i] = IF i <= m THEN queue[i] ELSE frames[i - m]
  BY <1>1, ConcatProperties
<1>3. /\ m \in Nat /\ n \in Nat /\ DOMAIN queue = 1..m /\ DOMAIN frames = 1..n /\ DOMAIN all = 1..Len(all)
  BY <1>1, <1>2, LenProperties
<1> HIDE DEF all, m, n
<1>4. \A i \in 1..m : i \in 1..(m + n) /\ all[i] = queue[i]
  BY <1>2, <1>3
<1>5. ASSUME NEW i \in 1..n PROVE m + i \in 1..(m + n) /\ all[m + i] = frames[i]
  <2>1. m + i \in 1..(m + n) /\ ~(m + i <= m) /\ (m + i) - m = i
    BY <1>3
  <2> QED BY <1>2, <2>1
<1>6. ASSUME NEW i \in 1..(m + n) PROVE i \in 1..m \/ \E j \in 1..n : all[i] = frames[j]
  <2>1. i \in 1..m \/ (i - m \in 1..n /\ ~(i <= m))
    BY <1>3
  <2> QED BY <1>2, <2>1
<1>7. /\ \A i \in DOMAIN queue : i \in DOMAIN all /\ all[i] = queue[i]
      /\ \A i \in DOMAIN frames : m + i \in DOMAIN all /\ all[m + i] = frames[i]
      /\ \A i \in DOMAIN all : (i \in DOMAIN queue /\ all[i] = queue[i]) \/ \E j \in DOMAIN frames : all[i] = frames[j]
  BY <1>2, <1>3, <1>4, <1>5, <1>6
<1> QED BY <1>2, <1>7 DEF all, m, S

LEMMA AnswersKept ==
  ASSUME IInv, NEW frames \in Seq(Frames(OwnRefs)), replies' = replies \o frames,
         UNCHANGED <<belief, client, late, ordersSent, phase>>, DOMAIN makers \subseteq DOMAIN makers',
         \A i \in DOMAIN frames : frames[i].type = "S" /\ frames[i].ouch = "accepted" => frames[i].ref \in DOMAIN makers',
         \A r \in DOMAIN makers' : r \in DOMAIN makers \/ \E i \in DOMAIN frames : IsAccept(frames[i], r)
  PROVE  replies' \in Seq(Frames(OwnRefs)) /\ Answers'
<1> DEFINE own == OwnRefs
           all == replies \o frames
<1>1. Answers /\ replies \in Seq(Frames(own))
  BY DEF IInv, Types
<1>2. /\ all \in Seq(Frames(own))
      /\ \A i \in DOMAIN replies : i \in DOMAIN all /\ all[i] = replies[i]
      /\ \A i \in DOMAIN frames : Len(replies) + i \in DOMAIN all /\ all[Len(replies) + i] = frames[i]
      /\ \A i \in DOMAIN all : (i \in DOMAIN replies /\ all[i] = replies[i]) \/ \E j \in DOMAIN frames : all[i] = frames[j]
  <2> HIDE DEF own
  <2>1. frames \in Seq(Frames(own))
    BY DEF own
  <2> QED BY <1>1, <2>1, FramesJoin
<1>3. replies' = all
  OBVIOUS
<1> HIDE DEF all, own
<1>4. \A i \in DOMAIN replies : replies[i].type = "S" /\ replies[i].ouch = "accepted" => replies[i].ref \in DOMAIN makers
  BY <1>1 DEF Answers
<1>5. \A i \in DOMAIN all : all[i].type = "S" /\ all[i].ouch = "accepted" => all[i].ref \in DOMAIN makers'
  BY <1>2, <1>4
<1>6. client.state = "LoggedIn" => \A r \in DOMAIN makers' :
        r \in belief.refs \/ Awaited(late, r) \/ \E i \in DOMAIN all : IsAccept(all[i], r)
  <2> SUFFICES ASSUME client.state = "LoggedIn", NEW r \in DOMAIN makers'
               PROVE  r \in belief.refs \/ Awaited(late, r) \/ \E i \in DOMAIN all : IsAccept(all[i], r)
    OBVIOUS
  <2>1. CASE r \in DOMAIN makers
    <3>1. r \in belief.refs \/ Awaited(late, r) \/ \E i \in DOMAIN replies : IsAccept(replies[i], r)
      BY <1>1, <2>1 DEF Answers
    <3> QED BY <1>2, <3>1
  <2>2. CASE \E i \in DOMAIN frames : IsAccept(frames[i], r)
    <3>1. PICK i \in DOMAIN frames : IsAccept(frames[i], r)
      BY <2>2
    <3>2. Len(replies) + i \in DOMAIN all /\ IsAccept(all[Len(replies) + i], r)
      BY <1>2, <3>1
    <3> QED BY <3>2
  <2> QED BY <2>1, <2>2
<1>7. /\ \A i \in DOMAIN late : late[i].ref \in DOMAIN makers'
      /\ client.state = "AwaitingLogin" => ordersSent = 0
      /\ phase = "reported" => \A i \in DOMAIN late : late[i].ref \in belief.refs
  BY <1>1 DEF Answers
<1>8. \A r : Awaited(late', r) = Awaited(late, r)
  OBVIOUS
<1>9. Answers'
  BY <1>3, <1>5, <1>6, <1>7, <1>8 DEF Answers
<1> QED BY <1>2, <1>3, <1>9 DEF own

\* An order the exchange accepts gets the next reference.
LEMMA NextFacts ==
  ASSUME IInv, orders /= << >>, Head(orders).type = "U", NEW left \in Nat
  PROVE  /\ NextRef \in OwnRefs /\ NextRef \notin DOMAIN makers
         /\ DOMAIN With(makers, NextRef, left) = DOMAIN makers \cup {NextRef}
         /\ With(makers, NextRef, left)[NextRef] = left
         /\ \A r \in DOMAIN makers : With(makers, NextRef, left)[r] = makers[r]
         /\ IsMakers(With(makers, NextRef, left))
         /\ \E n \in 0..scenario.maxOrders :
              /\ With(makers, NextRef, left) \in [(HistoricalRefs + 1)..(HistoricalRefs + n) -> Nat]
              /\ n + Quotes(Tail(orders)) <= ordersSent
<1> DEFINE mk2 == With(makers, NextRef, left)
           max == scenario.maxOrders
           H == HistoricalRefs
<1>1. H \in Nat /\ max \in Nat /\ ordersSent \in 0..max /\ orders \in Seq(Requests)
  BY OwnFacts DEF IInv, Types
<1>2. PICK n \in 0..max : makers \in [(H + 1)..(H + n) -> Nat] /\ n + Quotes(orders) <= ordersSent
  BY DEF IInv, GivenOut
<1>3. Quotes(orders) = Quotes(Tail(orders)) + 1 /\ Quotes(Tail(orders)) \in Nat
  <2>1. Quotes(orders) = Quotes(Tail(orders)) + QuoteOf(Head(orders)) /\ Tail(orders) \in Seq(Requests)
    BY <1>1, QuotesTail
  <2>2. QuoteOf(Head(orders)) = 1
    BY DEF QuoteOf
  <2> QED BY <2>1, <2>2, QuotesType
<1>4. n + 1 \in 0..max /\ n \in Nat
  BY <1>1, <1>2, <1>3
<1>5. NextRef = H + n + 1
  <2>1. Cardinality((H + 1)..(H + n)) = n
    <3>1. H + 1 \in Int /\ H + n \in Int
      BY <1>1, <1>4
    <3>2. Cardinality((H + 1)..(H + n)) = IF H + 1 > H + n THEN 0 ELSE (H + n) - (H + 1) + 1
      BY <3>1, FS_Interval
    <3> QED BY <1>1, <1>4, <3>2
  <2>2. DOMAIN makers = (H + 1)..(H + n)
    BY <1>2
  <2> HIDE DEF H
  <2>3. NextRef = H + 1 + n
    BY <2>1, <2>2 DEF NextRef, H
  <2> QED BY <1>1, <1>4, <2>3 DEF H
<1>6. NextRef \in OwnRefs /\ NextRef \notin DOMAIN makers /\ (H + 1)..(H + (n + 1)) = DOMAIN makers \cup {NextRef}
  <2>1. DOMAIN makers = (H + 1)..(H + n)
    BY <1>2
  <2>2. OwnRefs = (H + 1)..(H + max)
    BY DEF OwnRefs
  <2> HIDE DEF H, max
  <2>3. NextRef \in (H + 1)..(H + max) /\ NextRef \notin (H + 1)..(H + n)
    BY <1>1, <1>4, <1>5
  <2>4. (H + 1)..(H + (n + 1)) = (H + 1)..(H + n) \cup {NextRef}
    BY <1>1, <1>4, <1>5
  <2> QED BY <2>1, <2>2, <2>3, <2>4
<1>7. /\ DOMAIN mk2 = DOMAIN makers \cup {NextRef} /\ mk2[NextRef] = left
      /\ \A r \in DOMAIN makers : mk2[r] = makers[r]
  BY <1>6 DEF With
<1>8. mk2 \in [(H + 1)..(H + (n + 1)) -> Nat]
  <2>1. mk2 = [x \in DOMAIN makers \cup {NextRef} |-> mk2[x]]
    BY DEF With
  <2>2. \A x \in DOMAIN makers \cup {NextRef} : mk2[x] \in Nat
    BY <1>2, <1>7
  <2> HIDE DEF mk2
  <2>3. mk2 \in [DOMAIN makers \cup {NextRef} -> Nat]
    BY <2>1, <2>2
  <2> QED BY <1>6, <2>3
<1> HIDE DEF mk2, max, H
<1>9. IsMakers(mk2)
  BY <1>8 DEF IsMakers
<1>10. (n + 1) + Quotes(Tail(orders)) <= ordersSent
  BY <1>1, <1>2, <1>3, <1>4
<1> QED BY <1>4, <1>6, <1>7, <1>8, <1>9, <1>10 DEF mk2, max, H

\* A message about an order of ours is of no order of the tape.
LEMMA NotOfTape ==
  ASSUME IInv, NEW msg, msg.type = "A" => msg.ref \in OwnRefs
  PROVE  \A i \in DOMAIN tape : tape[i].type = "A" => ~IsAdd(msg, tape[i].ref)
<1>1. HistoricalRefs \in Nat /\ \A r \in OwnRefs : r \in Nat /\ r > HistoricalRefs
  BY OwnFacts DEF IInv, Types, OwnOnes, IsStrategyRef
<1>2. ASSUME NEW i \in DOMAIN tape, tape[i].type = "A" PROVE tape[i].ref \in Historical
  <2>1. tape[i] \in HistoricalMessages
    BY ElementOfSeq DEF IInv, Types
  <2> QED BY <1>2, <2>1 DEF HistoricalMessages
<1>3. \A r \in Historical : r \in Nat /\ r <= HistoricalRefs
  BY <1>1 DEF Historical
<1> QED BY <1>1, <1>2, <1>3 DEF IsAdd

LEMMA ReadsKeeps ==
  ASSUME IInv, ExchangeReads
  PROVE  IInv'
<1> DEFINE own == OwnRefs
           q == held \o feed
           head == Head(orders)
<1>1. /\ orders /= << >> /\ orders' = Tail(orders)
      /\ belief' = belief /\ late' = late /\ held' = held /\ ordersSent' = ordersSent /\ phase' = phase
      /\ client' = client /\ scenario' = scenario /\ now' = now /\ faults' = faults /\ tape' = tape
  BY DEF ExchangeReads, beliefVars, quoteVars
<1>2. /\ scenario \in Scenarios /\ IsSession(client) /\ late \in Seq(Acks(own)) /\ now \in Nat
      /\ orders \in Seq(Requests) /\ replies \in Seq(Frames(own))
      /\ held \in Seq(Stream(own)) /\ feed \in Seq(Stream(own)) /\ tape \in Seq(HistoricalMessages)
      /\ faults \in Nat /\ ordersSent \in 0..scenario.maxOrders
  BY DEF IInv, Types
<1>3. /\ head \in Requests /\ Tail(orders) \in Seq(Requests)
      /\ Quotes(orders) = Quotes(Tail(orders)) + QuoteOf(head)
  BY <1>1, <1>2, QuotesTail
<1>4. own' = own /\ scenario.quoteShares \in Nat /\ scenario.maxOrders \in Nat
  BY <1>1, <1>2, OwnFacts DEF OwnRefs
<1>5. /\ OwnOnes(own) /\ IsMakers(makers) /\ IsSeen(own, held) /\ IsSeen(own, feed) /\ IsSeen(own, q)
      /\ Sound(own, makers, faults = 0, belief, q, 0)
  BY InvFacts
<1>6. UNCHANGED <<belief, client, late, ordersSent, phase>>
  BY <1>1
\* The rest of the invariant, once the replies and the feed are seen to.
<1>7. ASSUME replies' \in Seq(Frames(own)), feed' \in Seq(Stream(own)), Answers', TapeNew',
             Sound(own, makers', faults' = 0, belief', held' \o feed', 0),
             \E n \in 0..scenario.maxOrders :
               /\ makers' \in [(HistoricalRefs + 1)..(HistoricalRefs + n) -> Nat]
               /\ n + Quotes(Tail(orders)) <= ordersSent
      PROVE  IInv'
  <2>1. Types'
    BY <1>1, <1>2, <1>3, <1>4, <1>7 DEF Types
  <2>2. GivenOut'
    BY <1>1, <1>7 DEF GivenOut
  <2> QED BY <1>4, <1>7, <2>1, <2>2 DEF IInv
<1>8. ASSUME feed' = feed, makers' = makers, NEW frames \in Seq(Frames(own)), replies' = replies \o frames,
             \A i \in DOMAIN frames : ~(frames[i].type = "S" /\ frames[i].ouch = "accepted")
      PROVE  IInv'
  <2>1. replies' \in Seq(Frames(own)) /\ Answers'
    BY <1>6, <1>8, AnswersKept
  <2>2. TapeNew'
    BY <1>1, <1>8 DEF IInv, TapeNew
  <2>3. Sound(own, makers', faults' = 0, belief', held' \o feed', 0)
    BY <1>1, <1>5, <1>8
  <2>4. \E n \in 0..scenario.maxOrders :
          /\ makers' \in [(HistoricalRefs + 1)..(HistoricalRefs + n) -> Nat]
          /\ n + Quotes(Tail(orders)) <= ordersSent
    <3>1. PICK n \in 0..scenario.maxOrders :
            /\ makers \in [(HistoricalRefs + 1)..(HistoricalRefs + n) -> Nat] /\ n + Quotes(orders) <= ordersSent
      BY DEF IInv, GivenOut
    <3>2. Quotes(Tail(orders)) \in Nat /\ QuoteOf(head) \in Nat
      BY <1>3, QuotesType DEF QuoteOf
    <3>3. n \in Nat /\ ordersSent \in Nat
      BY <1>2, <1>4
    <3> HIDE DEF head
    <3>4. n + Quotes(Tail(orders)) <= ordersSent
      BY <1>3, <3>1, <3>2, <3>3
    <3> QED BY <1>8, <3>1, <3>4
  <2> QED BY <1>2, <1>7, <1>8, <2>1, <2>2, <2>3, <2>4
<1>9. \A f \in Frames(own) : <<f>> \in Seq(Frames(own)) /\ \A g \in Frames(own) : <<f, g>> \in Seq(Frames(own))
  OBVIOUS
<1>10. CASE head.type = "L"
  <2> DEFINE frames == <<[type |-> "A"]>>
  <2>1. replies' = replies \o frames /\ feed' = feed \o << >> /\ makers' = makers
    BY <1>10 DEF ExchangeReads, Answer
  <2>2. feed' = feed
    BY <1>2, <2>1, ConcatEmptySeq
  <2>3. frames \in Seq(Frames(own)) /\ \A i \in DOMAIN frames : frames[i].type = "A"
    BY <1>9 DEF Frames
  <2> HIDE DEF frames
  <2>4. \A i \in DOMAIN frames : ~(frames[i].type = "S" /\ frames[i].ouch = "accepted")
    BY <2>3
  <2> QED BY <1>8, <2>1, <2>2, <2>3, <2>4
<1>11. CASE head.type = "O"
  <2> DEFINE frames == << >>
  <2>1. replies' = replies /\ feed' = feed /\ makers' = makers
    BY <1>11 DEF ExchangeReads
  <2>2. replies' = replies \o frames
    BY <1>2, <2>1, ConcatEmptySeq
  <2>3. frames \in Seq(Frames(own)) /\ \A i \in DOMAIN frames : FALSE
    OBVIOUS
  <2> HIDE DEF frames
  <2> QED BY <1>8, <2>1, <2>2, <2>3
<1>12. CASE head.type = "U"
  <2> DEFINE r == NextRef
             x == scenario.quoteShares
             msg == OwnAdd(r, head.price)
             accepted == Ouch("accepted", r)
             executed == Ouch("executed", r)
             rests == /\ replies' = replies \o <<accepted>> /\ feed' = feed \o <<msg>>
                      /\ makers' = With(makers, r, x)
             trades == /\ replies' = replies \o <<accepted, executed>> /\ feed' = feed \o << >>
                       /\ makers' = With(makers, r, 0)
             refused == replies' = replies \o <<Ouch("rejected", 0)>> /\ feed' = feed \o << >> /\ makers' = makers
  <2>1. rests \/ trades \/ refused
    BY <1>12 DEF ExchangeReads, Answer
  <2>2. ASSUME NEW left \in Nat
        PROVE  /\ r \in own /\ r \notin DOMAIN makers
               /\ DOMAIN With(makers, r, left) = DOMAIN makers \cup {r} /\ With(makers, r, left)[r] = left
               /\ \A s \in DOMAIN makers : With(makers, r, left)[s] = makers[s]
               /\ IsMakers(With(makers, r, left))
               /\ \E n \in 0..scenario.maxOrders :
                    /\ With(makers, r, left) \in [(HistoricalRefs + 1)..(HistoricalRefs + n) -> Nat]
                    /\ n + Quotes(Tail(orders)) <= ordersSent
    BY <1>1, <1>12, NextFacts
  <2>3. r \in own /\ r \notin DOMAIN makers
    BY <1>4, <2>2
  <2>4. accepted \in Frames(own) /\ executed \in Frames(own) /\ Ouch("rejected", 0) \in Frames(own)
    BY <2>3 DEF Ouch, Frames
  <2>5. IsAccept(accepted, r) /\ accepted.ref = r /\ executed.ouch /= "accepted"
    BY DEF Ouch, IsAccept
  <2>6. CASE rests
    <3> DEFINE frames == <<accepted>>
               mk2 == With(makers, r, x)
    <3>1. frames \in Seq(Frames(own)) /\ DOMAIN frames = {1} /\ frames[1] = accepted
      BY <1>9, <2>4
    <3>2. replies' = replies \o frames /\ makers' = mk2 /\ feed' = feed \o <<msg>>
      BY <2>6
    <3>3. /\ DOMAIN mk2 = DOMAIN makers \cup {r} /\ mk2[r] = x /\ \A s \in DOMAIN makers : mk2[s] = makers[s]
      BY <1>4, <2>2
    <3>4. IsMakers(mk2)
      BY <1>4, <2>2
    <3>10. \E n \in 0..scenario.maxOrders :
             /\ mk2 \in [(HistoricalRefs + 1)..(HistoricalRefs + n) -> Nat] /\ n + Quotes(Tail(orders)) <= ordersSent
      BY <1>4, <2>2
    <3>5. msg.type = "A" /\ msg.ref = r /\ msg.shares = x
      BY DEF OwnAdd
    <3>6. IsText(own, msg)
      <4>1. head.price \in Int
        BY <1>3, <1>12 DEF Requests
      <4> QED BY <1>4, <2>3, <4>1 DEF IsText, Stream, OwnMessages, OwnAdd
    <3> HIDE DEF frames, mk2, accepted, executed, msg, own, head, q, r, x
    <3>7. replies' \in Seq(Frames(own)) /\ Answers'
      <4>1. \A i \in DOMAIN frames : frames[i].type = "S" /\ frames[i].ouch = "accepted" => frames[i].ref \in DOMAIN makers'
        BY <2>5, <3>1, <3>2, <3>3
      <4>2. \A s \in DOMAIN makers' : s \in DOMAIN makers \/ \E i \in DOMAIN frames : IsAccept(frames[i], s)
        BY <2>5, <3>1, <3>2, <3>3
      <4>3. DOMAIN makers \subseteq DOMAIN makers'
        BY <3>2, <3>3
      <4> QED BY <1>6, <3>1, <3>2, <4>1, <4>2, <4>3, AnswersKept DEF own
    <3>8. SaidNext(own, makers, makers', belief, q, msg)
      <4>1. Unknown(own, makers, belief, q, 0)
        BY <1>5 DEF Sound
      <4>2. Rest(q, 0) = DOMAIN q
        BY <1>5, LenProperties DEF Rest, IsSeen
      <4>3. ~Told(belief.seen, r) /\ \A i \in DOMAIN q : ~IsAdd(q[i], r)
        BY <2>3, <4>1, <4>2 DEF Unknown
      <4>4. \A s : ~IsExec(msg, s) /\ (IsAdd(msg, s) <=> s = r)
        BY <3>5 DEF IsExec, IsAdd
      <4>5. Resting(mk2, r) = x /\ \A s : s /= r => Resting(mk2, s) = Resting(makers, s)
        BY <3>3 DEF Resting
      <4> QED BY <2>3, <3>2, <3>3, <3>5, <4>3, <4>4, <4>5 DEF SaidNext
    <3>9. /\ feed' \in Seq(Stream(own)) /\ Sound(own, makers', faults' = 0, belief', held' \o feed', 0)
          /\ Grows(q, held' \o feed', msg, Len(q))
      BY <1>1, <3>2, <3>4, <3>6, <3>8, SaidKeeps DEF own, q
    <3>11. TapeNew'
      <4>1. \A i \in DOMAIN tape : tape[i].type = "A" => ~IsAdd(msg, tape[i].ref)
        BY <2>3, <3>5, NotOfTape DEF own
      <4> QED BY <1>1, <3>9, <4>1, TapeKept DEF q
    <3> QED BY <1>7, <3>2, <3>7, <3>9, <3>10, <3>11
  <2>7. CASE trades
    <3> DEFINE frames == <<accepted, executed>>
               mk2 == With(makers, r, 0)
    <3>1. frames \in Seq(Frames(own)) /\ DOMAIN frames = {1, 2} /\ frames[1] = accepted /\ frames[2] = executed
      BY <1>9, <2>4
    <3>2. replies' = replies \o frames /\ makers' = mk2 /\ feed' = feed
      BY <1>2, <2>7, ConcatEmptySeq
    <3>3. /\ DOMAIN mk2 = DOMAIN makers \cup {r} /\ mk2[r] = 0 /\ \A s \in DOMAIN makers : mk2[s] = makers[s]
      BY <2>2
    <3>4. \E n \in 0..scenario.maxOrders :
            /\ mk2 \in [(HistoricalRefs + 1)..(HistoricalRefs + n) -> Nat] /\ n + Quotes(Tail(orders)) <= ordersSent
      BY <2>2
    <3> HIDE DEF frames, mk2, accepted, executed, msg, own, head, q, r, x
    <3>5. replies' \in Seq(Frames(own)) /\ Answers'
      <4>1. \A i \in DOMAIN frames : frames[i].type = "S" /\ frames[i].ouch = "accepted" => frames[i].ref \in DOMAIN makers'
        BY <2>5, <3>1, <3>2, <3>3
      <4>2. \A s \in DOMAIN makers' : s \in DOMAIN makers \/ \E i \in DOMAIN frames : IsAccept(frames[i], s)
        BY <2>5, <3>1, <3>2, <3>3
      <4>3. DOMAIN makers \subseteq DOMAIN makers'
        BY <3>2, <3>3
      <4> QED BY <1>6, <3>1, <3>2, <4>1, <4>2, <4>3, AnswersKept DEF own
    <3>6. Sound(own, mk2, faults = 0, belief, q, 0)
      <4>1. \A s \in own : Resting(mk2, s) = Resting(makers, s)
        BY <2>3, <3>3 DEF Resting
      <4>2. DOMAIN makers \subseteq DOMAIN mk2
        BY <3>3
      <4> QED BY <1>5, <4>1, <4>2, MakersSound
    <3>7. Sound(own, makers', faults' = 0, belief', held' \o feed', 0)
      BY <1>1, <3>2, <3>6 DEF q
    <3>8. TapeNew'
      BY <1>1, <3>2 DEF IInv, TapeNew
    <3>9. feed' \in Seq(Stream(own))
      BY <1>2, <3>2
    <3> QED BY <1>7, <3>2, <3>4, <3>5, <3>7, <3>8, <3>9
  <2>8. CASE refused
    <3> DEFINE frames == <<Ouch("rejected", 0)>>
    <3>1. frames \in Seq(Frames(own))
      BY <1>9, <2>4
    <3>2. replies' = replies \o frames /\ makers' = makers /\ feed' = feed
      BY <1>2, <2>8, ConcatEmptySeq
    <3>3. \A i \in DOMAIN frames : ~(frames[i].type = "S" /\ frames[i].ouch = "accepted")
      BY DEF Ouch
    <3> HIDE DEF frames
    <3> QED BY <1>8, <3>1, <3>2, <3>3
  <2> HIDE DEF rests, trades, refused
  <2> QED BY <2>1, <2>6, <2>7, <2>8
<1>13. head.type \in {"L", "O", "U"}
  BY <1>3 DEF Requests
<1> QED BY <1>10, <1>11, <1>12, <1>13

LEMMA FillsKeeps ==
  ASSUME IInv, ExchangeFills
  PROVE  IInv'
<1> DEFINE own == OwnRefs
           q == held \o feed
<1>1. /\ belief' = belief /\ late' = late /\ held' = held /\ ordersSent' = ordersSent /\ phase' = phase
      /\ client' = client /\ scenario' = scenario /\ now' = now /\ faults' = faults /\ tape' = tape /\ orders' = orders
  BY DEF ExchangeFills, processVars, beliefVars, quoteVars
<1>17. PICK r \in DOMAIN makers : \E n \in 1..makers[r] :
         /\ makers' = [makers EXCEPT ![r] = @ - n]
         /\ replies' = replies \o <<Ouch("executed", r)>> /\ feed' = feed \o <<Message("E", r, n)>>
  BY DEF ExchangeFills, Answer
<1>2. PICK n \in 1..makers[r] :
        /\ makers' = [makers EXCEPT ![r] = @ - n]
        /\ replies' = replies \o <<Ouch("executed", r)>> /\ feed' = feed \o <<Message("E", r, n)>>
  BY <1>17
<1> DEFINE msg == Message("E", r, n)
           frames == <<Ouch("executed", r)>>
<1>3. /\ OwnOnes(own) /\ IsMakers(makers) /\ IsSeen(own, q)
  BY InvFacts
<1>4. PICK k \in 0..scenario.maxOrders :
        /\ makers \in [(HistoricalRefs + 1)..(HistoricalRefs + k) -> Nat] /\ k + Quotes(orders) <= ordersSent
  BY DEF IInv, GivenOut
<1>5. r \in own /\ makers[r] \in Nat /\ n \in Nat \ {0} /\ makers[r] - n \in Nat
  <2>1. HistoricalRefs \in Nat /\ scenario.maxOrders \in Nat
    BY OwnFacts DEF IInv, Types
  <2> QED BY <1>2, <1>4, <2>1 DEF OwnRefs
<1>6. makers' \in [(HistoricalRefs + 1)..(HistoricalRefs + k) -> Nat]
  BY <1>2, <1>4, <1>5
<1>7. DOMAIN makers' = DOMAIN makers /\ makers'[r] = makers[r] - n /\ \A s \in DOMAIN makers \ {r} : makers'[s] = makers[s]
  BY <1>2
<1>8. msg.type = "E" /\ msg.ref = r /\ msg.shares = n /\ IsText(own, msg)
  BY <1>5 DEF Message, IsText, Stream, OwnMessages
<1>9. frames \in Seq(Frames(own)) /\ \A i \in DOMAIN frames : frames[i].ouch = "executed"
  <2>1. Ouch("executed", r) \in Frames(own)
    BY <1>5 DEF Ouch, Frames
  <2> QED BY <2>1 DEF Ouch
<1> HIDE DEF own, q, msg, frames
<1>10. replies' \in Seq(Frames(own)) /\ Answers'
  <2>1. UNCHANGED <<belief, client, late, ordersSent, phase>>
    BY <1>1
  <2>2. \A i \in DOMAIN frames : frames[i].type = "S" /\ frames[i].ouch = "accepted" => frames[i].ref \in DOMAIN makers'
    BY <1>9
  <2>3. \A s \in DOMAIN makers' : s \in DOMAIN makers \/ \E i \in DOMAIN frames : IsAccept(frames[i], s)
    BY <1>7
  <2>4. DOMAIN makers \subseteq DOMAIN makers' /\ replies' = replies \o frames
    BY <1>2, <1>7 DEF frames
  <2> QED BY <1>9, <2>1, <2>2, <2>3, <2>4, AnswersKept DEF own
<1>11. IsMakers(makers')
  BY <1>6 DEF IsMakers
<1>12. SaidNext(own, makers, makers', belief, q, msg)
  <2>1. \A s : ~IsAdd(msg, s) /\ (IsExec(msg, s) <=> s = r)
    BY <1>8 DEF IsAdd, IsExec
  <2>2. Resting(makers', r) + n = Resting(makers, r) /\ \A s : s /= r => Resting(makers', s) = Resting(makers, s)
    BY <1>2, <1>5, <1>7 DEF Resting
  <2> QED BY <1>2, <1>7, <1>8, <2>1, <2>2 DEF SaidNext
<1>13. /\ own' = own /\ feed' \in Seq(Stream(own)) /\ Sound(own, makers', faults' = 0, belief', held' \o feed', 0)
       /\ Grows(q, held' \o feed', msg, Len(q))
  <2>1. feed' = feed \o <<msg>>
    BY <1>2 DEF msg
  <2> QED BY <1>1, <1>8, <1>11, <1>12, <2>1, SaidKeeps DEF own, q
<1>14. TapeNew'
  <2>1. \A i \in DOMAIN tape : tape[i].type = "A" => ~IsAdd(msg, tape[i].ref)
    BY <1>8 DEF IsAdd
  <2> QED BY <1>1, <1>13, <2>1, TapeKept DEF q
<1>15. Types'
  BY <1>1, <1>10, <1>13 DEF IInv, Types, own
<1>16. GivenOut'
  BY <1>1, <1>4, <1>6 DEF GivenOut
<1> QED BY <1>10, <1>13, <1>14, <1>15, <1>16 DEF IInv, own

LEMMA PublishKeeps ==
  ASSUME IInv, Publish
  PROVE  IInv'
<1> DEFINE own == OwnRefs
           q == held \o feed
           msg == Head(tape)
<1>1. /\ belief' = belief /\ late' = late /\ held' = held /\ ordersSent' = ordersSent /\ phase' = phase
      /\ client' = client /\ scenario' = scenario /\ now' = now /\ faults' = faults /\ orders' = orders
      /\ replies' = replies /\ makers' = makers /\ tape /= << >> /\ tape' = Tail(tape) /\ feed' = Append(feed, msg)
  BY DEF Publish, processVars, beliefVars, quoteVars
<1>2. /\ tape \in Seq(HistoricalMessages) /\ Len(tape) \in Nat /\ DOMAIN tape = 1..Len(tape) /\ 1 \in DOMAIN tape
      /\ msg = tape[1] /\ msg \in HistoricalMessages /\ Tail(tape) \in Seq(HistoricalMessages)
      /\ DOMAIN Tail(tape) = 1..(Len(tape) - 1) /\ \A i \in 1..(Len(tape) - 1) : Tail(tape)[i] = tape[i + 1]
  <2> DEFINE S == HistoricalMessages
  <2>1. tape \in Seq(S)
    BY DEF IInv, Types
  <2> HIDE DEF S
  <2>2. Len(tape) \in Nat \ {0} /\ DOMAIN tape = 1..Len(tape)
    BY <1>1, <2>1, EmptySeq, LenProperties
  <2>3. /\ Head(tape) \in S /\ Tail(tape) \in Seq(S) /\ Len(Tail(tape)) = Len(tape) - 1 /\ Head(tape) = tape[1]
        /\ \A i \in 1..Len(Tail(tape)) : Tail(tape)[i] = tape[i + 1]
    BY <1>1, <2>1, HeadTailProperties
  <2>4. DOMAIN Tail(tape) = 1..Len(Tail(tape))
    BY <2>3, LenProperties
  <2>5. 1 \in 1..Len(tape)
    BY <2>2
  <2> QED BY <2>1, <2>2, <2>3, <2>4, <2>5 DEF S
<1>3. /\ OwnOnes(own) /\ IsMakers(makers) /\ IsSeen(own, held) /\ IsSeen(own, feed) /\ IsSeen(own, q)
  BY InvFacts
<1>4. IsText(own, msg)
  BY <1>2 DEF IsText, Stream
<1>5. feed' = feed \o <<msg>>
  <2>1. feed' = Append(feed, msg)
    BY <1>1
  <2> DEFINE S == Stream(own)
  <2>3. feed \in Seq(S) /\ msg \in S
    BY <1>3, <1>4 DEF IsSeen, IsText
  <2> HIDE DEF msg, own, q, S
  <2>2. Append(feed, msg) = feed \o <<msg>>
    BY <2>3, AppendIsConcat
  <2> QED BY <2>1, <2>2
<1>6. \A r \in own : ~IsAdd(msg, r) /\ ~IsExec(msg, r)
  <2>1. msg.type \in {"A", "E"} => msg.ref \in Historical
    BY <1>2 DEF HistoricalMessages
  <2>2. HistoricalRefs \in Nat /\ \A r \in own : r > HistoricalRefs
    BY <1>3, OwnFacts DEF IInv, Types, OwnOnes, IsStrategyRef
  <2>3. \A r \in own : r \notin Historical
    BY <2>2 DEF Historical
  <2> QED BY <2>1, <2>3 DEF IsAdd, IsExec
<1>7. TapeNew
  BY DEF IInv
<1>8. SaidNext(own, makers, makers', belief, q, msg)
  <2>1. msg.type = "A" => ~Told(belief.seen, msg.ref) /\ \A i \in DOMAIN q : ~IsAdd(q[i], msg.ref)
    BY <1>2, <1>7 DEF TapeNew
  <2> HIDE DEF msg, q, own
  <2> QED BY <1>1, <1>6, <2>1 DEF SaidNext
<1> HIDE DEF own, q, msg
<1>9. IsMakers(makers')
  BY <1>1, <1>3
<1>10. /\ own' = own /\ feed' \in Seq(Stream(own)) /\ Sound(own, makers', faults' = 0, belief', held' \o feed', 0)
       /\ Grows(q, held' \o feed', msg, Len(q))
  BY <1>1, <1>4, <1>5, <1>8, <1>9, SaidKeeps DEF own, q
<1>11. TapeNew'
  <2> DEFINE p == held' \o feed'
             m == Len(q)
             less == Tail(tape)
  <2>1. \A j \in DOMAIN p : p[j] = msg \/ (j \in DOMAIN q /\ p[j] = q[j])
    <3>1. Grows(q, p, msg, m)
      BY <1>10
    <3> HIDE DEF p, m
    <3>2. \A j \in 1..(m + 1) : j \in 1..m \/ j = m + 1
      BY <3>1 DEF Grows
    <3> QED BY <3>1, <3>2 DEF Grows
  <2>2. \A i \in DOMAIN less : i + 1 \in DOMAIN tape /\ less[i] = tape[i + 1] /\ i + 1 /= 1 /\ i \in Nat
    BY <1>2
  <2>3. \A i, j \in DOMAIN tape : tape[i].type = "A" /\ IsAdd(tape[j], tape[i].ref) => i = j
    BY <1>7 DEF TapeNew
  <2>4. \A i \in DOMAIN tape : tape[i].type = "A" =>
          ~Told(belief.seen, tape[i].ref) /\ \A j \in DOMAIN q : ~IsAdd(q[j], tape[i].ref)
    BY <1>7 DEF TapeNew, q
  <2> HIDE DEF p, less
  <2>5. ASSUME NEW i \in DOMAIN less, less[i].type = "A" PROVE ~IsAdd(msg, less[i].ref)
    BY <1>2, <2>2, <2>3, <2>5
  <2>6. ASSUME NEW i \in DOMAIN less, NEW j \in DOMAIN less, less[i].type = "A", IsAdd(less[j], less[i].ref) PROVE i = j
    <3>1. i + 1 = j + 1
      BY <2>2, <2>3, <2>6
    <3> QED BY <2>2, <3>1
  <2>7. \A i \in DOMAIN less : less[i].type = "A" =>
          ~Told(belief.seen, less[i].ref) /\ \A j \in DOMAIN p : ~IsAdd(p[j], less[i].ref)
    BY <2>1, <2>2, <2>4, <2>5
  <2>8. tape' = less /\ belief' = belief
    BY <1>1 DEF less
  <2> QED BY <2>6, <2>7, <2>8 DEF TapeNew, p
<1>12. Types'
  BY <1>1, <1>2, <1>10 DEF IInv, Types, own
<1>13. GivenOut'
  BY <1>1 DEF IInv, GivenOut
<1>14. Answers'
  <2>1. \A r : Awaited(late', r) = Awaited(late, r)
    BY <1>1
  <2> QED BY <1>1, <2>1 DEF IInv, Answers
<1> QED BY <1>10, <1>11, <1>12, <1>13, <1>14 DEF IInv, own

LEMMA LoseKeeps ==
  ASSUME IInv, Lose
  PROVE  IInv'
<1> DEFINE own == OwnRefs
           q == held \o feed
           p == held' \o feed'
           lost == [type |-> "lost"]
<1>1. /\ belief' = belief /\ late' = late /\ held' = held /\ ordersSent' = ordersSent /\ phase' = phase
      /\ client' = client /\ scenario' = scenario /\ now' = now /\ orders' = orders
      /\ replies' = replies /\ makers' = makers /\ tape' = tape /\ faults' = faults + 1
  BY DEF Lose, processVars, beliefVars, quoteVars, exchangeVars
<1>2. PICK x \in DOMAIN feed : feed' = [feed EXCEPT ![x] = lost]
  BY DEF Lose
<1>3. /\ OwnOnes(own) /\ IsMakers(makers) /\ IsSeen(own, held) /\ IsSeen(own, feed) /\ IsSeen(own, q)
      /\ Joins(held, feed, q) /\ Sound(own, makers, faults = 0, belief, q, 0)
  BY InvFacts
<1>4. own' = own
  BY <1>1 DEF OwnRefs
<1>5. lost \in Stream(own) /\ lost.type = "lost"
  BY DEF Stream
<1> HIDE DEF own, q, lost
<1>6. IsSeen(own, feed') /\ Len(feed') = Len(feed) /\ feed'[x] = lost /\ \A i \in DOMAIN feed \ {x} : feed'[i] = feed[i]
  <2> DEFINE S == Stream(own)
  <2>1. feed \in Seq(S) /\ lost \in S
    BY <1>3, <1>5 DEF IsSeen
  <2> HIDE DEF S
  <2>2. feed' \in Seq(S) /\ Len(feed') = Len(feed)
    BY <1>2, <2>1
  <2> QED BY <1>2, <2>2 DEF IsSeen, S
<1>7. IsSeen(own, p) /\ Joins(held, feed', p)
  <2>1. IsSeen(own, held \o feed') /\ Joins(held, feed', held \o feed')
    BY <1>3, <1>6, Joined
  <2> QED BY <1>1, <2>1
<1> HIDE DEF p
<1> DEFINE y == Len(held) + x
<1>8. Dims(q, p, y)
  <2>1. /\ Len(held) \in Nat /\ Len(feed) \in Nat /\ DOMAIN feed = 1..Len(feed) /\ x \in Nat
        /\ Len(q) = Len(held) + Len(feed) /\ Len(p) = Len(q) /\ DOMAIN p = DOMAIN q
        /\ DOMAIN q = 1..(Len(held) + Len(feed))
    BY <1>3, <1>6, <1>7 DEF Joins
  <2>2. y \in DOMAIN q /\ p[y].type = "lost"
    <3>1. p[y] = feed'[x]
      BY <1>6, <1>7, <2>1 DEF Joins
    <3> QED BY <1>5, <1>6, <2>1, <3>1
  <2>3. ASSUME NEW i \in DOMAIN q \ {y} PROVE p[i] = q[i]
    <3>1. CASE i \in 1..Len(held)
      BY <1>3, <1>7, <3>1 DEF Joins
    <3>2. CASE i \notin 1..Len(held)
      <4>1. i - Len(held) \in 1..Len(feed) /\ i - Len(held) /= x /\ Len(held) + (i - Len(held)) = i
        BY <2>1, <2>3, <3>2
      <4>2. q[i] = feed[i - Len(held)] /\ p[i] = feed'[i - Len(held)]
        BY <1>3, <1>6, <1>7, <4>1 DEF Joins
      <4> QED BY <1>6, <2>1, <4>1, <4>2
    <3> QED BY <3>1, <3>2
  <2> HIDE DEF y
  <2> QED BY <2>1, <2>2, <2>3 DEF Dims
<1>9. Sound(own, makers, FALSE, belief, p, 0)
  <2> DEFINE clean == faults = 0
  <2>1. Sound(own, makers, clean, belief, q, 0)
    BY <1>3
  <2> HIDE DEF y, clean
  <2> QED BY <1>3, <1>7, <1>8, <2>1, DimmedSound
<1>10. faults' \in Nat /\ ~(faults' = 0)
  BY <1>1 DEF IInv, Types
<1>11. Sound(own, makers, faults' = 0, belief, p, 0)
  BY <1>9, <1>10, Weaker
<1>12. TapeNew'
  <2>1. \A j \in DOMAIN p : p[j].type = "lost" \/ (j \in DOMAIN q /\ p[j] = q[j])
    BY <1>8 DEF Dims
  <2>2. \A j \in DOMAIN p : \A r : IsAdd(p[j], r) => j \in DOMAIN q /\ IsAdd(q[j], r)
    BY <2>1 DEF IsAdd
  <2>3. TapeNew
    BY DEF IInv
  <2>4. \A i \in DOMAIN tape : tape[i].type = "A" => \A j \in DOMAIN p : ~IsAdd(p[j], tape[i].ref)
    BY <2>2, <2>3 DEF TapeNew, q
  <2> QED BY <1>1, <2>3, <2>4 DEF TapeNew, p
<1>13. Types'
  <2>1. feed' \in Seq(Stream(own))
    BY <1>6 DEF IsSeen
  <2> QED BY <1>1, <1>4, <1>10, <2>1 DEF IInv, Types, own
<1>14. GivenOut'
  BY <1>1 DEF IInv, GivenOut
<1>15. Answers'
  <2>1. \A r : Awaited(late', r) = Awaited(late, r)
    BY <1>1
  <2> QED BY <1>1, <2>1 DEF IInv, Answers
<1> QED BY <1>1, <1>4, <1>11, <1>12, <1>13, <1>14, <1>15 DEF IInv, own, p

\* Nothing is parked.
LEMMA NoneParked ==
  ASSUME NEW own, IsFiniteSet(own), NEW b, DOMAIN b.parked = own, \A r \in own : b.parked[r] = NotParked
  PROVE  ParkedShares(b) = 0 /\ ParkedInBook(b) = 0
<1> DEFINE f == [r \in own |-> SharesIn(b.parked[r].execs)]
           g == [r \in own |-> InBookIn(b.parked[r].execs)]
<1>1. \A r \in own : f[r] = 0 /\ g[r] = 0
  BY NothingParked
<1>2. ParkedShares(b) = SumFunctionOnSet(f, own) /\ ParkedInBook(b) = SumFunctionOnSet(g, own)
  <2>1. DOMAIN f = own /\ DOMAIN g = own /\ ParkedShares(b) = SumFunction(f) /\ ParkedInBook(b) = SumFunction(g)
    BY DEF ParkedShares, ParkedInBook
  <2> HIDE DEF f, g
  <2> QED BY <2>1 DEF SumFunction
<1> HIDE DEF f, g
<1> QED BY <1>1, <1>2, SumZeros

LEMMA InitHolds ==
  ASSUME Init
  PROVE  IInv
<1> DEFINE own == OwnRefs
           none == << >>
           b == belief
<1>1. /\ scenario \in Scenarios /\ belief = NewBelief /\ client = ClientOpened /\ late = none /\ now = 0
      /\ ordersSent = 0 /\ phase = "running" /\ held = none /\ orders = <<[type |-> "L"]>> /\ replies = none /\ feed = none
      /\ tape = scenario.tape /\ makers = [r \in {} |-> 0] /\ faults = 0
  BY DEF Init
<1>2. /\ OwnOnes(own) /\ IsFiniteSet(own) /\ scenario.maxOrders \in Nat /\ HistoricalRefs \in Nat
      /\ tape \in Seq(HistoricalMessages)
  BY <1>1, OwnFacts
<1>3. \A S : none \in Seq(S)
  OBVIOUS
<1>4. Len(none) = 0 /\ DOMAIN none = {} /\ none \o none = none
  OBVIOUS
<1>5. /\ b.refs = {} /\ b.parked = [r \in own |-> NotParked] /\ DOMAIN b.book = {} /\ b.book = [r \in {} |-> 0]
      /\ b.applied = 0 /\ b.locate = 0 /\ b.ownAdds = 0 /\ b.fills = 0 /\ b.inBook = 0 /\ b.position = 0
      /\ b.seen = none /\ Shaped(b)
  BY <1>1 DEF NewBelief, Shaped
<1>6. held \o feed = none /\ Rest(none, 0) = {}
  BY <1>1, <1>4 DEF Rest
<1> HIDE DEF own, none, b
<1>7. Belief(own, b)
  <2>1. b.parked \in [own -> Parks]
    BY <1>5, NothingParked
  <2>2. IsBook(own, b.book)
    BY <1>5 DEF IsBook
  <2> QED BY <1>3, <1>5, <2>1, <2>2 DEF Belief
<1>8. ParkedShares(b) = 0 /\ ParkedInBook(b) = 0
  <2>1. DOMAIN b.parked = own /\ \A r \in own : b.parked[r] = NotParked
    BY <1>5
  <2> QED BY <1>2, <2>1, NoneParked
<1>9. SharesSeen(none) = 0 /\ InBookSeen(none) = 0 /\ OwnExecs(none) = {}
  <2>1. OwnExecs(none) = {}
    BY <1>4 DEF OwnExecs
  <2> QED BY <2>1, SeenSums, SumEmpty
<1>10. \A r : ~Told(none, r)
  BY <1>4 DEF Told
<1>11. Sound(own, makers, faults = 0, b, none, 0)
  <2>1. Counted(b) /\ Placed(b)
    BY <1>5, <1>8, <1>9 DEF Counted, Placed
  <2>2. Booked(own, b) /\ Mirrored(b)
    BY <1>4, <1>5 DEF Booked, Mirrored
  <2>3. Covered(own, makers, b, none, 0)
    BY <1>5, <1>6, <1>10 DEF Covered
  <2>4. AddedOnce(b, none, 0)
    BY <1>4, <1>5, <1>6 DEF AddedOnce
  <2>5. Unknown(own, makers, b, none, 0)
    BY <1>5, <1>6, <1>10 DEF Unknown
  <2>6. InOrder(own, makers, b, none, 0)
    <3>1. \A r : Resting(makers, r) = 0
      BY <1>1 DEF Resting
    <3> QED BY <1>5, <1>6, <1>9, <3>1 DEF InOrder
  <2> QED BY <1>7, <2>1, <2>2, <2>3, <2>4, <2>5, <2>6 DEF Sound
<1>12. orders \in Seq(Requests) /\ Quotes(orders) = 0
  <2>1. [type |-> "L"] \in Requests
    BY DEF Requests
  <2>2. orders \in Seq(Requests) /\ DOMAIN orders = {1} /\ orders[1].type = "L"
    BY <1>1, <2>1
  <2>3. \A i \in DOMAIN orders : QuoteTerms(orders)[i] = 0
    BY <2>2 DEF QuoteTerms
  <2>4. IsFiniteSet(DOMAIN orders)
    BY <2>2, FS_Singleton
  <2> QED BY <2>2, <2>3, <2>4, SumZeros DEF Quotes
<1>13. Types
  <2>1. IsSession(client)
    BY <1>1 DEF ClientOpened, Opened, IsSession
  <2>2. ordersSent \in 0..scenario.maxOrders
    BY <1>1, <1>2
  <2> QED BY <1>1, <1>2, <1>3, <1>12, <2>1, <2>2 DEF Types
<1>14. GivenOut
  <2>1. (HistoricalRefs + 1)..(HistoricalRefs + 0) = {}
    BY <1>2
  <2>2. makers \in [(HistoricalRefs + 1)..(HistoricalRefs + 0) -> Nat]
    BY <1>1, <2>1
  <2>3. 0 \in 0..scenario.maxOrders /\ 0 + Quotes(orders) <= ordersSent
    BY <1>1, <1>2, <1>12
  <2> QED BY <2>2, <2>3 DEF GivenOut
<1>15. TapeNew
  <2>1. \A i, j \in DOMAIN tape : tape[i].type = "A" /\ tape[j].type = "A" /\ tape[i].ref = tape[j].ref => i = j
    BY <1>1, OwnFacts
  <2>2. \A i, j \in DOMAIN tape : tape[i].type = "A" /\ IsAdd(tape[j], tape[i].ref) => i = j
    BY <2>1 DEF IsAdd
  <2>3. DOMAIN (held \o feed) = {} /\ \A r : ~Told(belief.seen, r)
    BY <1>4, <1>5, <1>6, <1>10 DEF b
  <2> QED BY <2>2, <2>3 DEF TapeNew
<1>16. Answers
  BY <1>1, <1>4 DEF Answers
<1> QED BY <1>6, <1>11, <1>13, <1>14, <1>15, <1>16 DEF IInv, own, b

LEMMA LoopIs ==
  ASSUME IInv, Loop
  PROVE  \E nReplies \in 0..Len(replies), nFeed \in 0..Len(feed), silent \in BOOLEAN, gone \in BOOLEAN :
           Turn(nReplies, nFeed, silent, gone)
<1>1. Len(replies) \in Nat /\ Len(feed) \in Nat
  BY LenProperties DEF IInv, Types
<1>2. {0, Len(replies)} \subseteq 0..Len(replies) /\ {0, Len(feed)} \subseteq 0..Len(feed)
  BY <1>1
<1> QED BY <1>2 DEF Loop

LEMMA StepKeeps ==
  ASSUME IInv, [Next]_vars
  PROVE  IInv'
<1>1. CASE Loop
  <2>1. PICK nReplies \in 0..Len(replies), nFeed \in 0..Len(feed), silent \in BOOLEAN, gone \in BOOLEAN :
          Turn(nReplies, nFeed, silent, gone)
    BY <1>1, LoopIs
  <2> QED BY <2>1, TurnKeeps
<1>2. CASE ExchangeReads
  BY <1>2, ReadsKeeps
<1>3. CASE ExchangeFills
  BY <1>3, FillsKeeps
<1>4. CASE Publish
  BY <1>4, PublishKeeps
<1>5. CASE Lose
  BY <1>5, LoseKeeps
<1>6. ASSUME scenario' = scenario, belief' = belief, late' = late, held' = held, ordersSent' = ordersSent, phase' = phase,
             client' = client, now' \in Nat, orders' = orders, replies' = replies, feed' = feed, tape' = tape,
             makers' = makers, faults' = faults
      PROVE  IInv'
  <2>1. OwnRefs' = OwnRefs
    BY <1>6 DEF OwnRefs
  <2>2. Types'
    BY <1>6, <2>1 DEF IInv, Types
  <2>3. GivenOut' /\ TapeNew'
    BY <1>6 DEF IInv, GivenOut, TapeNew
  <2>4. Answers'
    <3>1. \A r : Awaited(late', r) = Awaited(late, r)
      BY <1>6
    <3> QED BY <1>6, <3>1 DEF IInv, Answers
  <2> QED BY <1>6, <2>1, <2>2, <2>3, <2>4 DEF IInv
<1>7. CASE Pass
  <2>1. now' \in Nat
    BY <1>7 DEF Pass, IInv, Types
  <2> QED BY <1>6, <1>7, <2>1 DEF Pass, processVars, beliefVars, quoteVars, exchangeVars
<1>8. CASE UNCHANGED vars
  <2>1. now' \in Nat
    BY <1>8 DEF vars, IInv, Types
  <2> QED BY <1>6, <1>8, <2>1 DEF vars, processVars, beliefVars, quoteVars, exchangeVars
<1> QED BY <1>1, <1>2, <1>3, <1>4, <1>5, <1>7, <1>8 DEF Next

-----------------------------------------------------------------------------
(* The theorems.                                                           *)

\* Types, GivenOut, TapeNew, Answers and Sound hold throughout: what the
\* process believes after any interleaving of the two streams is what the
\* feed it has been handed said, and what is still to come fits into it.
THEOREM StrategyInvariant == Spec => []IInv
<1>1. Init => IInv
  BY InitHolds
<1>2. IInv /\ [Next]_vars => IInv'
  BY StepKeeps
<1> QED BY <1>1, <1>2, PTL DEF Spec

\* Every share the feed said was executed of an order of ours is counted as
\* a fill once, or is parked for an order whose Accepted has not been
\* applied, whichever of on_ouch_payload() and on_message() came first.
THEOREM StrategyCountedOnce == Spec => []CountedOnce
<1>1. IInv => CountedOnce
  BY DEF IInv, Sound, Counted, CountedOnce
<1> QED BY <1>1, StrategyInvariant, PTL

\* The position and what is parked of it are the executions whose order the
\* book held when on_message() saw them, which are those whose add the feed
\* had shown: the lookup misses none that was there, and finds none that
\* was not.
THEOREM StrategyPositionIsTape == Spec => []PositionIsTape
<1>1. IInv => PositionIsTape
  BY DEF IInv, Sound, Placed, PositionIsTape
<1> QED BY <1>1, StrategyInvariant, PTL

LEMMA ReportHolds ==
  ASSUME IInv
  PROVE  ReportIsTrue
<1> SUFFICES ASSUME phase = "reported", faults = 0, feed = << >>, Silent(replies), client.state = "LoggedIn"
             PROVE  belief.position = SharesSeen(belief.seen)
  BY DEF ReportIsTrue
<1> DEFINE own == OwnRefs
           b == belief
           q == held \o feed
           seen == b.seen
<1>1. /\ OwnOnes(own) /\ IsFiniteSet(own) /\ Sound(own, makers, faults = 0, b, q, 0)
  BY InvFacts
<1>2. /\ Belief(own, b) /\ Counted(b) /\ Placed(b) /\ Unknown(own, makers, b, q, 0) /\ InOrder(own, makers, b, q, 0)
  BY <1>1 DEF Sound
<1> HIDE DEF own, q
<1>3. ASSUME NEW r \in own PROVE b.parked[r] = NotParked
  <2>1. CASE r \in DOMAIN makers
    <3>1. r \in b.refs \/ Awaited(late, r) \/ \E i \in DOMAIN replies : IsAccept(replies[i], r)
      BY <2>1 DEF IInv, Answers
    <3>2. ~\E i \in DOMAIN replies : IsAccept(replies[i], r)
      BY DEF Silent, IsAccept
    <3>3. Awaited(late, r) => r \in b.refs
      BY DEF IInv, Answers, Awaited
    <3> QED BY <1>2, <3>1, <3>2, <3>3 DEF Counted
  <2>2. CASE r \notin DOMAIN makers
    BY <1>2, <2>2 DEF Unknown
  <2> QED BY <2>1, <2>2
<1>4. ParkedInBook(b) = 0
  <2>1. DOMAIN b.parked = own
    BY <1>2 DEF Belief
  <2> QED BY <1>1, <1>3, <2>1, NoneParked
<1>5. IsSeen(own, seen) /\ b.position \in Int
  BY <1>2 DEF Belief, IsSeen
<1>6. InBookSeen(seen) = SharesSeen(seen) /\ InBookSeen(seen) \in Int
  <2> DEFINE W == OwnExecs(seen)
             f == SeenTerms(seen)
             g == InBookTerms(seen)
  <2>1. IsFiniteSet(W) /\ (\A i \in W : f[i] \in Int /\ g[i] \in Int) /\ InBookSeen(seen) \in Int
    BY <1>1, <1>5, SeenTermsType
  <2>2. \A i \in W : Added(seen, i)
    BY <1>2 DEF InOrder
  <2>3. \A i \in W : f[i] = g[i]
    BY <2>2 DEF SeenTerms, InBookTerms
  <2>4. SharesSeen(seen) = SumFunctionOnSet(f, W) /\ InBookSeen(seen) = SumFunctionOnSet(g, W)
    BY SeenSums
  <2> HIDE DEF W, f, g
  <2> QED BY <2>1, <2>3, <2>4, SumSame
<1>7. b.position + ParkedInBook(b) = InBookSeen(seen)
  BY <1>2 DEF Placed
<1> QED BY <1>4, <1>5, <1>6, <1>7

\* What the process reports, once the whole feed and every Accepted have
\* reached it, is the position the exchange gave it: the drain after the
\* loop leaves nothing parked, held acknowledgements that were not yet due
\* and messages behind an open hole included.
THEOREM StrategyReportIsTrue == Spec => []ReportIsTrue
<1>1. IInv => ReportIsTrue
  BY ReportHolds
<1> QED BY <1>1, StrategyInvariant, PTL

LEMMA TurnRests ==
  ASSUME IInv, NEW nReplies \in 0..Len(replies), NEW nFeed \in 0..Len(feed), NEW silent, NEW gone,
         Turn(nReplies, nFeed, silent, gone), phase' = "running",
         NEW i \in (Len(orders) + 1)..Len(orders'), orders'[i].type = "U", NEW p \in Offers(belief'.seen)
  PROVE  orders'[i].price < p
<1> DEFINE own == OwnRefs
           told == ToldBy(nReplies, silent)
           c == belief'
<1>1. TurnFrame(nReplies, nFeed)
  BY TurnIs
<1>2. PICK handed \in {BeforeHole(Arrived(nFeed)), Arrived(nFeed)}, quotes \in BOOLEAN, bye \in BOOLEAN, leaves \in BOOLEAN :
        TurnDone(nReplies, nFeed, silent, handed, quotes, bye, leaves)
  BY TurnIs
<1> DEFINE b == Heeded(told.belief, handed)
<1>3. /\ quotes => QuotePrice(b) > 0
      /\ orders' \in {orders, orders \o Sending(quotes, bye, QuotePrice(b))}
      /\ belief' = b
  BY <1>2 DEF TurnDone, WantsToQuote
<1>4. Sound(own, makers, faults = 0, c, held' \o feed', 0)
  BY <1>1, <1>2, TurnSound
<1>5. Belief(own, b) /\ Mirrored(b) /\ IsFiniteSet(own)
  BY <1>3, <1>4, InvFacts DEF Sound
<1>6. QuotePrice(b) \in Int /\ (QuotePrice(b) > 0 => \A x \in Prices(b, "sell") : QuotePrice(b) < x)
  BY <1>5, PriceFacts
<1>7. p \in Prices(b, "sell")
  BY <1>3, <1>5, OfferIsPrice
<1>8. orders \in Seq(Requests) /\ Len(orders) \in Nat
  BY LenProperties DEF IInv, Types
<1> HIDE DEF b, own, told
<1>9. CASE orders' = orders
  BY <1>8, <1>9
<1>10. CASE orders' = orders \o Sending(quotes, bye, QuotePrice(b))
  <2> DEFINE price == QuotePrice(b)
             sent == orders \o Sending(quotes, bye, price)
  <2>4. orders \in Seq(Requests) /\ price \in Int
    BY <1>6, <1>8
  <2>2. orders' = sent
    BY <1>10
  <2> HIDE DEF price
  <2>1. OnlyQuote(Len(orders), sent, quotes, price)
    BY <2>4, SendingIs
  <2> HIDE DEF sent
  <2>3. quotes /\ orders'[i].price = QuotePrice(b)
    BY <2>1, <2>2 DEF OnlyQuote, price
  <2> QED BY <1>3, <1>6, <1>7, <2>3
<1> QED BY <1>3, <1>9, <1>10

\* No quote the process sends would trade with the book it was priced from:
\* it is under every offer left in the feed it has heeded, for every tick
\* and every offset, also when that book is crossed.
THEOREM StrategyQuotesRest == Spec => QuotesRest
<1> DEFINE rests == phase' = "running" => \A i \in (Len(orders) + 1)..Len(orders') :
                      orders'[i].type = "U" => \A p \in Offers(belief'.seen) : orders'[i].price < p
<1>1. IInv /\ [Next]_vars => [rests]_vars
  <2> SUFFICES ASSUME IInv, Next PROVE rests
    OBVIOUS
  <2>1. orders \in Seq(Requests) /\ Len(orders) \in Nat
    BY LenProperties DEF IInv, Types
  <2>2. CASE Loop
    <3>1. PICK nReplies \in 0..Len(replies), nFeed \in 0..Len(feed), silent \in BOOLEAN, gone \in BOOLEAN :
            Turn(nReplies, nFeed, silent, gone)
      BY <2>2, LoopIs
    <3> QED BY <3>1, TurnRests
  <2>3. CASE orders' = orders
    BY <2>1, <2>3
  <2>4. CASE ExchangeReads
    <3>1. orders /= << >> /\ orders' = Tail(orders)
      BY <2>4 DEF ExchangeReads
    <3>2. Len(orders') = Len(orders) - 1
      BY <2>1, <3>1, HeadTailProperties
    <3> QED BY <2>1, <3>2
  <2>5. CASE ExchangeFills \/ Publish \/ Lose \/ Pass
    <3>1. orders' = orders
      BY <2>5 DEF ExchangeFills, Publish, Lose, Pass, processVars
    <3> QED BY <2>3, <3>1
  <2> QED BY <2>2, <2>4, <2>5 DEF Next
<1> HIDE DEF rests
<1>2. Spec => [][rests]_vars
  BY <1>1, StrategyInvariant, PTL DEF Spec
<1> QED BY <1>2 DEF QuotesRest, rests
=============================================================================
