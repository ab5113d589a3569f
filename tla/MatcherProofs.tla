--------------------------- MODULE MatcherProofs ---------------------------
(***************************************************************************)
(* Proofs about Matcher for any markets: shares are conserved order by     *)
(* order and against the book, and the assertion in transition() never     *)
(* fails.                                                                  *)
(*                                                                         *)
(* The invariant: an order's record is sound by itself (SoundOrders), the  *)
(* book holds one entry for each order that is displayed, of the size      *)
(* displayed (Agrees), a parked stop has not entered and is parked once    *)
(* (StopsParked), and the taker is in the engine and not in the book       *)
(* (TakerOK).                                                              *)
(***************************************************************************)
EXTENDS Matcher, SequenceTheorems, FiniteFacts, TLAPS

Live == {"Accepted", "PartiallyFilled"}

SoundRecord(m, inFlight) ==
  /\ m \in Meta
  /\ m.filled + m.cancelled + m.resting + m.hidden + inFlight =
       IF m.entered THEN m.req.quantity ELSE 0
  /\ m.resting > 0 <=> m.inBook
  /\ m.hidden > 0 => m.inBook /\ m.req.display > 0
  /\ m.state = "Unknown" => ~m.entered
  /\ m.inBook => m.state \in Live

SoundOrders == \A id \in Ids : SoundRecord(orders[id], InFlight(id))

\* A book bk in which each order id shows shown[id] shares, and n historical
\* orders were added.
AgreesWith(bk, shown, n) ==
  /\ \A e \in bk :
       /\ e = [ref |-> e.ref, side |-> e.side, price |-> e.price, shares |-> e.shares,
               place |-> e.place]
       /\ e.ref \in Nat /\ e.shares \in Nat \ {0}
       /\ Owned(e) => e.shares = shown[e.ref]
       /\ ~Owned(e) => e.ref <= MaxOrders + n
  /\ \A e, f \in bk : e.ref = f.ref => e = f
  /\ \A id \in Ids : shown[id] > 0 => \E e \in bk : e.ref = id

Shown == [id \in Ids |-> orders[id].resting]
Agrees == AgreesWith(book, Shown, historical)

StopsParked(s, ords) ==
  /\ s \in Seq(Ids)
  /\ \A i, j \in 1..Len(s) : s[i] = s[j] => i = j
  /\ \A i \in 1..Len(s) : ords[s[i]].state = "Accepted" /\ ~ords[s[i]].entered

TakerOK ==
  IF loop = "match"
    THEN /\ taker = [id |-> taker.id, type |-> taker.type, remaining |-> taker.remaining]
         /\ taker.id \in Ids /\ taker.remaining \in Nat
         /\ orders[taker.id].state \in {"New", "Accepted"}
         /\ orders[taker.id].entered /\ ~orders[taker.id].inBook
    ELSE taker = NoTaker

IInv ==
  /\ market \in DOMAIN Markets
  /\ historical \in Nat /\ seq \in Nat
  /\ DOMAIN orders = Ids /\ orders = [id \in Ids |-> orders[id]]
  /\ loop \in {"idle", "match", "stops"}
  /\ SoundOrders /\ Agrees /\ StopsParked(parked, orders) /\ TakerOK

-----------------------------------------------------------------------------
(* What the helpers return.                                                *)

LEMMA RequestFacts ==
  ASSUME NEW m \in DOMAIN Markets, NEW req \in Markets[m].requests
  PROVE  req \in Requests /\ req \in Request
BY MarketAssumption DEF Requests

LEMMA MetaFields ==
  ASSUME NEW m \in Meta
  PROVE  /\ m.req \in Request /\ m.state \in States
         /\ m.filled \in Nat /\ m.cancelled \in Nat /\ m.resting \in Nat
         /\ m.hidden \in Nat /\ m.sequence \in Nat
         /\ m.inBook \in BOOLEAN /\ m.entered \in BOOLEAN
         /\ m.req.quantity \in Nat /\ m.req.display \in Nat
<1>1. m.req \in Requests
  BY DEF Meta
<1>2. m.req \in Request
  BY <1>1, RequestFacts DEF Requests
<1> QED
  BY <1>2 DEF Meta, Request

LEMMA SumZero ==
  ASSUME NEW a \in Nat, NEW b \in Nat, NEW c \in Nat, NEW d \in Nat, a + b + c + d + 0 = 0
  PROVE  a = 0 /\ b = 0 /\ c = 0 /\ d = 0
OBVIOUS

LEMMA UnknownFacts ==
  ASSUME NEW req \in Requests
  PROVE  /\ Unknown(req) \in Meta
         /\ Unknown(req) = [req |-> req, state |-> "Unknown", filled |-> 0, cancelled |-> 0,
              resting |-> 0, hidden |-> 0, sequence |-> 0, inBook |-> FALSE, entered |-> FALSE]
BY DEF Unknown, Meta, States

\* EXCEPT keeps a record a Meta, for the combinations of fields the code sets.
LEMMA MetaUpdates ==
  ASSUME NEW m \in Meta, NEW a \in Nat, NEW b \in Nat, NEW c \in Nat, NEW d \in Nat,
         NEW s \in States, NEW k \in BOOLEAN
  PROVE  /\ [m EXCEPT !.cancelled = a, !.resting = b, !.hidden = c, !.inBook = k, !.state = s]
              \in Meta
         /\ [m EXCEPT !.filled = a, !.resting = b, !.hidden = c, !.sequence = d, !.state = s]
              \in Meta
         /\ [m EXCEPT !.filled = a, !.resting = b, !.inBook = k, !.state = s] \in Meta
         /\ [m EXCEPT !.resting = a, !.hidden = b, !.inBook = k, !.state = s] \in Meta
         /\ [m EXCEPT !.cancelled = a, !.state = s] \in Meta
         /\ [m EXCEPT !.filled = a] \in Meta
         /\ [m EXCEPT !.state = s, !.sequence = a] \in Meta
         /\ [m EXCEPT !.sequence = a] \in Meta
         /\ [m EXCEPT !.state = s] \in Meta
         /\ [m EXCEPT !.entered = k] \in Meta
<1>1. [m EXCEPT !.cancelled = a, !.resting = b, !.hidden = c, !.inBook = k, !.state = s] \in Meta
  BY DEF Meta
<1>2. [m EXCEPT !.filled = a, !.resting = b, !.hidden = c, !.sequence = d, !.state = s] \in Meta
  BY DEF Meta
<1>3. [m EXCEPT !.filled = a, !.resting = b, !.inBook = k, !.state = s] \in Meta
  BY DEF Meta
<1>4. [m EXCEPT !.resting = a, !.hidden = b, !.inBook = k, !.state = s] \in Meta
  BY DEF Meta
<1>5. /\ [m EXCEPT !.cancelled = a, !.state = s] \in Meta
      /\ [m EXCEPT !.filled = a] \in Meta
  BY DEF Meta
<1>6. /\ [m EXCEPT !.state = s, !.sequence = a] \in Meta
      /\ [m EXCEPT !.sequence = a] \in Meta
  BY DEF Meta
<1>7. /\ [m EXCEPT !.state = s] \in Meta
      /\ [m EXCEPT !.entered = k] \in Meta
  BY DEF Meta
<1> QED
  BY <1>1, <1>2, <1>3, <1>4, <1>5, <1>6, <1>7, Zenon

LEMMA WithCancelledFacts ==
  ASSUME NEW m, SoundRecord(m, 0), m.state /= "Unknown"
  PROVE  /\ SoundRecord(WithCancelled(m), 0)
         /\ ~WithCancelled(m).inBook /\ WithCancelled(m).state = "Cancelled"
         /\ WithCancelled(m).resting = 0
<1> DEFINE c == WithCancelled(m)
           x == m.cancelled + m.resting + m.hidden
<1>1. /\ m \in Meta
      /\ m.filled \in Nat /\ m.cancelled \in Nat /\ m.resting \in Nat /\ m.hidden \in Nat
      /\ x \in Nat /\ 0 \in Nat /\ FALSE \in BOOLEAN /\ "Cancelled" \in States
  BY MetaFields DEF SoundRecord, States
<1>2. /\ c.filled = m.filled /\ c.cancelled = m.cancelled + m.resting + m.hidden
      /\ c.resting = 0 /\ c.hidden = 0 /\ c.inBook = FALSE /\ c.entered = m.entered
      /\ c.req = m.req /\ c.state = "Cancelled"
  BY <1>1 DEF WithCancelled, Meta
<1> HIDE DEF x
<1>3. [m EXCEPT !.cancelled = x, !.resting = 0, !.hidden = 0, !.inBook = FALSE,
                !.state = "Cancelled"] \in Meta
  BY <1>1, MetaUpdates, Zenon
<1>4. c \in Meta
  BY <1>1, <1>3 DEF WithCancelled, x, Meta
<1> HIDE DEF c
<1>5. SoundRecord(c, 0)
  BY <1>1, <1>2, <1>4 DEF SoundRecord
<1> QED
  BY <1>2, <1>5 DEF c

LEMMA SliceFacts ==
  ASSUME NEW m, SoundRecord(m, 0), m.hidden > 0
  PROVE  Slice(m) \in 1..m.hidden
BY MetaFields DEF SoundRecord, Slice, LeastOf

LEMMA MakerFilledFacts ==
  ASSUME NEW m, SoundRecord(m, 0), m.inBook, NEW qty \in 1..m.resting, seq \in Nat
  PROVE  LET r == MakerFilled(m, qty)
         IN  /\ SoundRecord(r, 0)
             /\ r.state \in Live \union {"Filled"}
             /\ r.resting = IF Refreshes(m, qty) THEN Slice(m) ELSE m.resting - qty
<1> DEFINE r == MakerFilled(m, qty)
<1>1. /\ m \in Meta /\ qty \in Nat /\ m.entered \in BOOLEAN
      /\ m.filled \in Nat /\ m.cancelled \in Nat /\ m.resting \in Nat /\ m.hidden \in Nat
      /\ m.state \in Live
  BY MetaFields DEF SoundRecord
<1>2. CASE Refreshes(m, qty)
  <2> DEFINE f == m.filled + qty
             h == m.hidden - Slice(m)
             q == seq + 1
  <2>1. /\ qty = m.resting /\ m.hidden > 0 /\ Slice(m) \in 1..m.hidden
        /\ f \in Nat /\ h \in Nat /\ q \in Nat /\ Slice(m) \in Nat
        /\ "PartiallyFilled" \in States
    BY <1>1, <1>2, SliceFacts DEF Refreshes, States
  <2>2. r = [m EXCEPT !.filled = f, !.resting = Slice(m), !.hidden = h, !.sequence = q,
                      !.state = "PartiallyFilled"]
    BY <1>1, <1>2, <2>1 DEF MakerFilled, SequenceAfter, Meta
  <2> HIDE DEF f, h, q, r
  <2>3. r \in Meta
    BY <1>1, <2>1, <2>2, MetaUpdates, Zenon
  <2>4. /\ r.filled = f /\ r.cancelled = m.cancelled /\ r.resting = Slice(m)
        /\ r.hidden = h /\ r.inBook = m.inBook /\ r.entered = m.entered /\ r.req = m.req
        /\ r.state = "PartiallyFilled"
    BY <1>1, <2>2 DEF Meta
  <2>5. SoundRecord(r, 0)
    BY <1>1, <2>1, <2>3, <2>4 DEF SoundRecord, f, h, Live
  <2> QED
    BY <1>2, <2>4, <2>5 DEF r, Live
<1>3. CASE ~Refreshes(m, qty)
  <2> DEFINE f == m.filled + qty
             g == m.resting - qty
             k == qty < m.resting
             t == IF k THEN "PartiallyFilled" ELSE "Filled"
  <2>1. /\ f \in Nat /\ g \in Nat /\ k \in BOOLEAN /\ t \in States
        /\ g > 0 <=> k
        /\ m.hidden > 0 => k
    <3>1. f \in Nat /\ g \in Nat /\ (g > 0 <=> k)
      BY <1>1
    <3>2. t \in States /\ k \in BOOLEAN
      BY DEF States
    <3>3. m.hidden > 0 => k
      BY <1>1, <1>3 DEF Refreshes
    <3> QED BY <3>1, <3>2, <3>3
  <2>2. r = [m EXCEPT !.filled = f, !.resting = g, !.inBook = k, !.state = t]
    BY <1>1, <1>3 DEF MakerFilled, Meta
  <2>3. k => t = "PartiallyFilled"
    OBVIOUS
  <2>6. t \in {"PartiallyFilled", "Filled"}
    OBVIOUS
  <2>7. f + g = m.filled + m.resting
    BY <1>1
  <2> HIDE DEF f, g, k, t, r
  <2>3a. r \in Meta
    <3>1. /\ m \in Meta /\ f \in Nat /\ g \in Nat /\ 0 \in Nat
          /\ (k \in BOOLEAN) /\ t \in States
      BY <1>1, <2>1
    <3>2. [m EXCEPT !.filled = f, !.resting = g, !.inBook = k, !.state = t] \in Meta
      BY <3>1, MetaUpdates, Zenon
    <3> QED
      BY <2>2, <3>2
  <2>4. /\ r.filled = f /\ r.cancelled = m.cancelled /\ r.resting = g
        /\ r.hidden = m.hidden /\ r.inBook = k /\ r.entered = m.entered /\ r.req = m.req
        /\ r.state = t
    BY <1>1, <2>2 DEF Meta
  <2>5. SoundRecord(r, 0)
    BY <1>1, <2>1, <2>3, <2>3a, <2>4, <2>6, <2>7 DEF SoundRecord, Live
  <2> QED
    BY <1>3, <2>4, <2>5, <2>6 DEF r, g, Live
<1> QED
  BY <1>2, <1>3

\* A taker in match() that trades qty, rests, or ends filled or cancelled.
LEMMA TakerFilledFacts ==
  ASSUME NEW m, NEW left \in Nat, SoundRecord(m, left), m.entered, NEW qty \in 0..left
  PROVE  LET r == [m EXCEPT !.filled = @ + qty]
         IN  /\ SoundRecord(r, left - qty)
             /\ r.state = m.state /\ r.entered /\ r.inBook = m.inBook /\ r.resting = m.resting
<1> DEFINE f == m.filled + qty
           r == [m EXCEPT !.filled = @ + qty]
<1>1. /\ m \in Meta /\ f \in Nat /\ 0 \in Nat /\ FALSE \in BOOLEAN /\ "New" \in States
      /\ m.filled \in Nat /\ m.cancelled \in Nat /\ m.resting \in Nat /\ m.hidden \in Nat
      /\ m.req.quantity \in Nat
  BY MetaFields DEF SoundRecord, States
<1>2. r = [m EXCEPT !.filled = f]
  BY <1>1 DEF Meta
<1> HIDE DEF f, r
<1>3. r \in Meta
  BY <1>1, <1>2, MetaUpdates, Zenon
<1>4. /\ r.filled = f /\ r.cancelled = m.cancelled /\ r.resting = m.resting
      /\ r.hidden = m.hidden /\ r.inBook = m.inBook /\ r.entered = m.entered /\ r.req = m.req
      /\ r.state = m.state
  BY <1>1, <1>2 DEF Meta
<1> QED
  BY <1>1, <1>3, <1>4 DEF SoundRecord, f, r

LEMMA SettledFacts ==
  ASSUME NEW m, NEW left \in Nat, SoundRecord(m, left), m.entered, ~m.inBook
  PROVE  /\ LET c == [m EXCEPT !.cancelled = @ + left, !.state = "Cancelled"]
            IN  /\ SoundRecord(c, 0) /\ c.state = "Cancelled"
                /\ ~c.inBook /\ c.resting = 0
         /\ left = 0 =>
              LET f == [m EXCEPT !.state = "Filled"]
              IN  /\ SoundRecord(f, 0) /\ f.state = "Filled" /\ ~f.inBook /\ f.resting = 0
<1> DEFINE x == m.cancelled + left
           c == [m EXCEPT !.cancelled = @ + left, !.state = "Cancelled"]
           f == [m EXCEPT !.state = "Filled"]
<1>1. /\ m \in Meta /\ x \in Nat /\ 0 \in Nat /\ FALSE \in BOOLEAN
      /\ "Cancelled" \in States /\ "Filled" \in States
      /\ m.filled \in Nat /\ m.cancelled \in Nat /\ m.resting \in Nat /\ m.hidden \in Nat
      /\ m.req.quantity \in Nat /\ m.resting = 0 /\ m.hidden = 0
  BY MetaFields DEF SoundRecord, States
<1>2. c = [m EXCEPT !.cancelled = x, !.state = "Cancelled"]
  BY <1>1 DEF Meta
<1>3. /\ f.filled = m.filled /\ f.cancelled = m.cancelled /\ f.resting = m.resting
      /\ f.hidden = m.hidden /\ f.inBook = m.inBook /\ f.entered = m.entered /\ f.req = m.req
      /\ f.state = "Filled"
  BY <1>1 DEF Meta
<1>4. f \in Meta
  BY <1>1, MetaUpdates, Zenon
<1> HIDE DEF x, c, f
<1>5. c \in Meta
  BY <1>1, <1>2, MetaUpdates, Zenon
<1>6. /\ c.filled = m.filled /\ c.cancelled = x /\ c.resting = m.resting
      /\ c.hidden = m.hidden /\ c.inBook = m.inBook /\ c.entered = m.entered /\ c.req = m.req
      /\ c.state = "Cancelled"
  BY <1>1, <1>2 DEF Meta
<1>7. SoundRecord(c, 0) /\ c.state = "Cancelled" /\ ~c.inBook /\ c.resting = 0
  BY <1>1, <1>5, <1>6 DEF SoundRecord, x
<1>8. left = 0 => SoundRecord(f, 0) /\ f.state = "Filled" /\ ~f.inBook /\ f.resting = 0
  BY <1>1, <1>3, <1>4 DEF SoundRecord
<1> QED
  BY <1>7, <1>8 DEF c, f

-----------------------------------------------------------------------------
(* What the book operations keep.                                          *)

LEMMA IdFacts == Ids \subseteq Nat /\ 0 \notin Ids /\ MaxOrders \in Nat
BY MarketAssumption DEF Ids

LEMMA RemovedAgrees ==
  ASSUME NEW bk, NEW shown \in [Ids -> Nat], NEW n \in Nat, AgreesWith(bk, shown, n),
         NEW id \in Ids
  PROVE  AgreesWith(Removed(bk, id), [shown EXCEPT ![id] = 0], n)
BY IdFacts DEF AgreesWith, Removed, Owned

LEMMA ReducedAgrees ==
  ASSUME NEW bk, NEW shown \in [Ids -> Nat], NEW n \in Nat, AgreesWith(bk, shown, n),
         NEW e \in bk, Owned(e), NEW qty \in 1..e.shares
  PROVE  AgreesWith(Reduced(bk, e, qty), [shown EXCEPT ![e.ref] = e.shares - qty], n)
<1>1. CASE qty >= e.shares
  BY <1>1, IdFacts DEF AgreesWith, Reduced, Owned
<1>2. CASE ~(qty >= e.shares)
  <2> DEFINE f == [e EXCEPT !.shares = e.shares - qty]
  <2>1. f = [ref |-> e.ref, side |-> e.side, price |-> e.price, shares |-> e.shares - qty,
             place |-> e.place]
    BY DEF AgreesWith
  <2>2. Reduced(bk, e, qty) = (bk \ {e}) \union {f}
    BY <1>2 DEF Reduced
  <2> HIDE DEF f
  <2> QED
    BY <1>2, <2>1, <2>2, IdFacts DEF AgreesWith, Owned
<1> QED
  BY <1>1, <1>2

LEMMA ReducedExternalAgrees ==
  ASSUME NEW bk, NEW shown \in [Ids -> Nat], NEW n \in Nat, AgreesWith(bk, shown, n),
         NEW e \in bk, ~Owned(e), NEW qty \in 1..e.shares
  PROVE  AgreesWith(Reduced(bk, e, qty), shown, n)
<1>1. CASE qty >= e.shares
  BY <1>1, IdFacts DEF AgreesWith, Reduced, Owned
<1>2. CASE ~(qty >= e.shares)
  <2> DEFINE f == [e EXCEPT !.shares = e.shares - qty]
  <2>1. f = [ref |-> e.ref, side |-> e.side, price |-> e.price, shares |-> e.shares - qty,
             place |-> e.place]
    BY DEF AgreesWith
  <2>2. Reduced(bk, e, qty) = (bk \ {e}) \union {f}
    BY <1>2 DEF Reduced
  <2> HIDE DEF f
  <2> QED
    BY <1>2, <2>1, <2>2, IdFacts DEF AgreesWith, Owned
<1> QED
  BY <1>1, <1>2

LEMMA AddedAgrees ==
  ASSUME NEW bk, NEW shown \in [Ids -> Nat], NEW n \in Nat, AgreesWith(bk, shown, n),
         NEW id \in Ids, shown[id] = 0, NEW side, NEW price, NEW shares \in Nat \ {0}
  PROVE  AgreesWith(Added(bk, id, side, price, shares), [shown EXCEPT ![id] = shares], n)
<1> DEFINE f == [ref |-> id, side |-> side, price |-> price, shares |-> shares,
                 place |-> 1 + Max({0} \union {e.place : e \in bk})]
<1>1. Added(bk, id, side, price, shares) = bk \union {f}
  BY DEF Added
<1>2. /\ f = [ref |-> f.ref, side |-> f.side, price |-> f.price, shares |-> f.shares,
              place |-> f.place]
      /\ f.ref = id /\ f.shares = shares
  OBVIOUS
<1> HIDE DEF f
<1>3. \A e \in bk : e.ref /= id
  BY DEF AgreesWith, Owned
<1> QED
  BY <1>1, <1>2, <1>3, IdFacts DEF AgreesWith, Owned

LEMMA AddedExternalAgrees ==
  ASSUME NEW bk, NEW shown \in [Ids -> Nat], NEW n \in Nat, AgreesWith(bk, shown, n),
         NEW side, NEW price, NEW shares \in Nat \ {0}
  PROVE  AgreesWith(Added(bk, MaxOrders + n + 1, side, price, shares), shown, n + 1)
<1> DEFINE f == [ref |-> MaxOrders + n + 1, side |-> side, price |-> price,
                 shares |-> shares, place |-> 1 + Max({0} \union {e.place : e \in bk})]
<1>1. Added(bk, MaxOrders + n + 1, side, price, shares) = bk \union {f}
  BY DEF Added
<1>2. /\ f = [ref |-> f.ref, side |-> f.side, price |-> f.price, shares |-> f.shares,
              place |-> f.place]
      /\ f.ref = MaxOrders + n + 1 /\ f.shares = shares
  OBVIOUS
<1> HIDE DEF f
<1>3. ~Owned(f) /\ f.ref \in Nat
  BY <1>2, MarketAssumption DEF Owned, Ids
<1>4. \A e \in bk : e.ref /= f.ref
  BY <1>2, <1>3, MarketAssumption DEF AgreesWith, Owned, Ids
<1> QED
  BY <1>1, <1>2, <1>3, <1>4, IdFacts DEF AgreesWith

-----------------------------------------------------------------------------
(* What the sequence of parked stops keeps.                                *)

LEMMA RemoveAtFacts ==
  ASSUME NEW s \in Seq(Ids), NEW i \in 1..Len(s)
  PROVE  /\ RemoveAt(s, i) \in Seq(Ids)
         /\ Len(RemoveAt(s, i)) = Len(s) - 1
         /\ \A j \in 1..(Len(s) - 1) :
              RemoveAt(s, i)[j] = IF j < i THEN s[j] ELSE s[j + 1]
<1> DEFINE a == SubSeq(s, 1, i - 1)
           b == SubSeq(s, i + 1, Len(s))
<1>1. /\ a \in Seq(Ids) /\ Len(a) = i - 1 /\ \A j \in 1..(i - 1) : a[j] = s[j]
  BY SubSeqProperties, LenProperties
<1>2. /\ b \in Seq(Ids) /\ Len(b) = Len(s) - i /\ \A j \in 1..(Len(s) - i) : b[j] = s[i + j]
  BY SubSeqProperties, LenProperties
<1> HIDE DEF a, b
<1>3. /\ a \o b \in Seq(Ids) /\ Len(a \o b) = Len(s) - 1
      /\ \A j \in 1..(Len(s) - 1) : (a \o b)[j] = IF j <= i - 1 THEN a[j] ELSE b[j - (i - 1)]
  <2>1. /\ a \o b \in Seq(Ids) /\ Len(a \o b) = Len(a) + Len(b)
        /\ \A j \in 1..(Len(a) + Len(b)) :
             (a \o b)[j] = IF j <= Len(a) THEN a[j] ELSE b[j - Len(a)]
    BY <1>1, <1>2, ConcatProperties
  <2>2. Len(s) \in Nat /\ i - 1 + (Len(s) - i) = Len(s) - 1
    BY LenProperties
  <2> QED
    BY <1>1, <1>2, <2>1, <2>2
<1>4. \A j \in 1..(Len(s) - 1) : (a \o b)[j] = IF j < i THEN s[j] ELSE s[j + 1]
  <2> SUFFICES ASSUME NEW j \in 1..(Len(s) - 1)
               PROVE  (a \o b)[j] = IF j < i THEN s[j] ELSE s[j + 1]
    OBVIOUS
  <2>1. CASE j < i
    BY <1>1, <1>3, <2>1
  <2>2. CASE ~(j < i)
    <3>1. j - (i - 1) \in 1..(Len(s) - i) /\ i + (j - (i - 1)) = j + 1
      BY <2>2
    <3> QED
      BY <1>2, <1>3, <2>2, <3>1
  <2> QED
    BY <2>1, <2>2
<1> QED
  BY <1>3, <1>4 DEF RemoveAt, a, b

LEMMA UnparkedFacts ==
  ASSUME NEW s, NEW o, StopsParked(s, o), NEW i \in 1..Len(s)
  PROVE  /\ StopsParked(RemoveAt(s, i), o)
         /\ \A j \in 1..Len(RemoveAt(s, i)) : RemoveAt(s, i)[j] /= s[i]
<1> DEFINE t == RemoveAt(s, i)
<1>1. /\ t \in Seq(Ids) /\ Len(t) = Len(s) - 1
      /\ \A j \in 1..(Len(s) - 1) : t[j] = IF j < i THEN s[j] ELSE s[j + 1]
  BY RemoveAtFacts DEF StopsParked
<1>2. Len(s) \in Nat
  BY LenProperties DEF StopsParked
<1> HIDE DEF t
<1>3. \A j \in 1..Len(t) : \E k \in 1..Len(s) : k /= i /\ t[j] = s[k] /\ k = IF j < i THEN j ELSE j + 1
  BY <1>1, <1>2
<1>4. \A j \in 1..Len(t) : t[j] /= s[i]
  BY <1>3 DEF StopsParked
<1>5. ASSUME NEW j \in 1..Len(t), NEW k \in 1..Len(t), t[j] = t[k] PROVE j = k
  <2>1. (IF j < i THEN j ELSE j + 1) = (IF k < i THEN k ELSE k + 1)
    BY <1>3, <1>5 DEF StopsParked
  <2> QED BY <1>1, <1>2, <2>1
<1>6. \A j \in 1..Len(t) : o[t[j]].state = "Accepted" /\ ~o[t[j]].entered
  BY <1>3 DEF StopsParked
<1> QED
  BY <1>1, <1>4, <1>5, <1>6 DEF StopsParked, t

LEMMA RemoveFirstFacts ==
  ASSUME NEW s, NEW o, StopsParked(s, o), NEW id
  PROVE  /\ StopsParked(RemoveFirst(s, id), o)
         /\ \A j \in 1..Len(RemoveFirst(s, id)) : RemoveFirst(s, id)[j] /= id
<1>1. CASE \E i \in 1..Len(s) : s[i] = id
  <2>1. PICK i \in 1..Len(s) : s[i] = id
    BY <1>1
  <2>2. {k \in 1..Len(s) : s[k] = id} = {i}
    BY <2>1 DEF StopsParked
  <2>3. Len(s) \in Nat /\ i \in Nat
    BY LenProperties DEF StopsParked
  <2>4. Min({i}) = i
    BY <2>3 DEF Min
  <2>5. RemoveFirst(s, id) = RemoveAt(s, i)
    BY <1>1, <2>2, <2>4 DEF RemoveFirst, SelectInSeq
  <2> QED
    BY <2>1, <2>5, UnparkedFacts
<1>2. CASE ~\E i \in 1..Len(s) : s[i] = id
  BY <1>2 DEF RemoveFirst
<1> QED
  BY <1>1, <1>2

LEMMA ParkedFrame ==
  ASSUME NEW s, NEW o, NEW p, StopsParked(s, o),
         \A i \in 1..Len(s) : p[s[i]].state = o[s[i]].state /\ p[s[i]].entered = o[s[i]].entered
  PROVE  StopsParked(s, p)
BY DEF StopsParked

LEMMA AppendedFacts ==
  ASSUME NEW s, NEW o, StopsParked(s, o), NEW id \in Ids,
         \A i \in 1..Len(s) : s[i] /= id,
         o[id].state = "Accepted", ~o[id].entered
  PROVE  StopsParked(Append(s, id), o)
<1>1. /\ Append(s, id) \in Seq(Ids) /\ Len(Append(s, id)) = Len(s) + 1
      /\ \A i \in 1..Len(s) : Append(s, id)[i] = s[i]
      /\ Append(s, id)[Len(s) + 1] = id
      /\ Len(s) \in Nat
  BY AppendProperties, LenProperties DEF StopsParked
<1> QED
  BY <1>1 DEF StopsParked

-----------------------------------------------------------------------------
(* Steps.                                                                  *)

LegalStep == \A id \in Ids : Legal(orders[id].state, orders'[id].state)

LEMMA OrderFacts ==
  ASSUME IInv, NEW id \in Ids
  PROVE  /\ SoundRecord(orders[id], InFlight(id))
         /\ orders[id].resting \in Nat /\ orders[id].state \in States
         /\ orders[id].inBook <=> orders[id].resting > 0
         /\ Shown \in [Ids -> Nat]
<1>1. \A j \in Ids : SoundRecord(orders[j], InFlight(j))
  BY DEF IInv, SoundOrders
<1>2. \A j \in Ids : orders[j] \in Meta
  BY <1>1 DEF SoundRecord
<1> QED
  BY <1>1, <1>2, MetaFields DEF SoundRecord, Shown

\* The order an entry of the engine's stands for.
LEMMA MakerFacts ==
  ASSUME IInv, NEW e \in book, Owned(e)
  PROVE  /\ e.ref \in Ids /\ SoundRecord(orders[e.ref], 0)
         /\ orders[e.ref].inBook /\ orders[e.ref].resting = e.shares
         /\ orders[e.ref].state \in Live /\ e.shares \in Nat \ {0}
         /\ loop = "match" => e.ref /= taker.id
<1>1. e.ref \in Ids /\ e.shares \in Nat \ {0} /\ e.shares = orders[e.ref].resting
  BY DEF IInv, Agrees, AgreesWith, Owned, Shown
<1>2. orders[e.ref].inBook /\ SoundRecord(orders[e.ref], InFlight(e.ref))
  BY <1>1, OrderFacts
<1>3. loop = "match" => e.ref /= taker.id
  BY <1>2 DEF IInv, TakerOK
<1>4. InFlight(e.ref) = 0
  BY <1>3 DEF InFlight
<1> QED
  BY <1>1, <1>2, <1>3, <1>4 DEF SoundRecord

LEMMA TakerFacts ==
  ASSUME IInv, loop = "match"
  PROVE  /\ taker.id \in Ids /\ taker.remaining \in Nat
         /\ SoundRecord(orders[taker.id], taker.remaining)
         /\ orders[taker.id].state \in {"New", "Accepted"}
         /\ orders[taker.id].entered /\ ~orders[taker.id].inBook
         /\ orders[taker.id].resting = 0
<1>1. /\ taker.id \in Ids /\ taker.remaining \in Nat
      /\ orders[taker.id].state \in {"New", "Accepted"}
      /\ orders[taker.id].entered /\ ~orders[taker.id].inBook
  BY DEF IInv, TakerOK
<1>2. InFlight(taker.id) = taker.remaining
  BY DEF InFlight
<1> QED
  BY <1>1, <1>2, OrderFacts

\* An order that holds shares has entered.
LEMMA InBookEntered ==
  ASSUME NEW m, SoundRecord(m, 0), m.inBook
  PROVE  m.entered
<1> SUFFICES ASSUME ~m.entered PROVE FALSE
  OBVIOUS
<1> DEFINE a == m.filled
           b == m.cancelled
           c == m.resting
           d == m.hidden
<1>1. m \in Meta /\ c > 0 /\ a + b + c + d + 0 = 0
  BY DEF SoundRecord
<1>2. a \in Nat /\ b \in Nat /\ c \in Nat /\ d \in Nat
  BY <1>1, MetaFields
<1> HIDE DEF a, b, c, d
<1> QED
  BY <1>1, <1>2, SumZero

LEMMA EnteringFacts ==
  ASSUME NEW req \in Requests, NEW q \in Nat
  PROVE  /\ LET r == [Unknown(req) EXCEPT !.state = "Rejected"]
            IN  SoundRecord(r, 0) /\ r.state = "Rejected" /\ r.resting = 0 /\ ~r.entered
         /\ LET m == [Unknown(req) EXCEPT !.state = "New", !.sequence = q]
            IN  SoundRecord(m, 0) /\ m.state = "New" /\ m.resting = 0 /\ ~m.entered
<1> DEFINE u == Unknown(req)
           r == [u EXCEPT !.state = "Rejected"]
           m == [u EXCEPT !.state = "New", !.sequence = q]
<1>1. /\ u \in Meta /\ 0 \in Nat /\ TRUE \in BOOLEAN
      /\ "Rejected" \in States /\ "New" \in States
  BY UnknownFacts DEF States
<1>2. /\ u.filled = 0 /\ u.cancelled = 0 /\ u.resting = 0 /\ u.hidden = 0
      /\ u.inBook = FALSE /\ u.entered = FALSE
  BY UnknownFacts
<1> HIDE DEF u
<1>3. r \in Meta /\ m \in Meta
  BY <1>1, MetaUpdates, Zenon
<1>4. /\ r.filled = 0 /\ r.cancelled = 0 /\ r.resting = 0 /\ r.hidden = 0
      /\ r.inBook = FALSE /\ r.entered = FALSE /\ r.state = "Rejected"
  BY <1>1, <1>2 DEF Meta
<1>5. /\ m.filled = 0 /\ m.cancelled = 0 /\ m.resting = 0 /\ m.hidden = 0
      /\ m.inBook = FALSE /\ m.entered = FALSE /\ m.state = "New"
  BY <1>1, <1>2 DEF Meta
<1> HIDE DEF r, m
<1>6. SoundRecord(r, 0) /\ r.state = "Rejected" /\ r.resting = 0 /\ ~r.entered
  BY <1>3, <1>4 DEF SoundRecord
<1>7. SoundRecord(m, 0) /\ m.state = "New" /\ m.resting = 0 /\ ~m.entered
  BY <1>3, <1>5 DEF SoundRecord
<1> QED
  BY <1>6, <1>7 DEF r, m, u

LEMMA RunRecords ==
  ASSUME NEW m, SoundRecord(m, 0), ~m.entered, m.state \in {"New", "Accepted"}
  PROVE  /\ m.resting = 0 /\ ~m.inBook /\ m.req.quantity \in Nat
         /\ LET r == [m EXCEPT !.state = Refusal(m)]
            IN  /\ SoundRecord(r, 0) /\ r.resting = 0
                /\ r.state = IF m.state = "New" THEN "Rejected" ELSE "Cancelled"
         /\ LET e == [m EXCEPT !.entered = TRUE]
            IN  /\ SoundRecord(e, m.req.quantity) /\ e.state = m.state /\ e.entered
                /\ ~e.inBook /\ e.resting = 0
         /\ LET p == [m EXCEPT !.state = "Accepted"]
            IN  /\ SoundRecord(p, 0) /\ p.state = "Accepted" /\ ~p.entered /\ p.resting = 0
<1> DEFINE t == Refusal(m)
           r == [m EXCEPT !.state = t]
           e == [m EXCEPT !.entered = TRUE]
           p == [m EXCEPT !.state = "Accepted"]
<1>1. /\ m \in Meta /\ 0 \in Nat /\ TRUE \in BOOLEAN /\ "Accepted" \in States
      /\ m.filled \in Nat /\ m.cancelled \in Nat /\ m.resting \in Nat /\ m.hidden \in Nat
      /\ m.req.quantity \in Nat /\ m.resting = 0 /\ m.hidden = 0 /\ m.filled = 0
      /\ m.cancelled = 0 /\ ~m.inBook
  <2>1. /\ m \in Meta /\ 0 \in Nat /\ TRUE \in BOOLEAN /\ "Accepted" \in States
        /\ m.filled \in Nat /\ m.cancelled \in Nat /\ m.resting \in Nat /\ m.hidden \in Nat
        /\ m.req.quantity \in Nat
    <3>1. m \in Meta
      BY DEF SoundRecord
    <3>2. "Accepted" \in States
      BY DEF States
    <3>3. /\ m.filled \in Nat /\ m.cancelled \in Nat /\ m.resting \in Nat /\ m.hidden \in Nat
          /\ m.req.quantity \in Nat
      BY <3>1, MetaFields
    <3> QED
      BY <3>1, <3>2, <3>3
  <2>2. m.filled + m.cancelled + m.resting + m.hidden + 0 = 0
    BY DEF SoundRecord
  <2>3. m.resting = 0 /\ m.hidden = 0 /\ m.filled = 0 /\ m.cancelled = 0
    <3> DEFINE a == m.filled
               b == m.cancelled
               c == m.resting
               d == m.hidden
    <3>1. a \in Nat /\ b \in Nat /\ c \in Nat /\ d \in Nat /\ a + b + c + d + 0 = 0
      BY <2>1, <2>2
    <3> HIDE DEF a, b, c, d
    <3>2. a = 0 /\ b = 0 /\ c = 0 /\ d = 0
      BY <3>1, SumZero
    <3> QED
      BY <3>2 DEF a, b, c, d
  <2>4. ~m.inBook
    BY <2>3 DEF SoundRecord
  <2> QED
    BY <2>1, <2>3, <2>4
<1>2. t = (IF m.state = "New" THEN "Rejected" ELSE "Cancelled") /\ t \in States
  BY DEF Refusal, States
<1> HIDE DEF t
<1>3. r \in Meta /\ e \in Meta /\ p \in Meta
  BY <1>1, <1>2, MetaUpdates, Zenon
<1>4. /\ r.filled = m.filled /\ r.cancelled = m.cancelled /\ r.resting = m.resting
      /\ r.hidden = m.hidden /\ r.inBook = m.inBook /\ r.entered = m.entered /\ r.req = m.req
      /\ r.state = t
  BY <1>1 DEF Meta
<1>5. /\ e.filled = m.filled /\ e.cancelled = m.cancelled /\ e.resting = m.resting
      /\ e.hidden = m.hidden /\ e.inBook = m.inBook /\ e.entered = TRUE /\ e.req = m.req
      /\ e.state = m.state
  BY <1>1 DEF Meta
<1>6. /\ p.filled = m.filled /\ p.cancelled = m.cancelled /\ p.resting = m.resting
      /\ p.hidden = m.hidden /\ p.inBook = m.inBook /\ p.entered = m.entered /\ p.req = m.req
      /\ p.state = "Accepted"
  BY <1>1 DEF Meta
<1> HIDE DEF r, e, p
<1>7. SoundRecord(r, 0) /\ r.resting = 0 /\ r.state = t
  BY <1>1, <1>2, <1>3, <1>4 DEF SoundRecord
<1>8. /\ SoundRecord(e, m.req.quantity) /\ e.state = m.state /\ e.entered
      /\ ~e.inBook /\ e.resting = 0
  BY <1>1, <1>3, <1>5 DEF SoundRecord
<1>9. SoundRecord(p, 0) /\ p.state = "Accepted" /\ ~p.entered /\ p.resting = 0
  BY <1>1, <1>3, <1>6 DEF SoundRecord
<1> QED
  BY <1>1, <1>2, <1>7, <1>8, <1>9 DEF r, e, p, t

LEMMA InitInv == ASSUME Init PROVE IInv
<1> DEFINE req == CHOOSE r \in Markets[market].requests : TRUE
<1>1. market \in DOMAIN Markets /\ req \in Markets[market].requests
  BY MarketAssumption DEF Init
<1>2. req \in Requests
  BY <1>1, RequestFacts
<1>3. orders = [id \in Ids |-> Unknown(req)]
  BY DEF Init
<1> HIDE DEF req
<1>4. /\ Unknown(req) \in Meta /\ Unknown(req).filled = 0 /\ Unknown(req).cancelled = 0
      /\ Unknown(req).resting = 0 /\ Unknown(req).hidden = 0
      /\ Unknown(req).inBook = FALSE /\ Unknown(req).entered = FALSE
  BY <1>2, UnknownFacts
<1>5. SoundRecord(Unknown(req), 0)
  BY <1>4 DEF SoundRecord
<1>6. \A id \in Ids : orders[id] = Unknown(req) /\ InFlight(id) = 0
  BY <1>3 DEF InFlight, Init
<1>7. SoundOrders
  BY <1>5, <1>6 DEF SoundOrders
<1>8. Agrees
  <2>1. Shown = [id \in Ids |-> 0]
    BY <1>4, <1>6 DEF Shown
  <2> QED
    BY <2>1 DEF Agrees, AgreesWith, Init
<1>9. StopsParked(parked, orders)
  BY EmptySeq DEF StopsParked, Init
<1> QED
  BY <1>1, <1>3, <1>7, <1>8, <1>9 DEF IInv, TakerOK, Init

\* run() up to match(), for an order that is not in yet.
LEMMA RunKeeps ==
  ASSUME IInv, loop \in {"idle", "stops"}, NEW id \in Ids, NEW m, NEW type,
         SoundRecord(m, 0), ~m.entered,
         \/ orders[id].state = "Unknown" /\ m.state = "New"
         \/ orders[id].state = "Accepted" /\ m.state = "Accepted",
         orders[id].resting = 0,
         StopsParked(parked', orders),
         \A i \in 1..Len(parked') : parked'[i] /= id,
         Run(id, m, type), seq' \in Nat, UNCHANGED <<market, book, historical>>
  PROVE  IInv' /\ LegalStep
<1>1. /\ m.resting = 0 /\ ~m.inBook /\ m.req.quantity \in Nat
      /\ m.state \in {"New", "Accepted"}
  BY RunRecords
<1>2. orders = [j \in Ids |-> orders[j]] /\ taker = NoTaker
  BY DEF IInv, TakerOK
<1>3. \A j \in Ids : SoundRecord(orders[j], 0)
  BY <1>2, IdFacts, OrderFacts DEF InFlight
<1>4. CASE Refused(m.req, type)
  <2> DEFINE r == [m EXCEPT !.state = Refusal(m)]
  <2>1. orders' = [orders EXCEPT ![id] = r] /\ UNCHANGED <<totals, taker, loop>>
    BY <1>4 DEF Run
  <2>2. /\ SoundRecord(r, 0) /\ r.resting = 0
        /\ r.state = IF m.state = "New" THEN "Rejected" ELSE "Cancelled"
    BY <1>1, RunRecords
  <2> HIDE DEF r
  <2>3. SoundOrders'
    BY <1>2, <1>3, <2>1, <2>2 DEF SoundOrders, InFlight
  <2>4. Shown' = Shown
    BY <1>2, <2>1, <2>2 DEF Shown
  <2>5. StopsParked(parked', orders')
    BY <1>2, <2>1, ParkedFrame, \A i \in 1..Len(parked') : parked'[i] \in Ids DEF StopsParked
  <2>6. LegalStep
    BY <1>1, <1>2, <2>1, <2>2 DEF LegalStep, Legal, States
  <2> QED
    BY <1>2, <2>1, <2>3, <2>4, <2>5, <2>6 DEF IInv, Agrees, TakerOK
<1>5. CASE ~Refused(m.req, type)
  <2> DEFINE r == [m EXCEPT !.entered = TRUE]
  <2>1. /\ orders' = [orders EXCEPT ![id] = r]
        /\ taker' = [id |-> id, type |-> type, remaining |-> m.req.quantity]
        /\ loop' = "match"
    BY <1>5 DEF Run
  <2>2. /\ SoundRecord(r, m.req.quantity) /\ r.resting = 0
        /\ r.state = m.state /\ r.entered /\ ~r.inBook
    BY <1>1, RunRecords
  <2> HIDE DEF r
  <2>3. SoundOrders'
    BY <1>2, <1>3, <2>1, <2>2 DEF SoundOrders, InFlight
  <2>4. Shown' = Shown
    BY <1>2, <2>1, <2>2 DEF Shown
  <2>5. StopsParked(parked', orders')
    BY <1>2, <2>1, ParkedFrame, \A i \in 1..Len(parked') : parked'[i] \in Ids DEF StopsParked
  <2>6. LegalStep
    BY <1>1, <1>2, <2>1, <2>2 DEF LegalStep, Legal, States
  <2>7. TakerOK'
    BY <1>1, <1>2, <2>1, <2>2 DEF TakerOK
  <2> QED
    BY <1>2, <2>1, <2>3, <2>4, <2>5, <2>6, <2>7 DEF IInv, Agrees
<1> QED
  BY <1>4, <1>5

LEMMA SubmitInvalidKeeps == ASSUME IInv, SubmitInvalid PROVE IInv' /\ LegalStep
<1>1. PICK id \in 1..Markets[market].orders, req \in Markets[market].requests :
        /\ Fresh(id)
        /\ orders' = [orders EXCEPT ![id] = [Unknown(req) EXCEPT !.state = "Rejected"]]
  BY DEF SubmitInvalid
<1> DEFINE r == [Unknown(req) EXCEPT !.state = "Rejected"]
<1>2. /\ id \in Ids /\ req \in Requests /\ orders[id].state = "Unknown"
      /\ orders = [j \in Ids |-> orders[j]] /\ taker = NoTaker
      /\ UNCHANGED <<market, book, parked, seq, taker, loop, historical>> /\ loop = "idle"
  <2>1. market \in DOMAIN Markets
    BY DEF IInv
  <2>2. id \in Ids
    BY <2>1, MarketAssumption DEF Ids
  <2> QED
    BY <1>1, <2>1, <2>2, RequestFacts DEF Fresh, Known, IInv, TakerOK, SubmitInvalid
<1>3. SoundRecord(r, 0) /\ r.state = "Rejected" /\ r.resting = 0 /\ ~r.entered
  BY <1>2, EnteringFacts
<1>4. orders' = [orders EXCEPT ![id] = r]
  BY <1>1
<1> HIDE DEF r
<1>5. orders[id].resting = 0
  BY <1>2, OrderFacts DEF SoundRecord, Live
<1>6. SoundOrders'
  BY <1>2, <1>3, <1>4, IdFacts, OrderFacts DEF SoundOrders, InFlight
<1>7. Shown' = Shown
  BY <1>2, <1>3, <1>4, <1>5 DEF Shown
<1>8. StopsParked(parked', orders')
  <2>1. \A i \in 1..Len(parked) : parked[i] \in Ids /\ parked[i] /= id
    BY <1>2 DEF IInv, StopsParked
  <2> QED
    BY <1>2, <1>4, <2>1, ParkedFrame DEF IInv
<1>9. LegalStep
  BY <1>2, <1>3, <1>4 DEF LegalStep, Legal, States
<1> QED
  BY <1>2, <1>4, <1>6, <1>7, <1>8, <1>9 DEF IInv, Agrees, TakerOK

LEMMA SubmitKeeps == ASSUME IInv, Submit PROVE IInv' /\ LegalStep
<1>1. PICK id \in 1..Markets[market].orders, req \in Markets[market].requests :
        /\ Fresh(id)
        /\ seq' = seq + 1
        /\ LET m == [Unknown(req) EXCEPT !.state = "New", !.sequence = seq']
           IN  IF IsStop(req.type) /\ ~Elected(req)
                 THEN /\ orders' = [orders EXCEPT ![id] = [m EXCEPT !.state = "Accepted"]]
                      /\ parked' = Append(parked, id)
                      /\ UNCHANGED <<totals, taker, loop>>
                 ELSE /\ Run(id, m, Effective(req.type))
                      /\ UNCHANGED parked
  BY DEF Submit
<1> DEFINE m == [Unknown(req) EXCEPT !.state = "New", !.sequence = seq']
<1>2. /\ id \in Ids /\ req \in Requests /\ orders[id].state = "Unknown"
      /\ orders = [j \in Ids |-> orders[j]] /\ taker = NoTaker
      /\ UNCHANGED <<market, book, historical>> /\ loop = "idle" /\ seq' \in Nat
      /\ StopsParked(parked, orders)
  <2>1. market \in DOMAIN Markets
    BY DEF IInv
  <2>2. id \in Ids
    BY <2>1, MarketAssumption DEF Ids
  <2> QED
    BY <1>1, <2>1, <2>2, RequestFacts DEF Fresh, Known, IInv, TakerOK, Submit
<1>3. SoundRecord(m, 0) /\ m.state = "New" /\ m.resting = 0 /\ ~m.entered
  BY <1>2, EnteringFacts
<1>4. orders[id].resting = 0
  BY <1>2, OrderFacts DEF SoundRecord, Live
<1>5. \A i \in 1..Len(parked) : parked[i] \in Ids /\ parked[i] /= id
  BY <1>2 DEF StopsParked
<1>6. CASE IsStop(req.type) /\ ~Elected(req)
  <2> DEFINE r == [m EXCEPT !.state = "Accepted"]
  <2>1. /\ orders' = [orders EXCEPT ![id] = r] /\ parked' = Append(parked, id)
        /\ UNCHANGED <<taker, loop>>
    BY <1>1, <1>6
  <2>2. SoundRecord(r, 0) /\ r.state = "Accepted" /\ ~r.entered /\ r.resting = 0
    BY <1>3, RunRecords
  <2> HIDE DEF r, m
  <2>3. SoundOrders'
    BY <1>2, <2>1, <2>2, IdFacts, OrderFacts DEF SoundOrders, InFlight
  <2>4. Shown' = Shown
    BY <1>2, <1>4, <2>1, <2>2 DEF Shown
  <2>5. StopsParked(parked, orders')
    BY <1>2, <1>5, <2>1, ParkedFrame
  <2>6. StopsParked(parked', orders')
    BY <1>2, <1>5, <2>1, <2>2, <2>5, AppendedFacts
  <2>7. LegalStep
    BY <1>2, <2>1, <2>2 DEF LegalStep, Legal, States
  <2> QED
    BY <1>2, <2>1, <2>3, <2>4, <2>6, <2>7 DEF IInv, Agrees, TakerOK
<1>7. CASE ~(IsStop(req.type) /\ ~Elected(req))
  <2>1. Run(id, m, Effective(req.type)) /\ parked' = parked
    BY <1>1, <1>7
  <2> HIDE DEF m
  <2> QED
    BY <1>2, <1>3, <1>4, <1>5, <2>1, RunKeeps
<1> QED
  BY <1>6, <1>7

LEMMA FireStopKeeps == ASSUME IInv, FireStop PROVE IInv' /\ LegalStep
<1>1. PICK i \in 1..Len(parked) :
        /\ parked' = Unparked(i)
        /\ seq' = seq + 1
        /\ Run(parked[i], [orders[parked[i]] EXCEPT !.sequence = seq'],
               Effective(orders[parked[i]].req.type))
  BY DEF FireStop
<1> DEFINE id == parked[i]
           o == orders[id]
           m == [o EXCEPT !.sequence = seq']
<1>2. /\ id \in Ids /\ o.state = "Accepted" /\ ~o.entered
      /\ UNCHANGED <<market, book, historical>> /\ loop = "stops" /\ seq' \in Nat
      /\ StopsParked(parked, orders)
  BY <1>1 DEF IInv, StopsParked, FireStop
<1>3. SoundRecord(o, 0) /\ o \in Meta
  <2>1. InFlight(id) = 0
    BY <1>2 DEF InFlight
  <2> QED
    BY <1>2, <2>1, OrderFacts DEF SoundRecord
<1>4. o.resting = 0
  BY <1>2, <1>3, RunRecords
<1> HIDE DEF o
<1>5. m \in Meta
  <2> DEFINE q == seq'
  <2>1. o \in Meta /\ q \in Nat /\ TRUE \in BOOLEAN /\ "New" \in States
    BY <1>2, <1>3 DEF States
  <2> HIDE DEF q
  <2>2. [o EXCEPT !.sequence = q] \in Meta
    BY <2>1, MetaUpdates, Zenon
  <2> QED
    BY <2>2 DEF q
<1>6. /\ m.filled = o.filled /\ m.cancelled = o.cancelled /\ m.resting = o.resting
      /\ m.hidden = o.hidden /\ m.inBook = o.inBook /\ m.entered = o.entered
      /\ m.req = o.req /\ m.state = o.state
  BY <1>3 DEF Meta
<1>7. Run(id, m, Effective(o.req.type))
  BY <1>1 DEF o
<1> HIDE DEF m
<1>8. SoundRecord(m, 0) /\ m.state = "Accepted" /\ ~m.entered
  BY <1>2, <1>3, <1>5, <1>6 DEF SoundRecord
<1>9. StopsParked(parked', orders) /\ \A j \in 1..Len(parked') : parked'[j] /= id
  BY <1>1, <1>2, UnparkedFacts DEF Unparked
<1> QED
  BY <1>2, <1>4, <1>7, <1>8, <1>9, RunKeeps DEF o

\* Cancelling an order that is not in match().
LEMMA CancelKeeps ==
  ASSUME IInv, NEW id \in Ids, orders[id].state \in {"Accepted", "PartiallyFilled", "New"},
         SoundRecord(orders[id], 0), loop = "match" => id /= taker.id,
         CancelMeta(id), orders' = [orders EXCEPT ![id] = WithCancelled(@)],
         UNCHANGED <<market, seq, taker, loop, historical>>
  PROVE  IInv' /\ LegalStep
<1> DEFINE r == WithCancelled(orders[id])
<1>1. SoundRecord(r, 0) /\ ~r.inBook /\ r.state = "Cancelled" /\ r.resting = 0
  BY WithCancelledFacts
<1>2. orders' = [orders EXCEPT ![id] = r] /\ orders = [j \in Ids |-> orders[j]]
  BY DEF IInv
<1> HIDE DEF r
<1>3. SoundOrders'
  BY <1>1, <1>2, OrderFacts DEF SoundOrders, InFlight
<1>4. Shown' = [Shown EXCEPT ![id] = 0]
  BY <1>1, <1>2 DEF Shown
<1>5. Agrees'
  <2>1. Shown \in [Ids -> Nat] /\ AgreesWith(book, Shown, historical) /\ historical \in Nat
    BY OrderFacts DEF IInv, Agrees
  <2>2. book' = Removed(book, id)
    BY DEF CancelMeta
  <2> QED
    BY <1>4, <2>1, <2>2, RemovedAgrees DEF Agrees
<1>6. StopsParked(parked', orders')
  <2>1. /\ StopsParked(parked', orders)
        /\ \A j \in 1..Len(parked') : parked'[j] /= id
    BY RemoveFirstFacts DEF CancelMeta, IInv
  <2>2. \A j \in 1..Len(parked') : parked'[j] \in Ids
    BY <2>1 DEF StopsParked
  <2> QED
    BY <1>2, <2>1, <2>2, ParkedFrame
<1>7. LegalStep
  BY <1>1, <1>2 DEF LegalStep, Legal, States
<1>8. TakerOK'
  BY <1>2 DEF IInv, TakerOK
<1> QED
  BY <1>2, <1>3, <1>5, <1>6, <1>7, <1>8 DEF IInv

LEMMA CancelActionKeeps == ASSUME IInv, Cancel PROVE IInv' /\ LegalStep
<1>1. PICK id \in Ids :
        /\ Known(id) /\ ~Terminal(id)
        /\ CancelMeta(id)
        /\ orders' = [orders EXCEPT ![id] = WithCancelled(@)]
  BY DEF Cancel
<1>2. loop = "idle" /\ InFlight(id) = 0 /\ UNCHANGED <<market, seq, taker, loop, historical>>
  BY DEF Cancel, InFlight
<1>3. /\ SoundRecord(orders[id], 0)
      /\ orders[id].state \in {"Accepted", "PartiallyFilled", "New"}
  BY <1>1, <1>2, OrderFacts DEF Known, Terminal, States
<1> QED
  BY <1>1, <1>2, <1>3, CancelKeeps

\* The maker's side of a fill, for a taker of this engine and for the feed.
LEMMA FilledFacts ==
  ASSUME IInv, NEW e \in book, Owned(e), NEW qty \in 1..e.shares
  PROVE  LET r == MakerFilled(orders[e.ref], qty)
         IN  /\ SoundRecord(r, 0) /\ r.state \in {"PartiallyFilled", "Filled"}
             /\ AgreesWith(BookFilled(e, orders[e.ref], qty),
                           [Shown EXCEPT ![e.ref] = r.resting], historical)
             /\ SequenceAfter(orders[e.ref], qty) \in Nat
<1> DEFINE m == orders[e.ref]
           r == MakerFilled(m, qty)
<1>1. /\ e.ref \in Ids /\ SoundRecord(m, 0) /\ m.inBook /\ m.resting = e.shares
      /\ e.shares \in Nat \ {0}
  BY MakerFacts
<1>2. /\ SoundRecord(r, 0) /\ r.state \in Live \union {"Filled"}
      /\ r.resting = IF Refreshes(m, qty) THEN Slice(m) ELSE m.resting - qty
  BY <1>1, MakerFilledFacts DEF IInv
<1>3. r.state \in {"PartiallyFilled", "Filled"}
  <2>1. m \in Meta
    BY <1>1 DEF SoundRecord
  <2> QED
    BY <2>1 DEF MakerFilled, Meta
<1>4. /\ Shown \in [Ids -> Nat] /\ AgreesWith(book, Shown, historical) /\ historical \in Nat
      /\ seq \in Nat
  BY <1>1, OrderFacts DEF IInv, Agrees
<1> HIDE DEF m, r
<1>5. AgreesWith(Reduced(book, e, qty), [Shown EXCEPT ![e.ref] = e.shares - qty], historical)
  BY <1>4, ReducedAgrees
<1>6. CASE Refreshes(m, qty)
  <2> DEFINE shown == [Shown EXCEPT ![e.ref] = 0]
  <2>1. qty = e.shares /\ m.hidden > 0
    BY <1>1, <1>6 DEF Refreshes
  <2>2. Slice(m) \in Nat \ {0}
    <3>1. m \in Meta
      BY <1>1 DEF SoundRecord
    <3> QED
      BY <1>1, <2>1, <3>1, SliceFacts, MetaFields
  <2>3. e.shares - qty = 0
    BY <1>1, <2>1
  <2>4. AgreesWith(Reduced(book, e, qty), shown, historical)
    BY <1>5, <2>3
  <2>5. shown \in [Ids -> Nat] /\ shown[e.ref] = 0
    BY <1>1, <1>4
  <2>6. [shown EXCEPT ![e.ref] = Slice(m)] = [Shown EXCEPT ![e.ref] = Slice(m)]
    BY <1>4
  <2> HIDE DEF shown
  <2>7. AgreesWith(Added(Reduced(book, e, qty), e.ref, e.side, e.price, Slice(m)),
                   [shown EXCEPT ![e.ref] = Slice(m)], historical)
    BY <1>1, <1>4, <2>2, <2>4, <2>5, AddedAgrees
  <2> QED
    BY <1>2, <1>3, <1>4, <1>6, <2>6, <2>7 DEF BookFilled, SequenceAfter, m, r
<1>7. CASE ~Refreshes(m, qty)
  BY <1>1, <1>2, <1>3, <1>4, <1>5, <1>7 DEF BookFilled, SequenceAfter, m, r
<1> QED
  BY <1>6, <1>7

LEMMA TradeKeeps == ASSUME IInv, Trade PROVE IInv' /\ LegalStep
<1>1. PICK e \in book :
        /\ Meets(e) /\ Owned(e) /\ ~SelfTrade(e)
        /\ LET m == orders[e.ref]
               qty == LeastOf(taker.remaining, e.shares)
           IN  /\ orders' = [orders EXCEPT ![e.ref] = MakerFilled(m, qty),
                                           ![taker.id].filled = @ + qty]
               /\ book' = BookFilled(e, m, qty)
               /\ seq' = SequenceAfter(m, qty)
               /\ taker' = [taker EXCEPT !.remaining = @ - qty]
  BY DEF Trade
<1> DEFINE qty == LeastOf(taker.remaining, e.shares)
           r == MakerFilled(orders[e.ref], qty)
           t == [orders[taker.id] EXCEPT !.filled = @ + qty]
<1>2. loop = "match" /\ taker.remaining > 0 /\ UNCHANGED <<market, parked, loop, historical>>
  BY <1>1 DEF Meets, Trade
<1>3. /\ e.ref \in Ids /\ e.shares \in Nat \ {0} /\ e.ref /= taker.id
      /\ orders[e.ref].state \in Live /\ orders[e.ref].inBook /\ SoundRecord(orders[e.ref], 0)
      /\ orders[e.ref].entered
  <2>1. /\ e.ref \in Ids /\ e.shares \in Nat \ {0} /\ e.ref /= taker.id
        /\ orders[e.ref].state \in Live /\ orders[e.ref].inBook /\ SoundRecord(orders[e.ref], 0)
    BY <1>1, <1>2, MakerFacts
  <2>3. orders[e.ref].entered
    BY <2>1, InBookEntered
  <2> QED
    BY <2>1, <2>3
<1>4. /\ taker.id \in Ids /\ taker.remaining \in Nat
      /\ SoundRecord(orders[taker.id], taker.remaining) /\ orders[taker.id].entered
      /\ orders[taker.id].state \in {"New", "Accepted"} /\ ~orders[taker.id].inBook
      /\ orders[taker.id].resting = 0
  BY <1>2, TakerFacts
<1>5. qty \in 1..e.shares /\ qty \in 0..taker.remaining
  BY <1>2, <1>3, <1>4 DEF LeastOf
<1>6. orders = [j \in Ids |-> orders[j]]
  BY DEF IInv
<1>7. orders' = [[orders EXCEPT ![e.ref] = r] EXCEPT ![taker.id] = t]
  BY <1>1, <1>3, <1>4, <1>6
<1>8. /\ SoundRecord(r, 0) /\ r.state \in {"PartiallyFilled", "Filled"}
      /\ AgreesWith(book', [Shown EXCEPT ![e.ref] = r.resting], historical)
      /\ seq' \in Nat
  BY <1>1, <1>5, FilledFacts
<1>9. /\ SoundRecord(t, taker.remaining - qty) /\ t.state = orders[taker.id].state
      /\ t.entered /\ t.inBook = orders[taker.id].inBook /\ t.resting = orders[taker.id].resting
  BY <1>4, <1>5, TakerFilledFacts
<1>10. taker' = [id |-> taker.id, type |-> taker.type, remaining |-> taker.remaining - qty]
  BY <1>1, <1>2 DEF IInv, TakerOK
<1> HIDE DEF qty, r, t
<1>11. SoundOrders'
  BY <1>2, <1>3, <1>4, <1>6, <1>7, <1>8, <1>9, <1>10, OrderFacts DEF SoundOrders, InFlight
<1>12. Shown' = [Shown EXCEPT ![e.ref] = r.resting]
  BY <1>3, <1>4, <1>6, <1>7, <1>9 DEF Shown
<1>13. StopsParked(parked', orders')
  <2>1. StopsParked(parked, orders)
    BY DEF IInv
  <2>2. \A i \in 1..Len(parked) : parked[i] \in Ids /\ parked[i] /= e.ref /\ parked[i] /= taker.id
    BY <1>3, <1>4, <2>1 DEF StopsParked
  <2> QED
    BY <1>2, <1>6, <1>7, <2>1, <2>2, ParkedFrame
<1>14. LegalStep
  BY <1>3, <1>4, <1>6, <1>7, <1>8, <1>9 DEF LegalStep, Legal, Live
<1>15. TakerOK'
  BY <1>2, <1>3, <1>4, <1>5, <1>6, <1>7, <1>9, <1>10 DEF TakerOK
<1> QED
  BY <1>2, <1>6, <1>7, <1>8, <1>11, <1>12, <1>13, <1>14, <1>15 DEF IInv, Agrees

LEMMA TradeExternalKeeps == ASSUME IInv, TradeExternal PROVE IInv' /\ LegalStep
<1>1. PICK e \in book :
        /\ Meets(e) /\ ~Owned(e)
        /\ LET qty == LeastOf(taker.remaining, e.shares)
           IN  /\ orders' = [orders EXCEPT ![taker.id].filled = @ + qty]
               /\ book' = Reduced(book, e, qty)
               /\ taker' = [taker EXCEPT !.remaining = @ - qty]
  BY DEF TradeExternal
<1> DEFINE qty == LeastOf(taker.remaining, e.shares)
           t == [orders[taker.id] EXCEPT !.filled = @ + qty]
<1>2. loop = "match" /\ taker.remaining > 0 /\ UNCHANGED <<market, parked, seq, loop, historical>>
  BY <1>1 DEF Meets, TradeExternal
<1>3. /\ taker.id \in Ids /\ taker.remaining \in Nat
      /\ SoundRecord(orders[taker.id], taker.remaining) /\ orders[taker.id].entered
      /\ orders[taker.id].state \in {"New", "Accepted"} /\ ~orders[taker.id].inBook
      /\ orders[taker.id].resting = 0
  BY <1>2, TakerFacts
<1>4. e.shares \in Nat \ {0} /\ Shown \in [Ids -> Nat] /\ historical \in Nat
      /\ AgreesWith(book, Shown, historical) /\ orders = [j \in Ids |-> orders[j]]
  BY <1>3, OrderFacts DEF IInv, Agrees, AgreesWith
<1>5. qty \in 1..e.shares /\ qty \in 0..taker.remaining
  BY <1>2, <1>3, <1>4 DEF LeastOf
<1>6. orders' = [orders EXCEPT ![taker.id] = t]
  BY <1>1, <1>4
<1>7. /\ SoundRecord(t, taker.remaining - qty) /\ t.state = orders[taker.id].state
      /\ t.entered /\ t.inBook = orders[taker.id].inBook /\ t.resting = orders[taker.id].resting
  BY <1>3, <1>5, TakerFilledFacts
<1>8. taker' = [id |-> taker.id, type |-> taker.type, remaining |-> taker.remaining - qty]
  BY <1>1, <1>2 DEF IInv, TakerOK
<1>9. book' = Reduced(book, e, qty)
  BY <1>1
<1> HIDE DEF qty, t
<1>10. SoundOrders'
  BY <1>2, <1>3, <1>4, <1>6, <1>7, <1>8, OrderFacts DEF SoundOrders, InFlight
<1>11. Agrees'
  <2>1. Shown' = Shown
    BY <1>3, <1>4, <1>6, <1>7 DEF Shown
  <2>2. AgreesWith(Reduced(book, e, qty), Shown, historical)
    BY <1>1, <1>4, <1>5, ReducedExternalAgrees
  <2> QED BY <1>2, <1>9, <2>1, <2>2 DEF Agrees
<1>12. StopsParked(parked', orders')
  <2>1. StopsParked(parked, orders)
    BY DEF IInv
  <2>2. \A i \in 1..Len(parked) : parked[i] \in Ids /\ parked[i] /= taker.id
    BY <1>3, <2>1 DEF StopsParked
  <2> QED
    BY <1>2, <1>4, <1>6, <2>1, <2>2, ParkedFrame
<1>13. LegalStep
  BY <1>3, <1>4, <1>6, <1>7 DEF LegalStep, Legal
<1>14. TakerOK'
  BY <1>2, <1>3, <1>4, <1>5, <1>6, <1>7, <1>8 DEF TakerOK
<1> QED
  BY <1>2, <1>4, <1>6, <1>10, <1>11, <1>12, <1>13, <1>14 DEF IInv

\* match() is over and the taker's record is r.
LEMMA SettleKeeps ==
  ASSUME IInv, loop = "match", NEW r, SoundRecord(r, 0),
         Legal(orders[taker.id].state, r.state),
         orders' = [orders EXCEPT ![taker.id] = r], taker' = NoTaker, loop' = "stops",
         AgreesWith(book', [Shown EXCEPT ![taker.id] = r.resting], historical),
         UNCHANGED <<market, parked, seq, historical>>
  PROVE  IInv' /\ LegalStep
<1>1. taker.id \in Ids /\ orders[taker.id].entered /\ orders = [j \in Ids |-> orders[j]]
  BY TakerFacts DEF IInv
<1>2. SoundOrders'
  BY <1>1, IdFacts, OrderFacts DEF SoundOrders, InFlight, NoTaker
<1>3. Shown' = [Shown EXCEPT ![taker.id] = r.resting]
  BY <1>1 DEF Shown
<1>4. StopsParked(parked', orders')
  <2>1. StopsParked(parked, orders)
    BY DEF IInv
  <2>2. \A i \in 1..Len(parked) : parked[i] \in Ids /\ parked[i] /= taker.id
    BY <1>1, <2>1 DEF StopsParked
  <2> QED
    BY <1>1, <2>1, <2>2, ParkedFrame
<1>5. LegalStep
  BY <1>1 DEF LegalStep, Legal
<1> QED
  BY <1>1, <1>2, <1>3, <1>4, <1>5 DEF IInv, Agrees, TakerOK

LEMMA EndCancelledKeeps ==
  ASSUME IInv, loop = "match", Settle(RemainderCancelled, taker.remaining),
         UNCHANGED <<market, book, parked, seq, historical>>
  PROVE  IInv' /\ LegalStep
<1> DEFINE r == [orders[taker.id] EXCEPT !.cancelled = @ + taker.remaining,
                                         !.state = "Cancelled"]
<1>1. /\ taker.id \in Ids /\ taker.remaining \in Nat
      /\ SoundRecord(orders[taker.id], taker.remaining) /\ orders[taker.id].entered
      /\ orders[taker.id].state \in {"New", "Accepted"} /\ ~orders[taker.id].inBook
      /\ orders[taker.id].resting = 0
  BY TakerFacts
<1>2. SoundRecord(r, 0) /\ r.state = "Cancelled" /\ r.resting = 0
  BY <1>1, SettledFacts
<1>3. /\ orders' = [orders EXCEPT ![taker.id] = r] /\ taker' = NoTaker /\ loop' = "stops"
  BY DEF Settle, RemainderCancelled
<1> HIDE DEF r
<1>4. AgreesWith(book', [Shown EXCEPT ![taker.id] = r.resting], historical)
  <2>1. [Shown EXCEPT ![taker.id] = r.resting] = Shown
    BY <1>1, <1>2 DEF Shown
  <2> QED
    BY <2>1 DEF IInv, Agrees
<1>5. Legal(orders[taker.id].state, r.state)
  BY <1>1, <1>2 DEF Legal, States
<1> QED
  BY <1>2, <1>3, <1>4, <1>5, SettleKeeps

LEMMA EndFilledKeeps == ASSUME IInv, EndFilled PROVE IInv' /\ LegalStep
<1> DEFINE r == [orders[taker.id] EXCEPT !.state = "Filled"]
<1>1. loop = "match" /\ taker.remaining = 0 /\ UNCHANGED <<market, book, parked, seq, historical>>
  BY DEF EndFilled
<1>2. /\ taker.id \in Ids /\ taker.remaining \in Nat
      /\ SoundRecord(orders[taker.id], taker.remaining) /\ orders[taker.id].entered
      /\ orders[taker.id].state \in {"New", "Accepted"} /\ ~orders[taker.id].inBook
      /\ orders[taker.id].resting = 0
  BY <1>1, TakerFacts
<1>3. SoundRecord(r, 0) /\ r.state = "Filled" /\ r.resting = 0
  BY <1>1, <1>2, SettledFacts
<1>4. /\ orders' = [orders EXCEPT ![taker.id] = r] /\ taker' = NoTaker /\ loop' = "stops"
  BY DEF EndFilled, Settle
<1> HIDE DEF r
<1>5. AgreesWith(book', [Shown EXCEPT ![taker.id] = r.resting], historical)
  <2>1. [Shown EXCEPT ![taker.id] = r.resting] = Shown
    BY <1>2, <1>3 DEF Shown
  <2> QED
    BY <1>1, <2>1 DEF IInv, Agrees
<1>6. Legal(orders[taker.id].state, r.state)
  BY <1>2, <1>3 DEF Legal, States
<1> QED
  BY <1>1, <1>3, <1>4, <1>5, <1>6, SettleKeeps

LEMMA EndRestsKeeps == ASSUME IInv, EndRests PROVE IInv' /\ LegalStep
<1> DEFINE m == orders[taker.id]
           left == taker.remaining
           slice == IF m.req.display > 0 THEN LeastOf(m.req.display, left) ELSE left
           s == IF m.filled > 0 THEN "PartiallyFilled" ELSE "Accepted"
           r == [m EXCEPT !.resting = slice, !.hidden = left - slice, !.inBook = TRUE,
                          !.state = s]
<1>1. loop = "match" /\ left > 0 /\ UNCHANGED <<market, parked, seq, historical>>
  BY DEF EndRests, MeetsNone
<1>2. /\ taker.id \in Ids /\ left \in Nat \ {0} /\ SoundRecord(m, left) /\ m.entered
      /\ m.state \in {"New", "Accepted"} /\ ~m.inBook /\ m.resting = 0
  BY <1>1, TakerFacts
<1>3. /\ orders' = [orders EXCEPT ![taker.id] = r] /\ taker' = NoTaker /\ loop' = "stops"
      /\ book' = Added(book, taker.id, m.req.side, m.req.price, slice)
  BY DEF EndRests, Settle
<1>4. slice \in 1..left /\ (slice < left => m.req.display > 0) /\ s \in Live
  <2>1. m \in Meta
    BY <1>2 DEF SoundRecord
  <2>2. m.req.display \in Nat
    BY <2>1, MetaFields
  <2> QED
    BY <1>2, <2>2 DEF LeastOf, Live
<1> HIDE DEF slice, s, left, m
<1>5. SoundRecord(r, 0) /\ r.state = s /\ r.inBook /\ r.resting = slice
  <2> DEFINE h == left - slice
  <2>1. m \in Meta
    BY <1>2 DEF SoundRecord
  <2>2. /\ m.filled \in Nat /\ m.cancelled \in Nat /\ m.hidden \in Nat /\ m.resting = 0
        /\ m.hidden = 0 /\ m.req.quantity \in Nat
    BY <1>2, <2>1, MetaFields DEF SoundRecord
  <2>3. /\ slice \in Nat /\ h \in Nat /\ TRUE \in BOOLEAN /\ s \in States
    BY <1>2, <1>4 DEF States, Live
  <2>4. slice + h = left /\ (h > 0 => m.req.display > 0) /\ slice > 0
    BY <1>2, <1>4
  <2> HIDE DEF h
  <2>5. [m EXCEPT !.resting = slice, !.hidden = h, !.inBook = TRUE, !.state = s] \in Meta
    BY <2>1, <2>3, MetaUpdates, Zenon
  <2>6. r = [m EXCEPT !.resting = slice, !.hidden = h, !.inBook = TRUE, !.state = s]
    BY DEF h
  <2> HIDE DEF r
  <2>7. r \in Meta
    BY <2>5, <2>6
  <2>8. /\ r.filled = m.filled /\ r.cancelled = m.cancelled /\ r.resting = slice
        /\ r.hidden = h /\ r.inBook = TRUE /\ r.entered = m.entered /\ r.req = m.req
        /\ r.state = s
    BY <2>1, <2>6 DEF Meta
  <2>9. m.filled + m.cancelled + left = m.req.quantity
    BY <1>2, <2>2 DEF SoundRecord
  <2>10. SoundRecord(r, 0)
    BY <1>2, <1>4, <2>2, <2>3, <2>4, <2>7, <2>8, <2>9 DEF SoundRecord, Live
  <2> QED
    BY <2>8, <2>10
<1> HIDE DEF r
<1>6. AgreesWith(book', [Shown EXCEPT ![taker.id] = r.resting], historical)
  <2>1. /\ Shown \in [Ids -> Nat] /\ historical \in Nat /\ AgreesWith(book, Shown, historical)
        /\ Shown[taker.id] = 0
    BY <1>2, OrderFacts DEF IInv, Agrees, Shown, m
  <2>2. taker.id \in Ids /\ slice \in Nat \ {0}
    BY <1>2, <1>4
  <2>3. AgreesWith(Added(book, taker.id, m.req.side, m.req.price, slice),
                   [Shown EXCEPT ![taker.id] = slice], historical)
    BY <2>1, <2>2, AddedAgrees, Zenon
  <2> QED
    BY <1>3, <1>5, <2>3
<1>7. Legal(orders[taker.id].state, r.state)
  BY <1>2, <1>4, <1>5 DEF Legal, States, Live, m
<1> QED
  BY <1>1, <1>3, <1>5, <1>6, <1>7, SettleKeeps

LEMMA CancelBothKeeps == ASSUME IInv, CancelBoth PROVE IInv' /\ LegalStep
<1>1. PICK e \in book :
        /\ Meets(e) /\ SelfTrade(e)
        /\ book' = Removed(book, e.ref)
        /\ orders' = [orders EXCEPT ![e.ref] = WithCancelled(@), ![taker.id] = RemainderCancelled]
  BY DEF CancelBoth
<1> DEFINE r == WithCancelled(orders[e.ref])
           t == [orders[taker.id] EXCEPT !.cancelled = @ + taker.remaining,
                                         !.state = "Cancelled"]
<1>2. /\ loop = "match" /\ Owned(e) /\ taker' = NoTaker /\ loop' = "stops"
      /\ UNCHANGED <<market, parked, seq, historical>>
  BY <1>1 DEF Meets, SelfTrade, CancelBoth
<1>3. /\ e.ref \in Ids /\ e.ref /= taker.id /\ orders[e.ref].state \in Live
      /\ SoundRecord(orders[e.ref], 0) /\ orders[e.ref].entered
  BY <1>2, MakerFacts, InBookEntered
<1>4. /\ taker.id \in Ids /\ taker.remaining \in Nat
      /\ SoundRecord(orders[taker.id], taker.remaining) /\ orders[taker.id].entered
      /\ orders[taker.id].state \in {"New", "Accepted"} /\ ~orders[taker.id].inBook
      /\ orders[taker.id].resting = 0
  BY <1>2, TakerFacts
<1>5. SoundRecord(r, 0) /\ r.state = "Cancelled" /\ r.resting = 0
  BY <1>3, WithCancelledFacts DEF Live
<1>6. SoundRecord(t, 0) /\ t.state = "Cancelled" /\ t.resting = 0
  BY <1>4, SettledFacts
<1>7. orders = [j \in Ids |-> orders[j]]
  BY DEF IInv
<1>8. orders' = [[orders EXCEPT ![e.ref] = r] EXCEPT ![taker.id] = t]
  BY <1>1, <1>3, <1>7 DEF RemainderCancelled
<1> HIDE DEF r, t
<1>9. SoundOrders'
  BY <1>2, <1>3, <1>4, <1>5, <1>6, <1>7, <1>8, IdFacts, OrderFacts DEF SoundOrders, InFlight, NoTaker
<1>10. Agrees'
  <2>1. Shown' = [Shown EXCEPT ![e.ref] = 0]
    BY <1>3, <1>4, <1>5, <1>6, <1>7, <1>8 DEF Shown
  <2>2. Shown \in [Ids -> Nat] /\ AgreesWith(book, Shown, historical) /\ historical \in Nat
    BY <1>3, OrderFacts DEF IInv, Agrees
  <2> QED
    BY <1>1, <1>2, <1>3, <2>1, <2>2, RemovedAgrees DEF Agrees
<1>11. StopsParked(parked', orders')
  <2>1. StopsParked(parked, orders)
    BY DEF IInv
  <2>2. \A i \in 1..Len(parked) : parked[i] \in Ids /\ parked[i] /= e.ref /\ parked[i] /= taker.id
    BY <1>3, <1>4, <2>1 DEF StopsParked
  <2> QED
    BY <1>2, <1>7, <1>8, <2>1, <2>2, ParkedFrame
<1>12. LegalStep
  BY <1>3, <1>4, <1>5, <1>6, <1>7, <1>8 DEF LegalStep, Legal, Live, States
<1> QED
  BY <1>2, <1>7, <1>8, <1>9, <1>10, <1>11, <1>12 DEF IInv, TakerOK

LEMMA MatchKeeps == ASSUME IInv, Match PROVE IInv' /\ LegalStep
<1>1. CASE Trade
  BY <1>1, TradeKeeps
<1>2. CASE TradeExternal
  BY <1>2, TradeExternalKeeps
<1>3. CASE CancelNewest
  <2>1. loop = "match"
    BY <1>3 DEF CancelNewest, Meets
  <2> QED
    BY <1>3, <2>1, EndCancelledKeeps DEF CancelNewest
<1>4. CASE CancelOldest
  <2>1. PICK e \in book :
          /\ Meets(e) /\ SelfTrade(e)
          /\ CancelMeta(e.ref)
          /\ orders' = [orders EXCEPT ![e.ref] = WithCancelled(@)]
    BY <1>4 DEF CancelOldest
  <2>2. loop = "match" /\ Owned(e) /\ UNCHANGED <<market, seq, taker, loop, historical>>
    BY <1>4, <2>1 DEF Meets, SelfTrade, CancelOldest
  <2>3. /\ e.ref \in Ids /\ SoundRecord(orders[e.ref], 0) /\ e.ref /= taker.id
        /\ orders[e.ref].state \in Live
    BY <2>2, MakerFacts
  <2> QED
    BY <2>1, <2>2, <2>3, CancelKeeps DEF Live
<1>5. CASE CancelBoth
  BY <1>5, CancelBothKeeps
<1>6. CASE EndFilled
  BY <1>6, EndFilledKeeps
<1>7. CASE EndRests
  BY <1>7, EndRestsKeeps
<1>8. CASE EndCancelled
  BY <1>8, EndCancelledKeeps DEF EndCancelled, MeetsNone
<1> QED
  BY <1>1, <1>2, <1>3, <1>4, <1>5, <1>6, <1>7, <1>8 DEF Match

\* Steps that leave every order and parked stop as it is.
LEMMA OrdersUnchangedKeeps ==
  ASSUME IInv, loop /= "match", loop' \in {"idle", "stops"}, AgreesWith(book', Shown, historical'),
         historical' \in Nat, UNCHANGED <<market, orders, parked, seq, taker>>
  PROVE  IInv' /\ LegalStep
<1>1. SoundOrders' /\ Shown' = Shown /\ TakerOK'
  BY DEF IInv, SoundOrders, InFlight, Shown, TakerOK
<1>2. LegalStep
  BY DEF LegalStep, Legal
<1> QED
  BY <1>1, <1>2 DEF IInv, Agrees

LEMMA FeedKeeps ==
  ASSUME IInv, FeedAdd \/ FeedReduce \/ PumpStops \/ StopsQuiet
  PROVE  IInv' /\ LegalStep
<1>1. AgreesWith(book, Shown, historical) /\ historical \in Nat /\ Shown \in [Ids -> Nat]
  <2>1. \A id \in Ids : orders[id].resting \in Nat
    BY OrderFacts
  <2> QED
    BY <2>1 DEF IInv, Agrees, Shown
<1>2. CASE FeedAdd
  <2>1. PICK h \in Markets[market].historical :
          book' = Added(book, MaxOrders + historical + 1, h.side, h.price, h.shares)
    BY <1>2 DEF FeedAdd
  <2>2. h.shares \in Nat \ {0}
    BY <2>1, MarketAssumption DEF IInv, Feed
  <2>3. /\ historical' = historical + 1 /\ loop = "idle" /\ loop' = loop
        /\ UNCHANGED <<market, orders, parked, seq, taker>>
    BY <1>2 DEF FeedAdd
  <2>4. AgreesWith(book', Shown, historical')
    BY <1>1, <2>1, <2>2, <2>3, AddedExternalAgrees
  <2> QED
    BY <1>1, <2>3, <2>4, OrdersUnchangedKeeps
<1>3. CASE FeedReduce
  <2>0. PICK e \in book : \E n \in 1..e.shares : ~Owned(e) /\ book' = Reduced(book, e, n)
    BY <1>3 DEF FeedReduce
  <2>1. PICK n \in 1..e.shares : ~Owned(e) /\ book' = Reduced(book, e, n)
    BY <2>0
  <2>2. loop = "idle" /\ UNCHANGED <<market, orders, parked, seq, taker, loop, historical>>
    BY <1>3 DEF FeedReduce
  <2> QED
    BY <1>1, <2>1, <2>2, ReducedExternalAgrees, OrdersUnchangedKeeps
<1>4. CASE PumpStops \/ StopsQuiet
  BY <1>1, <1>4, OrdersUnchangedKeeps DEF PumpStops, StopsQuiet
<1> QED
  BY <1>2, <1>3, <1>4

LEMMA ApplyExternalFillKeeps == ASSUME IInv, ApplyExternalFill PROVE IInv' /\ LegalStep
<1>0. PICK e \in book : \E shares \in 1..e.shares :
        /\ Owned(e)
        /\ LET m == orders[e.ref]
               qty == LeastOf(shares, m.resting)
           IN  /\ orders' = [orders EXCEPT ![e.ref] = MakerFilled(m, qty)]
               /\ book' = BookFilled(e, m, qty)
               /\ seq' = SequenceAfter(m, qty)
  BY DEF ApplyExternalFill
<1>1. PICK shares \in 1..e.shares :
        /\ Owned(e)
        /\ LET m == orders[e.ref]
               qty == LeastOf(shares, m.resting)
           IN  /\ orders' = [orders EXCEPT ![e.ref] = MakerFilled(m, qty)]
               /\ book' = BookFilled(e, m, qty)
               /\ seq' = SequenceAfter(m, qty)
  BY <1>0
<1> DEFINE qty == LeastOf(shares, orders[e.ref].resting)
           r == MakerFilled(orders[e.ref], qty)
<1>2. loop = "idle" /\ UNCHANGED <<market, parked, taker, loop, historical>>
  BY DEF ApplyExternalFill
<1>3. /\ e.ref \in Ids /\ e.shares \in Nat \ {0} /\ orders[e.ref].resting = e.shares
      /\ orders[e.ref].state \in Live /\ SoundRecord(orders[e.ref], 0) /\ orders[e.ref].entered
  BY <1>1, MakerFacts, InBookEntered
<1>4. qty \in 1..e.shares
  BY <1>3 DEF LeastOf
<1>5. /\ SoundRecord(r, 0) /\ r.state \in {"PartiallyFilled", "Filled"}
      /\ AgreesWith(book', [Shown EXCEPT ![e.ref] = r.resting], historical)
      /\ seq' \in Nat
  BY <1>1, <1>4, FilledFacts
<1>6. orders' = [orders EXCEPT ![e.ref] = r] /\ orders = [j \in Ids |-> orders[j]]
  BY <1>1 DEF IInv
<1> HIDE DEF qty, r
<1>7. SoundOrders'
  BY <1>2, <1>3, <1>5, <1>6, OrderFacts DEF SoundOrders, InFlight
<1>8. Shown' = [Shown EXCEPT ![e.ref] = r.resting]
  BY <1>3, <1>6 DEF Shown
<1>9. StopsParked(parked', orders')
  <2>1. StopsParked(parked, orders)
    BY DEF IInv
  <2>2. \A i \in 1..Len(parked) : parked[i] \in Ids /\ parked[i] /= e.ref
    BY <1>3, <2>1 DEF StopsParked
  <2> QED
    BY <1>2, <1>6, <2>1, <2>2, ParkedFrame
<1>10. LegalStep
  BY <1>3, <1>5, <1>6 DEF LegalStep, Legal, Live
<1> QED
  BY <1>2, <1>5, <1>6, <1>7, <1>8, <1>9, <1>10 DEF IInv, Agrees, TakerOK

-----------------------------------------------------------------------------

LEMMA StepKeeps == ASSUME IInv, [Next]_vars PROVE IInv' /\ [LegalStep]_vars
<1>1. CASE Next
  <2>1. IInv' /\ LegalStep
    BY <1>1, SubmitInvalidKeeps, SubmitKeeps, CancelActionKeeps, MatchKeeps, FireStopKeeps,
       FeedKeeps, ApplyExternalFillKeeps DEF Next, Engine
  <2> QED
    BY <2>1
<1>2. CASE UNCHANGED vars
  <2>1. IInv'
    <3>1. SoundOrders' /\ Agrees' /\ StopsParked(parked, orders)' /\ TakerOK'
      BY <1>2 DEF vars, IInv, SoundOrders, InFlight, Agrees, AgreesWith, Shown, StopsParked, TakerOK
    <3> QED
      BY <1>2, <3>1 DEF vars, IInv
  <2> QED
    BY <1>2, <2>1
<1> QED
  BY <1>1, <1>2

LEMMA SpecInv == Spec => []IInv
<1>1. Init => IInv
  BY InitInv
<1>2. IInv /\ [Next]_vars => IInv'
  BY StepKeeps
<1> QED
  BY <1>1, <1>2, PTL DEF Spec

LEMMA InvConserves == ASSUME IInv PROVE ConservesShares
<1> SUFFICES ASSUME NEW id \in Ids
             PROVE  LET m == orders[id]
                    IN  /\ m.filled + m.cancelled + m.resting + m.hidden + InFlight(id) =
                              IF m.entered THEN m.req.quantity ELSE 0
                        /\ {e.shares : e \in {f \in book : f.ref = id}} =
                              IF m.inBook THEN {m.resting} ELSE {}
                        /\ m.resting > 0 <=> m.inBook
                        /\ m.hidden > 0 => m.inBook
  BY DEF ConservesShares
<1>1. SoundRecord(orders[id], InFlight(id)) /\ orders[id].resting \in Nat
  BY OrderFacts
<1>2. \A e \in book : e.ref = id => e.shares = orders[id].resting /\ e.shares > 0
  <2> SUFFICES ASSUME NEW e \in book, e.ref = id
               PROVE  e.shares = orders[id].resting /\ e.shares > 0
    OBVIOUS
  <2>1. Owned(e)
    BY DEF Owned
  <2>2. orders[e.ref].resting = e.shares /\ e.shares \in Nat \ {0}
    BY <2>1, MakerFacts
  <2> QED
    BY <2>2
<1>3. orders[id].resting > 0 => \E e \in book : e.ref = id
  BY DEF IInv, Agrees, AgreesWith, Shown
<1>4. {e.shares : e \in {f \in book : f.ref = id}} =
        IF orders[id].inBook THEN {orders[id].resting} ELSE {}
  <2>1. CASE orders[id].inBook
    BY <1>1, <1>2, <1>3, <2>1 DEF SoundRecord
  <2>2. CASE ~orders[id].inBook
    BY <1>1, <1>2, <2>2 DEF SoundRecord
  <2> QED
    BY <2>1, <2>2
<1> QED
  BY <1>1, <1>4 DEF SoundRecord

\* Whatever the requests, the historical orders and the interleaving of calls
\* with the feed: no share of an order is created or lost by match(),
\* refresh_iceberg(), cancel_meta() or apply_external_fill(), and the book holds
\* what Meta says it does (matcher.hpp:250).
THEOREM MatcherConservesShares == Spec => []ConservesShares
<1>1. IInv => ConservesShares
  BY InvConserves
<1> QED
  BY <1>1, SpecInv, PTL

\* The assertion in transition() never fails (order_types.hpp:83).
THEOREM MatcherLegalMoves == Spec => LegalMoves
<1>1. IInv /\ [Next]_vars => [LegalStep]_vars
  BY StepKeeps
<1>2. Spec => [][LegalStep]_vars
  BY <1>1, SpecInv, PTL DEF Spec
<1> QED
  BY <1>2 DEF LegalStep, LegalMoves

-----------------------------------------------------------------------------
(* What the engine leaves behind when it is quiet, and fill-or-kill.       *)
(*                                                                         *)
(* The sums over orders balance because each action changes one or two     *)
(* records (Counts).  An entry joins behind all others with a number above *)
(* all earlier ones, or the taker's, which is above those of its own side  *)
(* (Queued, Behind).  A limit order rests only when it meets nothing, so   *)
(* the book stays uncrossed.  Stops are numbered as they are parked        *)
(* (InTurn).  While a fill-or-kill order trades, the book shows what it    *)
(* still needs (Sure).                                                     *)

FilledOf(o) == SumFunctionOnSet([id \in Ids |-> o[id].filled], Ids)
CancelledOf(o) == SumFunctionOnSet([id \in Ids |-> o[id].cancelled], Ids)
CountedIn(m) == IF m.entered THEN m.req.quantity ELSE 0
CountedOf(o) == SumFunctionOnSet([id \in Ids |-> CountedIn(o[id])], Ids)

Counts ==
  totals = [submitted |-> CountedOf(orders), filled |-> FilledOf(orders),
            cancelled |-> CancelledOf(orders)]

Stamps == [id \in Ids |-> orders[id].sequence]

\* A book bk whose orders got the sequence numbers stamp.
Queued(bk, stamp) ==
  /\ IsFiniteSet(bk)
  /\ \A e \in bk : e.side \in Sides /\ e.price \in Nat /\ e.place \in Nat
  /\ \A e, f \in bk : e.place = f.place => e.ref = f.ref
  /\ \A e, f \in bk :
       Owned(e) /\ Owned(f) /\ e.side = f.side /\ e.price = f.price /\ e.place < f.place
         => stamp[e.ref] < stamp[f.ref]
  /\ \A e, f \in bk :
       Owned(e) /\ Owned(f) /\ e.side = "buy" /\ f.side = "sell" => e.price < f.price

Behind ==
  loop = "match" =>
    \A e \in book : Owned(e) /\ e.side = orders[taker.id].req.side
                      => orders[e.ref].sequence < orders[taker.id].sequence

Places ==
  /\ Queued(book, Stamps) /\ Behind
  /\ \A id \in Ids : orders[id].sequence <= seq
  /\ historical = 0 => \A e \in book : Owned(e)

InTurn ==
  /\ \A id \in Ids : Known(id) => \A j \in 1..(id - 1) : Known(j)
  /\ \A i, j \in 1..Len(parked) : i < j => parked[i] < parked[j]
  /\ NoElectedStopParked

Sure ==
  /\ loop = "match" => taker.type = Effective(orders[taker.id].req.type)
  /\ \A id \in Ids : orders[id].req.type = "fok" => ~orders[id].inBook
  /\ loop = "match" /\ taker.type = "fok" /\ orders[taker.id].req.stp = "none" =>
       /\ orders[taker.id].cancelled = 0
       /\ Available(orders[taker.id].req, "fok") >= taker.remaining
  /\ FokAllOrNoneAmongStrangers

QInv == Counts /\ Places /\ InTurn /\ Sure

LEMMA OrdersTyped == ASSUME IInv PROVE orders \in [Ids -> Meta] /\ IsFiniteSet(Ids)
<1>1. \A id \in Ids : orders[id] \in Meta
  BY DEF IInv, SoundOrders, SoundRecord
<1>2. orders \in [Ids -> Meta]
  BY <1>1 DEF IInv
<1>3. IsFiniteSet(Ids)
  BY MarketAssumption, FS_Interval DEF Ids
<1> QED BY <1>2, <1>3

\* What the engine writes into a record, field by field.
LEMMA CancelledFields ==
  ASSUME NEW m \in Meta
  PROVE  LET r == WithCancelled(m)
         IN  /\ r.req = m.req /\ r.entered = m.entered /\ r.sequence = m.sequence
             /\ r.filled = m.filled /\ r.cancelled = m.cancelled + m.resting + m.hidden
             /\ r.inBook = FALSE /\ r.state = "Cancelled"
BY DEF WithCancelled, Meta

LEMMA MakerFields ==
  ASSUME NEW m \in Meta, NEW qty
  PROVE  LET r == MakerFilled(m, qty)
         IN  /\ r.req = m.req /\ r.entered = m.entered
             /\ r.sequence = IF Refreshes(m, qty) THEN seq + 1 ELSE m.sequence
             /\ r.filled = m.filled + qty /\ r.cancelled = m.cancelled
             /\ r.state \in {"PartiallyFilled", "Filled"}
<1>1. CASE Refreshes(m, qty)
  BY <1>1 DEF MakerFilled, SequenceAfter, Meta
<1>2. CASE ~Refreshes(m, qty)
  BY <1>2 DEF MakerFilled, Meta
<1> QED BY <1>1, <1>2

LEMMA TakerFields ==
  ASSUME NEW m \in Meta, NEW n
  PROVE  /\ LET r == [m EXCEPT !.filled = @ + n]
            IN  /\ r.req = m.req /\ r.entered = m.entered /\ r.sequence = m.sequence
                /\ r.filled = m.filled + n /\ r.cancelled = m.cancelled
                /\ r.inBook = m.inBook /\ r.state = m.state
         /\ LET r == [m EXCEPT !.cancelled = @ + n, !.state = "Cancelled"]
            IN  /\ r.req = m.req /\ r.entered = m.entered /\ r.sequence = m.sequence
                /\ r.filled = m.filled /\ r.cancelled = m.cancelled + n
                /\ r.inBook = m.inBook /\ r.state = "Cancelled"
BY DEF Meta

LEMMA StateFields ==
  ASSUME NEW m \in Meta, NEW s
  PROVE  /\ LET r == [m EXCEPT !.state = s]
            IN  /\ r.req = m.req /\ r.entered = m.entered /\ r.sequence = m.sequence
                /\ r.filled = m.filled /\ r.cancelled = m.cancelled
                /\ r.inBook = m.inBook /\ r.state = s
         /\ \A a, b : LET r == [m EXCEPT !.resting = a, !.hidden = b, !.inBook = TRUE, !.state = s]
                      IN  /\ r.req = m.req /\ r.entered = m.entered /\ r.sequence = m.sequence
                          /\ r.filled = m.filled /\ r.cancelled = m.cancelled
                          /\ r.inBook = TRUE /\ r.state = s
         /\ LET r == [m EXCEPT !.entered = TRUE]
            IN  /\ r.req = m.req /\ r.entered = TRUE /\ r.sequence = m.sequence
                /\ r.filled = m.filled /\ r.cancelled = m.cancelled
                /\ r.inBook = m.inBook /\ r.state = m.state
         /\ LET r == [m EXCEPT !.sequence = s]
            IN  /\ r.req = m.req /\ r.entered = m.entered /\ r.sequence = s
                /\ r.filled = m.filled /\ r.cancelled = m.cancelled
                /\ r.inBook = m.inBook /\ r.state = m.state
BY DEF Meta

\* Sums over the orders when the records of one or two of them change.
LEMMA SumsTyped ==
  ASSUME NEW o \in [Ids -> Meta]
  PROVE  /\ FilledOf(o) \in Int /\ CancelledOf(o) \in Int /\ CountedOf(o) \in Int
         /\ \A id \in Ids : o[id].filled \in Int /\ o[id].cancelled \in Int
                            /\ CountedIn(o[id]) \in Int
<1>1. IsFiniteSet(Ids)
  BY MarketAssumption, FS_Interval DEF Ids
<1>2. \A id \in Ids : /\ o[id].filled \in Int /\ o[id].cancelled \in Int
                      /\ CountedIn(o[id]) \in Int
  BY MetaFields DEF CountedIn
<1>3. FilledOf(o) \in Int
  BY <1>1, <1>2, SumType DEF FilledOf
<1>4. CancelledOf(o) \in Int
  BY <1>1, <1>2, SumType DEF CancelledOf
<1>5. CountedOf(o) \in Int
  BY <1>1, <1>2, SumType DEF CountedOf
<1> QED BY <1>2, <1>3, <1>4, <1>5

LEMMA SumsOne ==
  ASSUME NEW o \in [Ids -> Meta], NEW p \in [Ids -> Meta], NEW a \in Ids,
         \A id \in Ids \ {a} : p[id] = o[id]
  PROVE  /\ FilledOf(p) = FilledOf(o) + p[a].filled - o[a].filled
         /\ CancelledOf(p) = CancelledOf(o) + p[a].cancelled - o[a].cancelled
         /\ CountedOf(p) = CountedOf(o) + CountedIn(p[a]) - CountedIn(o[a])
<1>1. IsFiniteSet(Ids)
  BY MarketAssumption, FS_Interval DEF Ids
<1>2. \A id \in Ids : /\ o[id].filled \in Int /\ o[id].cancelled \in Int
                      /\ CountedIn(o[id]) \in Int
                      /\ p[id].filled \in Int /\ p[id].cancelled \in Int
                      /\ CountedIn(p[id]) \in Int
  BY SumsTyped
<1>3. FilledOf(p) = FilledOf(o) + p[a].filled - o[a].filled
  <2> DEFINE f == [id \in Ids |-> o[id].filled]
             g == [id \in Ids |-> p[id].filled]
  <2>1. /\ \A id \in Ids : f[id] \in Int /\ g[id] \in Int
        /\ \A id \in Ids \ {a} : f[id] = g[id]
        /\ f[a] = o[a].filled /\ g[a] = p[a].filled
    BY <1>2
  <2>2. FilledOf(o) = SumFunctionOnSet(f, Ids) /\ FilledOf(p) = SumFunctionOnSet(g, Ids)
    BY DEF FilledOf
  <2> HIDE DEF f, g
  <2>3. SumFunctionOnSet(g, Ids) = SumFunctionOnSet(f, Ids) + g[a] - f[a]
    BY <1>1, <2>1, SumChange
  <2> QED BY <2>1, <2>2, <2>3
<1>4. CancelledOf(p) = CancelledOf(o) + p[a].cancelled - o[a].cancelled
  <2> DEFINE f == [id \in Ids |-> o[id].cancelled]
             g == [id \in Ids |-> p[id].cancelled]
  <2>1. /\ \A id \in Ids : f[id] \in Int /\ g[id] \in Int
        /\ \A id \in Ids \ {a} : f[id] = g[id]
        /\ f[a] = o[a].cancelled /\ g[a] = p[a].cancelled
    BY <1>2
  <2>2. CancelledOf(o) = SumFunctionOnSet(f, Ids) /\ CancelledOf(p) = SumFunctionOnSet(g, Ids)
    BY DEF CancelledOf
  <2> HIDE DEF f, g
  <2>3. SumFunctionOnSet(g, Ids) = SumFunctionOnSet(f, Ids) + g[a] - f[a]
    BY <1>1, <2>1, SumChange
  <2> QED BY <2>1, <2>2, <2>3
<1>5. CountedOf(p) = CountedOf(o) + CountedIn(p[a]) - CountedIn(o[a])
  <2> DEFINE f == [id \in Ids |-> CountedIn(o[id])]
             g == [id \in Ids |-> CountedIn(p[id])]
  <2>1. /\ \A id \in Ids : f[id] \in Int /\ g[id] \in Int
        /\ \A id \in Ids \ {a} : f[id] = g[id]
        /\ f[a] = CountedIn(o[a]) /\ g[a] = CountedIn(p[a])
    BY <1>2
  <2>2. CountedOf(o) = SumFunctionOnSet(f, Ids) /\ CountedOf(p) = SumFunctionOnSet(g, Ids)
    BY DEF CountedOf
  <2> HIDE DEF f, g
  <2>3. SumFunctionOnSet(g, Ids) = SumFunctionOnSet(f, Ids) + g[a] - f[a]
    BY <1>1, <2>1, SumChange
  <2> QED BY <2>1, <2>2, <2>3
<1> QED BY <1>3, <1>4, <1>5

LEMMA SumsTwo ==
  ASSUME NEW o \in [Ids -> Meta], NEW p \in [Ids -> Meta], NEW a \in Ids, NEW b \in Ids, a /= b,
         \A id \in Ids \ {a, b} : p[id] = o[id]
  PROVE  /\ FilledOf(p) = FilledOf(o) + (p[a].filled - o[a].filled) + (p[b].filled - o[b].filled)
         /\ CancelledOf(p) = CancelledOf(o) + (p[a].cancelled - o[a].cancelled)
                                            + (p[b].cancelled - o[b].cancelled)
         /\ CountedOf(p) = CountedOf(o) + (CountedIn(p[a]) - CountedIn(o[a]))
                                        + (CountedIn(p[b]) - CountedIn(o[b]))
<1> DEFINE q == [o EXCEPT ![a] = p[a]]
<1>1. /\ q \in [Ids -> Meta] /\ q[a] = p[a] /\ q[b] = o[b]
      /\ \A id \in Ids \ {a} : q[id] = o[id]
      /\ \A id \in Ids \ {b} : p[id] = q[id]
  OBVIOUS
<1> HIDE DEF q
<1>2. /\ FilledOf(q) = FilledOf(o) + q[a].filled - o[a].filled
      /\ CancelledOf(q) = CancelledOf(o) + q[a].cancelled - o[a].cancelled
      /\ CountedOf(q) = CountedOf(o) + CountedIn(q[a]) - CountedIn(o[a])
  BY <1>1, SumsOne
<1>3. /\ FilledOf(p) = FilledOf(q) + p[b].filled - q[b].filled
      /\ CancelledOf(p) = CancelledOf(q) + p[b].cancelled - q[b].cancelled
      /\ CountedOf(p) = CountedOf(q) + CountedIn(p[b]) - CountedIn(q[b])
  BY <1>1, SumsOne
<1>4. /\ FilledOf(o) \in Int /\ CancelledOf(o) \in Int /\ CountedOf(o) \in Int
      /\ \A id \in Ids : o[id].filled \in Int /\ o[id].cancelled \in Int
                         /\ CountedIn(o[id]) \in Int
      /\ \A id \in Ids : p[id].filled \in Int /\ p[id].cancelled \in Int
                         /\ CountedIn(p[id]) \in Int
  BY SumsTyped
<1>5. \A s, t, u, w, x, y, z \in Int :
        t = s + u - w /\ x = t + y - z => x = s + (u - w) + (y - z)
  OBVIOUS
<1>6. FilledOf(q) \in Int /\ CancelledOf(q) \in Int /\ CountedOf(q) \in Int
      /\ FilledOf(p) \in Int /\ CancelledOf(p) \in Int /\ CountedOf(p) \in Int
  BY <1>1, SumsTyped
<1> QED BY <1>1, <1>2, <1>3, <1>4, <1>5, <1>6

-----------------------------------------------------------------------------
(* What each action does, in terms of the records that change.             *)

Same(m, r) == r.req = m.req /\ r.entered = m.entered /\ r.sequence = m.sequence

LEMMA TradeDoes ==
  ASSUME IInv, Trade
  PROVE  \E e \in book : \E qty \in 1..e.shares :
           /\ Meets(e) /\ Owned(e) /\ ~SelfTrade(e)
           /\ e.ref \in Ids /\ taker.id \in Ids /\ e.ref /= taker.id
           /\ qty = LeastOf(taker.remaining, e.shares) /\ qty <= taker.remaining
           /\ orders'[e.ref] = MakerFilled(orders[e.ref], qty)
           /\ orders'[taker.id] = [orders[taker.id] EXCEPT !.filled = @ + qty]
           /\ \A id \in Ids \ {e.ref, taker.id} : orders'[id] = orders[id]
           /\ book' = BookFilled(e, orders[e.ref], qty)
           /\ seq' = SequenceAfter(orders[e.ref], qty)
           /\ totals' = [totals EXCEPT !.filled = @ + 2 * qty]
           /\ taker'.id = taker.id /\ taker'.type = taker.type
           /\ taker'.remaining = taker.remaining - qty
           /\ loop = "match" /\ UNCHANGED <<market, parked, loop, historical>>
<1>1. PICK e \in book :
        /\ Meets(e) /\ Owned(e) /\ ~SelfTrade(e)
        /\ LET m == orders[e.ref]
               qty == LeastOf(taker.remaining, e.shares)
           IN  /\ orders' = [orders EXCEPT ![e.ref] = MakerFilled(m, qty),
                                           ![taker.id].filled = @ + qty]
               /\ book' = BookFilled(e, m, qty)
               /\ seq' = SequenceAfter(m, qty)
               /\ totals' = [totals EXCEPT !.filled = @ + 2 * qty]
               /\ taker' = [taker EXCEPT !.remaining = @ - qty]
  BY DEF Trade
<1> DEFINE qty == LeastOf(taker.remaining, e.shares)
           r == MakerFilled(orders[e.ref], qty)
           t == [orders[taker.id] EXCEPT !.filled = @ + qty]
<1>2. loop = "match" /\ taker.remaining > 0 /\ UNCHANGED <<market, parked, loop, historical>>
  BY <1>1 DEF Meets, Trade
<1>3. e.ref \in Ids /\ e.shares \in Nat \ {0} /\ e.ref /= taker.id
  BY <1>1, <1>2, MakerFacts
<1>4. /\ taker.id \in Ids /\ taker.remaining \in Nat
      /\ taker = [id |-> taker.id, type |-> taker.type, remaining |-> taker.remaining]
  BY <1>2 DEF IInv, TakerOK
<1>5. qty \in 1..e.shares /\ qty <= taker.remaining
  BY <1>2, <1>3, <1>4 DEF LeastOf
<1>6. orders = [j \in Ids |-> orders[j]]
  BY DEF IInv
<1>7. orders' = [[orders EXCEPT ![e.ref] = r] EXCEPT ![taker.id] = t]
  BY <1>1, <1>3, <1>4, <1>6
<1>8. /\ taker'.id = taker.id /\ taker'.type = taker.type
      /\ taker'.remaining = taker.remaining - qty
  BY <1>1, <1>4
<1>9. /\ book' = BookFilled(e, orders[e.ref], qty) /\ seq' = SequenceAfter(orders[e.ref], qty)
      /\ totals' = [totals EXCEPT !.filled = @ + 2 * qty]
  BY <1>1
<1>10. /\ orders'[e.ref] = r /\ orders'[taker.id] = t
       /\ \A id \in Ids \ {e.ref, taker.id} : orders'[id] = orders[id]
  <2> HIDE DEF r, t, qty
  <2> QED BY <1>3, <1>4, <1>6, <1>7
<1>11. qty = LeastOf(taker.remaining, e.shares)
  OBVIOUS
<1> HIDE DEF qty
<1> QED BY <1>1, <1>2, <1>3, <1>4, <1>5, <1>8, <1>9, <1>10, <1>11

LEMMA TradeExternalDoes ==
  ASSUME IInv, TradeExternal
  PROVE  \E e \in book : \E qty \in 1..e.shares :
           /\ Meets(e) /\ ~Owned(e)
           /\ taker.id \in Ids
           /\ qty = LeastOf(taker.remaining, e.shares) /\ qty <= taker.remaining
           /\ orders'[taker.id] = [orders[taker.id] EXCEPT !.filled = @ + qty]
           /\ \A id \in Ids \ {taker.id} : orders'[id] = orders[id]
           /\ book' = Reduced(book, e, qty)
           /\ totals' = [totals EXCEPT !.filled = @ + qty]
           /\ taker'.id = taker.id /\ taker'.type = taker.type
           /\ taker'.remaining = taker.remaining - qty
           /\ loop = "match" /\ UNCHANGED <<market, parked, seq, loop, historical>>
<1>1. PICK e \in book :
        /\ Meets(e) /\ ~Owned(e)
        /\ LET qty == LeastOf(taker.remaining, e.shares)
           IN  /\ orders' = [orders EXCEPT ![taker.id].filled = @ + qty]
               /\ book' = Reduced(book, e, qty)
               /\ totals' = [totals EXCEPT !.filled = @ + qty]
               /\ taker' = [taker EXCEPT !.remaining = @ - qty]
  BY DEF TradeExternal
<1> DEFINE qty == LeastOf(taker.remaining, e.shares)
           t == [orders[taker.id] EXCEPT !.filled = @ + qty]
<1>2. loop = "match" /\ taker.remaining > 0 /\ UNCHANGED <<market, parked, seq, loop, historical>>
  BY <1>1 DEF Meets, TradeExternal
<1>3. e.shares \in Nat \ {0}
  BY DEF IInv, Agrees, AgreesWith
<1>4. /\ taker.id \in Ids /\ taker.remaining \in Nat
      /\ taker = [id |-> taker.id, type |-> taker.type, remaining |-> taker.remaining]
  BY <1>2 DEF IInv, TakerOK
<1>5. qty \in 1..e.shares /\ qty <= taker.remaining
  BY <1>2, <1>3, <1>4 DEF LeastOf
<1>6. orders = [j \in Ids |-> orders[j]]
  BY DEF IInv
<1>7. orders' = [orders EXCEPT ![taker.id] = t]
  BY <1>1, <1>6
<1>8. /\ taker'.id = taker.id /\ taker'.type = taker.type
      /\ taker'.remaining = taker.remaining - qty
  BY <1>1, <1>4
<1>9. book' = Reduced(book, e, qty) /\ totals' = [totals EXCEPT !.filled = @ + qty]
  BY <1>1
<1>10. orders'[taker.id] = t /\ \A id \in Ids \ {taker.id} : orders'[id] = orders[id]
  <2> HIDE DEF t
  <2> QED BY <1>4, <1>6, <1>7
<1>11. qty = LeastOf(taker.remaining, e.shares)
  OBVIOUS
<1> HIDE DEF qty
<1> QED BY <1>1, <1>2, <1>4, <1>5, <1>8, <1>9, <1>10, <1>11

LEMMA ApplyExternalFillDoes ==
  ASSUME IInv, ApplyExternalFill
  PROVE  \E e \in book : \E qty \in 1..e.shares :
           /\ Owned(e) /\ e.ref \in Ids
           /\ \E f \in book : ~Owned(f)
           /\ orders'[e.ref] = MakerFilled(orders[e.ref], qty)
           /\ \A id \in Ids \ {e.ref} : orders'[id] = orders[id]
           /\ book' = BookFilled(e, orders[e.ref], qty)
           /\ seq' = SequenceAfter(orders[e.ref], qty)
           /\ totals' = [totals EXCEPT !.filled = @ + qty]
           /\ loop = "idle" /\ UNCHANGED <<market, parked, taker, loop, historical>>
<1>1. PICK e \in book, f \in book : \E shares \in 1..e.shares :
        /\ Owned(e) /\ ~Owned(f)
        /\ LET m == orders[e.ref]
               qty == LeastOf(shares, m.resting)
           IN  /\ orders' = [orders EXCEPT ![e.ref] = MakerFilled(m, qty)]
               /\ book' = BookFilled(e, m, qty)
               /\ seq' = SequenceAfter(m, qty)
               /\ totals' = [totals EXCEPT !.filled = @ + qty]
  BY DEF ApplyExternalFill
<1>2. PICK shares \in 1..e.shares :
        /\ Owned(e) /\ ~Owned(f)
        /\ LET m == orders[e.ref]
               qty == LeastOf(shares, m.resting)
           IN  /\ orders' = [orders EXCEPT ![e.ref] = MakerFilled(m, qty)]
               /\ book' = BookFilled(e, m, qty)
               /\ seq' = SequenceAfter(m, qty)
               /\ totals' = [totals EXCEPT !.filled = @ + qty]
  BY <1>1
<1> DEFINE qty == LeastOf(shares, orders[e.ref].resting)
           r == MakerFilled(orders[e.ref], qty)
<1>3. loop = "idle" /\ UNCHANGED <<market, parked, taker, loop, historical>>
  BY DEF ApplyExternalFill
<1>4. e.ref \in Ids /\ e.shares \in Nat \ {0} /\ orders[e.ref].resting = e.shares
  BY <1>2, MakerFacts
<1>5. qty \in 1..e.shares
  BY <1>4 DEF LeastOf
<1>6. orders' = [orders EXCEPT ![e.ref] = r] /\ orders = [j \in Ids |-> orders[j]]
  BY <1>2 DEF IInv
<1>7. /\ book' = BookFilled(e, orders[e.ref], qty) /\ seq' = SequenceAfter(orders[e.ref], qty)
      /\ totals' = [totals EXCEPT !.filled = @ + qty]
  BY <1>2
<1>8. orders'[e.ref] = r /\ \A id \in Ids \ {e.ref} : orders'[id] = orders[id]
  <2> HIDE DEF r
  <2> QED BY <1>4, <1>6
<1> HIDE DEF qty
<1> QED BY <1>2, <1>3, <1>4, <1>5, <1>7, <1>8

\* match() ends with gone shares cancelled.
LEMMA SettleDoes ==
  ASSUME IInv, EndFilled \/ EndRests \/ EndCancelled \/ CancelNewest
  PROVE  \E gone \in {0, taker.remaining} :
           /\ loop = "match" /\ taker.id \in Ids
           /\ Same(orders[taker.id], orders'[taker.id])
           /\ orders'[taker.id].filled = orders[taker.id].filled
           /\ orders'[taker.id].cancelled = orders[taker.id].cancelled + gone
           /\ orders'[taker.id].state /= "Unknown"
           /\ \A id \in Ids \ {taker.id} : orders'[id] = orders[id]
           /\ totals' = [totals EXCEPT !.cancelled = @ + gone]
           /\ taker' = NoTaker /\ loop' = "stops"
           /\ UNCHANGED <<market, parked, seq, lastTrade, historical>>
<1> DEFINE m == orders[taker.id]
<1>1. loop = "match" /\ UNCHANGED <<market, parked, seq, lastTrade, historical>>
  BY DEF EndFilled, EndRests, EndCancelled, CancelNewest, MeetsNone, Meets
<1>2. taker.id \in Ids /\ m \in Meta /\ orders = [j \in Ids |-> orders[j]]
  BY <1>1, OrdersTyped DEF IInv, TakerOK
<1>3. ASSUME NEW r, NEW gone \in {0, taker.remaining}, Settle(r, gone), Same(m, r),
             r.filled = m.filled, r.cancelled = m.cancelled + gone, r.state /= "Unknown"
      PROVE  \E g \in {0, taker.remaining} :
               /\ Same(m, orders'[taker.id])
               /\ orders'[taker.id].filled = m.filled
               /\ orders'[taker.id].cancelled = m.cancelled + g
               /\ orders'[taker.id].state /= "Unknown"
               /\ \A id \in Ids \ {taker.id} : orders'[id] = orders[id]
               /\ totals' = [totals EXCEPT !.cancelled = @ + g]
               /\ taker' = NoTaker /\ loop' = "stops"
  <2>1. orders'[taker.id] = r /\ \A id \in Ids \ {taker.id} : orders'[id] = orders[id]
    BY <1>2, <1>3 DEF Settle
  <2> QED BY <1>3, <2>1 DEF Settle
<1>4. m.cancelled = m.cancelled + 0
  BY <1>2, MetaFields
<1>5. CASE EndFilled
  <2> DEFINE r == [m EXCEPT !.state = "Filled"]
  <2>1. Settle(r, 0)
    BY <1>5 DEF EndFilled
  <2>2. Same(m, r) /\ r.filled = m.filled /\ r.cancelled = m.cancelled /\ r.state = "Filled"
    BY <1>2, StateFields DEF Same
  <2> HIDE DEF m, r
  <2> QED BY <1>1, <1>2, <1>3, <1>4, <2>1, <2>2 DEF m
<1>6. CASE EndRests
  <2> DEFINE slice == IF m.req.display > 0 THEN LeastOf(m.req.display, taker.remaining)
                      ELSE taker.remaining
             s == IF m.filled > 0 THEN "PartiallyFilled" ELSE "Accepted"
             r == [m EXCEPT !.resting = slice, !.hidden = taker.remaining - slice,
                            !.inBook = TRUE, !.state = s]
  <2>1. Settle(r, 0)
    BY <1>6 DEF EndRests
  <2>2. Same(m, r) /\ r.filled = m.filled /\ r.cancelled = m.cancelled /\ r.state = s
    <3> HIDE DEF slice, s
    <3> QED BY <1>2, StateFields DEF Same
  <2>3. r.state /= "Unknown"
    BY <2>2
  <2> HIDE DEF m, r
  <2> QED BY <1>1, <1>2, <1>3, <1>4, <2>1, <2>2, <2>3 DEF m
<1>7. CASE EndCancelled \/ CancelNewest
  <2> DEFINE r == [m EXCEPT !.cancelled = @ + taker.remaining, !.state = "Cancelled"]
  <2>1. Settle(r, taker.remaining)
    BY <1>7 DEF EndCancelled, CancelNewest, RemainderCancelled
  <2>2. /\ Same(m, r) /\ r.filled = m.filled /\ r.cancelled = m.cancelled + taker.remaining
        /\ r.state = "Cancelled"
    BY <1>2, TakerFields DEF Same
  <2> HIDE DEF m, r
  <2> QED BY <1>1, <1>2, <1>3, <2>1, <2>2 DEF m
<1> QED BY <1>5, <1>6, <1>7

\* A cancel, by request or by self-trade prevention.
LEMMA CancelDoes ==
  ASSUME IInv, Cancel \/ CancelOldest
  PROVE  \E id \in Ids :
           /\ loop = "match" => id /= taker.id
           /\ Known(id) /\ orders'[id] = WithCancelled(orders[id])
           /\ \A j \in Ids \ {id} : orders'[j] = orders[j]
           /\ CancelMeta(id)
           /\ loop \in {"idle", "match"}
           /\ CancelOldest => orders[taker.id].req.stp = "oldest"
           /\ UNCHANGED <<market, seq, lastTrade, taker, loop, historical>>
<1>1. orders = [j \in Ids |-> orders[j]]
  BY DEF IInv
<1>2. CASE Cancel
  <2>1. PICK id \in Ids :
          /\ Known(id) /\ CancelMeta(id)
          /\ orders' = [orders EXCEPT ![id] = WithCancelled(@)]
    BY <1>2 DEF Cancel
  <2>2. loop = "idle" /\ UNCHANGED <<market, seq, lastTrade, taker, loop, historical>>
    BY <1>2 DEF Cancel
  <2>3. ~CancelOldest
    BY <2>2 DEF CancelOldest, Meets
  <2>4. /\ orders'[id] = WithCancelled(orders[id])
        /\ \A j \in Ids \ {id} : orders'[j] = orders[j]
    BY <1>1, <2>1
  <2> QED BY <2>1, <2>2, <2>3, <2>4
<1>3. CASE CancelOldest
  <2>1. PICK e \in book :
          /\ Meets(e) /\ SelfTrade(e) /\ CancelMeta(e.ref)
          /\ orders' = [orders EXCEPT ![e.ref] = WithCancelled(@)]
    BY <1>3 DEF CancelOldest
  <2>2. /\ loop = "match" /\ Owned(e) /\ orders[taker.id].req.stp = "oldest"
        /\ UNCHANGED <<market, seq, lastTrade, taker, loop, historical>>
    BY <1>3, <2>1 DEF Meets, SelfTrade, CancelOldest
  <2>3. e.ref \in Ids /\ e.ref /= taker.id /\ orders[e.ref].state \in Live
    BY <2>2, MakerFacts
  <2>4. /\ orders'[e.ref] = WithCancelled(orders[e.ref])
        /\ \A j \in Ids \ {e.ref} : orders'[j] = orders[j]
    BY <1>1, <2>1, <2>3
  <2> QED BY <2>1, <2>2, <2>3, <2>4 DEF Known, Live
<1> QED BY <1>2, <1>3

LEMMA CancelBothDoes ==
  ASSUME IInv, CancelBoth
  PROVE  \E id \in Ids :
           /\ loop = "match" /\ taker.id \in Ids /\ id /= taker.id /\ Known(id)
           /\ orders[taker.id].req.stp = "both"
           /\ orders'[id] = WithCancelled(orders[id])
           /\ orders'[taker.id] = RemainderCancelled
           /\ \A j \in Ids \ {id, taker.id} : orders'[j] = orders[j]
           /\ book' = Removed(book, id)
           /\ totals' = [totals EXCEPT !.cancelled =
                           @ + orders[id].resting + orders[id].hidden + taker.remaining]
           /\ taker' = NoTaker /\ loop' = "stops"
           /\ UNCHANGED <<market, parked, seq, lastTrade, historical>>
<1>1. orders = [j \in Ids |-> orders[j]]
  BY DEF IInv
<1>2. PICK e \in book :
        /\ Meets(e) /\ SelfTrade(e)
        /\ orders[taker.id].req.stp = "both"
        /\ book' = Removed(book, e.ref)
        /\ orders' = [orders EXCEPT ![e.ref] = WithCancelled(@), ![taker.id] = RemainderCancelled]
        /\ totals' = [totals EXCEPT !.cancelled =
                        @ + orders[e.ref].resting + orders[e.ref].hidden + taker.remaining]
  BY DEF CancelBoth
<1>3. /\ loop = "match" /\ Owned(e) /\ taker' = NoTaker /\ loop' = "stops"
      /\ UNCHANGED <<market, parked, seq, lastTrade, historical>>
  BY <1>2 DEF Meets, SelfTrade, CancelBoth
<1>4. e.ref \in Ids /\ e.ref /= taker.id /\ orders[e.ref].state \in Live /\ taker.id \in Ids
  BY <1>3, MakerFacts, TakerFacts
<1>5. /\ orders'[e.ref] = WithCancelled(orders[e.ref]) /\ orders'[taker.id] = RemainderCancelled
      /\ \A j \in Ids \ {e.ref, taker.id} : orders'[j] = orders[j]
  BY <1>1, <1>2, <1>4
<1> QED BY <1>2, <1>3, <1>4, <1>5 DEF Known, Live

\* An order is refused, parked or counted in.
Enters(id) ==
  LET o == orders[id]
      r == orders'[id]
  IN  /\ loop \in {"idle", "stops"} /\ taker = NoTaker
      /\ ~o.entered /\ ~o.inBook /\ ~r.inBook
      /\ o.filled = 0 /\ o.cancelled = 0 /\ r.filled = 0 /\ r.cancelled = 0
      /\ o.state = "Unknown" \/ r.req = o.req
      /\ o.state = "Unknown" => \A j \in 1..(id - 1) : Known(j)
      /\ r.state /= "Unknown"
      /\ \A j \in Ids \ {id} : orders'[j] = orders[j]
      /\ seq' \in {seq, seq + 1} /\ r.sequence <= seq'
      /\ UNCHANGED <<market, book, lastTrade, historical>>
      /\ \/ /\ r.entered /\ r.sequence = seq + 1 /\ seq' = seq + 1
            /\ ~Refused(r.req, Effective(r.req.type))
            /\ totals' = [totals EXCEPT !.submitted = @ + r.req.quantity]
            /\ taker' = [id |-> id, type |-> Effective(r.req.type), remaining |-> r.req.quantity]
            /\ loop' = "match"
         \/ ~r.entered /\ UNCHANGED <<totals, taker, loop>>

LEMMA NotEnteredFacts ==
  ASSUME NEW m, SoundRecord(m, 0), ~m.entered
  PROVE  m.filled = 0 /\ m.cancelled = 0 /\ ~m.inBook /\ m \in Meta
<1> DEFINE a == m.filled
           b == m.cancelled
           c == m.resting
           d == m.hidden
<1>1. m \in Meta /\ a + b + c + d + 0 = 0
  BY DEF SoundRecord
<1>2. a \in Nat /\ b \in Nat /\ c \in Nat /\ d \in Nat
  BY <1>1, MetaFields
<1>3. m.resting > 0 <=> m.inBook
  BY DEF SoundRecord
<1> HIDE DEF a, b, c, d
<1>4. a = 0 /\ b = 0 /\ c = 0 /\ d = 0
  BY <1>1, <1>2, SumZero
<1> QED BY <1>1, <1>3, <1>4 DEF a, b, c

LEMMA RunEnters ==
  ASSUME IInv, loop \in {"idle", "stops"}, NEW id \in Ids, ~orders[id].entered,
         NEW m \in Meta, ~m.entered, ~m.inBook, m.filled = 0, m.cancelled = 0,
         m.state /= "Unknown", m.sequence = seq + 1,
         orders[id].state = "Unknown" \/ m.req = orders[id].req,
         orders[id].state = "Unknown" => \A j \in 1..(id - 1) : Known(j),
         Run(id, m, Effective(m.req.type)), seq' = seq + 1,
         UNCHANGED <<market, book, lastTrade, historical>>
  PROVE  Enters(id)
<1>1. orders = [j \in Ids |-> orders[j]] /\ taker = NoTaker /\ seq \in Nat
  BY DEF IInv, TakerOK
<1>2. orders[id].filled = 0 /\ orders[id].cancelled = 0 /\ ~orders[id].inBook
  <2>1. SoundRecord(orders[id], 0)
    BY OrderFacts DEF InFlight
  <2> QED BY <2>1, NotEnteredFacts
<1>3. CASE Refused(m.req, Effective(m.req.type))
  <2> DEFINE s == Refusal(m)
             r == [m EXCEPT !.state = s]
  <2>1. orders' = [orders EXCEPT ![id] = r] /\ UNCHANGED <<totals, taker, loop>>
    BY <1>3 DEF Run
  <2>2. s /= "Unknown"
    BY DEF Refusal
  <2>3. /\ r.req = m.req /\ r.entered = m.entered /\ r.sequence = m.sequence
        /\ r.filled = m.filled /\ r.cancelled = m.cancelled /\ r.inBook = m.inBook /\ r.state = s
    <3> HIDE DEF s
    <3> QED BY StateFields
  <2> HIDE DEF s, r
  <2>4. orders'[id] = r /\ \A j \in Ids \ {id} : orders'[j] = orders[j]
    BY <1>1, <2>1
  <2> QED BY <1>1, <1>2, <2>1, <2>2, <2>3, <2>4 DEF Enters
<1>4. CASE ~Refused(m.req, Effective(m.req.type))
  <2> DEFINE r == [m EXCEPT !.entered = TRUE]
  <2>1. /\ orders' = [orders EXCEPT ![id] = r]
        /\ totals' = [totals EXCEPT !.submitted = @ + m.req.quantity]
        /\ taker' = [id |-> id, type |-> Effective(m.req.type), remaining |-> m.req.quantity]
        /\ loop' = "match"
    BY <1>4 DEF Run
  <2>2. /\ r.req = m.req /\ r.entered = TRUE /\ r.sequence = m.sequence
        /\ r.filled = m.filled /\ r.cancelled = m.cancelled /\ r.inBook = m.inBook
        /\ r.state = m.state
    BY StateFields
  <2> HIDE DEF r
  <2>3. orders'[id] = r /\ \A j \in Ids \ {id} : orders'[j] = orders[j]
    BY <1>1, <2>1
  <2> QED BY <1>1, <1>2, <1>4, <2>1, <2>2, <2>3 DEF Enters
<1> QED BY <1>3, <1>4

LEMMA SubmitInvalidDoes ==
  ASSUME IInv, SubmitInvalid
  PROVE  \E id \in Ids : Enters(id) /\ ~Known(id) /\ UNCHANGED <<loop, parked>> /\ loop = "idle"
<1>1. PICK id \in 1..Markets[market].orders, req \in Markets[market].requests :
        /\ Fresh(id)
        /\ orders' = [orders EXCEPT ![id] = [Unknown(req) EXCEPT !.state = "Rejected"]]
  BY DEF SubmitInvalid
<1> DEFINE r == [Unknown(req) EXCEPT !.state = "Rejected"]
<1>2. /\ id \in Ids /\ req \in Requests
      /\ orders = [j \in Ids |-> orders[j]] /\ taker = NoTaker /\ loop = "idle" /\ seq \in Nat
      /\ UNCHANGED <<market, book, parked, seq, lastTrade, totals, taker, loop, historical>>
  <2>1. market \in DOMAIN Markets
    BY DEF IInv
  <2>2. id \in Ids
    BY <2>1, MarketAssumption DEF Ids
  <2> QED
    BY <1>1, <2>1, <2>2, RequestFacts DEF IInv, TakerOK, SubmitInvalid
<1>3. /\ r.filled = 0 /\ r.cancelled = 0 /\ r.inBook = FALSE /\ r.entered = FALSE
      /\ r.sequence = 0 /\ r.state = "Rejected"
  BY <1>2, UnknownFacts
<1> HIDE DEF r
<1>4. orders'[id] = r /\ \A j \in Ids \ {id} : orders'[j] = orders[j]
  BY <1>1, <1>2 DEF r
<1>5. orders[id].state = "Unknown" /\ \A j \in 1..(id - 1) : Known(j)
  BY <1>1 DEF Fresh, Known
<1>6. /\ ~orders[id].entered /\ orders[id].filled = 0 /\ orders[id].cancelled = 0
      /\ ~orders[id].inBook
  <2>1. SoundRecord(orders[id], 0)
    BY <1>2, OrderFacts DEF InFlight
  <2> QED BY <1>5, <2>1, NotEnteredFacts DEF SoundRecord
<1> QED BY <1>2, <1>3, <1>4, <1>5, <1>6 DEF Enters, Known

LEMMA SubmitDoes ==
  ASSUME IInv, Submit
  PROVE  \E id \in Ids :
           /\ Enters(id) /\ ~Known(id) /\ loop = "idle"
           /\ \/ UNCHANGED parked
              \/ /\ parked' = Append(parked, id) /\ loop' = "idle"
                 /\ ~Elected(orders'[id].req)
<1>1. PICK id \in 1..Markets[market].orders, req \in Markets[market].requests :
        /\ Fresh(id)
        /\ seq' = seq + 1
        /\ LET m == [Unknown(req) EXCEPT !.state = "New", !.sequence = seq']
           IN  IF IsStop(req.type) /\ ~Elected(req)
                 THEN /\ orders' = [orders EXCEPT ![id] = [m EXCEPT !.state = "Accepted"]]
                      /\ parked' = Append(parked, id)
                      /\ UNCHANGED <<totals, taker, loop>>
                 ELSE /\ Run(id, m, Effective(req.type))
                      /\ UNCHANGED parked
  BY DEF Submit
<1> DEFINE m == [Unknown(req) EXCEPT !.state = "New", !.sequence = seq']
<1>2. /\ id \in Ids /\ req \in Requests
      /\ orders = [j \in Ids |-> orders[j]] /\ taker = NoTaker /\ loop = "idle" /\ seq \in Nat
      /\ UNCHANGED <<market, book, lastTrade, historical>>
  <2>1. market \in DOMAIN Markets
    BY DEF IInv
  <2>2. id \in Ids
    BY <2>1, MarketAssumption DEF Ids
  <2> QED
    BY <1>1, <2>1, <2>2, RequestFacts DEF IInv, TakerOK, Submit
<1>3. /\ m.filled = 0 /\ m.cancelled = 0 /\ m.inBook = FALSE /\ m.entered = FALSE
      /\ m.sequence = seq + 1 /\ m.state = "New" /\ m.req = req
  BY <1>1, <1>2, UnknownFacts
<1>4. m \in Meta
  <2>1. seq' \in Nat
    BY <1>1, <1>2
  <2>2. SoundRecord(m, 0)
    BY <1>2, <2>1, EnteringFacts
  <2> QED BY <2>2 DEF SoundRecord
<1>5. orders[id].state = "Unknown" /\ \A j \in 1..(id - 1) : Known(j)
  BY <1>1 DEF Fresh, Known
<1>6. /\ ~orders[id].entered /\ orders[id].filled = 0 /\ orders[id].cancelled = 0
      /\ ~orders[id].inBook
  <2>1. SoundRecord(orders[id], 0)
    BY <1>2, OrderFacts DEF InFlight
  <2> QED BY <1>5, <2>1, NotEnteredFacts DEF SoundRecord
<1>7. CASE IsStop(req.type) /\ ~Elected(req)
  <2> DEFINE r == [m EXCEPT !.state = "Accepted"]
  <2>1. /\ orders' = [orders EXCEPT ![id] = r] /\ parked' = Append(parked, id)
        /\ UNCHANGED <<totals, taker, loop>>
    BY <1>1, <1>7
  <2>2. /\ r.req = m.req /\ r.entered = m.entered /\ r.sequence = m.sequence
        /\ r.filled = m.filled /\ r.cancelled = m.cancelled /\ r.inBook = m.inBook
        /\ r.state = "Accepted"
    <3> HIDE DEF m
    <3> QED BY <1>4, StateFields
  <2> HIDE DEF r, m
  <2>3. orders'[id] = r /\ \A j \in Ids \ {id} : orders'[j] = orders[j]
    BY <1>2, <2>1
  <2>4. Enters(id)
    BY <1>1, <1>2, <1>3, <1>5, <1>6, <2>1, <2>2, <2>3 DEF Enters
  <2>5. ~Elected(orders'[id].req)
    BY <1>3, <1>7, <2>2, <2>3
  <2> QED BY <1>2, <1>5, <2>1, <2>4, <2>5 DEF Known
<1>8. CASE ~(IsStop(req.type) /\ ~Elected(req))
  <2>1. Run(id, m, Effective(m.req.type)) /\ UNCHANGED parked /\ seq' = seq + 1
    BY <1>1, <1>3, <1>8
  <2> HIDE DEF m
  <2>2. Enters(id)
    BY <1>2, <1>3, <1>4, <1>5, <1>6, <2>1, RunEnters
  <2> QED BY <1>2, <1>5, <2>1, <2>2 DEF Known
<1> QED BY <1>7, <1>8

LEMMA FireStopDoes ==
  ASSUME IInv, FireStop
  PROVE  \E i \in 1..Len(parked) :
           /\ Enters(parked[i]) /\ Known(parked[i]) /\ loop = "stops"
           /\ parked' = RemoveAt(parked, i) /\ parked[i] \in Ids
<1>1. PICK i \in 1..Len(parked) :
        /\ parked' = Unparked(i)
        /\ seq' = seq + 1
        /\ Run(parked[i], [orders[parked[i]] EXCEPT !.sequence = seq'],
               Effective(orders[parked[i]].req.type))
  BY DEF FireStop
<1> DEFINE id == parked[i]
           o == orders[id]
           m == [o EXCEPT !.sequence = seq']
<1>2. /\ id \in Ids /\ o.state = "Accepted" /\ ~o.entered /\ loop = "stops" /\ seq \in Nat
      /\ UNCHANGED <<market, book, lastTrade, historical>>
  BY <1>1 DEF IInv, StopsParked, FireStop
<1>3. SoundRecord(o, 0)
  <2>1. InFlight(id) = 0
    BY <1>2 DEF InFlight
  <2> QED BY <1>2, <2>1, OrderFacts
<1>4. o \in Meta /\ o.filled = 0 /\ o.cancelled = 0 /\ ~o.inBook
  BY <1>2, <1>3, NotEnteredFacts
<1>5. /\ m.filled = o.filled /\ m.cancelled = o.cancelled /\ m.inBook = o.inBook
      /\ m.entered = o.entered /\ m.req = o.req /\ m.state = o.state /\ m.sequence = seq'
  BY <1>4, StateFields
<1>6. m \in Meta
  <2> DEFINE q == seq'
  <2>1. o \in Meta /\ q \in Nat /\ TRUE \in BOOLEAN /\ "New" \in States
    BY <1>1, <1>2, <1>4 DEF States
  <2> HIDE DEF q, o
  <2>2. [o EXCEPT !.sequence = q] \in Meta
    BY <2>1, MetaUpdates, Zenon
  <2> QED BY <2>2 DEF q, o
<1>7. Run(id, m, Effective(m.req.type))
  BY <1>1, <1>5
<1> HIDE DEF m
<1>8. Enters(id)
  BY <1>1, <1>2, <1>4, <1>5, <1>6, <1>7, RunEnters
<1> QED BY <1>1, <1>2, <1>8 DEF Known, Unparked

-----------------------------------------------------------------------------
(* The totals.                                                             *)

LEMMA CountsUnchanged ==
  ASSUME IInv, IInv', Counts, \A id \in Ids : orders'[id] = orders[id], UNCHANGED totals
  PROVE  Counts'
<1>1. orders' = orders
  BY DEF IInv
<1> QED BY <1>1 DEF Counts

LEMMA OrdersTypedNext == ASSUME IInv, IInv' PROVE orders \in [Ids -> Meta] /\ orders' \in [Ids -> Meta]
<1>1. \A id \in Ids : orders'[id] \in Meta
  BY DEF IInv, SoundOrders, SoundRecord
<1>2. orders' \in [Ids -> Meta]
  BY <1>1 DEF IInv
<1> QED BY <1>2, OrdersTyped

LEMMA CountsOne ==
  ASSUME IInv, IInv', Counts, NEW a \in Ids, \A id \in Ids \ {a} : orders'[id] = orders[id],
         totals' = [submitted |-> totals.submitted + CountedIn(orders'[a]) - CountedIn(orders[a]),
                    filled |-> totals.filled + orders'[a].filled - orders[a].filled,
                    cancelled |-> totals.cancelled + orders'[a].cancelled - orders[a].cancelled]
  PROVE  Counts'
<1> DEFINE o == orders
           p == orders'
<1>1. o \in [Ids -> Meta] /\ p \in [Ids -> Meta] /\ \A id \in Ids \ {a} : p[id] = o[id]
  BY OrdersTypedNext
<1>2. totals = [submitted |-> CountedOf(o), filled |-> FilledOf(o), cancelled |-> CancelledOf(o)]
  BY DEF Counts
<1>3. Counts' <=>
        totals' = [submitted |-> CountedOf(p), filled |-> FilledOf(p), cancelled |-> CancelledOf(p)]
  BY DEF Counts, CountedOf, FilledOf, CancelledOf
<1>4. totals' = [submitted |-> totals.submitted + CountedIn(p[a]) - CountedIn(o[a]),
                 filled |-> totals.filled + p[a].filled - o[a].filled,
                 cancelled |-> totals.cancelled + p[a].cancelled - o[a].cancelled]
  OBVIOUS
<1> HIDE DEF o, p
<1>5. /\ FilledOf(p) = FilledOf(o) + p[a].filled - o[a].filled
      /\ CancelledOf(p) = CancelledOf(o) + p[a].cancelled - o[a].cancelled
      /\ CountedOf(p) = CountedOf(o) + CountedIn(p[a]) - CountedIn(o[a])
  BY <1>1, SumsOne
<1>6. /\ totals.submitted = CountedOf(o) /\ totals.filled = FilledOf(o)
      /\ totals.cancelled = CancelledOf(o)
  BY <1>2
<1> QED BY <1>3, <1>4, <1>5, <1>6, Zenon

LEMMA CountsTwo ==
  ASSUME IInv, IInv', Counts, NEW a \in Ids, NEW b \in Ids, a /= b,
         \A id \in Ids \ {a, b} : orders'[id] = orders[id],
         totals' = [submitted |-> totals.submitted + (CountedIn(orders'[a]) - CountedIn(orders[a]))
                                                   + (CountedIn(orders'[b]) - CountedIn(orders[b])),
                    filled |-> totals.filled + (orders'[a].filled - orders[a].filled)
                                             + (orders'[b].filled - orders[b].filled),
                    cancelled |-> totals.cancelled + (orders'[a].cancelled - orders[a].cancelled)
                                                   + (orders'[b].cancelled - orders[b].cancelled)]
  PROVE  Counts'
<1> DEFINE o == orders
           p == orders'
<1>1. o \in [Ids -> Meta] /\ p \in [Ids -> Meta] /\ \A id \in Ids \ {a, b} : p[id] = o[id]
  BY OrdersTypedNext
<1>2. totals = [submitted |-> CountedOf(o), filled |-> FilledOf(o), cancelled |-> CancelledOf(o)]
  BY DEF Counts
<1>3. Counts' <=>
        totals' = [submitted |-> CountedOf(p), filled |-> FilledOf(p), cancelled |-> CancelledOf(p)]
  BY DEF Counts, CountedOf, FilledOf, CancelledOf
<1>4. totals' = [submitted |-> totals.submitted + (CountedIn(p[a]) - CountedIn(o[a]))
                                                + (CountedIn(p[b]) - CountedIn(o[b])),
                 filled |-> totals.filled + (p[a].filled - o[a].filled)
                                          + (p[b].filled - o[b].filled),
                 cancelled |-> totals.cancelled + (p[a].cancelled - o[a].cancelled)
                                                + (p[b].cancelled - o[b].cancelled)]
  OBVIOUS
<1> HIDE DEF o, p
<1>5. /\ FilledOf(p) = FilledOf(o) + (p[a].filled - o[a].filled) + (p[b].filled - o[b].filled)
      /\ CancelledOf(p) = CancelledOf(o) + (p[a].cancelled - o[a].cancelled)
                                         + (p[b].cancelled - o[b].cancelled)
      /\ CountedOf(p) = CountedOf(o) + (CountedIn(p[a]) - CountedIn(o[a]))
                                     + (CountedIn(p[b]) - CountedIn(o[b]))
  BY <1>1, SumsTwo
<1>6. /\ totals.submitted = CountedOf(o) /\ totals.filled = FilledOf(o)
      /\ totals.cancelled = CancelledOf(o)
  BY <1>2
<1> QED BY <1>3, <1>4, <1>5, <1>6, Zenon

LEMMA TotalsTyped ==
  ASSUME IInv, Counts
  PROVE  /\ totals = [submitted |-> totals.submitted, filled |-> totals.filled,
                      cancelled |-> totals.cancelled]
         /\ totals.submitted \in Int /\ totals.filled \in Int /\ totals.cancelled \in Int
<1>1. orders \in [Ids -> Meta]
  BY OrdersTyped
<1>2. FilledOf(orders) \in Int /\ CancelledOf(orders) \in Int /\ CountedOf(orders) \in Int
  BY <1>1, SumsTyped
<1> QED BY <1>2 DEF Counts

LEMMA CountsStep ==
  ASSUME IInv, IInv', Counts, Next
  PROVE  Counts'
<1>1. \A id \in Ids : /\ orders[id] \in Meta
                      /\ orders[id].filled \in Int /\ orders[id].cancelled \in Int
                      /\ orders[id].resting \in Int /\ orders[id].hidden \in Int
                      /\ CountedIn(orders[id]) \in Int
  <2>1. \A id \in Ids : orders[id] \in Meta
    BY OrdersTyped
  <2> QED BY <2>1, MetaFields DEF CountedIn
<1>2. \A m, r : r.req = m.req /\ r.entered = m.entered => CountedIn(r) = CountedIn(m)
  BY DEF CountedIn
<1>3. /\ totals = [submitted |-> totals.submitted, filled |-> totals.filled,
                   cancelled |-> totals.cancelled]
      /\ totals.submitted \in Int /\ totals.filled \in Int /\ totals.cancelled \in Int
  BY TotalsTyped
<1>4. /\ \A x, y \in Int : x + y - y = x
      /\ \A x, y, q \in Int : x + (y + q) - y = x + q
  OBVIOUS
<1>5. CASE Trade
  <2>1. PICK e \in book : \E qty \in 1..e.shares :
          /\ e.ref \in Ids /\ taker.id \in Ids /\ e.ref /= taker.id
          /\ orders'[e.ref] = MakerFilled(orders[e.ref], qty)
          /\ orders'[taker.id] = [orders[taker.id] EXCEPT !.filled = @ + qty]
          /\ \A id \in Ids \ {e.ref, taker.id} : orders'[id] = orders[id]
          /\ totals' = [totals EXCEPT !.filled = @ + 2 * qty]
    BY <1>5, TradeDoes
  <2>2. PICK qty \in 1..e.shares :
          /\ orders'[e.ref] = MakerFilled(orders[e.ref], qty)
          /\ orders'[taker.id] = [orders[taker.id] EXCEPT !.filled = @ + qty]
          /\ totals' = [totals EXCEPT !.filled = @ + 2 * qty]
    BY <2>1
  <2> DEFINE m == orders[e.ref]
             n == orders[taker.id]
             mm == orders'[e.ref]
             nn == orders'[taker.id]
  <2>3. /\ mm.filled = m.filled + qty /\ mm.cancelled = m.cancelled
        /\ mm.req = m.req /\ mm.entered = m.entered
    BY <1>1, <2>1, <2>2, MakerFields
  <2>4. /\ nn.filled = n.filled + qty /\ nn.cancelled = n.cancelled
        /\ nn.req = n.req /\ nn.entered = n.entered
    <3>1. n \in Meta /\ nn = [n EXCEPT !.filled = @ + qty]
      BY <1>1, <2>1, <2>2
    <3> HIDE DEF n, nn
    <3> QED BY <3>1, TakerFields
  <2>5. CountedIn(mm) = CountedIn(m) /\ CountedIn(nn) = CountedIn(n)
    <3> HIDE DEF m, n, mm, nn
    <3> QED BY <1>2, <2>3, <2>4
  <2>6. qty \in Int
    OBVIOUS
  <2>7. /\ \A x, y, z \in Int : x + (y - y) + (z - z) = x
        /\ \A x, y, z \in Int : x + ((y + qty) - y) + ((z + qty) - z) = x + 2 * qty
    BY <2>6
  <2>8. totals' = [submitted |-> totals.submitted, filled |-> totals.filled + 2 * qty,
                   cancelled |-> totals.cancelled]
    BY <1>3, <2>2
  <2>9. /\ m.filled \in Int /\ n.filled \in Int /\ m.cancelled \in Int /\ n.cancelled \in Int
        /\ CountedIn(m) \in Int /\ CountedIn(n) \in Int
    BY <1>1, <2>1
  <2>10. totals' =
           [submitted |-> totals.submitted + (CountedIn(mm) - CountedIn(m))
                                           + (CountedIn(nn) - CountedIn(n)),
            filled |-> totals.filled + (mm.filled - m.filled) + (nn.filled - n.filled),
            cancelled |-> totals.cancelled + (mm.cancelled - m.cancelled)
                                           + (nn.cancelled - n.cancelled)]
    <3> HIDE DEF m, n, mm, nn
    <3>1. totals.submitted + (CountedIn(mm) - CountedIn(m)) + (CountedIn(nn) - CountedIn(n))
            = totals.submitted
      BY <1>3, <2>5, <2>7, <2>9
    <3>2. totals.filled + (mm.filled - m.filled) + (nn.filled - n.filled) = totals.filled + 2 * qty
      BY <1>3, <2>3, <2>4, <2>7, <2>9
    <3>3. totals.cancelled + (mm.cancelled - m.cancelled) + (nn.cancelled - n.cancelled)
            = totals.cancelled
      BY <1>3, <2>3, <2>4, <2>7, <2>9
    <3> QED BY <2>8, <3>1, <3>2, <3>3, Zenon
  <2> QED BY <2>1, <2>10, CountsTwo
<1>6. CASE TradeExternal
  <2>1. PICK e \in book : \E qty \in 1..e.shares :
          /\ taker.id \in Ids
          /\ orders'[taker.id] = [orders[taker.id] EXCEPT !.filled = @ + qty]
          /\ \A id \in Ids \ {taker.id} : orders'[id] = orders[id]
          /\ totals' = [totals EXCEPT !.filled = @ + qty]
    BY <1>6, TradeExternalDoes
  <2>2. PICK qty \in 1..e.shares :
          /\ orders'[taker.id] = [orders[taker.id] EXCEPT !.filled = @ + qty]
          /\ totals' = [totals EXCEPT !.filled = @ + qty]
    BY <2>1
  <2> DEFINE m == orders[taker.id]
             mm == orders'[taker.id]
  <2>3. /\ mm.filled = m.filled + qty /\ mm.cancelled = m.cancelled
        /\ mm.req = m.req /\ mm.entered = m.entered
    <3>1. m \in Meta /\ mm = [m EXCEPT !.filled = @ + qty]
      BY <1>1, <2>1, <2>2
    <3> HIDE DEF m, mm
    <3> QED BY <3>1, TakerFields
  <2>4. m.filled \in Int /\ m.cancelled \in Int /\ CountedIn(m) \in Int /\ qty \in Int
    BY <1>1, <2>1
  <2>5. totals' = [submitted |-> totals.submitted, filled |-> totals.filled + qty,
                   cancelled |-> totals.cancelled]
    BY <1>3, <2>2
  <2>6. totals' = [submitted |-> totals.submitted + CountedIn(mm) - CountedIn(m),
                   filled |-> totals.filled + mm.filled - m.filled,
                   cancelled |-> totals.cancelled + mm.cancelled - m.cancelled]
    <3> HIDE DEF m, mm
    <3>1. CountedIn(mm) = CountedIn(m)
      BY <1>2, <2>3
    <3> QED BY <1>3, <1>4, <2>3, <2>4, <2>5, <3>1
  <2> QED BY <2>1, <2>6, CountsOne
<1>7. CASE ApplyExternalFill
  <2>1. PICK e \in book : \E qty \in 1..e.shares :
          /\ e.ref \in Ids
          /\ orders'[e.ref] = MakerFilled(orders[e.ref], qty)
          /\ \A id \in Ids \ {e.ref} : orders'[id] = orders[id]
          /\ totals' = [totals EXCEPT !.filled = @ + qty]
    BY <1>7, ApplyExternalFillDoes
  <2>2. PICK qty \in 1..e.shares :
          /\ orders'[e.ref] = MakerFilled(orders[e.ref], qty)
          /\ totals' = [totals EXCEPT !.filled = @ + qty]
    BY <2>1
  <2> DEFINE m == orders[e.ref]
             mm == orders'[e.ref]
  <2>3. /\ mm.filled = m.filled + qty /\ mm.cancelled = m.cancelled
        /\ mm.req = m.req /\ mm.entered = m.entered
    BY <1>1, <2>1, <2>2, MakerFields
  <2>4. m.filled \in Int /\ m.cancelled \in Int /\ CountedIn(m) \in Int /\ qty \in Int
    BY <1>1, <2>1
  <2>5. totals' = [submitted |-> totals.submitted, filled |-> totals.filled + qty,
                   cancelled |-> totals.cancelled]
    BY <1>3, <2>2
  <2>6. totals' = [submitted |-> totals.submitted + CountedIn(mm) - CountedIn(m),
                   filled |-> totals.filled + mm.filled - m.filled,
                   cancelled |-> totals.cancelled + mm.cancelled - m.cancelled]
    <3> HIDE DEF m, mm
    <3>1. CountedIn(mm) = CountedIn(m)
      BY <1>2, <2>3
    <3> QED BY <1>3, <1>4, <2>3, <2>4, <2>5, <3>1
  <2> QED BY <2>1, <2>6, CountsOne
<1>8. CASE EndFilled \/ EndRests \/ EndCancelled \/ CancelNewest
  <2>1. PICK gone \in {0, taker.remaining} :
           /\ loop = "match" /\ taker.id \in Ids
           /\ Same(orders[taker.id], orders'[taker.id])
           /\ orders'[taker.id].filled = orders[taker.id].filled
           /\ orders'[taker.id].cancelled = orders[taker.id].cancelled + gone
           /\ \A id \in Ids \ {taker.id} : orders'[id] = orders[id]
           /\ totals' = [totals EXCEPT !.cancelled = @ + gone]
    BY <1>8, SettleDoes
  <2> DEFINE m == orders[taker.id]
             mm == orders'[taker.id]
  <2>2. taker.remaining \in Nat
    BY <2>1, TakerFacts
  <2>3. /\ mm.filled = m.filled /\ mm.cancelled = m.cancelled + gone
        /\ mm.req = m.req /\ mm.entered = m.entered
    BY <2>1 DEF Same
  <2>4. m.filled \in Int /\ m.cancelled \in Int /\ CountedIn(m) \in Int /\ gone \in Int
    BY <1>1, <2>1, <2>2
  <2>5. totals' = [submitted |-> totals.submitted, filled |-> totals.filled,
                   cancelled |-> totals.cancelled + gone]
    BY <1>3, <2>1
  <2>6. totals' = [submitted |-> totals.submitted + CountedIn(mm) - CountedIn(m),
                   filled |-> totals.filled + mm.filled - m.filled,
                   cancelled |-> totals.cancelled + mm.cancelled - m.cancelled]
    <3> HIDE DEF m, mm
    <3>1. CountedIn(mm) = CountedIn(m)
      BY <1>2, <2>3
    <3> QED BY <1>3, <1>4, <2>3, <2>4, <2>5, <3>1
  <2> QED BY <2>1, <2>6, CountsOne
<1>9. CASE Cancel \/ CancelOldest
  <2>1. PICK id \in Ids :
           /\ orders'[id] = WithCancelled(orders[id])
           /\ \A j \in Ids \ {id} : orders'[j] = orders[j]
           /\ CancelMeta(id)
    BY <1>9, CancelDoes
  <2> DEFINE m == orders[id]
             mm == orders'[id]
             gone == m.resting + m.hidden
  <2>3. /\ mm.filled = m.filled /\ mm.cancelled = m.cancelled + m.resting + m.hidden
        /\ mm.req = m.req /\ mm.entered = m.entered
    BY <1>1, <2>1, CancelledFields
  <2>4. /\ m.filled \in Int /\ m.cancelled \in Int /\ CountedIn(m) \in Int
        /\ m.resting \in Int /\ m.hidden \in Int
    BY <1>1, <2>1
  <2>5. totals' = [submitted |-> totals.submitted, filled |-> totals.filled,
                   cancelled |-> totals.cancelled + m.resting + m.hidden]
    BY <1>3, <2>1 DEF CancelMeta
  <2>6. totals' = [submitted |-> totals.submitted + CountedIn(mm) - CountedIn(m),
                   filled |-> totals.filled + mm.filled - m.filled,
                   cancelled |-> totals.cancelled + mm.cancelled - m.cancelled]
    <3> HIDE DEF m, mm
    <3>1. CountedIn(mm) = CountedIn(m)
      BY <1>2, <2>3
    <3>2. \A x, y, a, b \in Int : x + (y + a + b) - y = x + a + b
      OBVIOUS
    <3>3. totals.cancelled + mm.cancelled - m.cancelled = totals.cancelled + m.resting + m.hidden
      <4>1. mm.cancelled = m.cancelled + m.resting + m.hidden /\ totals.cancelled \in Int
        BY <1>3, <1>4, <2>3
      <4> QED BY <2>4, <3>2, <4>1
    <3>4. \A x, y \in Int : x + y - y = x
      OBVIOUS
    <3>5. totals.submitted + CountedIn(mm) - CountedIn(m) = totals.submitted
      BY <1>3, <1>4, <2>4, <3>1, <3>4
    <3>6. totals.filled + mm.filled - m.filled = totals.filled
      BY <1>3, <1>4, <2>3, <2>4, <3>4
    <3> QED BY <2>5, <3>3, <3>5, <3>6
  <2> QED BY <2>1, <2>6, CountsOne
<1>10. CASE CancelBoth
  <2>1. PICK id \in Ids :
           /\ loop = "match" /\ taker.id \in Ids /\ id /= taker.id
           /\ orders'[id] = WithCancelled(orders[id])
           /\ orders'[taker.id] = RemainderCancelled
           /\ \A j \in Ids \ {id, taker.id} : orders'[j] = orders[j]
           /\ totals' = [totals EXCEPT !.cancelled =
                           @ + orders[id].resting + orders[id].hidden + taker.remaining]
    BY <1>10, CancelBothDoes
  <2> DEFINE m == orders[id]
             n == orders[taker.id]
             mm == orders'[id]
             nn == orders'[taker.id]
             left == taker.remaining
  <2>3. /\ mm.filled = m.filled /\ mm.cancelled = m.cancelled + m.resting + m.hidden
        /\ mm.req = m.req /\ mm.entered = m.entered
    BY <1>1, <2>1, CancelledFields
  <2>4. /\ nn.filled = n.filled /\ nn.cancelled = n.cancelled + left
        /\ nn.req = n.req /\ nn.entered = n.entered
    <3>1. n \in Meta /\ nn = [n EXCEPT !.cancelled = @ + left, !.state = "Cancelled"]
      BY <1>1, <2>1 DEF RemainderCancelled
    <3> HIDE DEF n, nn, left
    <3> QED BY <3>1, TakerFields
  <2>5. /\ m.filled \in Int /\ m.cancelled \in Int /\ CountedIn(m) \in Int
        /\ n.filled \in Int /\ n.cancelled \in Int /\ CountedIn(n) \in Int
        /\ m.resting \in Int /\ m.hidden \in Int
    BY <1>1, <2>1
  <2>6. left \in Int
    BY <2>1, TakerFacts
  <2>7. totals' = [submitted |-> totals.submitted, filled |-> totals.filled,
                   cancelled |-> totals.cancelled + m.resting + m.hidden + left]
    BY <1>3, <2>1
  <2>8. \A x, y, z \in Int : x + (y - y) + (z - z) = x
    OBVIOUS
  <2>9. totals' =
          [submitted |-> totals.submitted + (CountedIn(mm) - CountedIn(m))
                                          + (CountedIn(nn) - CountedIn(n)),
           filled |-> totals.filled + (mm.filled - m.filled) + (nn.filled - n.filled),
           cancelled |-> totals.cancelled + (mm.cancelled - m.cancelled)
                                          + (nn.cancelled - n.cancelled)]
    <3> HIDE DEF m, n, mm, nn, left
    <3>1. CountedIn(mm) = CountedIn(m) /\ CountedIn(nn) = CountedIn(n)
      BY <1>2, <2>3, <2>4
    <3>2. totals.submitted + (CountedIn(mm) - CountedIn(m)) + (CountedIn(nn) - CountedIn(n))
            = totals.submitted
      BY <1>3, <2>5, <2>8, <3>1
    <3>3. totals.filled + (mm.filled - m.filled) + (nn.filled - n.filled) = totals.filled
      <4>1. totals.filled + (m.filled - m.filled) + (n.filled - n.filled) = totals.filled
        BY <1>3, <2>5
      <4> QED BY <2>3, <2>4, <4>1
    <3>4. totals.cancelled + (mm.cancelled - m.cancelled) + (nn.cancelled - n.cancelled)
            = totals.cancelled + m.resting + m.hidden + left
      <4>1. totals.cancelled + ((m.cancelled + m.resting + m.hidden) - m.cancelled)
                             + ((n.cancelled + left) - n.cancelled)
              = totals.cancelled + m.resting + m.hidden + left
        BY <1>3, <2>5, <2>6
      <4> QED BY <2>3, <2>4, <4>1
    <3> QED BY <2>7, <3>2, <3>3, <3>4, Zenon
  <2> QED BY <2>1, <2>9, CountsTwo
<1>11. CASE SubmitInvalid \/ Submit \/ FireStop
  <2>1. PICK id \in Ids : Enters(id)
    BY <1>11, SubmitInvalidDoes, SubmitDoes, FireStopDoes
  <2> DEFINE m == orders[id]
             mm == orders'[id]
  <2>2. /\ mm.filled = 0 /\ mm.cancelled = 0 /\ m.filled = 0 /\ m.cancelled = 0
        /\ \A j \in Ids \ {id} : orders'[j] = orders[j]
        /\ CountedIn(m) = 0
    BY <2>1 DEF Enters, CountedIn
  <2>3. CountedIn(mm) \in Int
    BY OrdersTypedNext, MetaFields DEF CountedIn
  <2>4. totals' = [submitted |-> totals.submitted + CountedIn(mm), filled |-> totals.filled,
                   cancelled |-> totals.cancelled]
    <3>1. CASE mm.entered
      <4>1. totals' = [totals EXCEPT !.submitted = @ + mm.req.quantity]
        BY <2>1, <3>1 DEF Enters
      <4> QED BY <1>3, <3>1, <4>1 DEF CountedIn
    <3>2. CASE ~mm.entered
      <4>1. UNCHANGED totals /\ CountedIn(mm) = 0
        BY <2>1, <3>2 DEF Enters, CountedIn
      <4>2. totals.submitted + 0 = totals.submitted
        BY <1>3
      <4> HIDE DEF mm
      <4> QED BY <1>3, <4>1, <4>2
    <3> QED BY <3>1, <3>2
  <2>5. \A x, y \in Int : x + y - 0 = x + y /\ x + 0 - 0 = x
    OBVIOUS
  <2>6. totals' = [submitted |-> totals.submitted + CountedIn(mm) - CountedIn(m),
                   filled |-> totals.filled + mm.filled - m.filled,
                   cancelled |-> totals.cancelled + mm.cancelled - m.cancelled]
    <3> HIDE DEF m, mm
    <3> QED BY <1>3, <2>2, <2>3, <2>4, <2>5
  <2> QED BY <2>2, <2>6, CountsOne
<1>12. CASE FeedAdd \/ FeedReduce \/ PumpStops \/ StopsQuiet
  BY <1>12, CountsUnchanged DEF FeedAdd, FeedReduce, PumpStops, StopsQuiet
<1> QED BY <1>5, <1>6, <1>7, <1>8, <1>9, <1>10, <1>11, <1>12 DEF Next, Engine, Match

LEMMA CountsInit == ASSUME Init, IInv PROVE Counts
<1>1. IsFiniteSet(Ids)
  BY OrdersTyped
<1>2. \A id \in Ids : /\ orders[id].filled = 0 /\ orders[id].cancelled = 0
                      /\ ~orders[id].entered
  BY DEF Init, Unknown
<1>3. FilledOf(orders) = 0
  <2> DEFINE f == [id \in Ids |-> orders[id].filled]
  <2>1. \A id \in Ids : f[id] = 0
    BY <1>2
  <2> HIDE DEF f
  <2>2. SumFunctionOnSet(f, Ids) = 0
    BY <1>1, <2>1, SumZeros
  <2> QED BY <2>2 DEF FilledOf, f
<1>4. CancelledOf(orders) = 0
  <2> DEFINE f == [id \in Ids |-> orders[id].cancelled]
  <2>1. \A id \in Ids : f[id] = 0
    BY <1>2
  <2> HIDE DEF f
  <2>2. SumFunctionOnSet(f, Ids) = 0
    BY <1>1, <2>1, SumZeros
  <2> QED BY <2>2 DEF CancelledOf, f
<1>5. CountedOf(orders) = 0
  <2> DEFINE f == [id \in Ids |-> CountedIn(orders[id])]
  <2>1. \A id \in Ids : f[id] = 0
    BY <1>2 DEF CountedIn
  <2> HIDE DEF f
  <2>2. SumFunctionOnSet(f, Ids) = 0
    BY <1>1, <2>1, SumZeros
  <2> QED BY <2>2 DEF CountedOf, f
<1> QED BY <1>3, <1>4, <1>5 DEF Init, Counts

\* Order by order shares are conserved, so they are in all.
LEMMA CountsBalance == ASSUME IInv, Counts PROVE TotalsBalance
<1>1. IsFiniteSet(Ids)
  BY OrdersTyped
<1> DEFINE f == [id \in Ids |-> orders[id].filled]
           c == [id \in Ids |-> orders[id].cancelled]
           g == [id \in Ids |-> orders[id].filled + orders[id].cancelled]
           h == [id \in Ids |-> orders[id].resting + orders[id].hidden + InFlight(id)]
           k == [id \in Ids |-> CountedIn(orders[id])]
<1>2. \A id \in Ids :
        /\ orders[id].filled \in Int /\ orders[id].cancelled \in Int
        /\ orders[id].resting \in Int /\ orders[id].hidden \in Int /\ InFlight(id) \in Int
        /\ orders[id].filled + orders[id].cancelled + orders[id].resting + orders[id].hidden
             + InFlight(id) = CountedIn(orders[id])
  <2> TAKE id \in Ids
  <2>1. SoundRecord(orders[id], InFlight(id))
    BY DEF IInv, SoundOrders
  <2>2. InFlight(id) \in Int
    BY DEF InFlight, IInv, TakerOK
  <2>3. orders[id] \in Meta
    BY <2>1 DEF SoundRecord
  <2> QED BY <2>1, <2>2, <2>3, MetaFields DEF SoundRecord, CountedIn
<1>3. \A id \in Ids : f[id] \in Int /\ c[id] \in Int /\ g[id] \in Int /\ h[id] \in Int
                      /\ g[id] = f[id] + c[id]
  BY <1>2
<1>4. \A id \in Ids : k[id] = g[id] + h[id]
  <2>1. \A v, w, x, y, z \in Int : v + w + x + y + z = (v + w) + (x + y + z)
    OBVIOUS
  <2> QED BY <1>2, <2>1
<1>5. /\ SumFunction(f) = SumFunctionOnSet(f, Ids) /\ SumFunction(c) = SumFunctionOnSet(c, Ids)
      /\ SumFunction(h) = SumFunctionOnSet(h, Ids)
  <2>1. /\ SumFunction(f) = SumFunctionOnSet(f, DOMAIN f)
        /\ SumFunction(c) = SumFunctionOnSet(c, DOMAIN c)
        /\ SumFunction(h) = SumFunctionOnSet(h, DOMAIN h)
    BY DEF SumFunction, SumFunctionOnSet, FoldFunction
  <2> QED BY <2>1
<1>6. /\ FilledOf(orders) = SumFunctionOnSet(f, Ids)
      /\ CancelledOf(orders) = SumFunctionOnSet(c, Ids)
      /\ CountedOf(orders) = SumFunctionOnSet(k, Ids)
  BY DEF FilledOf, CancelledOf, CountedOf
<1>7. TotalsBalance <=> /\ totals.filled = SumFunction(f) /\ totals.cancelled = SumFunction(c)
                        /\ totals.submitted = totals.filled + totals.cancelled + SumFunction(h)
  BY DEF TotalsBalance
<1>8. /\ totals.submitted = CountedOf(orders) /\ totals.filled = FilledOf(orders)
      /\ totals.cancelled = CancelledOf(orders)
  BY DEF Counts
<1> HIDE DEF f, c, g, h, k
<1>9. SumFunctionOnSet(g, Ids) = SumFunctionOnSet(f, Ids) + SumFunctionOnSet(c, Ids)
  BY <1>1, <1>3, SumPlus
<1>10. SumFunctionOnSet(k, Ids) = SumFunctionOnSet(g, Ids) + SumFunctionOnSet(h, Ids)
  BY <1>1, <1>3, <1>4, SumPlus
<1> QED BY <1>5, <1>6, <1>7, <1>8, <1>9, <1>10

-----------------------------------------------------------------------------
(* The queues.                                                             *)

LEMMA SideFacts ==
  /\ \A s \in Sides : Opposite(s) \in Sides /\ Opposite(s) /= s /\ Opposite(Opposite(s)) = s
  /\ \A s, t \in Sides : s /= t => t = Opposite(s)
BY DEF Sides, Opposite

\* An entry that joins has a place of its own, behind all others.
LEMMA NextPlace ==
  ASSUME NEW bk, IsFiniteSet(bk), \A e \in bk : e.place \in Nat
  PROVE  LET p == 1 + Max({0} \union {e.place : e \in bk})
         IN  p \in Nat /\ \A e \in bk : e.place < p
<1> DEFINE P == {e.place : e \in bk}
           S == {0} \union P
           m == Max(S)
<1>1. IsFiniteSet(P)
  <2> DEFINE f == [e \in bk |-> e.place]
  <2>1. f \in Surjection(bk, P)
    BY DEF Surjection
  <2> QED BY <2>1, FS_Surjection
<1>2. IsFiniteSet(S)
  <2> HIDE DEF P
  <2>1. S = P \union {0}
    OBVIOUS
  <2> QED BY <1>1, <2>1, FS_AddElement
<1>3. S \in SUBSET Nat /\ S /= {} /\ \A e \in bk : e.place \in S
  OBVIOUS
<1> HIDE DEF S, P
<1>4. m \in S /\ \A y \in S : m >= y
  BY <1>2, <1>3, MaxFacts DEF Max
<1>5. m \in Nat /\ \A e \in bk : e.place \in Nat /\ m >= e.place
  BY <1>3, <1>4
<1> HIDE DEF m
<1>6. 1 + m \in Nat /\ \A e \in bk : e.place < 1 + m
  BY <1>5
<1> QED BY <1>6 DEF m, S, P

\* Entries that shrink or go keep the queues.
LEMMA QueuedShrinks ==
  ASSUME NEW bk, NEW stamp, Queued(bk, stamp), NEW bk2, NEW stamp2, IsFiniteSet(bk2),
         \A e \in bk2 : \E f \in bk : /\ f.ref = e.ref /\ f.side = e.side
                                      /\ f.price = e.price /\ f.place = e.place,
         \A e \in bk2 : Owned(e) => stamp2[e.ref] = stamp[e.ref]
  PROVE  Queued(bk2, stamp2)
<1>1. /\ \A e \in bk : e.side \in Sides /\ e.price \in Nat /\ e.place \in Nat
      /\ \A e, f \in bk : e.place = f.place => e.ref = f.ref
      /\ \A e, f \in bk :
           Owned(e) /\ Owned(f) /\ e.side = f.side /\ e.price = f.price /\ e.place < f.place
             => stamp[e.ref] < stamp[f.ref]
      /\ \A e, f \in bk :
           Owned(e) /\ Owned(f) /\ e.side = "buy" /\ f.side = "sell" => e.price < f.price
  BY DEF Queued
<1>2. \A e \in bk2 : e.side \in Sides /\ e.price \in Nat /\ e.place \in Nat
  BY <1>1
<1>3. \A e, f \in bk2 : e.place = f.place => e.ref = f.ref
  BY <1>1
<1>4. ASSUME NEW e \in bk2, NEW f \in bk2, Owned(e), Owned(f), e.side = f.side,
             e.price = f.price, e.place < f.place
      PROVE  stamp2[e.ref] < stamp2[f.ref]
  <2>1. PICK g \in bk : g.ref = e.ref /\ g.side = e.side /\ g.price = e.price /\ g.place = e.place
    OBVIOUS
  <2>2. PICK h \in bk : h.ref = f.ref /\ h.side = f.side /\ h.price = f.price /\ h.place = f.place
    OBVIOUS
  <2>3. stamp[g.ref] < stamp[h.ref]
    BY <1>1, <1>4, <2>1, <2>2 DEF Owned
  <2> QED BY <1>4, <2>1, <2>2, <2>3
<1>5. \A e, f \in bk2 :
        Owned(e) /\ Owned(f) /\ e.side = "buy" /\ f.side = "sell" => e.price < f.price
  BY <1>1 DEF Owned
<1> QED BY <1>2, <1>3, <1>4, <1>5 DEF Queued

\* An order of this number, side and price may join the book: it is not in
\* it, it comes after the orders of its side, and it crosses nothing.
MayJoin(bk, stamp, ref, side, price) ==
  /\ side \in Sides /\ price \in Nat
  /\ \A e \in bk : e.ref /= ref
  /\ ref \in Ids =>
       /\ \A e \in bk : Owned(e) /\ e.side = side => stamp[e.ref] < stamp[ref]
       /\ \A e \in bk : Owned(e) /\ e.side = Opposite(side)
                         => Better(Opposite(side), price, e.price)

LEMMA QueuedJoins ==
  ASSUME NEW bk, NEW stamp, Queued(bk, stamp), NEW ref, NEW side, NEW price, NEW shares,
         MayJoin(bk, stamp, ref, side, price)
  PROVE  Queued(Added(bk, ref, side, price, shares), stamp)
<1>0. /\ side \in Sides /\ price \in Nat
      /\ \A e \in bk : e.ref /= ref
      /\ ref \in Ids => \A e \in bk : Owned(e) /\ e.side = side => stamp[e.ref] < stamp[ref]
      /\ ref \in Ids => \A e \in bk : Owned(e) /\ e.side = Opposite(side)
                                        => Better(Opposite(side), price, e.price)
  BY DEF MayJoin
<1> DEFINE p == 1 + Max({0} \union {e.place : e \in bk})
           x == [ref |-> ref, side |-> side, price |-> price, shares |-> shares, place |-> p]
           bk2 == bk \union {x}
<1>1. p \in Nat /\ \A e \in bk : e.place < p
  BY NextPlace DEF Queued
<1>2. Added(bk, ref, side, price, shares) = bk2
  BY DEF Added
<1> HIDE DEF p
<1>3. x.ref = ref /\ x.side = side /\ x.price = price /\ x.place = p
  OBVIOUS
<1> HIDE DEF x
<1>4. IsFiniteSet(bk2)
  BY FS_AddElement DEF Queued
<1>5. \A e \in bk2 : e.side \in Sides /\ e.price \in Nat /\ e.place \in Nat
  BY <1>0, <1>1, <1>3 DEF Queued
<1>6. \A e, f \in bk2 : e.place = f.place => e.ref = f.ref
  BY <1>0, <1>1, <1>3 DEF Queued
<1>7. ASSUME NEW e \in bk2, NEW f \in bk2, Owned(e), Owned(f), e.side = f.side,
             e.price = f.price, e.place < f.place
      PROVE  stamp[e.ref] < stamp[f.ref]
  <2>1. e /= x
    BY <1>0, <1>1, <1>3, <1>7 DEF Queued
  <2>2. CASE f = x
    BY <1>0, <1>3, <1>7, <2>1, <2>2 DEF Owned
  <2>3. CASE f /= x
    BY <1>7, <2>1, <2>3 DEF Queued
  <2> QED BY <2>2, <2>3
<1>8. ASSUME NEW e \in bk2, NEW f \in bk2, Owned(e), Owned(f), e.side = "buy", f.side = "sell"
      PROVE  e.price < f.price
  <2>1. CASE e \in bk /\ f \in bk
    BY <1>8, <2>1 DEF Queued
  <2>2. CASE e = x /\ f \in bk
    BY <1>0, <1>3, <1>8, <2>2 DEF Owned, Better, Opposite
  <2>3. CASE f = x /\ e \in bk
    BY <1>0, <1>3, <1>8, <2>3 DEF Owned, Better, Opposite, Sides
  <2>4. CASE f = x /\ e = x
    BY <1>8, <2>4
  <2> QED BY <2>1, <2>2, <2>3, <2>4
<1>9. Queued(bk2, stamp)
  <2> HIDE DEF bk2
  <2> QED BY <1>4, <1>5, <1>6, <1>7, <1>8 DEF Queued
<1> QED BY <1>2, <1>9

LEMMA RemovedShrinks ==
  ASSUME NEW bk, IsFiniteSet(bk), NEW id
  PROVE  /\ IsFiniteSet(Removed(bk, id)) /\ Removed(bk, id) \subseteq bk
         /\ \A e \in Removed(bk, id) : e.ref /= id
<1>1. Removed(bk, id) \subseteq bk
  BY DEF Removed
<1> QED BY <1>1, FS_Subset DEF Removed

LEMMA ReducedShrinks ==
  ASSUME NEW bk, NEW shown, NEW n, AgreesWith(bk, shown, n), IsFiniteSet(bk),
         NEW e \in bk, NEW qty \in 1..e.shares
  PROVE  /\ IsFiniteSet(Reduced(bk, e, qty))
         /\ \A f \in Reduced(bk, e, qty) : \E g \in bk :
              g.ref = f.ref /\ g.side = f.side /\ g.price = f.price /\ g.place = f.place
         /\ qty = e.shares => Reduced(bk, e, qty) = bk \ {e}
<1>1. IsFiniteSet(bk \ {e})
  BY FS_RemoveElement
<1>2. e.shares \in Nat
  BY DEF AgreesWith
<1>3. CASE qty >= e.shares
  <2>1. Reduced(bk, e, qty) = bk \ {e}
    BY <1>3 DEF Reduced
  <2> QED BY <1>1, <2>1
<1>4. CASE ~(qty >= e.shares)
  <2> DEFINE x == [e EXCEPT !.shares = e.shares - qty]
  <2>1. x.ref = e.ref /\ x.side = e.side /\ x.price = e.price /\ x.place = e.place
    BY DEF AgreesWith
  <2>2. Reduced(bk, e, qty) = (bk \ {e}) \union {x}
    BY <1>4 DEF Reduced
  <2> HIDE DEF x
  <2>3. IsFiniteSet(Reduced(bk, e, qty))
    BY <1>1, <2>2, FS_AddElement
  <2> QED BY <1>2, <1>4, <2>1, <2>2, <2>3
<1> QED BY <1>3, <1>4

\* A fill leaves the maker in its place, or its next slice joins behind.
LEMMA FilledQueued ==
  ASSUME IInv, Places, NEW e \in book, Owned(e), NEW qty \in 1..e.shares, NEW stamp,
         \A id \in Ids \ {e.ref} : stamp[id] = orders[id].sequence,
         stamp[e.ref] = IF Refreshes(orders[e.ref], qty) THEN seq + 1 ELSE orders[e.ref].sequence
  PROVE  /\ Queued(BookFilled(e, orders[e.ref], qty), stamp)
         /\ \A f \in BookFilled(e, orders[e.ref], qty) : \E g \in book :
              g.ref = f.ref /\ g.side = f.side /\ g.price = f.price
<1> DEFINE m == orders[e.ref]
           bk == Reduced(book, e, qty)
<1>1. /\ e.ref \in Ids /\ m.resting = e.shares /\ e.side \in Sides /\ e.price \in Nat
      /\ m.sequence \in Nat /\ seq \in Nat
  BY MakerFacts, MetaFields DEF Places, Queued, SoundRecord, IInv
<1>2. /\ IsFiniteSet(bk)
      /\ qty = e.shares => bk = book \ {e}
      /\ \A f \in bk : \E g \in book :
           g.ref = f.ref /\ g.side = f.side /\ g.price = f.price /\ g.place = f.place
  BY ReducedShrinks DEF IInv, Agrees, Places, Queued
<1>3. \A id \in Ids : Stamps[id] = orders[id].sequence
  BY DEF Stamps
<1>4. Queued(book, Stamps)
  BY DEF Places
<1>5. CASE ~Refreshes(m, qty)
  <2>1. BookFilled(e, m, qty) = bk
    BY <1>5 DEF BookFilled
  <2>2. \A id \in Ids : stamp[id] = Stamps[id]
    BY <1>3, <1>5
  <2> HIDE DEF bk, m
  <2>3. \A f \in bk : Owned(f) => stamp[f.ref] = Stamps[f.ref]
    BY <2>2 DEF Owned
  <2>4. Queued(bk, stamp)
    BY <1>2, <1>4, <2>3, QueuedShrinks
  <2> QED BY <1>2, <2>1, <2>4 DEF m
<1>6. CASE Refreshes(m, qty)
  <2>1. qty = e.shares
    BY <1>1, <1>6 DEF Refreshes
  <2>2. bk = book \ {e}
    BY <1>2, <2>1
  <2>3. BookFilled(e, m, qty) = Added(bk, e.ref, e.side, e.price, Slice(m))
    BY <1>6 DEF BookFilled
  <2>4. \A f \in bk : f.ref /= e.ref /\ f \in book
    BY <2>2 DEF IInv, Agrees, AgreesWith
  <2>5. \A f \in bk : Owned(f) => stamp[f.ref] = Stamps[f.ref]
    BY <1>3, <2>4 DEF Owned
  <2>6. Queued(bk, stamp)
    <3> HIDE DEF bk
    <3> QED BY <1>2, <1>4, <2>5, QueuedShrinks
  <2>7. \A f \in bk : Owned(f) => stamp[f.ref] < stamp[e.ref]
    <3>1. stamp[e.ref] = seq + 1
      BY <1>6
    <3>2. \A f \in bk : Owned(f) => /\ stamp[f.ref] = orders[f.ref].sequence
                                    /\ orders[f.ref].sequence \in Nat
                                    /\ orders[f.ref].sequence <= seq
      BY <2>4, <2>5, <1>3, OrdersTyped, MetaFields DEF Owned, Places
    <3> QED BY <1>1, <3>1, <3>2
  <2>8. \A f \in bk : Owned(f) /\ f.side = Opposite(e.side)
                        => Better(Opposite(e.side), e.price, f.price)
    BY <1>1, <1>4, <2>4 DEF Queued, Better, Opposite, Sides
  <2>9. Queued(Added(bk, e.ref, e.side, e.price, Slice(m)), stamp)
    <3>1. MayJoin(bk, stamp, e.ref, e.side, e.price)
      BY <1>1, <2>4, <2>7, <2>8 DEF MayJoin
    <3> HIDE DEF bk, m
    <3> QED BY <2>6, <3>1, QueuedJoins
  <2>10. \A f \in Added(bk, e.ref, e.side, e.price, Slice(m)) : \E g \in book :
           g.ref = f.ref /\ g.side = f.side /\ g.price = f.price
    <3> HIDE DEF m
    <3> QED BY <2>4 DEF Added
  <2> QED BY <2>3, <2>9, <2>10
<1> QED BY <1>5, <1>6

\* Price-time priority puts one order in front.
LEMMA FrontExists ==
  ASSUME IInv, Queued(book, Stamps), NEW side, NEW x \in book, x.side = side
  PROVE  \E e \in book : IsFront(book, side, e)
<1> DEFINE S == {e \in book : e.side = side}
           Before(e, f) == \/ Better(side, e.price, f.price)
                           \/ e.price = f.price /\ e.place < f.place
           R == {p \in S \X S : Before(p[1], p[2])}
<1>1. IsFiniteSet(S) /\ S /= {}
  BY FS_Subset DEF Queued
<1>2. \A e \in S : e.price \in Nat /\ e.place \in Nat
  BY DEF Queued
<1>3. \A e, f \in S : e /= f => e.place /= f.place
  BY DEF Queued, IInv, Agrees, AgreesWith
<1>4. \A e, f \in S : <<e, f>> \in R <=> Before(e, f)
  OBVIOUS
<1> HIDE DEF R
<1>5. \A e \in S : <<e, e>> \notin R
  BY <1>2, <1>4 DEF Better
<1>6. \A e, f, g \in S : <<e, f>> \in R /\ <<f, g>> \in R => <<e, g>> \in R
  BY <1>2, <1>4 DEF Better
<1>7. PICK e \in S : \A f \in S : <<f, e>> \notin R
  <2> HIDE DEF S
  <2> QED BY <1>1, <1>5, <1>6, MinimalElement
<1>8. ASSUME NEW f \in S, f /= e PROVE Before(e, f)
  <2>1. ~Before(f, e)
    BY <1>4, <1>7
  <2>2. /\ e.price \in Nat /\ f.price \in Nat /\ e.place \in Nat /\ f.place \in Nat
        /\ e.place /= f.place
    BY <1>2, <1>3, <1>8
  <2> QED BY <2>1, <2>2 DEF Better
<1> QED BY <1>8 DEF IsFront

LEMMA PlacesShrink ==
  ASSUME IInv, IInv', Places, IsFiniteSet(book'),
         \A e \in book' : \E f \in book : /\ f.ref = e.ref /\ f.side = e.side
                                          /\ f.price = e.price /\ f.place = e.place,
         \A id \in Ids : orders'[id].sequence = orders[id].sequence,
         seq' = seq, historical' = historical,
         loop' = "match" => /\ loop = "match" /\ taker'.id = taker.id
                            /\ orders'[taker.id].req = orders[taker.id].req
  PROVE  Places'
<1>1. \A id \in Ids : Stamps'[id] = Stamps[id]
  BY DEF Stamps
<1>2. Queued(book', Stamps')
  <2>1. \A e \in book' : Owned(e) => Stamps'[e.ref] = Stamps[e.ref]
    BY <1>1 DEF Owned
  <2>2. Queued(book, Stamps)
    BY DEF Places
  <2> DEFINE bk == book'
             t == Stamps'
  <2>3. \A e \in bk : \E f \in book : /\ f.ref = e.ref /\ f.side = e.side
                                      /\ f.price = e.price /\ f.place = e.place
    OBVIOUS
  <2>4. IsFiniteSet(bk) /\ \A e \in bk : Owned(e) => t[e.ref] = Stamps[e.ref]
    BY <2>1
  <2> HIDE DEF bk, t
  <2>5. Queued(bk, t)
    BY <2>2, <2>3, <2>4, QueuedShrinks
  <2> QED BY <2>5 DEF bk, t
<1>3. Behind'
  <2> SUFFICES ASSUME loop' = "match", NEW e \in book', Owned(e),
                      e.side = orders'[taker'.id].req.side
               PROVE  orders'[e.ref].sequence < orders'[taker'.id].sequence
    BY DEF Behind, Owned
  <2>1. taker.id \in Ids /\ taker'.id = taker.id /\ e.ref \in Ids
    BY TakerFacts DEF Owned
  <2>2. PICK f \in book : f.ref = e.ref /\ f.side = e.side
    OBVIOUS
  <2>3. orders[f.ref].sequence < orders[taker.id].sequence
    BY <2>1, <2>2 DEF Places, Behind, Owned
  <2> QED BY <2>1, <2>2, <2>3
<1>4. \A id \in Ids : orders'[id].sequence <= seq'
  BY DEF Places
<1>5. historical' = 0 => \A e \in book' : Owned(e)
  BY DEF Places, Owned
<1> QED BY <1>2, <1>3, <1>4, <1>5 DEF Places

LEMMA PlacesTrade == ASSUME IInv, IInv', Places, Trade PROVE Places'
<1>1. PICK e \in book : \E qty \in 1..e.shares :
        /\ Meets(e) /\ Owned(e) /\ e.ref \in Ids /\ taker.id \in Ids /\ e.ref /= taker.id
        /\ orders'[e.ref] = MakerFilled(orders[e.ref], qty)
        /\ orders'[taker.id] = [orders[taker.id] EXCEPT !.filled = @ + qty]
        /\ \A id \in Ids \ {e.ref, taker.id} : orders'[id] = orders[id]
        /\ book' = BookFilled(e, orders[e.ref], qty)
        /\ seq' = SequenceAfter(orders[e.ref], qty)
        /\ taker'.id = taker.id /\ loop = "match" /\ loop' = loop /\ historical' = historical
  BY TradeDoes
<1>2. PICK qty \in 1..e.shares :
        /\ orders'[e.ref] = MakerFilled(orders[e.ref], qty)
        /\ orders'[taker.id] = [orders[taker.id] EXCEPT !.filled = @ + qty]
        /\ book' = BookFilled(e, orders[e.ref], qty)
        /\ seq' = SequenceAfter(orders[e.ref], qty)
  BY <1>1
<1> DEFINE m == orders[e.ref]
           n == orders[taker.id]
           nn == orders'[taker.id]
<1>3. /\ m \in Meta /\ n \in Meta /\ seq \in Nat
      /\ \A id \in Ids : orders[id].sequence \in Nat
  BY <1>1, OrdersTyped, MetaFields DEF IInv
<1>4. orders'[e.ref].sequence = IF Refreshes(m, qty) THEN seq + 1 ELSE m.sequence
  BY <1>2, <1>3, MakerFields
<1>5. nn.sequence = n.sequence /\ nn.req = n.req
  <2>1. nn = [n EXCEPT !.filled = @ + qty]
    BY <1>2
  <2> HIDE DEF n, nn
  <2> QED BY <1>3, <2>1, TakerFields
<1>6. \A id \in Ids \ {e.ref} : orders'[id].sequence = orders[id].sequence
  BY <1>1, <1>5
<1>7. /\ Queued(book', Stamps')
      /\ \A f \in book' : \E g \in book : g.ref = f.ref /\ g.side = f.side /\ g.price = f.price
  <2> DEFINE t == Stamps'
  <2>1. /\ \A id \in Ids \ {e.ref} : t[id] = orders[id].sequence
        /\ t[e.ref] = IF Refreshes(m, qty) THEN seq + 1 ELSE m.sequence
    BY <1>1, <1>4, <1>6 DEF Stamps
  <2> HIDE DEF t
  <2>2. /\ Queued(BookFilled(e, m, qty), t)
        /\ \A f \in BookFilled(e, m, qty) : \E g \in book :
             g.ref = f.ref /\ g.side = f.side /\ g.price = f.price
    BY <1>1, <2>1, FilledQueued
  <2> QED BY <1>2, <2>2 DEF t
<1>8. seq' >= seq /\ \A id \in Ids : orders'[id].sequence <= seq'
  BY <1>2, <1>3, <1>4, <1>6 DEF Places, SequenceAfter
<1>9. Behind'
  <2> SUFFICES ASSUME NEW f \in book', Owned(f), f.side = nn.req.side
               PROVE  orders'[f.ref].sequence < nn.sequence
    BY <1>1 DEF Behind, Owned
  <2>1. PICK g \in book : g.ref = f.ref /\ g.side = f.side
    BY <1>7
  <2>2. e.side = Opposite(n.req.side)
    BY <1>1 DEF Meets, IsFront
  <2>3. g /= e
    BY <1>5, <2>1, <2>2 DEF Opposite
  <2>4. g.ref /= e.ref
    BY <2>3 DEF IInv, Agrees, AgreesWith
  <2>5. orders[g.ref].sequence < n.sequence
    BY <1>1, <1>5, <2>1 DEF Places, Behind, Owned
  <2> QED BY <1>5, <1>6, <2>1, <2>4, <2>5 DEF Owned
<1>10. historical' = 0 => \A f \in book' : Owned(f)
  BY <1>1, <1>7 DEF Places, Owned
<1> QED BY <1>7, <1>8, <1>9, <1>10 DEF Places

LEMMA PlacesApplyExternalFill == ASSUME IInv, IInv', Places, ApplyExternalFill PROVE Places'
<1>1. PICK e \in book : \E qty \in 1..e.shares :
        /\ Owned(e) /\ e.ref \in Ids
        /\ orders'[e.ref] = MakerFilled(orders[e.ref], qty)
        /\ \A id \in Ids \ {e.ref} : orders'[id] = orders[id]
        /\ book' = BookFilled(e, orders[e.ref], qty)
        /\ seq' = SequenceAfter(orders[e.ref], qty)
        /\ loop = "idle" /\ loop' = loop /\ historical' = historical
  BY ApplyExternalFillDoes
<1>2. PICK qty \in 1..e.shares :
        /\ orders'[e.ref] = MakerFilled(orders[e.ref], qty)
        /\ book' = BookFilled(e, orders[e.ref], qty)
        /\ seq' = SequenceAfter(orders[e.ref], qty)
  BY <1>1
<1> DEFINE m == orders[e.ref]
<1>3. /\ m \in Meta /\ seq \in Nat /\ \A id \in Ids : orders[id].sequence \in Nat
  BY <1>1, OrdersTyped, MetaFields DEF IInv
<1>4. orders'[e.ref].sequence = IF Refreshes(m, qty) THEN seq + 1 ELSE m.sequence
  BY <1>2, <1>3, MakerFields
<1>5. \A id \in Ids \ {e.ref} : orders'[id].sequence = orders[id].sequence
  BY <1>1
<1>6. /\ Queued(book', Stamps')
      /\ \A f \in book' : \E g \in book : g.ref = f.ref /\ g.side = f.side /\ g.price = f.price
  <2> DEFINE t == Stamps'
  <2>1. /\ \A id \in Ids \ {e.ref} : t[id] = orders[id].sequence
        /\ t[e.ref] = IF Refreshes(m, qty) THEN seq + 1 ELSE m.sequence
    BY <1>1, <1>4, <1>5 DEF Stamps
  <2> HIDE DEF t
  <2>2. /\ Queued(BookFilled(e, m, qty), t)
        /\ \A f \in BookFilled(e, m, qty) : \E g \in book :
             g.ref = f.ref /\ g.side = f.side /\ g.price = f.price
    BY <1>1, <2>1, FilledQueued
  <2> QED BY <1>2, <2>2 DEF t
<1>7. \A id \in Ids : orders'[id].sequence <= seq'
  BY <1>2, <1>3, <1>4, <1>5 DEF Places, SequenceAfter
<1>8. Behind'
  BY <1>1 DEF Behind
<1>9. historical' = 0 => \A f \in book' : Owned(f)
  BY <1>1, <1>6 DEF Places, Owned
<1> QED BY <1>6, <1>7, <1>8, <1>9 DEF Places

LEMMA RequestTyped ==
  ASSUME NEW m \in Meta
  PROVE  /\ m.req.side \in Sides /\ m.req.price \in Nat /\ m.req.type \in Types
         /\ m.req.quantity \in Nat
<1>1. m.req \in Request
  BY MetaFields
<1> QED BY <1>1 DEF Request

\* A limit order that meets nothing crosses nothing.
LEMMA NothingCrossed ==
  ASSUME IInv, Places, MeetsNone, taker.type = "limit",
         NEW e \in book, e.side = Opposite(orders[taker.id].req.side)
  PROVE  Better(e.side, orders[taker.id].req.price, e.price)
<1> DEFINE req == orders[taker.id].req
<1>1. req.side \in Sides /\ req.price \in Nat
  BY TakerFacts, RequestTyped DEF MeetsNone, SoundRecord
<1>2. PICK f \in book : IsFront(book, e.side, f)
  BY FrontExists DEF Places
<1>3. ~Crosses(req, "limit", f.price)
  BY <1>2 DEF MeetsNone, Meets
<1>4. e.price \in Nat /\ f.price \in Nat /\ e.side \in Sides
  BY DEF Places, Queued
<1>5. f = e \/ Better(e.side, f.price, e.price) \/ f.price = e.price
  BY <1>2 DEF IsFront
<1>6. e.side = "buy" <=> req.side /= "buy"
  BY <1>1 DEF Opposite, Sides
<1> HIDE DEF req
<1>7. IF req.side = "buy" THEN ~(req.price >= f.price) ELSE ~(req.price <= f.price)
  BY <1>3 DEF Crosses
<1>8. Better(e.side, req.price, e.price)
  BY <1>1, <1>4, <1>5, <1>6, <1>7 DEF Better
<1> QED BY <1>8 DEF req

LEMMA PlacesEndRests == ASSUME IInv, IInv', Places, EndRests PROVE Places'
<1> DEFINE m == orders[taker.id]
           id == taker.id
           side == m.req.side
           price == m.req.price
           t == Stamps'
<1>1. /\ loop = "match" /\ id \in Ids /\ taker' = NoTaker /\ loop' = "stops"
      /\ Same(m, orders'[id]) /\ \A j \in Ids \ {id} : orders'[j] = orders[j]
      /\ seq' = seq /\ historical' = historical
  BY SettleDoes
<1>2. PICK shares : book' = Added(book, id, side, price, shares)
  BY DEF EndRests
<1>3. m \in Meta /\ side \in Sides /\ price \in Nat
  BY <1>1, OrdersTyped, RequestTyped
<1>4. \A j \in Ids : orders'[j].sequence = orders[j].sequence
  BY <1>1 DEF Same
<1>5. \A j \in Ids : t[j] = orders[j].sequence /\ Stamps[j] = orders[j].sequence
  BY <1>4 DEF Stamps
<1>6. \A e \in book : e.ref /= id
  BY <1>1, MakerFacts DEF Owned
<1>7. \A e \in book : Owned(e) /\ e.side = side => t[e.ref] < t[id]
  BY <1>1, <1>5 DEF Places, Behind, Owned
<1>8. \A e \in book : Owned(e) /\ e.side = Opposite(side) => Better(Opposite(side), price, e.price)
  BY NothingCrossed DEF EndRests
<1>9. MayJoin(book, t, id, side, price)
  BY <1>3, <1>6, <1>7, <1>8 DEF MayJoin
<1>10. Queued(book, t)
  <2>1. \A e \in book : Owned(e) => t[e.ref] = Stamps[e.ref]
    BY <1>5 DEF Owned
  <2>2. Queued(book, Stamps) /\ IsFiniteSet(book)
    BY DEF Places, Queued
  <2> HIDE DEF t
  <2> QED BY <2>1, <2>2, QueuedShrinks
<1>11. Queued(book', Stamps')
  <2>1. Queued(Added(book, id, side, price, shares), t)
    <3> HIDE DEF t, id, side, price
    <3> QED BY <1>9, <1>10, QueuedJoins
  <2> QED BY <1>2, <2>1
<1>12. \A j \in Ids : orders'[j].sequence <= seq'
  BY <1>1, <1>4 DEF Places
<1>13. historical' = 0 => \A e \in book' : Owned(e)
  BY <1>1, <1>2 DEF Places, Owned, Added
<1> QED BY <1>1, <1>11, <1>12, <1>13 DEF Places, Behind

LEMMA PlacesFeedAdd == ASSUME IInv, IInv', Places, FeedAdd PROVE Places'
<1>1. PICK h \in Markets[market].historical :
        book' = Added(book, MaxOrders + historical + 1, h.side, h.price, h.shares)
  BY DEF FeedAdd
<1> DEFINE ref == MaxOrders + historical + 1
<1>2. /\ loop = "idle" /\ loop' = loop /\ seq' = seq /\ orders' = orders
      /\ historical' = historical + 1 /\ historical \in Nat
  BY DEF FeedAdd, IInv
<1>3. h.side \in Sides /\ h.price \in Nat
  <2>1. h \in Feed
    BY MarketAssumption DEF IInv
  <2> QED BY <2>1 DEF Feed
<1>4. ref \notin Ids /\ \A e \in book : e.ref /= ref
  BY <1>2, IdFacts DEF IInv, Agrees, AgreesWith, Owned, Ids
<1>5. MayJoin(book, Stamps, ref, h.side, h.price)
  BY <1>3, <1>4 DEF MayJoin
<1>6. Queued(Added(book, ref, h.side, h.price, h.shares), Stamps)
  <2> HIDE DEF ref
  <2> QED BY <1>5, QueuedJoins DEF Places
<1>7. Stamps' = Stamps
  BY <1>2 DEF Stamps
<1> QED BY <1>1, <1>2, <1>6, <1>7 DEF Places, Behind

\* An order that enters is behind every other.
LEMMA PlacesEnters == ASSUME IInv, IInv', Places, NEW id \in Ids, Enters(id) PROVE Places'
<1> DEFINE r == orders'[id]
<1>1. /\ ~orders[id].inBook /\ loop \in {"idle", "stops"}
      /\ \A j \in Ids \ {id} : orders'[j] = orders[j]
      /\ seq' \in {seq, seq + 1} /\ r.sequence <= seq'
      /\ book' = book /\ historical' = historical
      /\ \/ r.sequence = seq + 1 /\ taker'.id = id /\ loop' = "match"
         \/ loop' = loop
  BY DEF Enters
<1>2. seq \in Nat /\ \A j \in Ids : orders[j].sequence \in Nat
  BY OrdersTyped, MetaFields DEF IInv
<1>3. \A e \in book : e.ref /= id
  BY <1>1, MakerFacts DEF Owned
<1>4. \A e \in book : Owned(e) => /\ orders'[e.ref].sequence = orders[e.ref].sequence
                                  /\ orders[e.ref].sequence <= seq
                                  /\ orders[e.ref].sequence \in Nat
  BY <1>1, <1>2, <1>3 DEF Places, Owned
<1>5. Queued(book', Stamps')
  <2> DEFINE t == Stamps'
  <2>1. \A e \in book : Owned(e) => t[e.ref] = Stamps[e.ref]
    BY <1>4 DEF Stamps, Owned
  <2>2. Queued(book, Stamps) /\ IsFiniteSet(book)
    BY DEF Places, Queued
  <2> HIDE DEF t
  <2>3. Queued(book, t)
    BY <2>1, <2>2, QueuedShrinks
  <2> QED BY <1>1, <2>3 DEF t
<1>6. Behind'
  <2> SUFFICES ASSUME loop' = "match", NEW e \in book', Owned(e)
               PROVE  orders'[e.ref].sequence < orders'[taker'.id].sequence
    BY DEF Behind, Owned
  <2>1. taker'.id = id /\ r.sequence = seq + 1
    BY <1>1
  <2> QED BY <1>1, <1>2, <1>4, <2>1
<1>7. \A j \in Ids : orders'[j].sequence <= seq'
  BY <1>1, <1>2 DEF Places
<1> QED BY <1>1, <1>5, <1>6, <1>7 DEF Places

LEMMA PlacesStep == ASSUME IInv, IInv', Places, Next PROVE Places'
<1>1. /\ IsFiniteSet(book)
      /\ \A e \in book : \E f \in book : /\ f.ref = e.ref /\ f.side = e.side
                                         /\ f.price = e.price /\ f.place = e.place
  BY DEF Places, Queued
<1>2. /\ \A id \in Ids : orders[id] \in Meta
      /\ \A id : /\ IsFiniteSet(Removed(book, id)) /\ Removed(book, id) \subseteq book
  BY <1>1, OrdersTyped, RemovedShrinks
<1>3. CASE TradeExternal
  <2>1. PICK e \in book : \E qty \in 1..e.shares :
          /\ taker.id \in Ids
          /\ orders'[taker.id] = [orders[taker.id] EXCEPT !.filled = @ + qty]
          /\ \A id \in Ids \ {taker.id} : orders'[id] = orders[id]
          /\ book' = Reduced(book, e, qty)
          /\ taker'.id = taker.id /\ loop = "match" /\ UNCHANGED <<seq, historical>>
    BY <1>3, TradeExternalDoes
  <2>2. PICK qty \in 1..e.shares :
          /\ orders'[taker.id] = [orders[taker.id] EXCEPT !.filled = @ + qty]
          /\ book' = Reduced(book, e, qty)
    BY <2>1
  <2>3. /\ orders'[taker.id].sequence = orders[taker.id].sequence
        /\ orders'[taker.id].req = orders[taker.id].req
    <3> DEFINE n == orders[taker.id]
               nn == orders'[taker.id]
    <3>1. n \in Meta /\ nn = [n EXCEPT !.filled = @ + qty]
      BY <1>2, <2>1, <2>2
    <3> HIDE DEF n, nn
    <3>2. nn.sequence = n.sequence /\ nn.req = n.req
      BY <3>1, TakerFields
    <3> QED BY <3>2 DEF n, nn
  <2>4. /\ IsFiniteSet(book')
        /\ \A f \in book' : \E g \in book :
             g.ref = f.ref /\ g.side = f.side /\ g.price = f.price /\ g.place = f.place
    BY <1>1, <2>2, ReducedShrinks DEF IInv, Agrees
  <2>5. \A id \in Ids : orders'[id].sequence = orders[id].sequence
    BY <2>1, <2>3
  <2> QED BY <2>1, <2>3, <2>4, <2>5, PlacesShrink
<1>4. CASE EndFilled \/ EndCancelled \/ CancelNewest
  <2>1. /\ taker.id \in Ids /\ Same(orders[taker.id], orders'[taker.id])
        /\ \A id \in Ids \ {taker.id} : orders'[id] = orders[id]
        /\ loop' = "stops" /\ seq' = seq /\ historical' = historical
    BY <1>4, SettleDoes
  <2>2. book' = book
    BY <1>4 DEF EndFilled, EndCancelled, CancelNewest
  <2>3. \A id \in Ids : orders'[id].sequence = orders[id].sequence
    BY <2>1 DEF Same
  <2> QED BY <1>1, <2>1, <2>2, <2>3, PlacesShrink
<1>5. CASE Cancel \/ CancelOldest
  <2>1. PICK id \in Ids :
           /\ loop = "match" => id /= taker.id
           /\ orders'[id] = WithCancelled(orders[id])
           /\ \A j \in Ids \ {id} : orders'[j] = orders[j]
           /\ CancelMeta(id)
           /\ UNCHANGED <<seq, taker, loop, historical>>
    BY <1>5, CancelDoes
  <2>2. \A j \in Ids : orders'[j].sequence = orders[j].sequence
    <3>1. orders'[id].sequence = orders[id].sequence
      BY <1>2, <2>1, CancelledFields
    <3> QED BY <2>1, <3>1
  <2>3. loop' = "match" => orders'[taker.id].req = orders[taker.id].req
    BY <2>1, TakerFacts
  <2>4. /\ IsFiniteSet(book')
        /\ \A f \in book' : \E g \in book :
             g.ref = f.ref /\ g.side = f.side /\ g.price = f.price /\ g.place = f.place
    BY <1>2, <2>1 DEF CancelMeta
  <2> QED BY <2>1, <2>2, <2>3, <2>4, PlacesShrink
<1>6. CASE CancelBoth
  <2>1. PICK id \in Ids :
           /\ taker.id \in Ids /\ id /= taker.id
           /\ orders'[id] = WithCancelled(orders[id])
           /\ orders'[taker.id] = RemainderCancelled
           /\ \A j \in Ids \ {id, taker.id} : orders'[j] = orders[j]
           /\ book' = Removed(book, id) /\ loop' = "stops"
           /\ UNCHANGED <<seq, historical>>
    BY <1>6, CancelBothDoes
  <2>2. orders'[id].sequence = orders[id].sequence
    BY <1>2, <2>1, CancelledFields
  <2>3. orders'[taker.id].sequence = orders[taker.id].sequence
    <3> DEFINE n == orders[taker.id]
               nn == orders'[taker.id]
               left == taker.remaining
    <3>1. n \in Meta /\ nn = [n EXCEPT !.cancelled = @ + left, !.state = "Cancelled"]
      BY <1>2, <2>1 DEF RemainderCancelled
    <3> HIDE DEF n, nn, left
    <3>2. nn.sequence = n.sequence
      BY <3>1, TakerFields
    <3> QED BY <3>2 DEF n, nn
  <2>4. /\ IsFiniteSet(book')
        /\ \A f \in book' : \E g \in book :
             g.ref = f.ref /\ g.side = f.side /\ g.price = f.price /\ g.place = f.place
    BY <1>2, <2>1
  <2>5. \A j \in Ids : orders'[j].sequence = orders[j].sequence
    BY <2>1, <2>2, <2>3
  <2> QED BY <2>1, <2>4, <2>5, PlacesShrink
<1>7. CASE FeedReduce
  <2>1. PICK e \in book : \E n \in 1..e.shares : book' = Reduced(book, e, n)
    BY <1>7 DEF FeedReduce
  <2>2. /\ IsFiniteSet(book')
        /\ \A f \in book' : \E g \in book :
             g.ref = f.ref /\ g.side = f.side /\ g.price = f.price /\ g.place = f.place
    BY <1>1, <2>1, ReducedShrinks DEF IInv, Agrees
  <2> QED BY <1>7, <2>2, PlacesShrink DEF FeedReduce
<1>8. CASE StopsQuiet \/ PumpStops
  BY <1>1, <1>8, PlacesShrink DEF StopsQuiet, PumpStops
<1>9. CASE SubmitInvalid \/ Submit \/ FireStop
  BY <1>9, SubmitInvalidDoes, SubmitDoes, FireStopDoes, PlacesEnters
<1> QED BY <1>3, <1>4, <1>5, <1>6, <1>7, <1>8, <1>9, PlacesTrade, PlacesApplyExternalFill,
           PlacesEndRests, PlacesFeedAdd DEF Next, Engine, Match

-----------------------------------------------------------------------------
(* The stops.                                                              *)

Increasing(s) == \A i, j \in 1..Len(s) : i < j => s[i] < s[j]
Within(s, t) == \A i \in 1..Len(s) : \E j \in 1..Len(t) : s[i] = t[j]

LEMMA RemoveAtInOrder ==
  ASSUME NEW s \in Seq(Ids), Increasing(s), NEW i \in 1..Len(s)
  PROVE  Increasing(RemoveAt(s, i)) /\ Within(RemoveAt(s, i), s)
<1> DEFINE t == RemoveAt(s, i)
<1>1. /\ Len(t) = Len(s) - 1
      /\ \A j \in 1..(Len(s) - 1) : t[j] = IF j < i THEN s[j] ELSE s[j + 1]
  BY RemoveAtFacts
<1>2. Len(s) \in Nat
  BY LenProperties
<1> HIDE DEF t
<1>3. Within(t, s)
  BY <1>1, <1>2 DEF Within
<1>4. ASSUME NEW j \in 1..Len(t), NEW k \in 1..Len(t), j < k PROVE t[j] < t[k]
  <2> DEFINE a == IF j < i THEN j ELSE j + 1
             b == IF k < i THEN k ELSE k + 1
  <2>1. t[j] = s[a] /\ t[k] = s[b] /\ a \in 1..Len(s) /\ b \in 1..Len(s) /\ a < b
    BY <1>1, <1>2, <1>4
  <2> HIDE DEF a, b
  <2> QED BY <2>1 DEF Increasing
<1> QED BY <1>3, <1>4 DEF Increasing, t

LEMMA RemoveFirstInOrder ==
  ASSUME NEW s \in Seq(Ids), Increasing(s), NEW id
  PROVE  Increasing(RemoveFirst(s, id)) /\ Within(RemoveFirst(s, id), s)
<1>0. Len(s) \in Nat /\ \A i \in 1..Len(s) : s[i] \in Nat
  BY LenProperties, IdFacts
<1>1. CASE \E i \in 1..Len(s) : s[i] = id
  <2>1. PICK i \in 1..Len(s) : s[i] = id
    BY <1>1
  <2>2. ASSUME NEW k \in 1..Len(s), s[k] = id PROVE k = i
    BY <1>0, <2>1, <2>2 DEF Increasing
  <2>3. {k \in 1..Len(s) : s[k] = id} = {i}
    BY <2>1, <2>2
  <2>4. Min({i}) = i
    BY <1>0 DEF Min
  <2>5. RemoveFirst(s, id) = RemoveAt(s, i)
    BY <1>1, <2>3, <2>4 DEF RemoveFirst, SelectInSeq
  <2> QED BY <2>5, RemoveAtInOrder
<1>2. CASE ~\E i \in 1..Len(s) : s[i] = id
  BY <1>2 DEF RemoveFirst, Within
<1> QED BY <1>1, <1>2

\* When the scan finds no first stop elected there is none.
LEMMA ScanFindsNone ==
  ASSUME IInv, ~\E i \in 1..Len(parked) : FirstElected(i), NEW i \in 1..Len(parked)
  PROVE  ~Elected(orders[parked[i]].req)
<1> DEFINE S == {k \in 1..Len(parked) : Elected(orders[parked[k]].req)}
           R == {p \in S \X S : p[1] < p[2]}
<1>0. Len(parked) \in Nat
  BY LenProperties DEF IInv, StopsParked
<1>1. SUFFICES ASSUME S /= {} PROVE FALSE
  OBVIOUS
<1>2. IsFiniteSet(S) /\ S \subseteq 1..Len(parked)
  <2>1. IsFiniteSet(1..Len(parked)) /\ S \subseteq 1..Len(parked)
    BY <1>0, FS_Interval
  <2> HIDE DEF S
  <2> QED BY <2>1, FS_Subset
<1>3. \A x, y \in S : <<x, y>> \in R <=> x < y
  OBVIOUS
<1> HIDE DEF R
<1>4. /\ \A x \in S : <<x, x>> \notin R
      /\ \A x, y, z \in S : <<x, y>> \in R /\ <<y, z>> \in R => <<x, z>> \in R
  BY <1>2, <1>3
<1>5. PICK k \in S : \A j \in S : <<j, k>> \notin R
  <2> HIDE DEF S
  <2> QED BY <1>1, <1>2, <1>4, MinimalElement
<1>6. ASSUME NEW j \in 1..(k - 1)
      PROVE  ~Elected(orders[parked[j]].req)
  <2>1. k \in 1..Len(parked) /\ j \in 1..Len(parked) /\ j < k
    BY <1>0, <1>2
  <2>2. j \notin S
    BY <1>3, <1>5, <2>1
  <2> QED BY <2>1, <2>2
<1> QED BY <1>5, <1>6 DEF FirstElected

\* Actions that put no order in the engine.
LEMMA InTurnFrame ==
  ASSUME IInv, IInv', InTurn,
         \A id \in Ids : Known(id)' <=> Known(id),
         Increasing(parked'), Within(parked', parked),
         \A i \in 1..Len(parked) : orders'[parked[i]].req = orders[parked[i]].req,
         loop' = "idle" /\ historical' = 0 =>
           lastTrade' = lastTrade /\ \A i \in 1..Len(parked) : ~Elected(orders[parked[i]].req)
  PROVE  InTurn'
<1>1. \A id \in Ids : Known(id)' => \A j \in 1..(id - 1) : Known(j)'
  <2> SUFFICES ASSUME NEW id \in Ids, Known(id)', NEW j \in 1..(id - 1) PROVE Known(j)'
    OBVIOUS
  <2>1. j \in Ids
    BY IdFacts DEF Ids
  <2> QED BY <2>1 DEF InTurn
<1>2. NoElectedStopParked'
  <2> SUFFICES ASSUME loop' = "idle", historical' = 0, NEW i \in 1..Len(parked')
               PROVE  ~Elected(orders[parked[i]].req)'
    BY DEF NoElectedStopParked
  <2>1. PICK k \in 1..Len(parked) : parked'[i] = parked[k]
    BY DEF Within
  <2>2. ~Elected(orders[parked[k]].req) /\ lastTrade' = lastTrade
    OBVIOUS
  <2>3. orders'[parked'[i]].req = orders[parked[k]].req
    BY <2>1
  <2> QED BY <2>2, <2>3 DEF Elected
<1> QED BY <1>1, <1>2 DEF InTurn, Increasing

LEMMA InTurnEnters ==
  ASSUME IInv, IInv', InTurn, NEW id \in Ids, Enters(id),
         \/ /\ ~Known(id) /\ loop = "idle"
            /\ \/ parked' = parked
               \/ /\ parked' = Append(parked, id) /\ loop' = "idle"
                  /\ ~Elected(orders'[id].req)
         \/ Known(id) /\ loop = "stops" /\ Increasing(parked') /\ Within(parked', parked)
  PROVE  InTurn'
<1>1. /\ orders'[id].state /= "Unknown"
      /\ orders[id].state = "Unknown" => \A j \in 1..(id - 1) : Known(j)
      /\ \A j \in Ids \ {id} : orders'[j] = orders[j]
      /\ lastTrade' = lastTrade /\ historical' = historical
      /\ loop' \in {loop, "match"}
  BY DEF Enters
<1>2. \A j \in Ids : Known(j) => Known(j)'
  BY <1>1 DEF Known
<1>3. \A k \in Ids : Known(k)' => \A j \in 1..(k - 1) : Known(j)'
  <2> SUFFICES ASSUME NEW k \in Ids, Known(k)', NEW j \in 1..(k - 1) PROVE Known(j)'
    OBVIOUS
  <2>1. j \in Ids
    BY IdFacts DEF Ids
  <2>2. CASE k = id
    BY <1>1, <1>2, <2>1, <2>2 DEF InTurn, Known
  <2>3. CASE k /= id
    BY <1>1, <1>2, <2>1, <2>3 DEF InTurn, Known
  <2> QED BY <2>2, <2>3
<1>4. CASE Known(id) /\ loop = "stops" /\ Increasing(parked') /\ Within(parked', parked)
  BY <1>1, <1>3, <1>4 DEF InTurn, NoElectedStopParked, Increasing
<1>5. CASE ~Known(id) /\ loop = "idle"
  <2>1. /\ parked \in Seq(Ids) /\ Len(parked) \in Nat
        /\ \A i \in 1..Len(parked) : parked[i] \in Ids /\ parked[i] /= id /\ parked[i] < id
    <3>1. parked \in Seq(Ids) /\ Len(parked) \in Nat
      BY LenProperties DEF IInv, StopsParked
    <3>2. ASSUME NEW i \in 1..Len(parked)
          PROVE  parked[i] \in Ids /\ parked[i] /= id /\ parked[i] < id
      <4>1. parked[i] \in Ids /\ Known(parked[i])
        BY <3>1 DEF IInv, StopsParked, Known
      <4>2. \A j \in 1..(parked[i] - 1) : Known(j)
        BY <4>1 DEF InTurn
      <4>3. id \notin 1..(parked[i] - 1)
        BY <1>5, <4>2
      <4>4. parked[i] \in Nat \ {0} /\ id \in Nat \ {0}
        BY <4>1, IdFacts
      <4>5. parked[i] /= id
        BY <1>5, <4>1
      <4> QED BY <4>1, <4>3, <4>4, <4>5
    <3> QED BY <3>1, <3>2
  <2>2. \A i \in 1..Len(parked) : orders'[parked[i]] = orders[parked[i]]
    BY <1>1, <2>1
  <2>3. CASE parked' = parked
    <3>1. NoElectedStopParked'
      BY <1>1, <1>5, <2>2, <2>3 DEF InTurn, NoElectedStopParked, Elected
    <3> QED BY <1>3, <2>3, <3>1 DEF InTurn
  <2>4. CASE parked' = Append(parked, id) /\ ~Elected(orders'[id].req)
    <3>1. /\ Len(parked') = Len(parked) + 1 /\ parked'[Len(parked) + 1] = id
          /\ \A i \in 1..Len(parked) : parked'[i] = parked[i]
      BY <2>1, <2>4, AppendProperties
    <3>2. \A i, j \in 1..Len(parked') : i < j => parked'[i] < parked'[j]
      BY <2>1, <3>1 DEF InTurn
    <3>3. ASSUME loop' = "idle", historical' = 0, NEW i \in 1..Len(parked')
          PROVE  ~Elected(orders[parked[i]].req)'
      <4>1. CASE i = Len(parked) + 1
        BY <1>1, <2>4, <3>1, <4>1 DEF Elected
      <4>2. CASE i \in 1..Len(parked)
        <5>1. ~Elected(orders[parked[i]].req)
          BY <1>1, <1>5, <3>3, <4>2 DEF InTurn, NoElectedStopParked
        <5> QED BY <1>1, <2>2, <3>1, <4>2, <5>1 DEF Elected
      <4> QED BY <2>1, <3>1, <3>3, <4>1, <4>2
    <3> QED BY <1>3, <3>2, <3>3 DEF InTurn, NoElectedStopParked
  <2> QED BY <1>5, <2>3, <2>4
<1> QED BY <1>4, <1>5

LEMMA InTurnStep == ASSUME IInv, IInv', InTurn, Places, Next PROVE InTurn'
<1>0. /\ parked \in Seq(Ids) /\ Increasing(parked) /\ Within(parked, parked)
      /\ \A i \in 1..Len(parked) : parked[i] \in Ids /\ Known(parked[i])
  BY DEF IInv, StopsParked, InTurn, Increasing, Within, Known
<1>1. \A id \in Ids : orders[id] \in Meta
  BY OrdersTyped
<1>2. loop = "idle" /\ historical = 0 =>
        \A i \in 1..Len(parked) : ~Elected(orders[parked[i]].req)
  BY DEF InTurn, NoElectedStopParked
<1>3. CASE Trade
  <2>1. PICK e \in book : \E qty \in 1..e.shares :
          /\ Owned(e) /\ e.ref \in Ids /\ taker.id \in Ids /\ e.ref /= taker.id
          /\ orders'[e.ref] = MakerFilled(orders[e.ref], qty)
          /\ orders'[taker.id] = [orders[taker.id] EXCEPT !.filled = @ + qty]
          /\ \A id \in Ids \ {e.ref, taker.id} : orders'[id] = orders[id]
          /\ loop = "match" /\ loop' = loop /\ parked' = parked
    BY <1>3, TradeDoes
  <2>2. PICK qty \in 1..e.shares :
          /\ orders'[e.ref] = MakerFilled(orders[e.ref], qty)
          /\ orders'[taker.id] = [orders[taker.id] EXCEPT !.filled = @ + qty]
    BY <2>1
  <2>3. /\ orders'[e.ref].req = orders[e.ref].req /\ Known(e.ref) /\ Known(e.ref)'
    <3>1. Known(e.ref)
      BY <2>1, MakerFacts DEF Known, Live
    <3>2. /\ orders'[e.ref].req = orders[e.ref].req
          /\ orders'[e.ref].state \in {"PartiallyFilled", "Filled"}
      BY <1>1, <2>1, <2>2, MakerFields
    <3> QED BY <3>1, <3>2 DEF Known
  <2>4. /\ orders'[taker.id].req = orders[taker.id].req
        /\ orders'[taker.id].state = orders[taker.id].state
    <3> DEFINE n == orders[taker.id]
               nn == orders'[taker.id]
    <3>1. n \in Meta /\ nn = [n EXCEPT !.filled = @ + qty]
      BY <1>1, <2>1, <2>2
    <3> HIDE DEF n, nn
    <3>2. nn.req = n.req /\ nn.state = n.state
      BY <3>1, TakerFields
    <3> QED BY <3>2 DEF n, nn
  <2>5. \A id \in Ids : orders'[id].req = orders[id].req /\ (Known(id)' <=> Known(id))
    BY <2>1, <2>3, <2>4 DEF Known
  <2> QED BY <1>0, <2>1, <2>5, InTurnFrame
<1>4. CASE TradeExternal
  <2>1. PICK e \in book : \E qty \in 1..e.shares :
          /\ taker.id \in Ids
          /\ orders'[taker.id] = [orders[taker.id] EXCEPT !.filled = @ + qty]
          /\ \A id \in Ids \ {taker.id} : orders'[id] = orders[id]
          /\ loop = "match" /\ loop' = loop /\ parked' = parked
    BY <1>4, TradeExternalDoes
  <2>2. PICK qty \in 1..e.shares :
          orders'[taker.id] = [orders[taker.id] EXCEPT !.filled = @ + qty]
    BY <2>1
  <2>4. /\ orders'[taker.id].req = orders[taker.id].req
        /\ orders'[taker.id].state = orders[taker.id].state
    <3> DEFINE n == orders[taker.id]
               nn == orders'[taker.id]
    <3>1. n \in Meta /\ nn = [n EXCEPT !.filled = @ + qty]
      BY <1>1, <2>1, <2>2
    <3> HIDE DEF n, nn
    <3>2. nn.req = n.req /\ nn.state = n.state
      BY <3>1, TakerFields
    <3> QED BY <3>2 DEF n, nn
  <2>5. \A id \in Ids : orders'[id].req = orders[id].req /\ (Known(id)' <=> Known(id))
    BY <2>1, <2>4 DEF Known
  <2> QED BY <1>0, <2>1, <2>5, InTurnFrame
<1>5. CASE ApplyExternalFill
  <2>1. PICK e \in book : \E qty \in 1..e.shares :
          /\ Owned(e) /\ e.ref \in Ids /\ \E f \in book : ~Owned(f)
          /\ orders'[e.ref] = MakerFilled(orders[e.ref], qty)
          /\ \A id \in Ids \ {e.ref} : orders'[id] = orders[id]
          /\ parked' = parked /\ historical' = historical
    BY <1>5, ApplyExternalFillDoes
  <2>2. historical' /= 0
    BY <2>1 DEF Places
  <2>3. /\ orders'[e.ref].req = orders[e.ref].req /\ Known(e.ref) /\ Known(e.ref)'
    <3>1. Known(e.ref)
      BY <2>1, MakerFacts DEF Known, Live
    <3>2. /\ orders'[e.ref].req = orders[e.ref].req
          /\ orders'[e.ref].state \in {"PartiallyFilled", "Filled"}
      BY <1>1, <2>1, MakerFields
    <3> QED BY <3>1, <3>2 DEF Known
  <2>4. \A id \in Ids : orders'[id].req = orders[id].req /\ (Known(id)' <=> Known(id))
    BY <2>1, <2>3 DEF Known
  <2> QED BY <1>0, <2>1, <2>2, <2>4, InTurnFrame
<1>6. CASE EndFilled \/ EndRests \/ EndCancelled \/ CancelNewest
  <2>1. /\ loop = "match" /\ taker.id \in Ids /\ Same(orders[taker.id], orders'[taker.id])
        /\ orders'[taker.id].state /= "Unknown"
        /\ \A id \in Ids \ {taker.id} : orders'[id] = orders[id]
        /\ loop' = "stops" /\ parked' = parked
    BY <1>6, SettleDoes
  <2>2. Known(taker.id) /\ orders'[taker.id].state /= "Unknown"
    <3>1. orders[taker.id].state \in {"New", "Accepted"}
      BY <2>1, TakerFacts
    <3> QED BY <2>1, <3>1 DEF Known
  <2>3. \A id \in Ids : orders'[id].req = orders[id].req /\ (Known(id)' <=> Known(id))
    BY <2>1, <2>2 DEF Known, Same
  <2> QED BY <1>0, <2>1, <2>3, InTurnFrame
<1>7. CASE Cancel \/ CancelOldest
  <2>1. PICK id \in Ids :
           /\ Known(id) /\ orders'[id] = WithCancelled(orders[id])
           /\ \A j \in Ids \ {id} : orders'[j] = orders[j]
           /\ CancelMeta(id)
           /\ UNCHANGED <<lastTrade, loop, historical>>
    BY <1>7, CancelDoes
  <2>2. orders'[id].req = orders[id].req /\ Known(id)'
    <3> DEFINE m == orders[id]
               mm == orders'[id]
    <3>1. m \in Meta /\ mm = WithCancelled(m)
      BY <1>1, <2>1
    <3> HIDE DEF m, mm
    <3>2. mm.req = m.req /\ mm.state = "Cancelled"
      BY <3>1, CancelledFields
    <3> QED BY <3>2 DEF m, mm, Known
  <2>3. \A j \in Ids : orders'[j].req = orders[j].req /\ (Known(j)' <=> Known(j))
    BY <2>1, <2>2 DEF Known
  <2>4. Increasing(parked') /\ Within(parked', parked)
    BY <1>0, <2>1, RemoveFirstInOrder DEF CancelMeta
  <2> QED BY <1>0, <1>2, <2>1, <2>3, <2>4, InTurnFrame
<1>8. CASE CancelBoth
  <2>1. PICK id \in Ids :
           /\ loop = "match" /\ taker.id \in Ids /\ id /= taker.id /\ Known(id)
           /\ orders'[id] = WithCancelled(orders[id])
           /\ orders'[taker.id] = RemainderCancelled
           /\ \A j \in Ids \ {id, taker.id} : orders'[j] = orders[j]
           /\ loop' = "stops" /\ parked' = parked
    BY <1>8, CancelBothDoes
  <2>2. orders'[id].req = orders[id].req /\ Known(id)'
    <3> DEFINE m == orders[id]
               mm == orders'[id]
    <3>1. m \in Meta /\ mm = WithCancelled(m)
      BY <1>1, <2>1
    <3> HIDE DEF m, mm
    <3>2. mm.req = m.req /\ mm.state = "Cancelled"
      BY <3>1, CancelledFields
    <3> QED BY <3>2 DEF m, mm, Known
  <2>3. /\ orders'[taker.id].req = orders[taker.id].req
        /\ Known(taker.id) /\ orders'[taker.id].state /= "Unknown"
    <3>0. orders[taker.id].state \in {"New", "Accepted"}
      BY <2>1, TakerFacts
    <3> DEFINE n == orders[taker.id]
               nn == orders'[taker.id]
               left == taker.remaining
    <3>1. n \in Meta /\ nn = [n EXCEPT !.cancelled = @ + left, !.state = "Cancelled"]
      BY <1>1, <2>1 DEF RemainderCancelled
    <3> HIDE DEF n, nn, left
    <3>2. nn.req = n.req /\ nn.state = "Cancelled"
      BY <3>1, TakerFields
    <3> QED BY <3>0, <3>2 DEF n, nn, Known
  <2>4. \A j \in Ids : orders'[j].req = orders[j].req /\ (Known(j)' <=> Known(j))
    <3> TAKE j \in Ids
    <3>1. CASE j \in {id, taker.id}
      BY <2>1, <2>2, <2>3, <3>1 DEF Known
    <3>2. CASE j \notin {id, taker.id}
      BY <2>1, <3>2 DEF Known
    <3> QED BY <3>1, <3>2
  <2> QED BY <1>0, <2>1, <2>4, InTurnFrame
<1>9. CASE StopsQuiet
  BY <1>0, <1>9, ScanFindsNone, InTurnFrame DEF StopsQuiet, Known
<1>10. CASE FeedAdd \/ FeedReduce \/ PumpStops
  <2>1. /\ orders' = orders /\ parked' = parked /\ lastTrade' = lastTrade
        /\ loop' = "idle" /\ historical' = 0 => loop = "idle" /\ historical = 0
    BY <1>10 DEF FeedAdd, FeedReduce, PumpStops, IInv
  <2> QED BY <1>0, <1>2, <2>1, InTurnFrame DEF Known
<1>11. CASE SubmitInvalid \/ Submit
  BY <1>11, SubmitInvalidDoes, SubmitDoes, InTurnEnters
<1>12. CASE FireStop
  <2>1. PICK i \in 1..Len(parked) :
           /\ Enters(parked[i]) /\ Known(parked[i]) /\ loop = "stops"
           /\ parked' = RemoveAt(parked, i) /\ parked[i] \in Ids
    BY <1>12, FireStopDoes
  <2>2. Increasing(parked') /\ Within(parked', parked)
    BY <1>0, <2>1, RemoveAtInOrder
  <2> QED BY <2>1, <2>2, InTurnEnters
<1> QED BY <1>3, <1>4, <1>5, <1>6, <1>7, <1>8, <1>9, <1>10, <1>11, <1>12 DEF Next, Engine, Match

-----------------------------------------------------------------------------
(* Fill-or-kill.                                                           *)

Shares(R) == SumFunctionOnSet([e \in R |-> e.shares], R)
ReachIn(bk, req, type) ==
  {e \in bk : e.side = Opposite(req.side) /\ Crosses(req, type, e.price)}

LEMMA SharesFacts ==
  ASSUME NEW R, IsFiniteSet(R), \A e \in R : e.shares \in Nat
  PROVE  /\ Shares(R) \in Nat
         /\ \A e \in R : Shares(R) = e.shares + Shares(R \ {e})
         /\ R = {} => Shares(R) = 0
<1> DEFINE f == [e \in R |-> e.shares]
<1>1. \A e \in R : f[e] \in Nat /\ f[e] \in Int /\ f[e] = e.shares
  OBVIOUS
<1>2. Shares(R) = SumFunctionOnSet(f, R)
  BY DEF Shares
<1>3. ASSUME NEW e \in R PROVE Shares(R \ {e}) = SumFunctionOnSet(f, R \ {e})
  <2> DEFINE g == [x \in R \ {e} |-> x.shares]
  <2>1. \A x \in R \ {e} : g[x] = f[x]
    OBVIOUS
  <2>2. IsFiniteSet(R \ {e})
    BY FS_RemoveElement
  <2>3. Shares(R \ {e}) = SumFunctionOnSet(g, R \ {e})
    BY DEF Shares
  <2> HIDE DEF f, g
  <2> QED BY <2>1, <2>2, <2>3, SumSame
<1> HIDE DEF f
<1>4. SumFunctionOnSet(f, R) \in Nat
  BY <1>1, SumType
<1>5. ASSUME NEW e \in R PROVE SumFunctionOnSet(f, R) = f[e] + SumFunctionOnSet(f, R \ {e})
  BY <1>1, SumRemove
<1>6. R = {} => Shares(R) = 0
  BY <1>2, SumEmpty
<1> QED BY <1>1, <1>2, <1>3, <1>4, <1>5, <1>6

LEMMA SharesAdd ==
  ASSUME NEW R, IsFiniteSet(R), \A e \in R : e.shares \in Nat,
         NEW x, x \notin R, x.shares \in Nat
  PROVE  Shares(R \union {x}) = x.shares + Shares(R)
<1> DEFINE S == R \union {x}
<1>1. IsFiniteSet(S) /\ x \in S /\ \A e \in S : e.shares \in Nat
  BY FS_AddElement
<1>2. S \ {x} = R
  OBVIOUS
<1> HIDE DEF S
<1>3. Shares(S) = x.shares + Shares(S \ {x})
  BY <1>1, SharesFacts
<1> QED BY <1>2, <1>3 DEF S

LEMMA SharesIs == \A R : SumFunction([e \in R |-> e.shares]) = Shares(R)
<1> SUFFICES ASSUME NEW R PROVE SumFunction([e \in R |-> e.shares]) = Shares(R)
  OBVIOUS
<1> DEFINE f == [e \in R |-> e.shares]
<1>1. SumFunction(f) = SumFunctionOnSet(f, DOMAIN f)
  BY DEF SumFunction, SumFunctionOnSet, FoldFunction
<1> QED BY <1>1 DEF Shares

\* What the taker, or the order that becomes it, can reach.
LEMMA AvailableIs ==
  /\ \A req, type : Available(req, type) = Shares(ReachIn(book, req, type))
  /\ Available(orders[taker.id].req, "fok")' =
       Shares(ReachIn(book', orders'[taker'.id].req, "fok"))
<1>1. \A req, type : Available(req, type) = Shares(ReachIn(book, req, type))
  BY SharesIs DEF Available, Reachable, ReachIn
<1>2. Available(orders[taker.id].req, "fok")' =
        Shares(ReachIn(book', orders'[taker'.id].req, "fok"))
  BY SharesIs DEF Available, Reachable, ReachIn
<1> QED BY <1>1, <1>2

LEMMA ReachFacts ==
  ASSUME IInv, IsFiniteSet(book), NEW req, NEW type
  PROVE  /\ IsFiniteSet(ReachIn(book, req, type))
         /\ ReachIn(book, req, type) \subseteq book
         /\ \A e \in book : e.shares \in Nat \ {0}
         /\ Shares(ReachIn(book, req, type)) \in Nat
<1>1. /\ ReachIn(book, req, type) \subseteq book
      /\ \A e \in book : e.shares \in Nat \ {0}
  BY DEF IInv, Agrees, AgreesWith, ReachIn
<1>2. IsFiniteSet(ReachIn(book, req, type))
  BY <1>1, FS_Subset
<1>3. \A e \in ReachIn(book, req, type) : e.shares \in Nat
  BY <1>1
<1>4. Shares(ReachIn(book, req, type)) \in Nat
  BY <1>2, <1>3, SharesFacts
<1> QED BY <1>1, <1>2, <1>4

\* A trade takes from what the order can reach no more than it fills.
LEMMA ReducedReach ==
  ASSUME IInv, IsFiniteSet(book), NEW req, NEW type, NEW e \in ReachIn(book, req, type),
         NEW qty \in 1..e.shares
  PROVE  Shares(ReachIn(Reduced(book, e, qty), req, type)) =
           Shares(ReachIn(book, req, type)) - qty
<1> DEFINE R == ReachIn(book, req, type)
           S == ReachIn(Reduced(book, e, qty), req, type)
           rest == R \ {e}
<1>1. /\ IsFiniteSet(R) /\ e \in R /\ e \in book /\ Shares(R) \in Nat
      /\ \A f \in R : f.shares \in Nat /\ f \in book
      /\ e.shares \in Nat \ {0}
  BY ReachFacts
<1>2. Shares(R) = e.shares + Shares(rest)
  <2> HIDE DEF R
  <2> QED BY <1>1, SharesFacts
<1>3. /\ IsFiniteSet(rest) /\ Shares(rest) \in Nat
      /\ \A f \in rest : f.shares \in Nat /\ f \in book
  <2>1. IsFiniteSet(rest) /\ \A f \in rest : f.shares \in Nat /\ f \in book
    <3> HIDE DEF R
    <3> QED BY <1>1, FS_RemoveElement
  <2> HIDE DEF rest
  <2> QED BY <2>1, SharesFacts
<1>4. CASE qty >= e.shares
  <2>1. Reduced(book, e, qty) = book \ {e} /\ qty = e.shares
    BY <1>1, <1>4 DEF Reduced
  <2>2. S = rest
    BY <2>1 DEF ReachIn
  <2> HIDE DEF rest, S, R
  <2> QED BY <1>1, <1>2, <1>3, <2>1, <2>2 DEF R, S
<1>5. CASE ~(qty >= e.shares)
  <2> DEFINE x == [e EXCEPT !.shares = e.shares - qty]
  <2>1. x.ref = e.ref /\ x.side = e.side /\ x.price = e.price /\ x.shares = e.shares - qty
    BY <1>1 DEF IInv, Agrees, AgreesWith
  <2>2. Reduced(book, e, qty) = (book \ {e}) \union {x}
    BY <1>5 DEF Reduced
  <2> HIDE DEF x
  <2>3. S = rest \union {x}
    BY <1>1, <2>1, <2>2 DEF ReachIn
  <2>4. x \notin rest
    BY <1>1, <1>3, <2>1 DEF IInv, Agrees, AgreesWith
  <2>5. x.shares \in Nat
    BY <1>1, <1>5, <2>1
  <2>6. Shares(rest \union {x}) = x.shares + Shares(rest)
    <3> HIDE DEF rest
    <3> QED BY <1>3, <2>4, <2>5, SharesAdd
  <2> HIDE DEF rest, S, R
  <2> QED BY <1>1, <1>2, <1>3, <2>1, <2>3, <2>6 DEF R, S
<1> QED BY <1>4, <1>5

LEMMA FilledReach ==
  ASSUME IInv, IsFiniteSet(book), NEW req, NEW type, NEW e \in ReachIn(book, req, type), Owned(e),
         NEW qty \in 1..e.shares
  PROVE  Shares(ReachIn(BookFilled(e, orders[e.ref], qty), req, type)) >=
           Shares(ReachIn(book, req, type)) - qty
<1> DEFINE m == orders[e.ref]
           R == ReachIn(book, req, type)
           bk == Reduced(book, e, qty)
           T == ReachIn(bk, req, type)
<1>1. Shares(T) = Shares(R) - qty /\ Shares(R) \in Nat
  BY ReducedReach, ReachFacts
<1>2. e \in book /\ e.shares \in Nat /\ m.resting = e.shares
  BY MakerFacts DEF ReachIn
<1>3. CASE ~Refreshes(m, qty)
  <2>1. BookFilled(e, m, qty) = bk
    BY <1>3 DEF BookFilled
  <2> HIDE DEF bk, R
  <2> QED BY <1>1, <2>1 DEF R
<1>4. CASE Refreshes(m, qty)
  <2> DEFINE x == [ref |-> e.ref, side |-> e.side, price |-> e.price, shares |-> Slice(m),
                   place |-> 1 + Max({0} \union {f.place : f \in bk})]
  <2>1. qty = e.shares
    BY <1>2, <1>4 DEF Refreshes
  <2>2. bk = book \ {e}
    BY <1>2, <2>1 DEF Reduced
  <2>3. BookFilled(e, m, qty) = bk \union {x}
    BY <1>4 DEF BookFilled, Added
  <2>4. x.ref = e.ref /\ x.side = e.side /\ x.price = e.price /\ x.shares = Slice(m)
    OBVIOUS
  <2>5. Slice(m) \in Nat
    BY <1>2, MakerFacts, SliceFacts, MetaFields DEF SoundRecord, Slice, LeastOf
  <2> HIDE DEF x
  <2>6. ReachIn(BookFilled(e, m, qty), req, type) = T \union {x}
    BY <2>3, <2>4 DEF ReachIn
  <2>7. x \notin T
    BY <2>2, <2>4, <1>2 DEF ReachIn, IInv, Agrees, AgreesWith
  <2>8. IsFiniteSet(T) /\ \A f \in T : f.shares \in Nat
    <3>1. T \subseteq book
      BY <2>2 DEF ReachIn
    <3> HIDE DEF T
    <3> QED BY <3>1, FS_Subset, ReachFacts
  <2>9. Shares(T \union {x}) = x.shares + Shares(T)
    <3> HIDE DEF T
    <3> QED BY <2>4, <2>5, <2>7, <2>8, SharesAdd
  <2> HIDE DEF T, R
  <2> QED BY <1>1, <1>2, <2>4, <2>5, <2>6, <2>9 DEF R
<1> QED BY <1>3, <1>4

\* An order with nothing left, nothing cancelled and nothing displayed is filled.
LEMMA AllFilled ==
  ASSUME NEW m, SoundRecord(m, 0), m.entered, ~m.inBook, m.cancelled = 0
  PROVE  m.filled = m.req.quantity
<1>1. m \in Meta
  BY DEF SoundRecord
<1>2. m.filled \in Nat /\ m.resting \in Nat /\ m.hidden \in Nat
  BY <1>1, MetaFields
<1>3. m.resting = 0 /\ m.hidden = 0
  BY <1>2 DEF SoundRecord
<1>4. m.filled + 0 + 0 + 0 + 0 = m.req.quantity
  BY <1>3 DEF SoundRecord
<1> QED BY <1>2, <1>4

LEMMA EffectiveFacts ==
  \A t \in Types : /\ Effective(t) \in Types
                   /\ Effective(t) = "fok" <=> t = "fok"
                   /\ Effective(t) = "limit" => t /= "fok"
BY DEF Effective, Types

LEMMA SureQuiet ==
  ASSUME IInv, Sure, loop' /= "match",
         \A id \in Ids :
           /\ orders'[id].req = orders[id].req
           /\ orders[id].req.type = "fok" => ~orders'[id].inBook
           /\ orders[id].req.type = "fok" /\ orders[id].req.stp = "none" =>
                orders'[id].filled = orders[id].filled /\ InFlight(id) = 0
  PROVE  Sure'
<1>1. \A id \in Ids : orders'[id].req.stp = "none" => AllOrNone(id)'
  BY DEF Sure, FokAllOrNoneAmongStrangers, AllOrNone
<1> QED BY <1>1 DEF Sure, FokAllOrNoneAmongStrangers

LEMMA SureTrade ==
  ASSUME IInv, IInv', Sure, loop = "match", loop' = "match", taker.id \in Ids,
         taker'.id = taker.id, taker'.type = taker.type, NEW qty \in Nat,
         taker'.remaining = taker.remaining - qty,
         orders'[taker.id].req = orders[taker.id].req,
         orders'[taker.id].inBook = orders[taker.id].inBook,
         orders'[taker.id].cancelled = orders[taker.id].cancelled,
         \A id \in Ids \ {taker.id} :
           /\ orders'[id].req = orders[id].req
           /\ orders'[id] = orders[id] \/ orders[id].inBook,
         taker.type = "fok" =>
           Shares(ReachIn(book', orders[taker.id].req, "fok")) >=
             Shares(ReachIn(book, orders[taker.id].req, "fok")) - qty,
         Shares(ReachIn(book', orders[taker.id].req, "fok")) \in Nat,
         Shares(ReachIn(book, orders[taker.id].req, "fok")) \in Nat
  PROVE  Sure'
<1> DEFINE n == orders[taker.id]
           nn == orders'[taker.id]
           had == Shares(ReachIn(book, n.req, "fok"))
           has == Shares(ReachIn(book', n.req, "fok"))
<1>1. taker.remaining \in Nat /\ taker'.remaining \in Nat
  BY DEF IInv, TakerOK
<1>2. taker.type = Effective(n.req.type)
  BY DEF Sure
<1>3. nn.entered /\ ~nn.inBook /\ SoundRecord(nn, taker'.remaining)
  BY DEF IInv, TakerOK, SoundOrders, InFlight
<1>4. n.req.type \in Types
  BY OrdersTyped, RequestTyped
<1>5. \A id \in Ids : orders'[id].req.type = "fok" => ~orders'[id].inBook
  <2> TAKE id \in Ids
  <2>1. CASE id = taker.id
    BY <1>3, <2>1
  <2>2. CASE id /= taker.id
    BY <2>2 DEF Sure
  <2> QED BY <2>1, <2>2
<1>6. ASSUME taker.type = "fok", n.req.stp = "none"
      PROVE  nn.cancelled = 0 /\ has >= taker'.remaining
  <2>1. n.cancelled = 0 /\ had >= taker.remaining
    BY <1>6, AvailableIs DEF Sure
  <2>2. has >= had - qty /\ has \in Nat /\ had \in Nat
    BY <1>6
  <2> HIDE DEF has, had
  <2> QED BY <1>1, <2>1, <2>2
<1>7. \A id \in Ids : orders'[id].req.stp = "none" => AllOrNone(id)'
  <2> SUFFICES ASSUME NEW id \in Ids, orders'[id].req.stp = "none", orders'[id].req.type = "fok",
                      InFlight(id)' = 0
               PROVE  orders'[id].filled \in {0, orders'[id].req.quantity}
    BY DEF AllOrNone
  <2>1. CASE id = taker.id
    <3>1. taker'.remaining = 0
      BY <2>1 DEF InFlight
    <3>2. taker.type = "fok"
      BY <1>2, <1>4, <2>1, EffectiveFacts
    <3>3. nn.filled = nn.req.quantity
      <4> HIDE DEF nn
      <4>1. SoundRecord(nn, 0)
        BY <1>3, <3>1
      <4>2. nn.cancelled = 0
        BY <1>6, <2>1, <3>2 DEF nn
      <4> QED BY <1>3, <4>1, <4>2, AllFilled
    <3> QED BY <2>1, <3>3
  <2>2. CASE id /= taker.id
    <3>1. orders'[id] = orders[id] /\ InFlight(id) = 0
      BY <2>2 DEF Sure, InFlight
    <3> QED BY <3>1 DEF Sure, FokAllOrNoneAmongStrangers, AllOrNone
  <2> QED BY <2>1, <2>2
<1>8. (taker.type = Effective(orders[taker.id].req.type))'
  BY <1>2
<1>9. taker'.type = "fok" /\ orders'[taker'.id].req.stp = "none" =>
         /\ orders'[taker'.id].cancelled = 0
         /\ Available(orders[taker.id].req, "fok")' >= taker'.remaining
  BY <1>6, AvailableIs
<1> QED BY <1>5, <1>7, <1>8, <1>9 DEF Sure, FokAllOrNoneAmongStrangers

LEMMA ReachTyped ==
  ASSUME IInv, IInv', Places, Places', NEW req, NEW type
  PROVE  /\ Shares(ReachIn(book, req, type)) \in Nat
         /\ Shares(ReachIn(book', req, type)) \in Nat
<1>1. Shares(ReachIn(book, req, type)) \in Nat
  BY ReachFacts DEF Places, Queued
<1>2. IsFiniteSet(book') /\ \A e \in book' : e.shares \in Nat
  BY DEF Places, Queued, IInv, Agrees, AgreesWith
<1>3. Shares(ReachIn(book', req, type)) \in Nat
  <2> DEFINE R == ReachIn(book', req, type)
  <2>1. R \subseteq book'
    BY DEF ReachIn
  <2>2. IsFiniteSet(R)
    BY <1>2, <2>1, FS_Subset
  <2>3. \A e \in R : e.shares \in Nat
    BY <1>2, <2>1
  <2> HIDE DEF R
  <2>4. Shares(R) \in Nat
    BY <2>2, <2>3, SharesFacts
  <2> QED BY <2>4 DEF R
<1> QED BY <1>1, <1>3

\* While the book has what a taker needs, it meets an order.
LEMMA NeverStranded ==
  ASSUME IInv, Places, MeetsNone, taker.type = "fok",
         Available(orders[taker.id].req, "fok") >= taker.remaining
  PROVE  FALSE
<1> DEFINE req == orders[taker.id].req
           R == ReachIn(book, req, "fok")
<1>1. taker.remaining \in Nat /\ taker.remaining > 0 /\ loop = "match"
  BY TakerFacts DEF MeetsNone
<1>2. Shares(R) >= taker.remaining /\ Shares(R) \in Nat
  BY AvailableIs, ReachFacts DEF Places, Queued
<1>3. R /= {}
  <2>1. IsFiniteSet(R) /\ \A e \in R : e.shares \in Nat
    BY ReachFacts DEF Places, Queued
  <2> HIDE DEF R
  <2> QED BY <1>1, <1>2, <2>1, SharesFacts
<1>4. PICK x \in book : x.side = Opposite(req.side) /\ Crosses(req, "fok", x.price)
  BY <1>3 DEF ReachIn
<1>5. PICK e \in book : IsFront(book, x.side, e)
  BY FrontExists DEF Places
<1>6. e.price = x.price \/ Better(x.side, e.price, x.price)
  BY <1>5 DEF IsFront
<1>7. /\ req.side \in Sides /\ req.price \in Nat /\ e.price \in Nat /\ x.price \in Nat
  BY <1>1, TakerFacts, RequestTyped DEF SoundRecord, Places, Queued
<1>8. Crosses(req, "fok", e.price)
  <2>1. IF req.side = "buy" THEN req.price >= x.price ELSE req.price <= x.price
    BY <1>4 DEF Crosses
  <2>2. IF req.side = "buy" THEN e.price <= x.price ELSE e.price >= x.price
    BY <1>4, <1>6, <1>7 DEF Better, Opposite, Sides
  <2>3. IF req.side = "buy" THEN req.price >= e.price ELSE req.price <= e.price
    <3> HIDE DEF req
    <3> QED BY <1>7, <2>1, <2>2
  <2> QED BY <2>3 DEF Crosses
<1>9. Meets(e)
  BY <1>1, <1>4, <1>5, <1>8 DEF Meets, IsFront
<1> QED BY <1>9 DEF MeetsNone

LEMMA SureTrades ==
  ASSUME IInv, IInv', Sure, Places, Places', Trade \/ TradeExternal PROVE Sure'
<1>0. \A req : /\ Shares(ReachIn(book, req, "fok")) \in Nat
               /\ Shares(ReachIn(book', req, "fok")) \in Nat
  BY ReachTyped
<1>1. \A id \in Ids : orders[id] \in Meta
  BY OrdersTyped
<1>2. IsFiniteSet(book)
  BY DEF Places, Queued
<1>3. CASE Trade
  <2>1. PICK e \in book : \E qty \in 1..e.shares :
          /\ Meets(e) /\ Owned(e) /\ e.ref \in Ids /\ taker.id \in Ids /\ e.ref /= taker.id
          /\ orders'[e.ref] = MakerFilled(orders[e.ref], qty)
          /\ orders'[taker.id] = [orders[taker.id] EXCEPT !.filled = @ + qty]
          /\ \A id \in Ids \ {e.ref, taker.id} : orders'[id] = orders[id]
          /\ book' = BookFilled(e, orders[e.ref], qty)
          /\ taker'.id = taker.id /\ taker'.type = taker.type
          /\ taker'.remaining = taker.remaining - qty
          /\ loop = "match" /\ loop' = loop
    BY <1>3, TradeDoes
  <2>2. PICK qty \in 1..e.shares :
          /\ orders'[e.ref] = MakerFilled(orders[e.ref], qty)
          /\ orders'[taker.id] = [orders[taker.id] EXCEPT !.filled = @ + qty]
          /\ book' = BookFilled(e, orders[e.ref], qty)
          /\ taker'.remaining = taker.remaining - qty
    BY <2>1
  <2> DEFINE n == orders[taker.id]
             nn == orders'[taker.id]
  <2>3. nn.req = n.req /\ nn.inBook = n.inBook /\ nn.cancelled = n.cancelled
    <3>1. n \in Meta /\ nn = [n EXCEPT !.filled = @ + qty]
      BY <1>1, <2>1, <2>2
    <3> HIDE DEF n, nn
    <3> QED BY <3>1, TakerFields
  <2>4. orders'[e.ref].req = orders[e.ref].req /\ orders[e.ref].inBook
    <3>1. orders'[e.ref].req = orders[e.ref].req
      BY <1>1, <2>1, <2>2, MakerFields
    <3> QED BY <2>1, <3>1, MakerFacts
  <2>5. taker.type = "fok" => Shares(ReachIn(book', n.req, "fok")) >=
                                Shares(ReachIn(book, n.req, "fok")) - qty
    <3> SUFFICES ASSUME taker.type = "fok"
                 PROVE  Shares(ReachIn(book', n.req, "fok")) >=
                          Shares(ReachIn(book, n.req, "fok")) - qty
      OBVIOUS
    <3>1. e \in ReachIn(book, n.req, "fok")
      BY <2>1 DEF Meets, IsFront, ReachIn
    <3> HIDE DEF n
    <3> QED BY <1>2, <2>1, <2>2, <3>1, FilledReach
  <2>6. \A id \in Ids \ {taker.id} : /\ orders'[id].req = orders[id].req
                                     /\ orders'[id] = orders[id] \/ orders[id].inBook
    BY <2>1, <2>4
  <2>7. qty \in Nat
    OBVIOUS
  <2> HIDE DEF n, nn
  <2> QED BY <1>0, <2>1, <2>2, <2>3, <2>5, <2>6, <2>7, SureTrade DEF n, nn
<1>4. CASE TradeExternal
  <2>1. PICK e \in book : \E qty \in 1..e.shares :
          /\ Meets(e) /\ taker.id \in Ids
          /\ orders'[taker.id] = [orders[taker.id] EXCEPT !.filled = @ + qty]
          /\ \A id \in Ids \ {taker.id} : orders'[id] = orders[id]
          /\ book' = Reduced(book, e, qty)
          /\ taker'.id = taker.id /\ taker'.type = taker.type
          /\ taker'.remaining = taker.remaining - qty
          /\ loop = "match" /\ loop' = loop
    BY <1>4, TradeExternalDoes
  <2>2. PICK qty \in 1..e.shares :
          /\ orders'[taker.id] = [orders[taker.id] EXCEPT !.filled = @ + qty]
          /\ book' = Reduced(book, e, qty)
          /\ taker'.remaining = taker.remaining - qty
    BY <2>1
  <2> DEFINE n == orders[taker.id]
             nn == orders'[taker.id]
  <2>3. nn.req = n.req /\ nn.inBook = n.inBook /\ nn.cancelled = n.cancelled
    <3>1. n \in Meta /\ nn = [n EXCEPT !.filled = @ + qty]
      BY <1>1, <2>1, <2>2
    <3> HIDE DEF n, nn
    <3> QED BY <3>1, TakerFields
  <2>4. qty \in Nat
    OBVIOUS
  <2>5. taker.type = "fok" => Shares(ReachIn(book', n.req, "fok")) >=
                                Shares(ReachIn(book, n.req, "fok")) - qty
    <3> SUFFICES ASSUME taker.type = "fok"
                 PROVE  Shares(ReachIn(book', n.req, "fok")) >=
                          Shares(ReachIn(book, n.req, "fok")) - qty
      OBVIOUS
    <3>1. e \in ReachIn(book, n.req, "fok")
      BY <2>1 DEF Meets, IsFront, ReachIn
    <3> HIDE DEF n
    <3>2. Shares(ReachIn(book', n.req, "fok")) = Shares(ReachIn(book, n.req, "fok")) - qty
      BY <1>2, <2>2, <3>1, ReducedReach
    <3> QED BY <1>0, <2>4, <3>2
  <2>6. \A id \in Ids \ {taker.id} : /\ orders'[id].req = orders[id].req
                                     /\ orders'[id] = orders[id] \/ orders[id].inBook
    BY <2>1
  <2> HIDE DEF n, nn
  <2> QED BY <1>0, <2>1, <2>2, <2>3, <2>4, <2>5, <2>6, SureTrade DEF n, nn
<1> QED BY <1>3, <1>4

LEMMA SureSettle ==
  ASSUME IInv, Sure, Places, EndFilled \/ EndRests \/ EndCancelled \/ CancelNewest PROVE Sure'
<1> DEFINE n == orders[taker.id]
           nn == orders'[taker.id]
<1>1. /\ loop = "match" /\ taker.id \in Ids /\ loop' = "stops"
      /\ nn.req = n.req /\ nn.filled = n.filled
      /\ \A id \in Ids \ {taker.id} : orders'[id] = orders[id]
  BY SettleDoes DEF Same
<1>2. /\ n \in Meta /\ ~n.inBook /\ n.req.type \in Types /\ taker.type = Effective(n.req.type)
      /\ orders = [j \in Ids |-> orders[j]]
  BY <1>1, OrdersTyped, TakerFacts, RequestTyped DEF Sure, IInv
<1>3. n.req.type = "fok" => ~nn.inBook
  <2>1. CASE EndRests
    BY <1>2, <2>1, EffectiveFacts DEF EndRests
  <2>2. CASE EndFilled
    <3>1. nn = [n EXCEPT !.state = "Filled"]
      BY <1>1, <1>2, <2>2 DEF EndFilled, Settle
    <3> HIDE DEF nn, n
    <3> QED BY <1>2, <3>1, StateFields
  <2>3. CASE EndCancelled \/ CancelNewest
    <3> DEFINE left == taker.remaining
    <3>1. nn = [n EXCEPT !.cancelled = @ + left, !.state = "Cancelled"]
      BY <1>1, <1>2, <2>3 DEF EndCancelled, CancelNewest, Settle, RemainderCancelled
    <3> HIDE DEF nn, n, left
    <3> QED BY <1>2, <3>1, TakerFields
  <2> QED BY <2>1, <2>2, <2>3
<1>4. n.req.type = "fok" /\ n.req.stp = "none" => InFlight(taker.id) = 0
  <2> SUFFICES ASSUME n.req.type = "fok", n.req.stp = "none" PROVE EndFilled
    BY <1>1 DEF EndFilled, InFlight
  <2>1. taker.type = "fok"
    BY <1>2, EffectiveFacts
  <2>2. Available(n.req, "fok") >= taker.remaining
    BY <1>1, <2>1 DEF Sure
  <2>3. ~EndCancelled
    BY <2>1, <2>2, NeverStranded DEF EndCancelled
  <2>4. ~EndRests /\ ~CancelNewest
    BY <2>1 DEF EndRests, CancelNewest
  <2> QED BY <2>3, <2>4
<1>5. \A id \in Ids :
        /\ orders'[id].req = orders[id].req
        /\ orders[id].req.type = "fok" => ~orders'[id].inBook
        /\ orders[id].req.type = "fok" /\ orders[id].req.stp = "none" =>
             orders'[id].filled = orders[id].filled /\ InFlight(id) = 0
  <2> TAKE id \in Ids
  <2>1. CASE id = taker.id
    BY <1>1, <1>3, <1>4, <2>1
  <2>2. CASE id /= taker.id
    BY <1>1, <2>2 DEF Sure, InFlight
  <2> QED BY <2>1, <2>2
<1> QED BY <1>1, <1>5, SureQuiet

LEMMA SureEnters == ASSUME IInv, IInv', Sure, Places, NEW id \in Ids, Enters(id) PROVE Sure'
<1> DEFINE r == orders'[id]
<1>1. /\ loop /= "match" /\ r.filled = 0 /\ r.cancelled = 0 /\ ~r.inBook
      /\ \A j \in Ids \ {id} : orders'[j] = orders[j]
      /\ book' = book
      /\ \/ /\ ~Refused(r.req, Effective(r.req.type))
            /\ taker' = [id |-> id, type |-> Effective(r.req.type), remaining |-> r.req.quantity]
            /\ loop' = "match"
         \/ loop' = loop
  BY DEF Enters
<1>2. \A j \in Ids : orders'[j].req.type = "fok" => ~orders'[j].inBook
  <2> TAKE j \in Ids
  <2> QED BY <1>1 DEF Sure
<1>3. \A j \in Ids : orders'[j].req.stp = "none" => AllOrNone(j)'
  <2> TAKE j \in Ids
  <2>1. CASE j = id
    BY <1>1, <2>1 DEF AllOrNone
  <2>2. CASE j /= id
    <3>1. orders'[j] = orders[j] /\ InFlight(j) = 0
      BY <1>1, <2>2 DEF InFlight
    <3> QED BY <3>1 DEF Sure, FokAllOrNoneAmongStrangers, AllOrNone
  <2> QED BY <2>1, <2>2
<1>4. ASSUME loop' = "match"
      PROVE  /\ taker'.type = Effective(orders'[taker'.id].req.type)
             /\ taker'.type = "fok" => /\ orders'[taker'.id].cancelled = 0
                                       /\ Available(orders[taker.id].req, "fok")' >= taker'.remaining
  <2>1. /\ ~Refused(r.req, Effective(r.req.type))
        /\ taker'.id = id /\ taker'.type = Effective(r.req.type)
        /\ taker'.remaining = r.req.quantity
    BY <1>1, <1>4
  <2>2. r.req.quantity \in Nat
    BY OrdersTypedNext, RequestTyped
  <2>3. ASSUME taker'.type = "fok"
        PROVE  Available(orders[taker.id].req, "fok")' >= taker'.remaining
    <3>1. ~(Available(r.req, "fok") < r.req.quantity)
      BY <2>1, <2>3 DEF Refused
    <3>2. Available(orders[taker.id].req, "fok")' = Available(r.req, "fok")
      BY <1>1, <2>1, AvailableIs
    <3>3. Available(r.req, "fok") \in Nat
      <4>1. IsFiniteSet(book)
        BY DEF Places, Queued
      <4> QED BY <4>1, AvailableIs, ReachFacts
    <3> QED BY <2>1, <2>2, <3>1, <3>2, <3>3
  <2> QED BY <1>1, <2>1, <2>3
<1> QED BY <1>2, <1>3, <1>4 DEF Sure, FokAllOrNoneAmongStrangers

LEMMA SureStep == ASSUME IInv, IInv', Sure, Places, Places', Next PROVE Sure'
<1>1. \A id \in Ids : /\ orders[id] \in Meta
                      /\ orders[id].req.type = "fok" => ~orders[id].inBook
  BY OrdersTyped DEF Sure
<1>2. CASE ApplyExternalFill
  <2>1. PICK e \in book : \E qty \in 1..e.shares :
          /\ Owned(e) /\ e.ref \in Ids
          /\ orders'[e.ref] = MakerFilled(orders[e.ref], qty)
          /\ \A id \in Ids \ {e.ref} : orders'[id] = orders[id]
          /\ loop = "idle" /\ loop' = loop
    BY <1>2, ApplyExternalFillDoes
  <2>2. orders'[e.ref].req = orders[e.ref].req
    BY <1>1, <2>1, MakerFields
  <2>3. orders[e.ref].req.type /= "fok"
    BY <1>1, <2>1, MakerFacts
  <2>4. \A id \in Ids :
          /\ orders'[id].req = orders[id].req
          /\ orders[id].req.type = "fok" => ~orders'[id].inBook
          /\ orders[id].req.type = "fok" /\ orders[id].req.stp = "none" =>
               orders'[id].filled = orders[id].filled /\ InFlight(id) = 0
    <3> TAKE id \in Ids
    <3>1. CASE id = e.ref
      BY <2>2, <2>3, <3>1
    <3>2. CASE id /= e.ref
      BY <1>1, <2>1, <3>2 DEF InFlight
    <3> QED BY <3>1, <3>2
  <2> QED BY <2>1, <2>4, SureQuiet
<1>3. CASE Cancel \/ CancelOldest
  <2>1. PICK id \in Ids :
           /\ loop = "match" => id /= taker.id
           /\ orders'[id] = WithCancelled(orders[id])
           /\ \A j \in Ids \ {id} : orders'[j] = orders[j]
           /\ CancelOldest => orders[taker.id].req.stp = "oldest"
           /\ UNCHANGED <<taker, loop, historical>>
    BY <1>3, CancelDoes
  <2>2. /\ orders'[id].req = orders[id].req /\ orders'[id].filled = orders[id].filled
        /\ ~orders'[id].inBook
    <3> DEFINE m == orders[id]
               mm == orders'[id]
    <3>1. m \in Meta /\ mm = WithCancelled(m)
      BY <1>1, <2>1
    <3> HIDE DEF m, mm
    <3>2. mm.req = m.req /\ mm.filled = m.filled /\ ~mm.inBook
      BY <3>1, CancelledFields
    <3> QED BY <3>2 DEF m, mm
  <2>3. \A j \in Ids : /\ orders'[j].req = orders[j].req
                       /\ orders'[j].filled = orders[j].filled
                       /\ orders[j].req.type = "fok" => ~orders'[j].inBook
    BY <1>1, <2>1, <2>2
  <2>4. CASE loop = "match"
    <3>1. /\ taker.id \in Ids /\ orders'[taker.id] = orders[taker.id]
          /\ orders[taker.id].req.stp = "oldest"
      BY <1>3, <2>1, <2>4, TakerFacts DEF Cancel
    <3>2. \A j \in Ids : orders'[j].req.stp = "none" => AllOrNone(j)'
      BY <2>1, <2>3 DEF Sure, FokAllOrNoneAmongStrangers, AllOrNone, InFlight
    <3> QED BY <2>1, <2>3, <3>1, <3>2 DEF Sure, FokAllOrNoneAmongStrangers
  <2>5. CASE loop /= "match"
    <3>1. \A j \in Ids : InFlight(j) = 0
      BY <2>5 DEF InFlight
    <3> QED BY <2>1, <2>3, <2>5, <3>1, SureQuiet
  <2> QED BY <2>4, <2>5
<1>4. CASE CancelBoth
  <2>1. PICK id \in Ids :
           /\ loop = "match" /\ taker.id \in Ids /\ id /= taker.id
           /\ orders[taker.id].req.stp = "both"
           /\ orders'[id] = WithCancelled(orders[id])
           /\ orders'[taker.id] = RemainderCancelled
           /\ \A j \in Ids \ {id, taker.id} : orders'[j] = orders[j]
           /\ loop' = "stops"
    BY <1>4, CancelBothDoes
  <2>2. /\ orders'[id].req = orders[id].req /\ orders'[id].filled = orders[id].filled
        /\ ~orders'[id].inBook
    <3> DEFINE m == orders[id]
               mm == orders'[id]
    <3>1. m \in Meta /\ mm = WithCancelled(m)
      BY <1>1, <2>1
    <3> HIDE DEF m, mm
    <3>2. mm.req = m.req /\ mm.filled = m.filled /\ ~mm.inBook
      BY <3>1, CancelledFields
    <3> QED BY <3>2 DEF m, mm
  <2>3. /\ orders'[taker.id].req = orders[taker.id].req /\ ~orders'[taker.id].inBook
    <3>0. ~orders[taker.id].inBook
      BY <2>1, TakerFacts
    <3> DEFINE n == orders[taker.id]
               nn == orders'[taker.id]
               left == taker.remaining
    <3>1. n \in Meta /\ nn = [n EXCEPT !.cancelled = @ + left, !.state = "Cancelled"]
      BY <1>1, <2>1 DEF RemainderCancelled
    <3> HIDE DEF n, nn, left
    <3>2. nn.req = n.req /\ nn.inBook = n.inBook
      BY <3>1, TakerFields
    <3> QED BY <3>0, <3>2 DEF n, nn
  <2>4. \A j \in Ids :
          /\ orders'[j].req = orders[j].req
          /\ orders[j].req.type = "fok" => ~orders'[j].inBook
          /\ orders[j].req.type = "fok" /\ orders[j].req.stp = "none" =>
               orders'[j].filled = orders[j].filled /\ InFlight(j) = 0
    <3> TAKE j \in Ids
    <3>1. CASE j = taker.id
      BY <2>1, <2>3, <3>1
    <3>2. CASE j /= taker.id
      BY <1>1, <2>1, <2>2, <3>2 DEF InFlight
    <3> QED BY <3>1, <3>2
  <2> QED BY <2>1, <2>4, SureQuiet
<1>5. CASE FeedAdd \/ FeedReduce \/ PumpStops \/ StopsQuiet
  <2>1. orders' = orders /\ loop /= "match" /\ loop' /= "match"
    BY <1>5 DEF FeedAdd, FeedReduce, PumpStops, StopsQuiet
  <2>2. \A j \in Ids : InFlight(j) = 0
    BY <2>1 DEF InFlight
  <2> QED BY <1>1, <2>1, <2>2, SureQuiet
<1>6. CASE SubmitInvalid \/ Submit \/ FireStop
  BY <1>6, SubmitInvalidDoes, SubmitDoes, FireStopDoes, SureEnters
<1> QED BY <1>2, <1>3, <1>4, <1>5, <1>6, SureTrades, SureSettle DEF Next, Engine, Match

-----------------------------------------------------------------------------

LEMMA QuietInit == ASSUME Init, IInv PROVE QInv
<1>1. \A id \in Ids : /\ orders[id].sequence = 0 /\ orders[id].filled = 0
                      /\ ~Known(id) /\ ~orders[id].inBook
  BY DEF Init, Unknown, Known
<1>2. book = {} /\ parked = << >> /\ seq = 0 /\ loop = "idle"
  BY DEF Init
<1>3. Places
  BY <1>1, <1>2, FS_EmptySet DEF Places, Queued, Behind
<1>4. InTurn
  BY <1>1, <1>2 DEF InTurn, NoElectedStopParked
<1>5. Sure
  BY <1>1, <1>2 DEF Sure, FokAllOrNoneAmongStrangers, AllOrNone
<1> QED BY <1>3, <1>4, <1>5, CountsInit DEF QInv

LEMMA QuietStep == ASSUME IInv, IInv', QInv, [Next]_vars PROVE QInv'
<1>1. CASE Next
  <2>1. Counts' /\ Places'
    BY <1>1, CountsStep, PlacesStep DEF QInv
  <2>2. InTurn' /\ Sure'
    BY <1>1, <2>1, InTurnStep, SureStep DEF QInv
  <2> QED BY <2>1, <2>2 DEF QInv
<1>2. CASE UNCHANGED vars
  <2>1. Counts'
    BY <1>2 DEF vars, QInv, Counts, CountedOf, FilledOf, CancelledOf
  <2>2. Places'
    BY <1>2 DEF vars, QInv, Places, Queued, Behind, Stamps
  <2>3. InTurn'
    BY <1>2 DEF vars, QInv, InTurn, NoElectedStopParked, Elected, Known
  <2>4. Sure'
    BY <1>2 DEF vars, QInv, Sure, Available, Reachable, FokAllOrNoneAmongStrangers, AllOrNone,
                InFlight
  <2> QED BY <2>1, <2>2, <2>3, <2>4 DEF QInv
<1> QED BY <1>1, <1>2

LEMMA SpecQuiet == Spec => [](IInv /\ QInv)
<1>1. Init => IInv /\ QInv
  BY InitInv, QuietInit
<1>2. IInv /\ QInv /\ [Next]_vars => (IInv /\ QInv)'
  BY StepKeeps, QuietStep
<1> QED BY <1>1, <1>2, PTL DEF Spec

LEMMA InvQuiet == ASSUME IInv, QInv PROVE QuietBook
<1>1. TotalsBalance
  BY CountsBalance DEF QInv
<1>2. ArrivalOrder
  BY DEF QInv, Places, Queued, Stamps, InTurn, ArrivalOrder, Owned
<1>3. Uncrossed /\ NoElectedStopParked
  BY DEF QInv, Places, Queued, InTurn, Uncrossed
<1> QED BY <1>1, <1>2, <1>3 DEF QuietBook

\* What a call leaves behind: the totals of conserves_shares() balance, queues
\* stand in the order of arrival and stops in the order they were parked, no
\* two orders of the engine could trade, and no stop is parked that the last
\* trade has elected.
THEOREM MatcherQuietBook == Spec => []QuietBook
<1>1. IInv /\ QInv => QuietBook
  BY InvQuiet
<1> QED BY <1>1, SpecQuiet, PTL

\* "all of it right now, or none of it", for a fill-or-kill order that trades
\* with its owner's orders too: available() looks before match() starts, and
\* every trade takes from what it saw no more than the order still needs.
THEOREM MatcherFokAllOrNone == Spec => []FokAllOrNoneAmongStrangers
<1>1. IInv /\ QInv => FokAllOrNoneAmongStrangers
  BY DEF QInv, Sure
<1> QED BY <1>1, SpecQuiet, PTL

\* Types are kept: prices come from the book, and sums of naturals are natural.
THEOREM MatcherTypes == Spec => []TypeOK
<1>1. Init => lastTrade \in Nat
  BY DEF Init
<1>2. ASSUME IInv, QInv, lastTrade \in Nat, [Next]_vars PROVE lastTrade' \in Nat
  <2>1. \A e \in book : e.price \in Nat
    BY <1>2 DEF QInv, Places, Queued
  <2> QED BY <1>2, <2>1 DEF Next, Engine, Match, vars, SubmitInvalid, Submit, Cancel, Trade,
             TradeExternal, CancelNewest, CancelOldest, CancelBoth, EndFilled, EndRests,
             EndCancelled, FireStop, StopsQuiet, FeedAdd, FeedReduce, ApplyExternalFill, PumpStops
<1>3. ASSUME IInv, QInv, lastTrade \in Nat PROVE TypeOK
  <2>1. orders \in [Ids -> Meta] /\ IsFiniteSet(Ids)
    BY <1>3, OrdersTyped
  <2>2. book \subseteq Entry /\ IsFiniteSet(book)
    BY <1>3 DEF IInv, Agrees, AgreesWith, QInv, Places, Queued, Entry
  <2>3. totals \in [submitted : Nat, filled : Nat, cancelled : Nat]
    <3>1. \A id \in Ids : /\ orders[id].filled \in Nat /\ orders[id].cancelled \in Nat
                          /\ CountedIn(orders[id]) \in Nat
      BY <2>1, MetaFields DEF CountedIn
    <3>2. FilledOf(orders) \in Nat
      BY <2>1, <3>1, SumType DEF FilledOf
    <3>3. CancelledOf(orders) \in Nat
      BY <2>1, <3>1, SumType DEF CancelledOf
    <3>4. CountedOf(orders) \in Nat
      BY <2>1, <3>1, SumType DEF CountedOf
    <3> QED BY <1>3, <3>2, <3>3, <3>4 DEF QInv, Counts
  <2>4. taker \in [id : Nat, type : Types, remaining : Nat]
    <3>1. CASE loop = "match"
      <4>1. /\ taker = [id |-> taker.id, type |-> taker.type, remaining |-> taker.remaining]
            /\ taker.id \in Ids /\ taker.remaining \in Nat
            /\ taker.type = Effective(orders[taker.id].req.type)
        BY <1>3, <3>1 DEF IInv, TakerOK, QInv, Sure
      <4>2. taker.type \in Types
        BY <2>1, <4>1, RequestTyped, EffectiveFacts
      <4> QED BY <4>1, <4>2, IdFacts
    <3>2. CASE loop /= "match"
      BY <1>3, <3>2 DEF IInv, TakerOK, NoTaker, Types
    <3> QED BY <3>1, <3>2
  <2> QED BY <1>3, <2>1, <2>2, <2>3, <2>4 DEF TypeOK, IInv, StopsParked
<1>4. Spec => [](lastTrade \in Nat)
  <2>1. IInv /\ QInv /\ lastTrade \in Nat /\ [Next]_vars => (lastTrade \in Nat)'
    BY <1>2
  <2> QED BY <1>1, <2>1, SpecQuiet, PTL DEF Spec
<1>5. IInv /\ QInv /\ lastTrade \in Nat => TypeOK
  BY <1>3
<1> QED BY <1>4, <1>5, SpecQuiet, PTL
=============================================================================
